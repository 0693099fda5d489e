-------------------------- MODULE CurriculumProofs --------------------------
(***************************************************************************)
(* What imports leave behind, whatever they carry, in whatever order they  *)
(* run and however often they fail: rows that refer to rows, each name in  *)
(* its place; and, if they do not overlap, siblings that differ and an     *)
(* import that is repeated without effect.                                 *)
(***************************************************************************)
EXTENDS Curriculum, TLAPS

Steps == {"idle", "find", "max", "insert", "link", "mark", "commit", "done", "failed"}
Looking == {"find", "max", "insert", "link"}

Ids == {<<>>} \cup {Root(s) : s \in Subjects} \cup (Imports \X Nat) \cup (Forms \X {0})
       \cup {r.id : r \in Seeded} \cup {r.parent : r \in Seeded}
Names == ScriptNames \cup {r.name : r \in Seeded} \cup FormNames
Rows == [id : Ids, kind : Kinds, parent : Ids, name : Names, order : Nat]
Requests ==
  [pc : Steps, at : Nat \ {0}, unit : Ids, lesson : Ids, skill : Ids, order : Nat,
   rows : SUBSET Rows, links : SUBSET (Ids \X Ids), created : Nat, after : SUBSET Imports]
Sheets == [pc : {"idle", "link", "done"}, lesson : Ids, skill : Ids]

(* An import that looks is at an entry of its script, one that has looked   *)
(* is past the last; one that has ended has left nothing in its record.     *)
WellFormed(i, q) ==
  /\ q.pc \in Looking => q.at \in DOMAIN Script[i]
  /\ q.pc \in {"mark", "commit", "done"} => q.at = Len(Script[i]) + 1
  /\ q.pc \in {"idle", "failed"} => q = [NoImport EXCEPT !.pc = q.pc]
  /\ q.pc \in Ended => q.rows = {} /\ q.links = {}

Typed ==
  /\ rows \subseteq Rows
  /\ links \subseteq Ids \X Ids
  /\ imp \in [Imports -> Requests]
  /\ \A i \in Imports : WellFormed(i, imp[i])
  /\ form \in [Forms -> Sheets]
  /\ disturbed \subseteq Reasons

-----------------------------------------------------------------------------
(* The types. *)

LEMMA InitTyped == Init => Typed
<1> SUFFICES ASSUME Init PROVE Typed
  OBVIOUS
<1> USE DEF Init, NoImport, NoForm
<1>1. Seeded \subseteq Rows
  <2> SUFFICES ASSUME NEW r \in Seeded PROVE r \in Rows
    OBVIOUS
  <2>1. r = [id |-> r.id, kind |-> r.kind, parent |-> r.parent, name |-> r.name,
             order |-> r.order]
    BY SeededAssumption
  <2>2. r.kind \in Kinds /\ r.order \in Nat
    BY SeededAssumption
  <2>3. r.id \in Ids /\ r.parent \in Ids /\ r.name \in Names
    BY DEF Ids, Names
  <2> QED BY <2>1, <2>2, <2>3 DEF Rows
<1>2. <<>> \in Ids
  BY DEF Ids
<1>3. imp \in [Imports -> Requests]
  BY <1>2 DEF Requests, Steps
<1>4. form \in [Forms -> Sheets]
  BY <1>2 DEF Sheets
<1>5. \A i \in Imports : WellFormed(i, imp[i])
  BY DEF WellFormed, Looking
<1> QED BY <1>1, <1>3, <1>4, <1>5 DEF Typed

(* What the record of an import that is at an entry has. *)
LEMMA EntryType ==
  ASSUME Typed, NEW i \in Imports, imp[i].pc \in Looking
  PROVE  /\ imp[i].at \in 1..Len(Script[i])
         /\ Len(Script[i]) \in Nat
         /\ DOMAIN Script[i] = 1..Len(Script[i])
         /\ Entry(i).kind \in Kinds /\ Entry(i).name \in Names
         /\ Entry(i).name \in ScriptNames
<1> DEFINE Entries == [kind : Kinds, name : ScriptNames]
<1>1. Script[i] \in Seq(Entries)
  BY CurriculumAssumption
<1>2. imp[i].at \in DOMAIN Script[i]
  BY DEF Typed, WellFormed
<1> HIDE DEF Entries
<1>3. /\ imp[i].at \in 1..Len(Script[i]) /\ Len(Script[i]) \in Nat /\ Entry(i) \in Entries
      /\ DOMAIN Script[i] = 1..Len(Script[i])
  BY <1>1, <1>2 DEF Entry
<1>4. Entry(i).kind \in Kinds /\ Entry(i).name \in ScriptNames
  BY <1>3 DEF Entries
<1> QED BY <1>3, <1>4 DEF Names

LEMMA ParentType ==
  ASSUME Typed, NEW i \in Imports, imp[i].pc \in Looking
  PROVE  Parent(i) \in Ids
<1>1. imp[i].unit \in Ids
  BY DEF Typed, Requests
<1>2. Root(SubjectOf[i]) \in Ids
  BY CurriculumAssumption DEF Ids
<1>3. <<>> \in Ids
  BY DEF Ids
<1> QED BY <1>1, <1>2, <1>3 DEF Parent

(* The record that With or Advance makes of one at an entry. *)
LEMMA AdvanceType ==
  ASSUME Typed, NEW i \in Imports, imp[i].pc \in Looking,
         NEW q \in Requests, q.at = imp[i].at
  PROVE  /\ Advance(i, q) \in Requests
         /\ Advance(i, q).pc \in {"find", "mark"}
         /\ Advance(i, q).at = q.at + 1
         /\ Advance(i, q).unit = q.unit /\ Advance(i, q).lesson = q.lesson
         /\ Advance(i, q).rows = q.rows /\ Advance(i, q).links = q.links
         /\ Advance(i, q).created = q.created /\ Advance(i, q).after = q.after
         /\ WellFormed(i, Advance(i, q))
<1>1. /\ imp[i].at \in 1..Len(Script[i]) /\ Len(Script[i]) \in Nat
      /\ DOMAIN Script[i] = 1..Len(Script[i])
  BY EntryType
<1>2. Advance(i, q) \in Requests
  <2> DEFINE pc == IF q.at = Len(Script[i]) THEN "mark" ELSE "find"
  <2>1. pc \in Steps
    BY DEF Steps
  <2>2. Advance(i, q) = [q EXCEPT !.at = q.at + 1, !.pc = pc]
    BY DEF Advance
  <2>3. q.at + 1 \in Nat \ {0}
    BY DEF Requests
  <2> HIDE DEF pc
  <2> QED BY <2>1, <2>2, <2>3 DEF Requests
<1>3. /\ Advance(i, q).pc = IF q.at = Len(Script[i]) THEN "mark" ELSE "find"
      /\ Advance(i, q).at = q.at + 1
      /\ Advance(i, q).unit = q.unit /\ Advance(i, q).lesson = q.lesson
      /\ Advance(i, q).rows = q.rows /\ Advance(i, q).links = q.links
      /\ Advance(i, q).created = q.created /\ Advance(i, q).after = q.after
  BY DEF Advance, Requests
<1>4. Advance(i, q).pc \in {"find", "mark"}
  BY <1>3
<1>5. Advance(i, q).pc = "find" => Advance(i, q).at \in 1..Len(Script[i])
  BY <1>1, <1>3
<1>6. Advance(i, q).pc = "mark" => Advance(i, q).at = Len(Script[i]) + 1
  BY <1>3
<1>7. WellFormed(i, Advance(i, q))
  BY <1>1, <1>4, <1>5, <1>6 DEF WellFormed, Looking, Ended
<1> QED BY <1>2, <1>3, <1>4, <1>7

LEMMA WithType ==
  ASSUME Typed, NEW i \in Imports, imp[i].pc \in Looking,
         NEW q \in Requests, q.at = imp[i].at, NEW id \in Ids
  PROVE  /\ With(i, q, id) \in Requests
         /\ With(i, q, id).pc \in {"find", "mark", "link"}
         /\ With(i, q, id).pc = "link" => With(i, q, id).at = q.at
         /\ With(i, q, id).pc # "link" => With(i, q, id).at = q.at + 1
         /\ With(i, q, id).rows = q.rows /\ With(i, q, id).links = q.links
         /\ With(i, q, id).created = q.created /\ With(i, q, id).after = q.after
         /\ WellFormed(i, With(i, q, id))
<1>1. CASE Entry(i).kind = "unit"
  <2> DEFINE u == [q EXCEPT !.unit = id]
  <2>1. /\ u \in Requests /\ u.at = imp[i].at /\ u.rows = q.rows /\ u.links = q.links
        /\ u.created = q.created /\ u.after = q.after
    BY DEF Requests
  <2>2. With(i, q, id) = Advance(i, u)
    BY <1>1 DEF With
  <2> HIDE DEF u
  <2> QED BY <2>1, <2>2, AdvanceType
<1>2. CASE Entry(i).kind = "lesson"
  <2> DEFINE l == [q EXCEPT !.lesson = id]
  <2>1. /\ l \in Requests /\ l.at = imp[i].at /\ l.rows = q.rows /\ l.links = q.links
        /\ l.created = q.created /\ l.after = q.after
    BY DEF Requests
  <2>2. With(i, q, id) = Advance(i, l)
    BY <1>2 DEF With
  <2> HIDE DEF l
  <2> QED BY <2>1, <2>2, AdvanceType
<1>3. CASE Entry(i).kind = "skill"
  <2> DEFINE s == [q EXCEPT !.skill = id, !.pc = "link"]
  <2>1. With(i, q, id) = s
    BY <1>3 DEF With
  <2>2. imp[i].at \in DOMAIN Script[i]
    BY DEF Typed, WellFormed
  <2>3. /\ s \in Requests /\ s.pc = "link" /\ s.at = q.at /\ s.rows = q.rows
        /\ s.links = q.links /\ s.created = q.created /\ s.after = q.after
    BY DEF Requests, Steps
  <2> HIDE DEF s
  <2>4. WellFormed(i, s)
    BY <2>2, <2>3 DEF WellFormed, Ended
  <2> QED BY <2>1, <2>3, <2>4
<1>4. Entry(i).kind \in Kinds
  BY EntryType
<1> QED BY <1>1, <1>2, <1>3, <1>4 DEF Kinds

(* What Insert and Link write. *)
New(i) ==
  Row(<<i, imp[i].at>>, Entry(i).kind, Parent(i), Entry(i).name,
      IF Entry(i).kind = "skill" THEN 0 ELSE imp[i].order)
Wrote(i) == [imp[i] EXCEPT !.rows = @ \cup {New(i)}, !.created = @ + 1]
Linked(i) == [imp[i] EXCEPT !.links = @ \cup ({Pair(i)} \ links)]

LEMMA WroteType ==
  ASSUME Typed, NEW i \in Imports, imp[i].pc \in Looking
  PROVE  /\ New(i) \in Rows
         /\ New(i).id = <<i, imp[i].at>> /\ <<i, imp[i].at>> \in Ids
         /\ New(i).kind = Entry(i).kind /\ New(i).parent = Parent(i)
         /\ New(i).name = Entry(i).name
         /\ Entry(i).kind # "skill" => New(i).order = imp[i].order
         /\ Wrote(i) \in Requests /\ Wrote(i).at = imp[i].at
         /\ Wrote(i).rows = imp[i].rows \cup {New(i)} /\ Wrote(i).links = imp[i].links
         /\ Wrote(i).unit = imp[i].unit /\ Wrote(i).lesson = imp[i].lesson
         /\ Wrote(i).after = imp[i].after
<1>1. imp[i] \in Requests
  BY DEF Typed
<1> DEFINE order == IF Entry(i).kind = "skill" THEN 0 ELSE imp[i].order
<1>2. <<i, imp[i].at>> \in Ids /\ order \in Nat
  BY <1>1 DEF Ids, Requests
<1>3. Parent(i) \in Ids /\ Entry(i).kind \in Kinds /\ Entry(i).name \in Names
  BY EntryType, ParentType
<1>4. Entry(i).kind # "skill" => order = imp[i].order
  OBVIOUS
<1> HIDE DEF order
<1>5. New(i) = Row(<<i, imp[i].at>>, Entry(i).kind, Parent(i), Entry(i).name, order)
  BY DEF New, order
<1>6. /\ New(i) \in Rows
      /\ New(i).id = <<i, imp[i].at>>
      /\ New(i).kind = Entry(i).kind /\ New(i).parent = Parent(i)
      /\ New(i).name = Entry(i).name /\ New(i).order = order
  BY <1>2, <1>3, <1>5 DEF Rows, Row
<1> DEFINE written == imp[i].rows \cup {New(i)}
<1> DEFINE created == imp[i].created + 1
<1>7. Wrote(i) = [imp[i] EXCEPT !.rows = written, !.created = created]
  BY DEF Wrote
<1>8. written \in SUBSET Rows /\ created \in Nat
  BY <1>1, <1>6 DEF Requests
<1> HIDE DEF written, created
<1>9. /\ Wrote(i).at = imp[i].at /\ Wrote(i).rows = written /\ Wrote(i).links = imp[i].links
      /\ Wrote(i).unit = imp[i].unit /\ Wrote(i).lesson = imp[i].lesson
      /\ Wrote(i).after = imp[i].after
  BY <1>1, <1>7 DEF Requests
<1>10. Wrote(i) \in Requests
  BY <1>1, <1>7, <1>8 DEF Requests
<1> QED BY <1>2, <1>4, <1>6, <1>9, <1>10 DEF written

LEMMA LinkedType ==
  ASSUME Typed, NEW i \in Imports
  PROVE  /\ Linked(i) \in Requests /\ Linked(i).at = imp[i].at
         /\ Linked(i).links = imp[i].links \cup ({Pair(i)} \ links)
         /\ Linked(i).rows = imp[i].rows
         /\ Linked(i).unit = imp[i].unit /\ Linked(i).lesson = imp[i].lesson
         /\ Linked(i).created = imp[i].created /\ Linked(i).after = imp[i].after
<1>1. imp[i] \in Requests
  BY DEF Typed
<1> DEFINE new == imp[i].links \cup ({Pair(i)} \ links)
<1>2. new \in SUBSET (Ids \X Ids)
  BY <1>1 DEF Pair, Requests
<1>3. Linked(i) = [imp[i] EXCEPT !.links = new]
  BY DEF Linked
<1> HIDE DEF new
<1> QED BY <1>1, <1>2, <1>3 DEF Requests, new

(* How each step of an import changes its record, and what it leaves.       *)
Elsewhere(i) == /\ \A j \in Imports \ {i} : imp'[j] = imp[j]
                /\ form' = form

LEMMA StepOfImport ==
  ASSUME Typed, NEW i \in Imports, ImportBookAnalysis(i)
  PROVE  /\ imp' \in [Imports -> Requests]
         /\ WellFormed(i, imp'[i])
         /\ Elsewhere(i)
         /\ disturbed' \in {disturbed, disturbed \cup {"overlap"}}
         /\ ~Commit(i) => rows' = rows /\ links' = links
<1>1. imp \in [Imports -> Requests] /\ imp[i] \in Requests /\ WellFormed(i, imp[i])
  BY DEF Typed
<1> SUFFICES \E q \in Requests :
               /\ imp' = [imp EXCEPT ![i] = q] /\ WellFormed(i, q)
               /\ form' = form
               /\ disturbed' \in {disturbed, disturbed \cup {"overlap"}}
               /\ ~Commit(i) => rows' = rows /\ links' = links
  BY <1>1 DEF Elsewhere
<1>2. CASE Begin(i)
  <2> DEFINE pc == IF Script[i] = <<>> THEN "mark" ELSE "find"
  <2> DEFINE after == {j \in Imports : imp[j].pc = "done"}
  <2> DEFINE q == [imp[i] EXCEPT !.pc = pc, !.after = after]
  <2>1. imp' = [imp EXCEPT ![i] = q]
    BY <1>1, <1>2 DEF Begin
  <2>2. imp[i].at = 1
    BY <1>1, <1>2 DEF Begin, WellFormed, NoImport
  <2>3. pc \in {"mark", "find"} /\ pc \in Steps /\ after \in SUBSET Imports
    BY DEF Steps
  <2>4. (pc = "find" => 1 \in DOMAIN Script[i]) /\ (pc = "mark" => Len(Script[i]) = 0)
    BY CurriculumAssumption
  <2> HIDE DEF pc, after
  <2>5. q \in Requests
    BY <1>1, <2>3 DEF Requests
  <2>6. q.pc = pc /\ q.at = 1
    BY <1>1, <2>2 DEF Requests
  <2> HIDE DEF q
  <2>7. WellFormed(i, q)
    BY <2>3, <2>4, <2>6 DEF WellFormed, Looking, Ended
  <2> QED BY <1>2, <2>1, <2>5, <2>7 DEF Begin
<1>3. CASE Find(i)
  <2>1. imp[i].pc \in Looking /\ imp[i].at \in DOMAIN Script[i]
    BY <1>1, <1>3 DEF Find, Looking, WellFormed
  <2>2. CASE \E r \in Matching(i) : imp' = [imp EXCEPT ![i] = With(i, imp[i], r.id)]
    <3>1. PICK r \in Matching(i) : imp' = [imp EXCEPT ![i] = With(i, imp[i], r.id)]
      BY <2>2
    <3>2. r.id \in Ids
      BY <1>1 DEF Matching, Siblings, Seen, Typed, Requests, Rows
    <3>3. With(i, imp[i], r.id) \in Requests /\ WellFormed(i, With(i, imp[i], r.id))
      BY <1>1, <2>1, <3>2, WithType
    <3> QED BY <1>3, <3>1, <3>3 DEF Find
  <2>3. CASE imp' = [imp EXCEPT ![i].pc = IF Entry(i).kind = "skill" THEN "insert" ELSE "max"]
    <3> DEFINE pc == IF Entry(i).kind = "skill" THEN "insert" ELSE "max"
    <3> DEFINE q == [imp[i] EXCEPT !.pc = pc]
    <3>1. imp' = [imp EXCEPT ![i] = q]
      BY <1>1, <2>3
    <3>2. pc \in {"insert", "max"} /\ pc \in Steps
      BY DEF Steps
    <3> HIDE DEF pc
    <3>3. q \in Requests /\ q.pc = pc /\ q.at = imp[i].at
      BY <1>1, <3>2 DEF Requests
    <3> HIDE DEF q
    <3>4. WellFormed(i, q)
      BY <2>1, <3>2, <3>3 DEF WellFormed, Ended
    <3> QED BY <1>3, <3>1, <3>3, <3>4 DEF Find
  <2> QED BY <1>3, <2>2, <2>3 DEF Find
<1>4. CASE ReadOrder(i)
  <2>1. imp[i].pc \in Looking /\ imp[i].at \in DOMAIN Script[i]
    BY <1>1, <1>4 DEF ReadOrder, Looking, WellFormed
  <2>2. PICK n \in NextOrder(i) : imp' = [imp EXCEPT ![i].order = n, ![i].pc = "insert"]
    BY <1>4 DEF ReadOrder
  <2>3. \A r \in Siblings(i) : r.order \in Nat
    BY <1>1 DEF Siblings, Seen, Typed, Requests, Rows
  <2>4. n \in Nat
    BY <2>3 DEF NextOrder, Largest
  <2> DEFINE q == [imp[i] EXCEPT !.order = n, !.pc = "insert"]
  <2>5. imp' = [imp EXCEPT ![i] = q]
    BY <1>1, <2>2
  <2>6. q \in Requests /\ q.pc = "insert" /\ q.at = imp[i].at
    BY <1>1, <2>4 DEF Requests, Steps
  <2> HIDE DEF q
  <2>7. WellFormed(i, q)
    BY <2>1, <2>6 DEF WellFormed, Ended
  <2> QED BY <1>4, <2>5, <2>6, <2>7 DEF ReadOrder
<1>5. CASE Insert(i)
  <2>1. imp[i].pc \in Looking
    BY <1>5 DEF Insert, Looking
  <2> DEFINE q == With(i, Wrote(i), <<i, imp[i].at>>)
  <2>2. imp' = [imp EXCEPT ![i] = q]
    BY <1>5 DEF Insert, Wrote, New
  <2>3. q \in Requests /\ WellFormed(i, q)
    BY <2>1, WroteType, WithType
  <2> QED BY <1>5, <2>2, <2>3 DEF Insert
<1>6. CASE Link(i)
  <2>1. imp[i].pc \in Looking
    BY <1>6 DEF Link, Looking
  <2>2. imp' = [imp EXCEPT ![i] = Advance(i, Linked(i))]
    BY <1>6 DEF Link, Linked
  <2>3. Advance(i, Linked(i)) \in Requests /\ WellFormed(i, Advance(i, Linked(i)))
    BY <2>1, LinkedType, AdvanceType
  <2> QED BY <1>6, <2>2, <2>3 DEF Link
<1>7. CASE Mark(i)
  <2> DEFINE q == [imp[i] EXCEPT !.pc = "commit"]
  <2>1. imp' = [imp EXCEPT ![i] = q]
    BY <1>1, <1>7 DEF Mark
  <2>2. q \in Requests /\ q.pc = "commit" /\ q.at = imp[i].at
    BY <1>1 DEF Requests, Steps
  <2> HIDE DEF q
  <2>3. imp[i].at = Len(Script[i]) + 1
    BY <1>1, <1>7 DEF Mark, WellFormed
  <2>4. WellFormed(i, q)
    BY <2>2, <2>3 DEF WellFormed, Looking, Ended
  <2> QED BY <1>7, <2>1, <2>2, <2>4 DEF Mark
<1>8. CASE Commit(i)
  <2> DEFINE q == [imp[i] EXCEPT !.pc = "done", !.rows = {}, !.links = {}]
  <2>1. imp' = [imp EXCEPT ![i] = q]
    BY <1>1, <1>8 DEF Commit
  <2>2. /\ q \in Requests /\ q.pc = "done" /\ q.at = imp[i].at
        /\ q.rows = {} /\ q.links = {}
    BY <1>1 DEF Requests, Steps
  <2> HIDE DEF q
  <2>3. imp[i].at = Len(Script[i]) + 1
    BY <1>1, <1>8 DEF Commit, WellFormed
  <2>4. WellFormed(i, q)
    BY <2>2, <2>3 DEF WellFormed, Looking
  <2> QED BY <1>8, <2>1, <2>2, <2>4 DEF Commit
<1>9. CASE Fail(i) \/ EndDeadlock(i)
  <2> DEFINE q == [NoImport EXCEPT !.pc = "failed"]
  <2>1. imp' = [imp EXCEPT ![i] = q]
    BY <1>9 DEF Fail, EndDeadlock, RollBack
  <2>2. <<>> \in Ids
    BY DEF Ids
  <2>3. q \in Requests
    BY <2>2 DEF NoImport, Requests, Steps
  <2>4. WellFormed(i, q)
    BY DEF NoImport, WellFormed, Looking
  <2> QED BY <1>9, <2>1, <2>3, <2>4 DEF Fail, EndDeadlock
<1> QED BY <1>2, <1>3, <1>4, <1>5, <1>6, <1>7, <1>8, <1>9 DEF ImportBookAnalysis

LEMMA TypedKeeps == Typed /\ [Next]_vars => Typed'
<1> SUFFICES ASSUME Typed, [Next]_vars PROVE Typed'
  OBVIOUS
<1>1. CASE UNCHANGED vars
  BY <1>1 DEF vars, Typed
<1>2. ASSUME NEW i \in Imports, ImportBookAnalysis(i) PROVE Typed'
  <2>1. /\ imp' \in [Imports -> Requests] /\ WellFormed(i, imp'[i])
        /\ \A j \in Imports \ {i} : imp'[j] = imp[j]
        /\ form' = form /\ disturbed' \subseteq Reasons
    BY <1>2, StepOfImport DEF Elsewhere, Typed, Reasons
  <2>2. rows' \subseteq Rows
    <3>1. CASE Commit(i)
      BY <3>1 DEF Commit, Typed, Requests
    <3>2. CASE ~Commit(i)
      BY <1>2, <3>2, StepOfImport DEF Typed
    <3> QED BY <3>1, <3>2
  <2>3. links' \subseteq Ids \X Ids
    <3>1. CASE Commit(i)
      BY <3>1 DEF Commit, Typed, Requests
    <3>2. CASE ~Commit(i)
      BY <1>2, <3>2, StepOfImport DEF Typed
    <3> QED BY <3>1, <3>2
  <2> QED BY <2>1, <2>2, <2>3 DEF Typed
<1>3. ASSUME NEW f \in Forms,
             \/ CreateUnit(f) \/ CreateLesson(f) \/ CreateSkill(f)
             \/ UpdateUnit(f) \/ UpdateLesson(f) \/ UpdateSkill(f)
             \/ LinkForm(f) \/ LinkFails(f)
      PROVE Typed'
  <2>1. imp' = imp /\ disturbed' \subseteq Reasons
    BY <1>3 DEF CreateUnit, CreateLesson, CreateSkill, UpdateUnit, UpdateLesson, UpdateSkill,
       LinkForm, LinkFails, Rewrite, Note, Typed, Reasons
  <2>2. /\ \A name \in FormNames : name \in Names
        /\ \A order \in Orders : order \in Nat
        /\ \A s \in Subjects : Root(s) \in Ids
        /\ <<f, 0>> \in Ids /\ <<>> \in Ids
    BY DEF Names, Orders, Ids
  <2>3. \A r \in rows : /\ r \in Rows /\ r.id \in Ids /\ r.name \in Names /\ r.order \in Nat
    BY DEF Typed, Rows
  <2>4. rows' \subseteq Rows
    <3>1. CASE CreateUnit(f)
      BY <2>2, <2>3, <3>1 DEF CreateUnit, Row, Rows, Kinds
    <3>2. CASE CreateLesson(f)
      BY <2>2, <2>3, <3>2 DEF CreateLesson, Row, Rows, Kinds
    <3>3. CASE CreateSkill(f)
      BY <2>2, <2>3, <3>3 DEF CreateSkill, Row, Rows, Kinds
    <3>4. ASSUME NEW kind, Rewrite(kind) PROVE rows' \subseteq Rows
      <4>1. PICK r \in rows, name \in FormNames, order \in Orders :
              \E updated \in Rewritten(r, [r EXCEPT !.name = name, !.order = order]) :
                rows' = (rows \ {r}) \cup {updated}
        BY <3>4 DEF Rewrite
      <4>2. Rewritten(r, [r EXCEPT !.name = name, !.order = order]) \subseteq Rows
        BY <2>2, <2>3, <4>1 DEF Rewritten, Rows
      <4> QED BY <2>3, <4>1, <4>2
    <3>5. CASE UpdateSkill(f)
      <4>1. PICK r \in rows, name \in FormNames :
              \E given \in {name, r.name} : rows' = (rows \ {r}) \cup {[r EXCEPT !.name = given]}
        BY <3>5 DEF UpdateSkill
      <4>2. \A given \in {name, r.name} : [r EXCEPT !.name = given] \in Rows
        BY <2>2, <2>3, <4>1 DEF Rows
      <4> QED BY <2>3, <4>1, <4>2
    <3>6. CASE LinkForm(f) \/ LinkFails(f)
      BY <3>6 DEF LinkForm, LinkFails, Typed
    <3> QED BY <1>3, <3>1, <3>2, <3>3, <3>4, <3>5, <3>6 DEF UpdateUnit, UpdateLesson
  <2>5. form' \in [Forms -> Sheets]
    <3>1. form \in [Forms -> Sheets]
      BY DEF Typed
    <3>2. CASE form' = [form EXCEPT ![f].pc = "done"]
      BY <3>1, <3>2 DEF Sheets
    <3>3. CASE \E skill \in Ids : LinkNext(f, skill)
      <4>1. PICK skill \in Ids : LinkNext(f, skill)
        BY <3>3
      <4>2. CASE \E l \in rows :
                   form' = [form EXCEPT ![f] = [pc |-> "link", lesson |-> l.id, skill |-> skill]]
        <5>1. PICK l \in rows :
                form' = [form EXCEPT ![f] = [pc |-> "link", lesson |-> l.id, skill |-> skill]]
          BY <4>2
        <5>2. [pc |-> "link", lesson |-> l.id, skill |-> skill] \in Sheets
          BY <2>3 DEF Sheets
        <5> QED BY <3>1, <5>1, <5>2
      <4> QED BY <3>2, <4>1, <4>2 DEF LinkNext
    <3>4. CASE CreateSkill(f)
      BY <2>2, <3>3, <3>4 DEF CreateSkill
    <3>5. CASE UpdateSkill(f)
      BY <2>3, <3>3, <3>5 DEF UpdateSkill
    <3> QED BY <1>3, <3>2, <3>4, <3>5 DEF CreateUnit, CreateLesson, UpdateUnit, UpdateLesson,
              LinkForm, LinkFails
  <2>6. links' \subseteq Ids \X Ids
    BY <1>3 DEF CreateUnit, CreateLesson, CreateSkill, UpdateUnit, UpdateLesson, UpdateSkill,
       LinkForm, LinkFails, Typed, Sheets
  <2> QED BY <2>1, <2>4, <2>5, <2>6 DEF Typed
<1> QED BY <1>1, <1>2, <1>3 DEF Next

-----------------------------------------------------------------------------
(* Imports that nothing disturbs. *)

(* Without an overlap one import runs at a time.                            *)
NoForms == \A f \in Forms : form[f].pc = "idle"
OneAtATime == \A i, j \in Active : i = j

(* So the rows that an import sees are those that will be committed with    *)
(* it, and what it read of them is still true, if names match themselves.   *)
SeenDistinct == InsertedDistinct(rows) /\ \A i \in Imports : InsertedDistinct(Seen(i))
NameIsNew ==
  \A i \in Imports : imp[i].pc \in {"max", "insert"} =>
    \A r \in Siblings(i) : r.name # Entry(i).name
OrderIsLast ==
  \A i \in Imports : imp[i].pc = "insert" /\ Entry(i).kind # "skill" =>
    \A r \in Siblings(i) : r.order < imp[i].order

Calm == NoForms /\ OneAtATime /\ SeenDistinct /\ NameIsNew /\ OrderIsLast
CInv == MatchesItself /\ disturbed = {} => Calm

(* The first state. *)
LEMMA InitCalm == Init => CInv
<1> SUFFICES ASSUME Init PROVE Calm
  BY DEF CInv
<1> USE DEF Init, NoImport, NoForm
<1>1. InsertedDistinct(Seeded)
  BY DEF InsertedDistinct
<1>2. \A i \in Imports : Seen(i) = Seeded
  BY DEF Seen
<1>3. SeenDistinct
  BY <1>1, <1>2 DEF SeenDistinct
<1>4. NoForms /\ OneAtATime /\ NameIsNew /\ OrderIsLast
  BY DEF NoForms, OneAtATime, NameIsNew, OrderIsLast, Active, Ended
<1> QED BY <1>3, <1>4 DEF Calm

(* A step of the one import that runs, and what is left of the others.      *)
LEMMA Alone ==
  ASSUME Typed, Calm, NEW i \in Imports, i \in Active, Elsewhere(i)
  PROVE  /\ NoForms' /\ OneAtATime'
         /\ \A j \in Imports \ {i} : /\ imp'[j] = imp[j] /\ imp'[j].pc \in Ended
                                     /\ imp'[j].rows = {}
<1>1. NoForms'
  BY DEF Elsewhere, Calm, NoForms
<1>2. \A j \in Imports \ {i} : /\ imp'[j] = imp[j] /\ imp'[j].pc \in Ended
                               /\ imp'[j].rows = {}
  BY DEF Elsewhere, Calm, OneAtATime, Active, Typed, WellFormed
<1>3. OneAtATime'
  BY <1>2 DEF OneAtATime, Active
<1> QED BY <1>1, <1>2, <1>3

(* What an import sees if it writes no row, or rolls its rows back.         *)
LEMMA SameSeen ==
  ASSUME Typed, Calm, NEW i \in Imports, i \in Active, Elsewhere(i), rows' = rows,
         imp'[i].rows = imp[i].rows \/ imp'[i].rows = {}
  PROVE  SeenDistinct'
<1>1. \A j \in Imports \ {i} : Seen(j)' = Seen(j)
  BY DEF Elsewhere, Seen
<1>2. Seen(i)' = Seen(i) \/ Seen(i)' = rows
  BY DEF Seen
<1> QED BY <1>1, <1>2 DEF Calm, SeenDistinct

(* An import that looks for no name, and inserts none, relies on nothing.   *)
LEMMA Relaxed ==
  ASSUME NEW i \in Imports, imp'[i].pc \notin {"max", "insert"},
         \A j \in Imports \ {i} : imp'[j].pc \in Ended
  PROVE  NameIsNew' /\ OrderIsLast'
<1>1. \A j \in Imports : imp'[j].pc \notin {"max", "insert"}
  BY DEF Ended
<1> QED BY <1>1 DEF NameIsNew, OrderIsLast

LEMMA FindCalm ==
  ASSUME MatchesItself, Typed, Calm, NEW i \in Imports, Find(i)
  PROVE  Calm'
<1>1. /\ imp \in [Imports -> Requests] /\ imp[i] \in Requests /\ imp[i].pc = "find"
      /\ i \in Active /\ imp[i].pc \in Looking
  BY DEF Find, Typed, Active, Ended, Looking
<1>2. rows' = rows /\ Elsewhere(i)
  BY StepOfImport DEF Find, ImportBookAnalysis
<1>3. /\ NoForms' /\ OneAtATime'
      /\ \A j \in Imports \ {i} : imp'[j].pc \in Ended
  BY <1>1, <1>2, Alone
<1>4. CASE \E r \in Matching(i) : imp' = [imp EXCEPT ![i] = With(i, imp[i], r.id)]
  <2>1. PICK r \in Matching(i) : imp' = [imp EXCEPT ![i] = With(i, imp[i], r.id)]
    BY <1>4
  <2>2. r.id \in Ids
    BY <1>1 DEF Matching, Siblings, Seen, Typed, Requests, Rows
  <2>3. imp'[i] = With(i, imp[i], r.id)
    BY <1>1, <2>1
  <2>4. imp'[i].pc \in {"find", "mark", "link"} /\ imp'[i].rows = imp[i].rows
    BY <1>1, <2>2, <2>3, WithType
  <2>5. NameIsNew' /\ OrderIsLast'
    BY <1>3, <2>4, Relaxed
  <2>6. SeenDistinct'
    BY <1>1, <1>2, <2>4, SameSeen
  <2> QED BY <1>3, <2>5, <2>6 DEF Calm
<1>5. CASE /\ Matching(i) = {}
           /\ imp' = [imp EXCEPT ![i].pc = IF Entry(i).kind = "skill" THEN "insert" ELSE "max"]
  <2> DEFINE pc == IF Entry(i).kind = "skill" THEN "insert" ELSE "max"
  <2>1. /\ imp'[i].pc = pc /\ imp'[i].at = imp[i].at /\ imp'[i].rows = imp[i].rows
        /\ imp'[i].unit = imp[i].unit
    BY <1>1, <1>5 DEF Requests
  <2>2. Entry(i).kind # "skill" => pc # "insert"
    OBVIOUS
  <2> HIDE DEF pc
  <2>3. SeenDistinct'
    BY <1>1, <1>2, <2>1, SameSeen
  <2>4. Siblings(i)' = Siblings(i) /\ Entry(i)' = Entry(i)
    BY <1>2, <2>1 DEF Siblings, Seen, Entry, Parent
  <2>5. \A r \in Siblings(i) : r.name # Entry(i).name
    <3> SUFFICES ASSUME NEW r \in Siblings(i), r.name = Entry(i).name PROVE FALSE
      OBVIOUS
    <3>1. <<Entry(i).name, Entry(i).name>> \in Like
      BY <1>1, EntryType DEF MatchesItself
    <3> QED BY <1>5, <3>1 DEF Matching
  <2>6. NameIsNew'
    BY <1>3, <2>4, <2>5 DEF NameIsNew, Ended
  <2>7. OrderIsLast'
    BY <1>3, <2>1, <2>2, <2>4 DEF OrderIsLast, Ended
  <2> QED BY <1>3, <2>3, <2>6, <2>7 DEF Calm
<1> QED BY <1>4, <1>5 DEF Find

LEMMA ReadOrderCalm ==
  ASSUME Typed, Calm, NEW i \in Imports, ReadOrder(i)
  PROVE  Calm'
<1>1. /\ imp \in [Imports -> Requests] /\ imp[i] \in Requests /\ imp[i].pc = "max"
      /\ i \in Active
  BY DEF ReadOrder, Typed, Active, Ended
<1>2. rows' = rows /\ Elsewhere(i)
  BY StepOfImport DEF ReadOrder, ImportBookAnalysis
<1>3. /\ NoForms' /\ OneAtATime'
      /\ \A j \in Imports \ {i} : imp'[j].pc \in Ended
  BY <1>1, <1>2, Alone
<1>4. PICK n \in NextOrder(i) : imp' = [imp EXCEPT ![i].order = n, ![i].pc = "insert"]
  BY DEF ReadOrder
<1>5. \A r \in Siblings(i) : r.order \in Nat
  BY <1>1 DEF Siblings, Seen, Typed, Requests, Rows
<1>6. \A r \in Siblings(i) : r.order < n
  BY <1>5 DEF NextOrder, Largest
<1>7. /\ imp'[i].order = n /\ imp'[i].rows = imp[i].rows
      /\ imp'[i].at = imp[i].at /\ imp'[i].unit = imp[i].unit
  BY <1>1, <1>4 DEF Requests
<1>8. SeenDistinct'
  BY <1>1, <1>2, <1>7, SameSeen
<1>9. Siblings(i)' = Siblings(i) /\ Entry(i)' = Entry(i)
  BY <1>2, <1>7 DEF Siblings, Seen, Entry, Parent
<1>10. NameIsNew'
  BY <1>1, <1>3, <1>9 DEF Calm, NameIsNew, Ended
<1>11. OrderIsLast'
  BY <1>3, <1>6, <1>7, <1>9 DEF OrderIsLast, Ended
<1> QED BY <1>3, <1>8, <1>10, <1>11 DEF Calm

(* The row that an import inserts differs from every sibling it sees.       *)
LEMMA InsertCalm ==
  ASSUME Typed, Calm, NEW i \in Imports, Insert(i)
  PROVE  Calm'
<1>1. /\ imp \in [Imports -> Requests] /\ imp[i] \in Requests /\ imp[i].pc = "insert"
      /\ i \in Active /\ imp[i].pc \in Looking
  BY DEF Insert, Typed, Active, Ended, Looking
<1>2. rows' = rows /\ Elsewhere(i)
  BY StepOfImport DEF Insert, ImportBookAnalysis
<1>3. /\ NoForms' /\ OneAtATime'
      /\ \A j \in Imports \ {i} : imp'[j] = imp[j] /\ imp'[j].pc \in Ended
  BY <1>1, <1>2, Alone
<1>4. imp'[i] = With(i, Wrote(i), <<i, imp[i].at>>)
  BY <1>1 DEF Insert, Wrote, New
<1>5. imp'[i].pc \in {"find", "mark", "link"} /\ imp'[i].rows = imp[i].rows \cup {New(i)}
  BY <1>1, <1>4, WroteType, WithType
<1>6. Seen(i)' = Seen(i) \cup {New(i)}
  BY <1>2, <1>5 DEF Seen
<1>7. \A j \in Imports \ {i} : Seen(j)' = Seen(j)
  BY <1>2, <1>3 DEF Seen
<1>8. InsertedDistinct(Seen(i) \cup {New(i)})
  <2>1. \A r \in Seen(i) : Together(r, New(i)) => Distinct(r, New(i))
    <3> SUFFICES ASSUME NEW r \in Seen(i), Together(r, New(i)) PROVE Distinct(r, New(i))
      OBVIOUS
    <3>0. /\ New(i).kind = Entry(i).kind /\ New(i).parent = Parent(i)
          /\ New(i).name = Entry(i).name
          /\ Entry(i).kind # "skill" => New(i).order = imp[i].order
      BY <1>1, WroteType
    <3>1. r \in Siblings(i)
      BY <3>0 DEF Together, Siblings
    <3>2. r.name # New(i).name
      BY <1>1, <3>0, <3>1 DEF Calm, NameIsNew
    <3>3. r.kind # "skill" => r.order < imp[i].order
      BY <1>1, <3>1 DEF Calm, OrderIsLast, Siblings
    <3>4. r.order \in Nat /\ imp[i].order \in Nat
      BY <1>1 DEF Seen, Typed, Requests, Rows
    <3>5. r.kind # "skill" => r.order # New(i).order
      BY <3>0, <3>1, <3>3, <3>4 DEF Siblings
    <3> QED BY <3>2, <3>5 DEF Distinct
  <2>2. \A r \in Seen(i) : Together(New(i), r) => Distinct(New(i), r)
    BY <2>1 DEF Together, Distinct
  <2>3. InsertedDistinct(Seen(i))
    BY DEF Calm, SeenDistinct
  <2> QED BY <2>1, <2>2, <2>3 DEF InsertedDistinct
<1>9. SeenDistinct'
  BY <1>2, <1>6, <1>7, <1>8 DEF Calm, SeenDistinct
<1>10. NameIsNew' /\ OrderIsLast'
  BY <1>3, <1>5, Relaxed
<1> QED BY <1>3, <1>9, <1>10 DEF Calm

(* Link, Mark, and what ends an import without a commit.                    *)
LEMMA PassCalm ==
  ASSUME Typed, Calm, NEW i \in Imports, Link(i) \/ Mark(i) \/ Fail(i) \/ EndDeadlock(i)
  PROVE  Calm'
<1>1. imp \in [Imports -> Requests] /\ imp[i] \in Requests /\ i \in Active
  BY DEF Link, Mark, Fail, EndDeadlock, Typed, Active, Ended
<1>2. rows' = rows /\ Elsewhere(i)
  BY StepOfImport DEF Link, Mark, Fail, EndDeadlock, Commit, RollBack, ImportBookAnalysis
<1>3. /\ NoForms' /\ OneAtATime'
      /\ \A j \in Imports \ {i} : imp'[j].pc \in Ended
  BY <1>1, <1>2, Alone
<1>4. /\ imp'[i].pc \in {"find", "mark", "commit", "failed"}
      /\ imp'[i].rows = imp[i].rows \/ imp'[i].rows = {}
  <2>1. CASE Link(i)
    <3>1. imp'[i] = Advance(i, Linked(i))
      BY <1>1, <2>1 DEF Link, Linked
    <3>2. imp[i].pc \in Looking
      BY <2>1 DEF Link, Looking
    <3> QED BY <3>1, <3>2, LinkedType, AdvanceType
  <2>2. CASE Mark(i)
    BY <1>1, <2>2 DEF Mark, Requests
  <2>3. CASE Fail(i) \/ EndDeadlock(i)
    BY <1>1, <2>3 DEF Fail, EndDeadlock, RollBack, NoImport
  <2> QED BY <2>1, <2>2, <2>3
<1>5. SeenDistinct'
  BY <1>1, <1>2, <1>4, SameSeen
<1>6. NameIsNew' /\ OrderIsLast'
  BY <1>3, <1>4, Relaxed
<1> QED BY <1>3, <1>5, <1>6 DEF Calm

(* The import that begins is the only one, or it would be an overlap.       *)
LEMMA BeginCalm ==
  ASSUME Typed, Calm, NEW i \in Imports, Begin(i), disturbed' = {}
  PROVE  Calm'
<1>1. imp \in [Imports -> Requests] /\ imp[i] \in Requests
  BY DEF Typed
<1>2. rows' = rows /\ Elsewhere(i) /\ Active = {}
  BY StepOfImport DEF Begin, ImportBookAnalysis
<1>3. imp'[i].pc \in {"find", "mark"} /\ imp'[i].rows = imp[i].rows
  BY <1>1 DEF Begin, Requests
<1>4. \A j \in Imports \ {i} : imp'[j] = imp[j] /\ imp'[j].pc \in Ended
  BY <1>2 DEF Elsewhere, Active
<1>5. NoForms' /\ OneAtATime'
  BY <1>2, <1>4 DEF Elsewhere, Calm, NoForms, OneAtATime, Active
<1>6. \A j \in Imports : Seen(j)' = Seen(j)
  BY <1>2, <1>3, <1>4 DEF Seen
<1>7. SeenDistinct'
  BY <1>2, <1>6 DEF Calm, SeenDistinct
<1>8. NameIsNew' /\ OrderIsLast'
  BY <1>3, <1>4, Relaxed
<1> QED BY <1>5, <1>7, <1>8 DEF Calm

(* What is committed is what the import saw.                                *)
LEMMA CommitCalm ==
  ASSUME Typed, Calm, NEW i \in Imports, Commit(i)
  PROVE  Calm'
<1>1. imp \in [Imports -> Requests] /\ imp[i] \in Requests /\ i \in Active
  BY DEF Commit, Typed, Active, Ended
<1>2. rows' = Seen(i) /\ Elsewhere(i)
  BY StepOfImport DEF Commit, Seen, ImportBookAnalysis
<1>3. /\ NoForms' /\ OneAtATime'
      /\ \A j \in Imports \ {i} : imp'[j].pc \in Ended /\ imp'[j].rows = {}
  BY <1>1, <1>2, Alone
<1>4. imp'[i].pc = "done" /\ imp'[i].rows = {}
  BY <1>1 DEF Commit, Requests
<1>5. \A j \in Imports : Seen(j)' = Seen(i)
  BY <1>2, <1>3, <1>4 DEF Seen
<1>6. SeenDistinct'
  BY <1>2, <1>5 DEF Calm, SeenDistinct
<1>7. NameIsNew' /\ OrderIsLast'
  BY <1>3, <1>4, Relaxed
<1> QED BY <1>3, <1>6, <1>7 DEF Calm

(* A step that leaves disturbed empty is a step of an import: the forms     *)
(* that write note themselves, and no other has begun.                      *)
LEMMA NoteGrows == [Next]_vars => disturbed \subseteq disturbed'
BY DEF Next, ImportBookAnalysis, Begin, Find, ReadOrder, Insert, Link, Mark, Commit, Fail,
   EndDeadlock, CreateUnit, CreateLesson, CreateSkill, UpdateUnit, UpdateLesson, UpdateSkill,
   LinkForm, LinkFails, Rewrite, Note, vars

LEMMA OnlyImports ==
  ASSUME NoForms, [Next]_vars, disturbed' = {}
  PROVE  UNCHANGED vars \/ \E i \in Imports : ImportBookAnalysis(i)
<1>1. ASSUME NEW f \in Forms,
             \/ CreateUnit(f) \/ CreateLesson(f) \/ CreateSkill(f)
             \/ UpdateUnit(f) \/ UpdateLesson(f) \/ UpdateSkill(f)
      PROVE FALSE
  <2>1. "form" \in disturbed'
    BY <1>1 DEF CreateUnit, CreateLesson, CreateSkill, UpdateUnit, UpdateLesson, UpdateSkill,
       Rewrite, Note
  <2> QED BY <2>1
<1>2. ASSUME NEW f \in Forms, LinkForm(f) \/ LinkFails(f) PROVE FALSE
  BY <1>2 DEF LinkForm, LinkFails, NoForms
<1> QED BY <1>1, <1>2 DEF Next

LEMMA CalmKeeps == Typed /\ CInv /\ [Next]_vars => CInv'
<1> SUFFICES ASSUME MatchesItself, Typed, CInv, [Next]_vars, disturbed' = {} PROVE Calm'
  BY DEF CInv, MatchesItself
<1>1. Calm
  BY NoteGrows DEF CInv
<1>2. CASE UNCHANGED vars
  BY <1>1, <1>2 DEF vars, Calm, NoForms, OneAtATime, SeenDistinct, NameIsNew,
     OrderIsLast, Active, Seen, Siblings, Entry, Parent
<1>3. ASSUME NEW i \in Imports, ImportBookAnalysis(i) PROVE Calm'
  BY <1>1, <1>3, BeginCalm, FindCalm, ReadOrderCalm, InsertCalm, PassCalm, CommitCalm
     DEF ImportBookAnalysis
<1> QED BY <1>1, <1>2, <1>3, OnlyImports DEF Calm

-----------------------------------------------------------------------------
(* Where an import has put its names, whatever disturbs it. *)

(* j is the nearest entry of the kind before k.                             *)
IsAbove(i, j, k, kind) ==
  /\ j \in 1..(k - 1) /\ Script[i][j].kind = kind
  /\ \A n \in (j + 1)..(k - 1) : Script[i][n].kind # kind

(* A row stands for entry k; once rows were renamed (not e) by its kind.    *)
Fits(r, e, i, k) ==
  /\ r.kind = Script[i][k].kind
  /\ e => r.name = Script[i][k].name \/ <<r.name, Script[i][k].name>> \in Like

(* The row with this id, among the rows S, stands for entry k in its place. *)
UnitAt(S, e, id, i, k) ==
  \E u \in S : u.id = id /\ Fits(u, e, i, k) /\ u.parent = Root(SubjectOf[i])
LessonAt(S, e, id, i, k) ==
  \E l \in S : /\ l.id = id /\ Fits(l, e, i, k)
               /\ \E j \in 1..(k - 1) : IsAbove(i, j, k, "unit") /\ UnitAt(S, e, l.parent, i, j)
SkillAt(S, e, id, i, k) ==
  \E s \in S : s.id = id /\ Fits(s, e, i, k) /\ s.parent = <<>>
EntryAt(S, e, id, i, k) ==
  /\ Script[i][k].kind = "unit" => UnitAt(S, e, id, i, k)
  /\ Script[i][k].kind = "lesson" => LessonAt(S, e, id, i, k)
  /\ Script[i][k].kind = "skill" => SkillAt(S, e, id, i, k)

(* Entry k is where its structure has it, a skill by one of the links L.    *)
PlacedAt(S, L, e, i, k) ==
  /\ Script[i][k].kind = "unit" => \E u \in S : UnitAt(S, e, u.id, i, k)
  /\ Script[i][k].kind = "lesson" => \E l \in S : LessonAt(S, e, l.id, i, k)
  /\ Script[i][k].kind = "skill" =>
       \E j \in 1..(k - 1) :
         /\ IsAbove(i, j, k, "lesson")
         /\ \E p \in L : LessonAt(S, e, p[1], i, j) /\ SkillAt(S, e, p[2], i, k)

(* A record q of import i knows the unit, the lesson and the skill it is    *)
(* at, and all entries before are in their places.                          *)
Known(i, q, S, L, e) ==
  /\ (\E j \in 1..(q.at - 1) : Script[i][j].kind = "unit") =>
       \E j \in 1..(q.at - 1) : IsAbove(i, j, q.at, "unit") /\ UnitAt(S, e, q.unit, i, j)
  /\ \A j \in 1..(q.at - 1) :
       Script[i][j].kind = "lesson" /\ (\A n \in (j + 1)..(q.at - 1) : Script[i][n].kind = "skill")
         => LessonAt(S, e, q.lesson, i, j)
  /\ q.pc = "link" => Script[i][q.at].kind = "skill" /\ SkillAt(S, e, q.skill, i, q.at)
  /\ \A k \in 1..(q.at - 1) : PlacedAt(S, L, e, i, k)

Named == "renamed" \notin disturbed
AllKnown == \A i \in Imports : Known(i, imp[i], Seen(i), links \cup imp[i].links, Named)

(* Who inserted a row can be read off its id.                               *)
OwnIds ==
  /\ \A r \in rows :
       /\ \A i \in Imports : r.id[1] = i => imp[i].pc = "done"
       /\ \A f \in Forms : r.id[1] = f => form[f].pc # "idle"
  /\ \A i \in Imports : \A r \in imp[i].rows :
       \E k \in 1..imp[i].at :
         r.id = <<i, k>> /\ (k < imp[i].at \/ imp[i].pc = "link")
OneRow == \A r, s \in Written : r.id = s.id => r = s

(* What refers to a row is never without it: not in what is committed, nor  *)
(* in what a transaction sees, which can take back its own rows only.       *)
HasRow(S, kind, id) == \E r \in S : r.kind = kind /\ r.id = id
Whole(S, L) ==
  /\ \A r \in S : r.kind = "lesson" => HasRow(S, "unit", r.parent)
  /\ \A p \in L : HasRow(S, "lesson", p[1]) /\ HasRow(S, "skill", p[2])
AllWhole ==
  /\ Whole(rows, links)
  /\ \A i \in Imports : Whole(Seen(i), links \cup imp[i].links)
  /\ \A f \in Forms : form[f].pc = "link" =>
       HasRow(rows, "lesson", form[f].lesson) /\ HasRow(rows, "skill", form[f].skill)

(* The rows T say of everything what the rows S said, names apart once rows *)
(* were renamed (not f).                                                    *)
Kept(S, T, e, f) ==
  /\ f => e
  /\ \A r \in S : \E t \in T : /\ t.id = r.id /\ t.kind = r.kind /\ t.parent = r.parent
                               /\ f => t.name = r.name

LEMMA KeptEntry ==
  ASSUME NEW S, NEW T, NEW e \in BOOLEAN, NEW f \in BOOLEAN, Kept(S, T, e, f),
         NEW id, NEW i, NEW k
  PROVE  /\ UnitAt(S, e, id, i, k) => UnitAt(T, f, id, i, k)
         /\ LessonAt(S, e, id, i, k) => LessonAt(T, f, id, i, k)
         /\ SkillAt(S, e, id, i, k) => SkillAt(T, f, id, i, k)
<1>1. \A x, j : UnitAt(S, e, x, i, j) => UnitAt(T, f, x, i, j)
  BY DEF UnitAt, Fits, Kept
<1>2. SkillAt(S, e, id, i, k) => SkillAt(T, f, id, i, k)
  BY DEF SkillAt, Fits, Kept
<1>3. ASSUME LessonAt(S, e, id, i, k) PROVE LessonAt(T, f, id, i, k)
  <2>1. PICK l \in S :
          /\ l.id = id /\ Fits(l, e, i, k)
          /\ \E j \in 1..(k - 1) : IsAbove(i, j, k, "unit") /\ UnitAt(S, e, l.parent, i, j)
    BY <1>3 DEF LessonAt
  <2>2. PICK t \in T : /\ t.id = l.id /\ t.kind = l.kind /\ t.parent = l.parent
                       /\ f => t.name = l.name
    BY DEF Kept
  <2>3. Fits(t, f, i, k)
    BY <2>1, <2>2 DEF Fits, Kept
  <2>4. \E j \in 1..(k - 1) : IsAbove(i, j, k, "unit") /\ UnitAt(T, f, t.parent, i, j)
    BY <1>1, <2>1, <2>2
  <2> QED BY <2>1, <2>2, <2>3, <2>4 DEF LessonAt
<1> QED BY <1>1, <1>2, <1>3

LEMMA KeptPlace ==
  ASSUME NEW S, NEW T, NEW e \in BOOLEAN, NEW f \in BOOLEAN, Kept(S, T, e, f),
         NEW L, NEW M, L \subseteq M, NEW i, NEW k, PlacedAt(S, L, e, i, k)
  PROVE  PlacedAt(T, M, f, i, k)
<1>1. \A x, j : /\ UnitAt(S, e, x, i, j) => UnitAt(T, f, x, i, j)
                /\ LessonAt(S, e, x, i, j) => LessonAt(T, f, x, i, j)
                /\ SkillAt(S, e, x, i, j) => SkillAt(T, f, x, i, j)
  BY KeptEntry
<1>2. \A r \in S : \E t \in T : t.id = r.id
  BY DEF Kept
<1>3. CASE Script[i][k].kind = "unit"
  BY <1>1, <1>2, <1>3 DEF PlacedAt
<1>4. CASE Script[i][k].kind = "lesson"
  BY <1>1, <1>2, <1>4 DEF PlacedAt
<1>5. CASE Script[i][k].kind = "skill"
  BY <1>1, <1>5 DEF PlacedAt
<1> QED BY <1>3, <1>4, <1>5 DEF PlacedAt

(* What a record knows stays so if the rows are kept, and if the record     *)
(* only goes on to a step that is not the link.                             *)
LEMMA KeptKnown ==
  ASSUME NEW S, NEW T, NEW e \in BOOLEAN, NEW f \in BOOLEAN, Kept(S, T, e, f),
         NEW L, NEW M, L \subseteq M, NEW i, NEW q, NEW p, Known(i, q, S, L, e),
         p.at = q.at, p.unit = q.unit, p.lesson = q.lesson,
         p.pc = "link" => q.pc = "link" /\ p.skill = q.skill
  PROVE  Known(i, p, T, M, f)
<1>1. \A x, j : /\ UnitAt(S, e, x, i, j) => UnitAt(T, f, x, i, j)
                /\ LessonAt(S, e, x, i, j) => LessonAt(T, f, x, i, j)
                /\ SkillAt(S, e, x, i, j) => SkillAt(T, f, x, i, j)
  BY KeptEntry
<1>2. \A k : PlacedAt(S, L, e, i, k) => PlacedAt(T, M, f, i, k)
  BY KeptPlace
<1> QED BY <1>1, <1>2 DEF Known

LEMMA KnowsNothing ==
  ASSUME NEW i, NEW q, q.at = 1, q.pc # "link", NEW S, NEW L, NEW e
  PROVE  Known(i, q, S, L, e)
BY DEF Known

LEMMA KeptMore ==
  ASSUME NEW S, NEW T, S \subseteq T, NEW e \in BOOLEAN
  PROVE  Kept(S, T, e, e)
BY DEF Kept

(* The units, lessons and skills of a script are nested.                    *)
LEMMA NestedEntry ==
  ASSUME NEW i \in Imports, NEW k \in DOMAIN Script[i]
  PROVE  /\ Script[i][k].kind \in Kinds
         /\ Script[i][k].kind # "unit" => \E j \in 1..(k - 1) : Script[i][j].kind = "unit"
         /\ Script[i][k].kind = "skill" =>
              \E j \in 1..(k - 1) : /\ Script[i][j].kind = "lesson"
                                    /\ \A n \in (j + 1)..(k - 1) : Script[i][n].kind = "skill"
<1> DEFINE Entries == [kind : Kinds, name : ScriptNames]
<1>1. Script[i] \in Seq(Entries)
  BY CurriculumAssumption
<1>2. Script[i][k].kind \in Kinds
  <2> HIDE DEF Entries
  <2>1. Script[i][k] \in Entries
    BY <1>1
  <2> QED BY <2>1 DEF Entries
<1>3. Nested(Script[i])
  BY CurriculumAssumption
<1> QED BY <1>2, <1>3 DEF Nested

(* A record that passes an entry knows the entry: it was put in its place.  *)
LEMMA PassKnown ==
  ASSUME NEW i \in Imports, NEW k \in Nat \ {0}, k \in DOMAIN Script[i],
         NEW S, NEW L, NEW e \in BOOLEAN, NEW q, Known(i, q, S, L, e), q.at = k,
         NEW p, p.at = k + 1, p.pc # "link",
         Script[i][k].kind = "unit" => UnitAt(S, e, p.unit, i, k),
         Script[i][k].kind # "unit" => p.unit = q.unit,
         Script[i][k].kind = "lesson" => LessonAt(S, e, p.lesson, i, k),
         Script[i][k].kind = "skill" => p.lesson = q.lesson,
         PlacedAt(S, L, e, i, k)
  PROVE  Known(i, p, S, L, e)
<1>0. k - 1 \in Nat /\ p.at - 1 = k /\ k \in 1..k /\ (k + 1)..k = {}
  OBVIOUS
<1>1. \A n : n \in 1..k <=> n \in 1..(k - 1) \/ n = k
  OBVIOUS
<1>2. \A j \in 1..(k - 1) : \A n : n \in (j + 1)..k <=> n \in (j + 1)..(k - 1) \/ n = k
  OBVIOUS
<1>3. Script[i][k].kind \in Kinds
  BY NestedEntry
<1>4. \A n \in 1..k : PlacedAt(S, L, e, i, n)
  BY <1>1 DEF Known
<1>5. ASSUME NEW m \in 1..k, Script[i][m].kind = "unit"
      PROVE  \E j \in 1..k : IsAbove(i, j, k + 1, "unit") /\ UnitAt(S, e, p.unit, i, j)
  <2>1. CASE Script[i][k].kind = "unit"
    <3>1. IsAbove(i, k, k + 1, "unit")
      BY <1>0, <2>1 DEF IsAbove
    <3> QED BY <1>0, <2>1, <3>1
  <2>2. CASE Script[i][k].kind # "unit"
    <3>1. m \in 1..(k - 1)
      BY <1>1, <1>5, <2>2
    <3>2. PICK j \in 1..(k - 1) : IsAbove(i, j, k, "unit") /\ UnitAt(S, e, q.unit, i, j)
      BY <1>5, <3>1 DEF Known
    <3>3. IsAbove(i, j, k + 1, "unit")
      BY <1>0, <1>1, <1>2, <2>2, <3>2 DEF IsAbove
    <3> QED BY <1>1, <2>2, <3>2, <3>3
  <2> QED BY <2>1, <2>2
<1>6. ASSUME NEW j \in 1..k, Script[i][j].kind = "lesson",
             \A n \in (j + 1)..k : Script[i][n].kind = "skill"
      PROVE  LessonAt(S, e, p.lesson, i, j)
  <2>1. CASE j = k
    BY <1>6, <2>1
  <2>2. CASE j \in 1..(k - 1)
    <3>1. Script[i][k].kind = "skill"
      BY <1>2, <1>6, <2>2
    <3>2. \A n \in (j + 1)..(k - 1) : Script[i][n].kind = "skill"
      BY <1>2, <1>6, <2>2
    <3>3. LessonAt(S, e, q.lesson, i, j)
      BY <1>6, <2>2, <3>2 DEF Known
    <3> QED BY <3>1, <3>3
  <2> QED BY <1>1, <2>1, <2>2
<1> QED BY <1>0, <1>4, <1>5, <1>6 DEF Known

(* The record that With makes knows the row it was given.                   *)
LEMMA WithKnown ==
  ASSUME Typed, NEW i \in Imports, imp[i].pc \in Looking,
         NEW q \in Requests, q.at = imp[i].at, NEW id \in Ids,
         NEW S, NEW L, NEW e \in BOOLEAN, Known(i, q, S, L, e), EntryAt(S, e, id, i, q.at)
  PROVE  Known(i, With(i, q, id), S, L, e)
<1> DEFINE k == imp[i].at
<1>1. k \in Nat \ {0} /\ k \in DOMAIN Script[i] /\ Entry(i) = Script[i][k]
  <2>1. imp[i].at \in 1..Len(Script[i]) /\ DOMAIN Script[i] = 1..Len(Script[i])
    BY EntryType
  <2> QED BY <2>1 DEF Entry, Requests
<1>2. CASE Entry(i).kind = "unit"
  <2> DEFINE u == [q EXCEPT !.unit = id]
  <2>1. u \in Requests /\ u.at = k /\ u.unit = id /\ u.lesson = q.lesson
    BY DEF Requests
  <2>2. With(i, q, id) = Advance(i, u)
    BY <1>2 DEF With
  <2> HIDE DEF u
  <2> DEFINE p == Advance(i, u)
  <2>3. p.at = k + 1 /\ p.pc # "link" /\ p.unit = id /\ p.lesson = q.lesson
    BY <2>1, AdvanceType
  <2>4. UnitAt(S, e, id, i, k) /\ PlacedAt(S, L, e, i, k)
    BY <1>1, <1>2 DEF EntryAt, PlacedAt, UnitAt
  <2> HIDE DEF p, k
  <2>5. Known(i, p, S, L, e)
    BY <1>1, <1>2, <2>3, <2>4, PassKnown DEF k
  <2> QED BY <2>2, <2>5 DEF p
<1>3. CASE Entry(i).kind = "lesson"
  <2> DEFINE l == [q EXCEPT !.lesson = id]
  <2>1. l \in Requests /\ l.at = k /\ l.lesson = id /\ l.unit = q.unit
    BY DEF Requests
  <2>2. With(i, q, id) = Advance(i, l)
    BY <1>3 DEF With
  <2> HIDE DEF l
  <2> DEFINE p == Advance(i, l)
  <2>3. p.at = k + 1 /\ p.pc # "link" /\ p.unit = q.unit /\ p.lesson = id
    BY <2>1, AdvanceType
  <2>4. LessonAt(S, e, id, i, k) /\ PlacedAt(S, L, e, i, k)
    BY <1>1, <1>3 DEF EntryAt, PlacedAt, LessonAt
  <2> HIDE DEF p, k
  <2>5. Known(i, p, S, L, e)
    BY <1>1, <1>3, <2>3, <2>4, PassKnown DEF k
  <2> QED BY <2>2, <2>5 DEF p
<1>4. CASE Entry(i).kind = "skill"
  <2> DEFINE s == [q EXCEPT !.skill = id, !.pc = "link"]
  <2>1. With(i, q, id) = s
    BY <1>4 DEF With
  <2>2. /\ s.at = q.at /\ s.unit = q.unit /\ s.lesson = q.lesson
        /\ s.skill = id /\ s.pc = "link"
    BY DEF Requests
  <2> HIDE DEF s
  <2>3. Script[i][q.at].kind = "skill" /\ SkillAt(S, e, id, i, q.at)
    BY <1>1, <1>4 DEF EntryAt
  <2>4. Known(i, s, S, L, e)
    BY <2>2, <2>3 DEF Known
  <2> QED BY <2>1, <2>4
<1>5. Entry(i).kind \in Kinds
  BY EntryType
<1> QED BY <1>2, <1>3, <1>4, <1>5 DEF Kinds

LEMMA LinkKnown ==
  ASSUME Typed, NEW i \in Imports, imp[i].pc \in Looking,
         NEW q \in Requests, q.at = imp[i].at, q.pc = "link",
         NEW S, NEW L, NEW e \in BOOLEAN, Known(i, q, S, L, e), <<q.lesson, q.skill>> \in L
  PROVE  Known(i, Advance(i, q), S, L, e)
<1> DEFINE k == imp[i].at
<1>1. k \in Nat \ {0} /\ k \in DOMAIN Script[i]
  <2>1. imp[i].at \in 1..Len(Script[i]) /\ DOMAIN Script[i] = 1..Len(Script[i])
    BY EntryType
  <2> QED BY <2>1 DEF Requests
<1> DEFINE p == Advance(i, q)
<1>2. p.at = k + 1 /\ p.pc # "link" /\ p.unit = q.unit /\ p.lesson = q.lesson
  BY AdvanceType
<1> HIDE DEF k, p
<1>3. Script[i][k].kind = "skill" /\ SkillAt(S, e, q.skill, i, k)
  BY DEF Known, k
<1>4. PlacedAt(S, L, e, i, k)
  <2>1. PICK j \in 1..(k - 1) : /\ Script[i][j].kind = "lesson"
                                /\ \A n \in (j + 1)..(k - 1) : Script[i][n].kind = "skill"
    BY <1>1, <1>3, NestedEntry
  <2>2. LessonAt(S, e, q.lesson, i, j)
    BY <2>1 DEF Known, k
  <2>3. IsAbove(i, j, k, "lesson")
    BY <2>1 DEF IsAbove
  <2> DEFINE x == <<q.lesson, q.skill>>
  <2>4. x \in L /\ x[1] = q.lesson /\ x[2] = q.skill
    OBVIOUS
  <2> HIDE DEF x
  <2> QED BY <1>3, <2>2, <2>3, <2>4 DEF PlacedAt
<1>5. Known(i, p, S, L, e)
  BY <1>1, <1>2, <1>3, <1>4, PassKnown DEF k
<1> QED BY <1>5 DEF p

(* A row that was found, or inserted, among the siblings of an entry stands *)
(* for the entry.                                                           *)
LEMMA SiblingFits ==
  ASSUME Typed, NEW i \in Imports, imp[i].pc \in Looking,
         NEW S, NEW L, NEW e \in BOOLEAN, Known(i, imp[i], S, L, e), NEW r \in S,
         r.kind = Entry(i).kind, r.parent = Parent(i),
         r.name = Entry(i).name \/ <<r.name, Entry(i).name>> \in Like
  PROVE  EntryAt(S, e, r.id, i, imp[i].at)
<1> DEFINE k == imp[i].at
<1>1. k \in DOMAIN Script[i] /\ Entry(i) = Script[i][k]
  BY EntryType DEF Entry
<1>2. Fits(r, e, i, k)
  BY <1>1 DEF Fits
<1>3. CASE Entry(i).kind = "unit"
  BY <1>1, <1>2, <1>3 DEF EntryAt, UnitAt, Parent
<1>4. CASE Entry(i).kind = "lesson"
  <2>1. \E j \in 1..(k - 1) : Script[i][j].kind = "unit"
    BY <1>1, <1>4, NestedEntry
  <2>2. \E j \in 1..(k - 1) : IsAbove(i, j, k, "unit") /\ UnitAt(S, e, imp[i].unit, i, j)
    BY <2>1 DEF Known
  <2>3. r.parent = imp[i].unit
    BY <1>4 DEF Parent
  <2> QED BY <1>1, <1>2, <1>4, <2>2, <2>3 DEF EntryAt, LessonAt
<1>5. CASE Entry(i).kind = "skill"
  BY <1>1, <1>2, <1>5 DEF EntryAt, SkillAt, Parent
<1>6. Entry(i).kind \in Kinds
  BY EntryType
<1> QED BY <1>3, <1>4, <1>5, <1>6 DEF Kinds

(* The steps of the import itself. *)
LEMMA OwnStepKnown ==
  ASSUME Typed, AllKnown, NEW i \in Imports, ImportBookAnalysis(i)
  PROVE  Known(i, imp'[i], Seen(i)', (links \cup imp[i].links)', Named)
<1> DEFINE S == Seen(i)
           L == links \cup imp[i].links
<1>1. /\ imp \in [Imports -> Requests] /\ imp[i] \in Requests /\ WellFormed(i, imp[i])
      /\ Known(i, imp[i], S, L, Named) /\ Named \in BOOLEAN
  BY DEF Typed, AllKnown, Named
<1>2. ~Commit(i) => rows' = rows /\ links' = links
  BY StepOfImport
<1>3. Kept(S, S, Named, Named)
  BY KeptMore, <1>1
<1>4. ASSUME imp'[i].at = imp[i].at, imp'[i].unit = imp[i].unit,
             imp'[i].lesson = imp[i].lesson, imp'[i].pc # "link",
             Seen(i)' = S, (links \cup imp[i].links)' = L
      PROVE  Known(i, imp'[i], Seen(i)', (links \cup imp[i].links)', Named)
  <2> DEFINE p == imp'[i]
  <2>1. p.at = imp[i].at /\ p.unit = imp[i].unit /\ p.lesson = imp[i].lesson /\ p.pc # "link"
    BY <1>4
  <2> HIDE DEF p, S, L
  <2>2. Known(i, p, S, L, Named)
    BY <1>1, <1>3, <2>1, KeptKnown
  <2> QED BY <1>4, <2>2 DEF p
<1>5. CASE Begin(i)
  BY <1>1, <1>5, KnowsNothing DEF Begin, WellFormed, NoImport, Requests
<1>6. CASE Find(i)
  <2>1. CASE \E r \in Matching(i) : imp' = [imp EXCEPT ![i] = With(i, imp[i], r.id)]
    <3>1. PICK r \in Matching(i) : imp' = [imp EXCEPT ![i] = With(i, imp[i], r.id)]
      BY <2>1
    <3>2. /\ r \in S /\ r.kind = Entry(i).kind /\ r.parent = Parent(i)
          /\ <<r.name, Entry(i).name>> \in Like
      BY DEF Matching, Siblings
    <3>3. r.id \in Ids /\ imp[i].pc \in Looking
      BY <1>1, <1>6, <3>2 DEF Find, Looking, Seen, Typed, Requests, Rows
    <3> DEFINE p == With(i, imp[i], r.id)
    <3>4. imp'[i] = p
      BY <1>1, <3>1
    <3>5. p.rows = imp[i].rows /\ p.links = imp[i].links
      BY <1>1, <3>3, WithType
    <3> HIDE DEF S, L
    <3>6. EntryAt(S, Named, r.id, i, imp[i].at)
      BY <1>1, <3>2, <3>3, SiblingFits
    <3>7. Known(i, p, S, L, Named)
      BY <1>1, <3>3, <3>6, WithKnown
    <3> HIDE DEF p
    <3>8. Seen(i)' = S /\ (links \cup imp[i].links)' = L
      BY <1>2, <1>6, <3>4, <3>5 DEF S, L, Seen, Find, Commit
    <3> QED BY <3>4, <3>7, <3>8
  <2>2. CASE imp' = [imp EXCEPT ![i].pc = IF Entry(i).kind = "skill" THEN "insert" ELSE "max"]
    <3>1. /\ imp'[i].at = imp[i].at /\ imp'[i].unit = imp[i].unit
          /\ imp'[i].lesson = imp[i].lesson /\ imp'[i].pc # "link"
          /\ imp'[i].rows = imp[i].rows /\ imp'[i].links = imp[i].links
      BY <1>1, <2>2 DEF Requests
    <3>2. Seen(i)' = S /\ (links \cup imp[i].links)' = L
      BY <1>6, <3>1 DEF Seen, Find
    <3> QED BY <1>4, <3>1, <3>2
  <2> QED BY <1>6, <2>1, <2>2 DEF Find
<1>7. CASE ReadOrder(i)
  <2>1. PICK n \in NextOrder(i) : imp' = [imp EXCEPT ![i].order = n, ![i].pc = "insert"]
    BY <1>7 DEF ReadOrder
  <2>2. /\ imp'[i].at = imp[i].at /\ imp'[i].unit = imp[i].unit
        /\ imp'[i].lesson = imp[i].lesson /\ imp'[i].pc # "link"
        /\ imp'[i].rows = imp[i].rows /\ imp'[i].links = imp[i].links
    BY <1>1, <2>1 DEF Requests
  <2>3. Seen(i)' = S /\ (links \cup imp[i].links)' = L
    BY <1>7, <2>2 DEF Seen, ReadOrder
  <2> QED BY <1>4, <2>2, <2>3
<1>8. CASE Insert(i)
  <2>1. imp[i].pc \in Looking /\ imp[i].pc # "link"
    BY <1>8 DEF Insert, Looking
  <2> DEFINE id == <<i, imp[i].at>>
             p == With(i, Wrote(i), id)
             T == S \cup {New(i)}
  <2>2. imp'[i] = p
    BY <1>1, <1>8 DEF Insert, Wrote, New
  <2>3. /\ New(i).id = id /\ id \in Ids /\ New(i).kind = Entry(i).kind
        /\ New(i).parent = Parent(i) /\ New(i).name = Entry(i).name
        /\ Wrote(i) \in Requests /\ Wrote(i).at = imp[i].at
        /\ Wrote(i).unit = imp[i].unit /\ Wrote(i).lesson = imp[i].lesson
        /\ Wrote(i).rows = imp[i].rows \cup {New(i)} /\ Wrote(i).links = imp[i].links
    BY <2>1, WroteType
  <2>4. Wrote(i).pc = imp[i].pc
    BY <1>1 DEF Wrote, Requests
  <2>5. p.rows = imp[i].rows \cup {New(i)} /\ p.links = imp[i].links
    BY <2>1, <2>3, WithType
  <2>6. Seen(i)' = T /\ (links \cup imp[i].links)' = L
    BY <1>8, <2>2, <2>5 DEF Seen, Insert
  <2>7. Kept(S, T, Named, Named) /\ New(i) \in T
    BY <1>1, KeptMore
  <2> HIDE DEF S, L, T, id
  <2>8. Known(i, imp[i], T, L, Named) /\ Known(i, Wrote(i), T, L, Named)
    BY <1>1, <2>1, <2>3, <2>4, <2>7, KeptKnown
  <2>9. EntryAt(T, Named, id, i, imp[i].at)
    BY <1>1, <2>1, <2>3, <2>7, <2>8, SiblingFits
  <2>10. Known(i, p, T, L, Named)
    BY <1>1, <2>1, <2>3, <2>8, <2>9, WithKnown
  <2> QED BY <2>2, <2>6, <2>10
<1>9. CASE Link(i)
  <2>1. imp[i].pc \in Looking /\ imp[i].pc = "link"
    BY <1>9 DEF Link, Looking
  <2> DEFINE p == Advance(i, Linked(i))
             M == links \cup Linked(i).links
  <2>2. imp'[i] = p
    BY <1>1, <1>9 DEF Link, Linked
  <2>3. /\ Linked(i) \in Requests /\ Linked(i).at = imp[i].at
        /\ Linked(i).links = imp[i].links \cup ({Pair(i)} \ links)
        /\ Linked(i).rows = imp[i].rows
        /\ Linked(i).unit = imp[i].unit /\ Linked(i).lesson = imp[i].lesson
    BY LinkedType
  <2>4. Linked(i).pc = "link" /\ Linked(i).skill = imp[i].skill
    BY <1>1, <2>1 DEF Linked, Requests
  <2>5. p.rows = imp[i].rows /\ p.links = Linked(i).links
    BY <2>1, <2>3, AdvanceType
  <2>6. Seen(i)' = S /\ (links \cup imp[i].links)' = M
    BY <1>9, <2>2, <2>5 DEF Seen, Link
  <2>7. L \subseteq M /\ <<Linked(i).lesson, Linked(i).skill>> \in M
    BY <2>3, <2>4 DEF Pair
  <2> HIDE DEF S, L, M
  <2>8. Known(i, Linked(i), S, M, Named)
    BY <1>1, <1>3, <2>1, <2>3, <2>4, <2>7, KeptKnown
  <2>9. Known(i, p, S, M, Named)
    BY <1>1, <2>1, <2>3, <2>4, <2>7, <2>8, LinkKnown
  <2> QED BY <2>2, <2>6, <2>9
<1>10. CASE Mark(i)
  <2>1. /\ imp'[i].at = imp[i].at /\ imp'[i].unit = imp[i].unit
        /\ imp'[i].lesson = imp[i].lesson /\ imp'[i].pc # "link"
        /\ imp'[i].rows = imp[i].rows /\ imp'[i].links = imp[i].links
    BY <1>1, <1>10 DEF Mark, Requests
  <2>2. Seen(i)' = S /\ (links \cup imp[i].links)' = L
    BY <1>10, <2>1 DEF Seen, Mark
  <2> QED BY <1>4, <2>1, <2>2
<1>11. CASE Commit(i)
  <2>1. /\ imp'[i].at = imp[i].at /\ imp'[i].unit = imp[i].unit
        /\ imp'[i].lesson = imp[i].lesson /\ imp'[i].pc # "link"
        /\ imp'[i].rows = {} /\ imp'[i].links = {}
    BY <1>1, <1>11 DEF Commit, Requests
  <2>2. Seen(i)' = S /\ (links \cup imp[i].links)' = L
    BY <1>11, <2>1 DEF Seen, Commit
  <2> QED BY <1>4, <2>1, <2>2
<1>12. CASE Fail(i) \/ EndDeadlock(i)
  <2>1. imp'[i].at = 1 /\ imp'[i].pc # "link"
    BY <1>1, <1>12 DEF Fail, EndDeadlock, RollBack, NoImport
  <2> DEFINE p == imp'[i]
             T == Seen(i)'
             M == (links \cup imp[i].links)'
  <2>2. p.at = 1 /\ p.pc # "link"
    BY <2>1
  <2> HIDE DEF p, T, M
  <2>3. Known(i, p, T, M, Named)
    BY <2>2, KnowsNothing
  <2> QED BY <2>3 DEF p, T, M
<1> QED BY <1>5, <1>6, <1>7, <1>8, <1>9, <1>10, <1>11, <1>12 DEF ImportBookAnalysis

(* What a form does to the rows: it adds one, rewrites one, or neither.     *)
FormStep(f) ==
  \/ CreateUnit(f) \/ CreateLesson(f) \/ CreateSkill(f)
  \/ UpdateUnit(f) \/ UpdateLesson(f) \/ UpdateSkill(f)
  \/ LinkForm(f) \/ LinkFails(f)
Adds(f) ==
  /\ form[f].pc = "idle"
  /\ \E new \in Rows : /\ new.id = <<f, 0>> /\ rows' = rows \cup {new}
                       /\ new.kind = "lesson" => HasRow(rows, "unit", new.parent)
Rewrites ==
  \E r \in rows, u \in Rows :
    /\ rows' = (rows \ {r}) \cup {u}
    /\ u.id = r.id /\ u.kind = r.kind /\ u.parent = r.parent
    /\ Named' => u.name = r.name

LEMMA RewriteRewrites ==
  ASSUME Typed, NEW kind, Rewrite(kind)
  PROVE  Rewrites
<1>1. PICK r \in rows, name \in FormNames, order \in Orders :
        \E u \in Rewritten(r, [r EXCEPT !.name = name, !.order = order]) :
          /\ rows' = (rows \ {r}) \cup {u}
          /\ Note(IF u.name = r.name THEN {} ELSE {"renamed"})
  BY DEF Rewrite
<1>2. PICK u \in Rewritten(r, [r EXCEPT !.name = name, !.order = order]) :
        /\ rows' = (rows \ {r}) \cup {u}
        /\ Note(IF u.name = r.name THEN {} ELSE {"renamed"})
  BY <1>1
<1>3. r \in Rows /\ name \in Names /\ order \in Nat
  BY DEF Typed, Names, Orders
<1>4. u \in Rows /\ u.id = r.id /\ u.kind = r.kind /\ u.parent = r.parent
  BY <1>2, <1>3 DEF Rewritten, Rows
<1>5. Named' => u.name = r.name
  BY <1>2 DEF Note, Named
<1> QED BY <1>2, <1>4, <1>5 DEF Rewrites

LEMMA FormRows ==
  ASSUME Typed, NEW f \in Forms, FormStep(f)
  PROVE  /\ imp' = imp /\ links \subseteq links'
         /\ Named' => Named
         /\ \A g \in Forms \ {f} : form'[g] = form[g]
         /\ form'[f].pc \in {"link", "done"}
         /\ Adds(f) \/ Rewrites \/ rows' = rows
<1>0. form \in [Forms -> Sheets] /\ \A r \in rows : r \in Rows
  BY DEF Typed
<1>1. /\ imp' = imp /\ links \subseteq links' /\ disturbed \subseteq disturbed'
  BY DEF FormStep, CreateUnit, CreateLesson, CreateSkill, UpdateUnit, UpdateLesson, UpdateSkill,
     LinkForm, LinkFails, Rewrite, Note
<1>2. Named' => Named
  BY <1>1 DEF Named
<1>3. (\A g \in Forms \ {f} : form'[g] = form[g]) /\ form'[f].pc \in {"link", "done"}
  <2>1. CASE form' = [form EXCEPT ![f].pc = "done"]
    BY <1>0, <2>1 DEF Sheets
  <2>2. ASSUME NEW skill, LinkNext(f, skill)
        PROVE  (\A g \in Forms \ {f} : form'[g] = form[g]) /\ form'[f].pc \in {"link", "done"}
    BY <1>0, <2>1, <2>2 DEF LinkNext
  <2> QED BY <2>1, <2>2 DEF FormStep, CreateUnit, CreateLesson, CreateSkill, UpdateUnit,
            UpdateLesson, UpdateSkill, LinkForm, LinkFails
<1>4. <<f, 0>> \in Ids /\ <<>> \in Ids /\ (\A s \in Subjects : Root(s) \in Ids)
      /\ FormNames \subseteq Names /\ Orders \subseteq Nat
  BY DEF Ids, Names, Orders
<1>5. CASE CreateUnit(f)
  <2>1. PICK s \in Subjects, name \in FormNames, order \in Orders :
          rows' = rows \cup {Row(<<f, 0>>, "unit", Root(s), name, order)}
    BY <1>5 DEF CreateUnit
  <2> DEFINE new == Row(<<f, 0>>, "unit", Root(s), name, order)
  <2>2. new \in Rows /\ new.id = <<f, 0>> /\ new.kind = "unit"
    BY <1>4 DEF Row, Rows, Kinds
  <2> HIDE DEF new
  <2>3. Adds(f)
    BY <1>5, <2>1, <2>2 DEF CreateUnit, Adds, new
  <2> QED BY <1>1, <1>2, <1>3, <2>3
<1>6. CASE CreateLesson(f)
  <2>1. PICK u \in rows, name \in FormNames, order \in Orders :
          u.kind = "unit" /\ rows' = rows \cup {Row(<<f, 0>>, "lesson", u.id, name, order)}
    BY <1>6 DEF CreateLesson
  <2> DEFINE new == Row(<<f, 0>>, "lesson", u.id, name, order)
  <2>2. u.id \in Ids /\ HasRow(rows, "unit", u.id)
    BY <1>0, <2>1 DEF Rows, HasRow
  <2>3. new \in Rows /\ new.id = <<f, 0>> /\ new.parent = u.id
    BY <1>4, <2>2 DEF Row, Rows, Kinds
  <2> HIDE DEF new
  <2>4. Adds(f)
    BY <1>6, <2>1, <2>2, <2>3 DEF CreateLesson, Adds, new
  <2> QED BY <1>1, <1>2, <1>3, <2>4
<1>7. CASE CreateSkill(f)
  <2>1. PICK name \in FormNames : rows' = rows \cup {Row(<<f, 0>>, "skill", <<>>, name, 0)}
    BY <1>7 DEF CreateSkill
  <2> DEFINE new == Row(<<f, 0>>, "skill", <<>>, name, 0)
  <2>2. new \in Rows /\ new.id = <<f, 0>> /\ new.kind = "skill"
    BY <1>4 DEF Row, Rows, Kinds
  <2> HIDE DEF new
  <2>3. Adds(f)
    BY <1>7, <2>1, <2>2 DEF CreateSkill, Adds, new
  <2> QED BY <1>1, <1>2, <1>3, <2>3
<1>8. CASE UpdateUnit(f) \/ UpdateLesson(f)
  BY <1>1, <1>2, <1>3, <1>8, RewriteRewrites DEF UpdateUnit, UpdateLesson
<1>9. CASE UpdateSkill(f)
  <2>1. PICK r \in rows, name \in FormNames :
          \E given \in {name, r.name} :
            /\ rows' = (rows \ {r}) \cup {[r EXCEPT !.name = given]}
            /\ Note(IF given = r.name THEN {} ELSE {"renamed"})
    BY <1>9 DEF UpdateSkill
  <2>2. PICK given \in {name, r.name} :
          /\ rows' = (rows \ {r}) \cup {[r EXCEPT !.name = given]}
          /\ Note(IF given = r.name THEN {} ELSE {"renamed"})
    BY <2>1
  <2> DEFINE u == [r EXCEPT !.name = given]
  <2>3. u \in Rows /\ u.id = r.id /\ u.kind = r.kind /\ u.parent = r.parent /\ u.name = given
    BY <1>0, <1>4 DEF Rows
  <2>4. Named' => given = r.name
    BY <2>2 DEF Note, Named
  <2>5. Rewrites
    BY <2>2, <2>3, <2>4 DEF Rewrites
  <2> QED BY <1>1, <1>2, <1>3, <2>5
<1>10. CASE LinkForm(f) \/ LinkFails(f)
  BY <1>1, <1>2, <1>3, <1>10 DEF LinkForm, LinkFails
<1> QED BY <1>5, <1>6, <1>7, <1>8, <1>9, <1>10 DEF FormStep

LEMMA FormKeepsRows ==
  ASSUME Typed, NEW f \in Forms, FormStep(f), NEW W
  PROVE  Kept(rows \cup W, rows' \cup W, Named, Named')
<1>1. Named' => Named
  BY FormRows
<1>2. CASE rows \subseteq rows'
  BY <1>1, <1>2 DEF Kept
<1>3. CASE Rewrites
  BY <1>1, <1>3 DEF Rewrites, Kept
<1> QED BY <1>2, <1>3, FormRows DEF Adds

LEMMA KnownKeeps == Typed /\ AllKnown /\ [Next]_vars => AllKnown'
<1> SUFFICES ASSUME Typed, AllKnown, [Next]_vars PROVE AllKnown'
  OBVIOUS
<1>1. CASE UNCHANGED vars
  BY <1>1 DEF vars, AllKnown, Seen, Named
<1>2. ASSUME NEW i \in Imports, ImportBookAnalysis(i), NEW j \in Imports
      PROVE  Known(j, imp[j], Seen(j), links \cup imp[j].links, Named)'
  <2>1. Named' = Named /\ Elsewhere(i)
    BY <1>2, StepOfImport DEF Named
  <2>2. CASE j = i
    BY <1>2, <2>1, <2>2, OwnStepKnown
  <2>3. CASE j # i
    <3>1. imp'[j] = imp[j] /\ rows \subseteq rows' /\ links \subseteq links'
      <4>1. CASE Commit(i)
        BY <2>1, <2>3, <4>1 DEF Commit, Elsewhere
      <4>2. CASE ~Commit(i)
        BY <1>2, <2>1, <2>3, <4>2, StepOfImport DEF Elsewhere
      <4> QED BY <4>1, <4>2
    <3> DEFINE S == Seen(j)
               T == Seen(j)'
               L == links \cup imp[j].links
               M == (links \cup imp[j].links)'
               p == imp'[j]
    <3>2. S \subseteq T /\ L \subseteq M /\ p = imp[j] /\ Known(j, imp[j], S, L, Named)
          /\ Named \in BOOLEAN
      BY <3>1 DEF Seen, AllKnown, Named
    <3> HIDE DEF S, T, L, M, p
    <3>3. Kept(S, T, Named, Named)
      BY <3>2, KeptMore
    <3>4. Known(j, p, T, M, Named)
      BY <3>2, <3>3, KeptKnown
    <3> QED BY <2>1, <3>4 DEF T, M, p
  <2> QED BY <2>2, <2>3
<1>3. ASSUME NEW f \in Forms, FormStep(f), NEW j \in Imports
      PROVE  Known(j, imp[j], Seen(j), links \cup imp[j].links, Named)'
  <2> DEFINE S == Seen(j)
             T == Seen(j)'
             L == links \cup imp[j].links
             M == (links \cup imp[j].links)'
             p == imp'[j]
             e == Named'
  <2>1. imp' = imp /\ links \subseteq links'
    BY <1>3, FormRows
  <2>2. Kept(rows \cup imp[j].rows, rows' \cup imp[j].rows, Named, Named')
    BY <1>3, FormKeepsRows
  <2>3. /\ Kept(S, T, Named, e) /\ L \subseteq M /\ p = imp[j] /\ Known(j, imp[j], S, L, Named)
        /\ Named \in BOOLEAN /\ e \in BOOLEAN
    BY <2>1, <2>2 DEF Seen, AllKnown, Named
  <2> HIDE DEF S, T, L, M, p, e
  <2>4. Known(j, p, T, M, e)
    BY <2>3, KeptKnown
  <2> QED BY <2>4 DEF T, M, p, e
<1>4. CASE \E i \in Imports : ImportBookAnalysis(i)
  BY <1>2, <1>4 DEF AllKnown
<1>5. CASE \E f \in Forms : FormStep(f)
  BY <1>3, <1>5 DEF AllKnown
<1> QED BY <1>1, <1>4, <1>5 DEF Next, FormStep

LEMMA InitKnown == Init => AllKnown
<1> SUFFICES ASSUME Init, NEW i \in Imports
             PROVE  Known(i, imp[i], Seen(i), links \cup imp[i].links, Named)
  BY DEF AllKnown
<1>1. imp[i].at = 1 /\ imp[i].pc # "link"
  BY DEF Init, NoImport
<1> QED BY <1>1, KnowsNothing

-----------------------------------------------------------------------------
(* The ids of rows. *)

(* What a step of an import adds to its record, and how far it gets.        *)
LEMMA RowsOfStep ==
  ASSUME Typed, NEW i \in Imports, ImportBookAnalysis(i)
  PROVE  /\ imp[i].pc \notin {"done", "failed"}
         /\ \/ imp'[i].rows \subseteq imp[i].rows
            \/ Insert(i) /\ imp'[i].rows = imp[i].rows \cup {New(i)}
         /\ imp'[i].rows # {} =>
              \A k \in Nat :
                k < imp[i].at \/ (k = imp[i].at /\ imp[i].pc \in {"link", "insert"})
                => k < imp'[i].at \/ (k = imp'[i].at /\ imp'[i].pc = "link")
<1>1. /\ imp \in [Imports -> Requests] /\ imp[i] \in Requests /\ WellFormed(i, imp[i])
      /\ imp[i].at \in Nat
  BY DEF Typed, Requests
<1>2. CASE Begin(i)
  <2>1. imp[i].rows = {}
    BY <1>1, <1>2 DEF Begin, WellFormed, Ended
  <2>2. imp'[i].rows = imp[i].rows
    BY <1>1, <1>2 DEF Begin, Requests
  <2> QED BY <1>2, <2>1, <2>2 DEF Begin
<1>3. CASE Find(i)
  <2>1. CASE \E r \in Matching(i) : imp' = [imp EXCEPT ![i] = With(i, imp[i], r.id)]
    <3>1. PICK r \in Matching(i) : imp' = [imp EXCEPT ![i] = With(i, imp[i], r.id)]
      BY <2>1
    <3>2. r.id \in Ids /\ imp[i].pc \in Looking
      BY <1>1, <1>3 DEF Find, Looking, Matching, Siblings, Seen, Typed, Requests, Rows
    <3> DEFINE p == With(i, imp[i], r.id)
    <3>3. /\ imp'[i] = p /\ p.rows = imp[i].rows
          /\ (p.pc = "link" /\ p.at = imp[i].at) \/ p.at = imp[i].at + 1
      BY <1>1, <3>1, <3>2, WithType
    <3> HIDE DEF p
    <3> QED BY <1>1, <1>3, <3>3 DEF Find
  <2>2. CASE imp' = [imp EXCEPT ![i].pc = IF Entry(i).kind = "skill" THEN "insert" ELSE "max"]
    <3>1. imp'[i].at = imp[i].at /\ imp'[i].rows = imp[i].rows
      BY <1>1, <2>2 DEF Requests
    <3> QED BY <1>3, <3>1 DEF Find
  <2> QED BY <1>3, <2>1, <2>2 DEF Find
<1>4. CASE ReadOrder(i)
  <2>1. imp'[i].at = imp[i].at /\ imp'[i].rows = imp[i].rows
    BY <1>1, <1>4 DEF ReadOrder, Requests
  <2> QED BY <1>4, <2>1 DEF ReadOrder
<1>5. CASE Insert(i)
  <2>1. imp[i].pc \in Looking
    BY <1>5 DEF Insert, Looking
  <2> DEFINE p == With(i, Wrote(i), <<i, imp[i].at>>)
  <2>2. imp'[i] = p
    BY <1>1, <1>5 DEF Insert, Wrote, New
  <2>3. /\ p.rows = imp[i].rows \cup {New(i)}
        /\ (p.pc = "link" /\ p.at = imp[i].at) \/ p.at = imp[i].at + 1
    BY <2>1, WroteType, WithType
  <2> HIDE DEF p
  <2> QED BY <1>1, <1>5, <2>2, <2>3 DEF Insert
<1>6. CASE Link(i)
  <2>1. imp[i].pc \in Looking /\ imp[i].pc = "link"
    BY <1>6 DEF Link, Looking
  <2> DEFINE p == Advance(i, Linked(i))
  <2>2. imp'[i] = p
    BY <1>1, <1>6 DEF Link, Linked
  <2>3. p.rows = imp[i].rows /\ p.at = imp[i].at + 1
    BY <2>1, LinkedType, AdvanceType
  <2> HIDE DEF p
  <2> QED BY <1>1, <2>1, <2>2, <2>3
<1>7. CASE Mark(i)
  <2>1. imp'[i].at = imp[i].at /\ imp'[i].rows = imp[i].rows
    BY <1>1, <1>7 DEF Mark, Requests
  <2> QED BY <1>7, <2>1 DEF Mark
<1>8. CASE Commit(i)
  <2>1. imp'[i].rows = {}
    BY <1>1, <1>8 DEF Commit, Requests
  <2> QED BY <1>8, <2>1 DEF Commit
<1>9. CASE Fail(i) \/ EndDeadlock(i)
  <2>1. imp'[i].rows = {} /\ i \in Active
    BY <1>1, <1>9 DEF Fail, EndDeadlock, RollBack, NoImport
  <2> QED BY <2>1 DEF Active, Ended
<1> QED BY <1>2, <1>3, <1>4, <1>5, <1>6, <1>7, <1>8, <1>9 DEF ImportBookAnalysis

(* The id of the row that an import, or a form, adds is new.                *)
LEMMA InsertFresh ==
  ASSUME Typed, OwnIds, NEW i \in Imports, imp[i].pc = "insert", NEW r \in Written
  PROVE  r.id # <<i, imp[i].at>>
<1> SUFFICES ASSUME r.id = <<i, imp[i].at>> PROVE FALSE
  OBVIOUS
<1>1. CASE r \in rows
  BY <1>1 DEF OwnIds
<1>2. ASSUME NEW j \in Imports, r \in imp[j].rows PROVE FALSE
  <2>1. PICK k \in 1..imp[j].at : r.id = <<j, k>> /\ (k < imp[j].at \/ imp[j].pc = "link")
    BY <1>2 DEF OwnIds
  <2>2. j = i /\ k = imp[i].at
    BY <2>1
  <2>3. imp[i].at \in Nat
    BY DEF Typed, Requests
  <2> QED BY <2>1, <2>2, <2>3
<1> QED BY <1>1, <1>2 DEF Written

LEMMA FormFresh ==
  ASSUME Typed, OwnIds, NEW f \in Forms, form[f].pc = "idle", NEW r \in Written
  PROVE  r.id # <<f, 0>>
<1> SUFFICES ASSUME r.id = <<f, 0>> PROVE FALSE
  OBVIOUS
<1>1. CASE r \in rows
  BY <1>1 DEF OwnIds
<1>2. ASSUME NEW j \in Imports, r \in imp[j].rows PROVE FALSE
  <2>1. PICK k \in 1..imp[j].at : r.id = <<j, k>>
    BY <1>2 DEF OwnIds
  <2> QED BY <2>1, CurriculumAssumption
<1> QED BY <1>1, <1>2 DEF Written

LEMMA InitIds == Init => OwnIds /\ OneRow
<1> SUFFICES ASSUME Init PROVE OwnIds /\ OneRow
  OBVIOUS
<1>1. rows = Seeded /\ \A i \in Imports : imp[i].rows = {}
  BY DEF Init, NoImport
<1>2. Written = Seeded
  BY <1>1 DEF Written
<1> QED BY <1>1, <1>2, SeededAssumption DEF OwnIds, OneRow

LEMMA IdsKeep == Typed /\ OwnIds /\ OneRow /\ [Next]_vars => (OwnIds /\ OneRow)'
<1> SUFFICES ASSUME Typed, OwnIds, OneRow, [Next]_vars PROVE OwnIds' /\ OneRow'
  OBVIOUS
<1>1. CASE UNCHANGED vars
  BY <1>1 DEF vars, OwnIds, OneRow, Written
<1>2. ASSUME NEW i \in Imports, ImportBookAnalysis(i) PROVE OwnIds' /\ OneRow'
  <2>1. /\ \A j \in Imports \ {i} : imp'[j] = imp[j]
        /\ form' = form
        /\ imp' \in [Imports -> Requests]
    BY <1>2, StepOfImport DEF Elsewhere
  <2>2. /\ imp[i].pc # "done"
        /\ \/ imp'[i].rows \subseteq imp[i].rows
           \/ Insert(i) /\ imp'[i].rows = imp[i].rows \cup {New(i)}
        /\ imp'[i].rows # {} =>
              \A k \in Nat :
                k < imp[i].at \/ (k = imp[i].at /\ imp[i].pc \in {"link", "insert"})
                => k < imp'[i].at \/ (k = imp'[i].at /\ imp'[i].pc = "link")
    BY <1>2, RowsOfStep
  <2>3. rows' = rows \/ (Commit(i) /\ rows' = rows \cup imp[i].rows)
    BY <1>2, StepOfImport DEF Commit
  <2>4. imp[i].at \in Nat /\ imp'[i].at \in Nat
    BY <2>1 DEF Typed, Requests
  <2>5. \A r \in rows' : /\ \A j \in Imports : r.id[1] = j => imp'[j].pc = "done"
                         /\ \A f \in Forms : r.id[1] = f => form'[f].pc # "idle"
    <3>1. \A r \in rows : /\ \A j \in Imports : r.id[1] = j => imp'[j].pc = "done"
                          /\ \A f \in Forms : r.id[1] = f => form'[f].pc # "idle"
      BY <2>1, <2>2 DEF OwnIds
    <3>2. ASSUME Commit(i), NEW r \in imp[i].rows
          PROVE  /\ \A j \in Imports : r.id[1] = j => imp'[j].pc = "done"
                 /\ \A f \in Forms : r.id[1] = f => form'[f].pc # "idle"
      <4>1. r.id[1] = i
        BY DEF OwnIds
      <4>2. imp'[i].pc = "done"
        BY <3>2 DEF Commit, Typed, Requests
      <4> QED BY <4>1, <4>2, CurriculumAssumption
    <3> QED BY <2>3, <3>1, <3>2
  <2>6. \A r \in imp'[i].rows :
          \E k \in 1..imp'[i].at :
            r.id = <<i, k>> /\ (k < imp'[i].at \/ imp'[i].pc = "link")
    <3> SUFFICES ASSUME NEW r \in imp'[i].rows
                 PROVE  \E k \in 1..imp'[i].at :
                          r.id = <<i, k>> /\ (k < imp'[i].at \/ imp'[i].pc = "link")
      OBVIOUS
    <3>1. \E k \in 1..imp[i].at :
            /\ r.id = <<i, k>>
            /\ k < imp[i].at \/ (k = imp[i].at /\ imp[i].pc \in {"link", "insert"})
      <4>1. CASE r \in imp[i].rows
        <5>1. PICK k \in 1..imp[i].at :
                r.id = <<i, k>> /\ (k < imp[i].at \/ imp[i].pc = "link")
          BY <4>1 DEF OwnIds
        <5>2. k < imp[i].at \/ k = imp[i].at
          BY <2>4
        <5> QED BY <5>1, <5>2
      <4>2. CASE Insert(i) /\ r = New(i)
        <5>1. imp[i].pc = "insert" /\ imp[i].pc \in Looking
          BY <4>2 DEF Insert, Looking
        <5>2. r.id = <<i, imp[i].at>> /\ imp[i].at \in 1..Len(Script[i]) /\ Len(Script[i]) \in Nat
          BY <4>2, <5>1, WroteType, EntryType
        <5>3. imp[i].at \in 1..imp[i].at
          BY <5>2
        <5> QED BY <5>1, <5>2, <5>3
      <4> QED BY <2>2, <4>1, <4>2
    <3>2. PICK k \in 1..imp[i].at :
            /\ r.id = <<i, k>>
            /\ k < imp[i].at \/ (k = imp[i].at /\ imp[i].pc \in {"link", "insert"})
      BY <3>1
    <3>3. k \in Nat /\ k >= 1
      BY <2>4
    <3>4. k < imp'[i].at \/ (k = imp'[i].at /\ imp'[i].pc = "link")
      BY <2>2, <3>2, <3>3
    <3>5. k \in 1..imp'[i].at
      BY <2>4, <3>3, <3>4
    <3> QED BY <3>2, <3>4, <3>5
  <2>7. OwnIds'
    BY <2>1, <2>5, <2>6 DEF OwnIds
  <2>8. Written' \subseteq Written \cup (IF Insert(i) THEN {New(i)} ELSE {})
    <3>1. rows' \subseteq Written
      BY <2>3 DEF Written
    <3>2. \A j \in Imports \ {i} : imp'[j].rows \subseteq Written
      BY <2>1 DEF Written
    <3>3. imp[i].rows \subseteq Written
      BY DEF Written
    <3>4. imp'[i].rows \subseteq Written \cup (IF Insert(i) THEN {New(i)} ELSE {})
      BY <2>2, <3>3
    <3>5. Written' = rows' \cup UNION {imp'[j].rows : j \in Imports}
      BY DEF Written
    <3> QED BY <3>1, <3>2, <3>4, <3>5
  <2>9. OneRow'
    <3>1. CASE ~Insert(i)
      BY <2>8, <3>1 DEF OneRow
    <3>2. CASE Insert(i)
      <4>1. imp[i].pc = "insert" /\ imp[i].pc \in Looking
        BY <3>2 DEF Insert, Looking
      <4>2. New(i).id = <<i, imp[i].at>>
        BY <4>1, WroteType
      <4>3. \A r \in Written : r.id # New(i).id
        BY <4>1, <4>2, InsertFresh
      <4>4. \A r \in Written' : r \in Written \/ r = New(i)
        BY <2>8
      <4> QED BY <4>3, <4>4 DEF OneRow
    <3> QED BY <3>1, <3>2
  <2> QED BY <2>7, <2>9
<1>3. ASSUME NEW f \in Forms, FormStep(f) PROVE OwnIds' /\ OneRow'
  <2>1. /\ imp' = imp
        /\ \A g \in Forms \ {f} : form'[g] = form[g]
        /\ form'[f].pc # "idle"
        /\ Adds(f) \/ Rewrites \/ rows' = rows
    BY <1>3, FormRows
  <2>2. \A r \in rows : \A g \in Forms : r.id[1] = g => form'[g].pc # "idle"
    BY <2>1 DEF OwnIds
  <2>3. CASE rows' = rows
    BY <2>1, <2>2, <2>3 DEF OwnIds, OneRow, Written
  <2>4. CASE Adds(f)
    <3>1. PICK new \in Rows : new.id = <<f, 0>> /\ rows' = rows \cup {new}
      BY <2>4 DEF Adds
    <3>2. /\ \A i \in Imports : new.id[1] = i => imp'[i].pc = "done"
          /\ \A g \in Forms : new.id[1] = g => form'[g].pc # "idle"
      BY <2>1, <3>1, CurriculumAssumption
    <3>3. OwnIds'
      BY <2>1, <2>2, <3>1, <3>2 DEF OwnIds
    <3>4. \A r \in Written : r.id # new.id
      BY <2>4, <3>1, FormFresh DEF Adds
    <3>5. \A r \in Written' : r \in Written \/ r = new
      BY <2>1, <3>1 DEF Written
    <3> QED BY <3>3, <3>4, <3>5 DEF OneRow
  <2>5. CASE Rewrites
    <3>1. PICK r \in rows, u \in Rows : rows' = (rows \ {r}) \cup {u} /\ u.id = r.id
      BY <2>5 DEF Rewrites
    <3>2. OwnIds'
      BY <2>1, <2>2, <3>1 DEF OwnIds
    <3>3. \A i \in Imports : r \notin imp[i].rows
      <4> SUFFICES ASSUME NEW i \in Imports, r \in imp[i].rows PROVE FALSE
        OBVIOUS
      <4>1. r.id[1] = i
        BY DEF OwnIds
      <4>2. imp[i].pc = "done"
        BY <4>1 DEF OwnIds
      <4> QED BY <4>2 DEF Typed, WellFormed, Ended
    <3>4. \A s \in Written' : s = u \/ (s \in Written /\ s # r)
      BY <2>1, <3>1, <3>3 DEF Written
    <3>5. r \in Written
      BY DEF Written
    <3>6. OneRow'
      BY <3>1, <3>4, <3>5 DEF OneRow
    <3> QED BY <3>2, <3>6
  <2> QED BY <2>1, <2>3, <2>4, <2>5
<1> QED BY <1>1, <1>2, <1>3 DEF Next, FormStep

-----------------------------------------------------------------------------
(* What refers to a row has it. *)

LEMMA WholeUnion ==
  ASSUME NEW S, NEW T, NEW L, NEW M, Whole(S, L), Whole(T, M)
  PROVE  Whole(S \cup T, L \cup M)
BY DEF Whole, HasRow

LEMMA HasRowKept ==
  ASSUME NEW S, NEW T, NEW e, NEW f, Kept(S, T, e, f), NEW kind, NEW id, HasRow(S, kind, id)
  PROVE  HasRow(T, kind, id)
BY DEF Kept, HasRow

(* What the import knows of the unit of a lesson, and of a pair, is enough. *)
LEMMA UnitKnown ==
  ASSUME Typed, NEW i \in Imports, imp[i].pc \in Looking, Entry(i).kind = "lesson",
         NEW S, NEW L, NEW e, Known(i, imp[i], S, L, e)
  PROVE  HasRow(S, "unit", imp[i].unit)
<1> DEFINE k == imp[i].at
<1>1. k \in DOMAIN Script[i] /\ Entry(i) = Script[i][k]
  BY EntryType DEF Entry
<1>2. \E j \in 1..(k - 1) : Script[i][j].kind = "unit"
  BY <1>1, NestedEntry
<1>3. \E j \in 1..(k - 1) : IsAbove(i, j, k, "unit") /\ UnitAt(S, e, imp[i].unit, i, j)
  BY <1>2 DEF Known
<1> QED BY <1>3 DEF IsAbove, UnitAt, Fits, HasRow

LEMMA PairKnown ==
  ASSUME Typed, NEW i \in Imports, imp[i].pc = "link",
         NEW S, NEW L, NEW e, Known(i, imp[i], S, L, e)
  PROVE  HasRow(S, "lesson", imp[i].lesson) /\ HasRow(S, "skill", imp[i].skill)
<1> DEFINE k == imp[i].at
<1>1. k \in DOMAIN Script[i]
  BY EntryType DEF Looking
<1>2. Script[i][k].kind = "skill" /\ SkillAt(S, e, imp[i].skill, i, k)
  BY DEF Known
<1>3. PICK j \in 1..(k - 1) : /\ Script[i][j].kind = "lesson"
                              /\ \A n \in (j + 1)..(k - 1) : Script[i][n].kind = "skill"
  BY <1>1, <1>2, NestedEntry
<1>4. LessonAt(S, e, imp[i].lesson, i, j)
  BY <1>3 DEF Known
<1>5. HasRow(S, "skill", imp[i].skill)
  BY <1>2 DEF SkillAt, Fits, HasRow
<1>6. HasRow(S, "lesson", imp[i].lesson)
  BY <1>3, <1>4 DEF LessonAt, Fits, HasRow
<1> QED BY <1>5, <1>6

LEMMA OwnStepWhole ==
  ASSUME Typed, AllKnown, AllWhole, NEW i \in Imports, ImportBookAnalysis(i)
  PROVE  Whole(Seen(i)', (links \cup imp[i].links)')
<1> DEFINE S == Seen(i)
           L == links \cup imp[i].links
<1>1. /\ imp \in [Imports -> Requests] /\ imp[i] \in Requests
      /\ Known(i, imp[i], S, L, Named) /\ Whole(S, L) /\ Whole(rows, links)
  BY DEF Typed, AllKnown, AllWhole
<1>2. CASE Begin(i) \/ ReadOrder(i) \/ Mark(i)
  <2>1. imp'[i].rows = imp[i].rows /\ imp'[i].links = imp[i].links
    <3>1. CASE ReadOrder(i)
      <4>1. PICK n \in NextOrder(i) :
              imp' = [imp EXCEPT ![i].order = n, ![i].pc = "insert"]
        BY <3>1 DEF ReadOrder
      <4> QED BY <1>1, <4>1 DEF Requests
    <3>2. CASE Begin(i)
      BY <1>1, <3>2 DEF Begin, Requests
    <3>3. CASE Mark(i)
      BY <1>1, <3>3 DEF Mark, Requests
    <3> QED BY <1>2, <3>1, <3>2, <3>3
  <2>2. Seen(i)' = S /\ (links \cup imp[i].links)' = L
    BY <1>2, <2>1 DEF Begin, ReadOrder, Mark, Seen
  <2> QED BY <1>1, <2>2
<1>3. CASE Find(i)
  <2>1. imp'[i].rows = imp[i].rows /\ imp'[i].links = imp[i].links
    <3>1. CASE \E r \in Matching(i) : imp' = [imp EXCEPT ![i] = With(i, imp[i], r.id)]
      <4>1. PICK r \in Matching(i) : imp' = [imp EXCEPT ![i] = With(i, imp[i], r.id)]
        BY <3>1
      <4>2. r.id \in Ids /\ imp[i].pc \in Looking
        BY <1>1, <1>3 DEF Find, Looking, Matching, Siblings, Seen, Typed, Requests, Rows
      <4>3. imp'[i] = With(i, imp[i], r.id)
        BY <1>1, <4>1
      <4> QED BY <1>1, <4>2, <4>3, WithType
    <3>2. CASE imp' = [imp EXCEPT ![i].pc = IF Entry(i).kind = "skill" THEN "insert" ELSE "max"]
      BY <1>1, <3>2 DEF Requests
    <3> QED BY <1>3, <3>1, <3>2 DEF Find
  <2>2. Seen(i)' = S /\ (links \cup imp[i].links)' = L
    BY <1>3, <2>1 DEF Find, Seen
  <2> QED BY <1>1, <2>2
<1>4. CASE Insert(i)
  <2>1. imp[i].pc \in Looking
    BY <1>4 DEF Insert, Looking
  <2> DEFINE p == With(i, Wrote(i), <<i, imp[i].at>>)
             T == S \cup {New(i)}
  <2>2. imp'[i] = p
    BY <1>1, <1>4 DEF Insert, Wrote, New
  <2>3. p.rows = imp[i].rows \cup {New(i)} /\ p.links = imp[i].links
    BY <2>1, WroteType, WithType
  <2>4. Seen(i)' = T /\ (links \cup imp[i].links)' = L
    BY <1>4, <2>2, <2>3 DEF Insert, Seen
  <2>5. New(i).kind = Entry(i).kind /\ New(i).parent = Parent(i)
    BY <2>1, WroteType
  <2> HIDE DEF S, L, p
  <2>6. New(i).kind = "lesson" => HasRow(S, "unit", New(i).parent)
    BY <1>1, <2>1, <2>5, UnitKnown DEF Parent
  <2>7. Whole(T, L)
    BY <1>1, <2>6 DEF Whole, HasRow
  <2> QED BY <2>4, <2>7
<1>5. CASE Link(i)
  <2>1. imp[i].pc \in Looking /\ imp[i].pc = "link"
    BY <1>5 DEF Link, Looking
  <2> DEFINE p == Advance(i, Linked(i))
             M == L \cup ({Pair(i)} \ links)
  <2>2. imp'[i] = p
    BY <1>1, <1>5 DEF Link, Linked
  <2>3. p.rows = imp[i].rows /\ p.links = imp[i].links \cup ({Pair(i)} \ links)
    BY <2>1, LinkedType, AdvanceType
  <2>4. Seen(i)' = S /\ (links \cup imp[i].links)' = M
    BY <1>5, <2>2, <2>3 DEF Link, Seen
  <2> HIDE DEF S, L
  <2>5. HasRow(S, "lesson", imp[i].lesson) /\ HasRow(S, "skill", imp[i].skill)
    BY <1>1, <2>1, PairKnown
  <2>6. Pair(i)[1] = imp[i].lesson /\ Pair(i)[2] = imp[i].skill
    BY DEF Pair
  <2>7. Whole(S, M)
    BY <1>1, <2>5, <2>6 DEF Whole
  <2> QED BY <2>4, <2>7
<1>6. CASE Commit(i)
  <2>1. imp'[i].rows = {} /\ imp'[i].links = {}
    BY <1>1, <1>6 DEF Commit, Requests
  <2>2. Seen(i)' = S /\ (links \cup imp[i].links)' = L
    BY <1>6, <2>1 DEF Seen, Commit
  <2> QED BY <1>1, <2>2
<1>7. CASE Fail(i) \/ EndDeadlock(i)
  <2>1. imp'[i].rows = {} /\ imp'[i].links = {}
    BY <1>1, <1>7 DEF Fail, EndDeadlock, RollBack, NoImport
  <2>2. Seen(i)' = rows /\ (links \cup imp[i].links)' = links
    BY <1>7, <2>1 DEF Seen, Fail, EndDeadlock
  <2> QED BY <1>1, <2>2
<1> QED BY <1>2, <1>3, <1>4, <1>5, <1>6, <1>7 DEF ImportBookAnalysis

(* What a form links is there, and so is what it is going to link.          *)
LEMMA FormLinks ==
  ASSUME Typed, AllWhole, NEW f \in Forms, FormStep(f)
  PROVE  /\ \A p \in links' \ links : HasRow(rows, "lesson", p[1]) /\ HasRow(rows, "skill", p[2])
         /\ form'[f].pc = "link" =>
              HasRow(rows', "lesson", form'[f].lesson) /\ HasRow(rows', "skill", form'[f].skill)
<1>1. form \in [Forms -> Sheets]
  BY DEF Typed
<1>2. \A p \in links' \ links : HasRow(rows, "lesson", p[1]) /\ HasRow(rows, "skill", p[2])
  <2>1. CASE LinkForm(f)
    <3> SUFFICES ASSUME NEW p \in links' \ links
                 PROVE  HasRow(rows, "lesson", p[1]) /\ HasRow(rows, "skill", p[2])
      OBVIOUS
    <3>1. p = <<form[f].lesson, form[f].skill>> /\ form[f].pc = "link"
      BY <2>1 DEF LinkForm
    <3>2. p[1] = form[f].lesson /\ p[2] = form[f].skill
      BY <3>1
    <3> QED BY <3>1, <3>2 DEF AllWhole
  <2>2. CASE links' = links
    BY <2>2
  <2> QED BY <2>1, <2>2 DEF FormStep, CreateUnit, CreateLesson, CreateSkill, UpdateUnit,
            UpdateLesson, UpdateSkill, LinkFails
<1>3. CASE form' = [form EXCEPT ![f].pc = "done"]
  BY <1>1, <1>2, <1>3 DEF Sheets
<1>4. \A kind, id : HasRow(rows, kind, id) => HasRow(rows', kind, id)
  <2>1. Kept(rows \cup {}, rows' \cup {}, Named, Named')
    BY FormKeepsRows
  <2>2. rows \cup {} = rows /\ rows' \cup {} = rows'
    OBVIOUS
  <2> QED BY <2>1, <2>2, HasRowKept
<1>5. ASSUME NEW skill, LinkNext(f, skill), HasRow(rows', "skill", skill)
      PROVE  form'[f].pc = "link" =>
               HasRow(rows', "lesson", form'[f].lesson) /\ HasRow(rows', "skill", form'[f].skill)
  <2>1. CASE \E l \in rows :
               /\ l.kind = "lesson"
               /\ form' = [form EXCEPT ![f] = [pc |-> "link", lesson |-> l.id, skill |-> skill]]
    <3>1. PICK l \in rows :
            /\ l.kind = "lesson"
            /\ form' = [form EXCEPT ![f] = [pc |-> "link", lesson |-> l.id, skill |-> skill]]
      BY <2>1
    <3>2. form'[f].lesson = l.id /\ form'[f].skill = skill
      BY <1>1, <3>1
    <3>3. HasRow(rows, "lesson", l.id)
      BY <3>1 DEF HasRow
    <3> QED BY <1>4, <1>5, <3>2, <3>3
  <2> QED BY <1>3, <1>5, <2>1 DEF LinkNext
<1>6. CASE CreateSkill(f)
  <2>1. PICK name \in FormNames : rows' = rows \cup {Row(<<f, 0>>, "skill", <<>>, name, 0)}
    BY <1>6 DEF CreateSkill
  <2> DEFINE new == Row(<<f, 0>>, "skill", <<>>, name, 0)
  <2>3. new.kind = "skill" /\ new.id = <<f, 0>> /\ rows' = rows \cup {new}
    BY <2>1 DEF Row
  <2> HIDE DEF new
  <2>2. HasRow(rows', "skill", <<f, 0>>)
    BY <2>3 DEF HasRow
  <2> QED BY <1>2, <1>5, <1>6, <2>2 DEF CreateSkill
<1>7. CASE UpdateSkill(f)
  <2>1. PICK r \in rows : r.kind = "skill" /\ LinkNext(f, r.id)
    BY <1>7 DEF UpdateSkill
  <2>2. HasRow(rows, "skill", r.id)
    BY <2>1 DEF HasRow
  <2> QED BY <1>2, <1>4, <1>5, <2>1, <2>2
<1> QED BY <1>2, <1>3, <1>6, <1>7 DEF FormStep, CreateUnit, CreateLesson, UpdateUnit, UpdateLesson,
          LinkForm, LinkFails

(* A form keeps whole what was: the rows with W, whatever W adds.           *)
LEMMA FormWhole ==
  ASSUME Typed, AllWhole, NEW f \in Forms, FormStep(f), NEW W, NEW V,
         Whole(rows \cup W, links \cup V)
  PROVE  Whole(rows' \cup W, links' \cup V)
<1>1. \A kind, id : HasRow(rows \cup W, kind, id) => HasRow(rows' \cup W, kind, id)
  <2>1. Kept(rows \cup W, rows' \cup W, Named, Named')
    BY FormKeepsRows
  <2> QED BY <2>1, HasRowKept
<1>2. \A p \in links' \cup V : HasRow(rows \cup W, "lesson", p[1]) /\ HasRow(rows \cup W, "skill", p[2])
  <2>1. \A p \in links' \ links : HasRow(rows, "lesson", p[1]) /\ HasRow(rows, "skill", p[2])
    BY FormLinks
  <2> QED BY <2>1 DEF Whole, HasRow
<1>3. \A r \in rows' \cup W : r.kind = "lesson" => HasRow(rows \cup W, "unit", r.parent)
  <2>1. CASE rows' = rows
    BY <2>1 DEF Whole
  <2>2. CASE Adds(f)
    BY <2>2 DEF Adds, Whole, HasRow
  <2>3. CASE Rewrites
    BY <2>3 DEF Rewrites, Whole
  <2> QED BY <2>1, <2>2, <2>3, FormRows
<1> QED BY <1>1, <1>2, <1>3 DEF Whole

LEMMA InitWhole == Init => AllWhole
<1> SUFFICES ASSUME Init PROVE AllWhole
  OBVIOUS
<1>1. rows = Seeded /\ links = {} /\ \A i \in Imports : imp[i].rows = {} /\ imp[i].links = {}
  BY DEF Init, NoImport
<1>2. Whole(Seeded, {})
  BY SeededAssumption DEF Whole, HasRow
<1>3. \A i \in Imports : Seen(i) = Seeded /\ links \cup imp[i].links = {}
  BY <1>1 DEF Seen
<1>4. \A f \in Forms : form[f].pc # "link"
  BY DEF Init, NoForm
<1> QED BY <1>1, <1>2, <1>3, <1>4 DEF AllWhole

LEMMA WholeKeeps == Typed /\ AllKnown /\ AllWhole /\ [Next]_vars => AllWhole'
<1> SUFFICES ASSUME Typed, AllKnown, AllWhole, [Next]_vars PROVE AllWhole'
  OBVIOUS
<1>1. CASE UNCHANGED vars
  BY <1>1 DEF vars, AllWhole, Seen
<1>2. ASSUME NEW i \in Imports, ImportBookAnalysis(i) PROVE AllWhole'
  <2>1. /\ \A j \in Imports \ {i} : imp'[j] = imp[j]
        /\ form' = form
    BY <1>2, StepOfImport DEF Elsewhere
  <2>2. \/ rows' = rows /\ links' = links
        \/ rows' = rows \cup imp[i].rows /\ links' = links \cup imp[i].links
    BY <1>2, StepOfImport DEF Commit
  <2>3. Whole(rows', links')
    BY <2>2 DEF AllWhole, Seen
  <2>4. ASSUME NEW j \in Imports \ {i} PROVE Whole(Seen(j)', (links \cup imp[j].links)')
    <3> DEFINE S == Seen(j)
               L == links \cup imp[j].links
               T == Seen(i)
               M == links \cup imp[i].links
    <3>1. Whole(S, L) /\ Whole(T, M)
      BY DEF AllWhole
    <3>2. \/ Seen(j)' = S /\ (links \cup imp[j].links)' = L
          \/ Seen(j)' = S \cup T /\ (links \cup imp[j].links)' = L \cup M
      BY <2>1, <2>2 DEF Seen
    <3> HIDE DEF S, L, T, M
    <3>3. Whole(S \cup T, L \cup M)
      BY <3>1, WholeUnion
    <3> QED BY <3>1, <3>2, <3>3
  <2>5. Whole(Seen(i)', (links \cup imp[i].links)')
    BY <1>2, OwnStepWhole
  <2>6. \A f \in Forms : form'[f].pc = "link" =>
          HasRow(rows', "lesson", form'[f].lesson) /\ HasRow(rows', "skill", form'[f].skill)
    BY <2>1, <2>2 DEF AllWhole, HasRow
  <2> QED BY <2>3, <2>4, <2>5, <2>6 DEF AllWhole
<1>3. ASSUME NEW f \in Forms, FormStep(f) PROVE AllWhole'
  <2>1. imp' = imp /\ \A g \in Forms \ {f} : form'[g] = form[g]
    BY <1>3, FormRows
  <2>2. Whole(rows', links')
    <3>1. rows \cup {} = rows /\ rows' \cup {} = rows' /\ links \cup {} = links
          /\ links' \cup {} = links'
      OBVIOUS
    <3>2. Whole(rows \cup {}, links \cup {})
      BY <3>1 DEF AllWhole
    <3>3. Whole(rows' \cup {}, links' \cup {})
      BY <1>3, <3>2, FormWhole
    <3> QED BY <3>1, <3>3
  <2>3. ASSUME NEW j \in Imports PROVE Whole(Seen(j)', (links \cup imp[j].links)')
    <3>1. Whole(rows \cup imp[j].rows, links \cup imp[j].links)
      BY DEF AllWhole, Seen
    <3>2. Whole(rows' \cup imp[j].rows, links' \cup imp[j].links)
      BY <1>3, <3>1, FormWhole
    <3> QED BY <2>1, <3>2 DEF Seen
  <2>4. \A kind, id : HasRow(rows, kind, id) => HasRow(rows', kind, id)
    <3>1. Kept(rows \cup {}, rows' \cup {}, Named, Named')
      BY <1>3, FormKeepsRows
    <3>2. rows \cup {} = rows /\ rows' \cup {} = rows'
      OBVIOUS
    <3> QED BY <3>1, <3>2, HasRowKept
  <2>5. \A g \in Forms : form'[g].pc = "link" =>
          HasRow(rows', "lesson", form'[g].lesson) /\ HasRow(rows', "skill", form'[g].skill)
    BY <1>3, <2>1, <2>4, FormLinks DEF AllWhole
  <2> QED BY <2>2, <2>3, <2>5 DEF AllWhole
<1> QED BY <1>1, <1>2, <1>3 DEF Next, FormStep

-----------------------------------------------------------------------------
(* An import that comes again. *)

(* An import with the same structure had ended when this one began.         *)
LikeBefore(i) ==
  \E j \in imp[i].after : Script[i] = Script[j] /\ SubjectOf[i] = SubjectOf[j]

(* Then it finds all it looks for, so that it writes no row.                *)
AfterEnded == \A i \in Imports : \A j \in imp[i].after : imp[j].pc = "done"
Idempotent ==
  \A i \in Imports : LikeBefore(i) =>
    imp[i].created = 0 /\ imp[i].rows = {} /\ imp[i].pc \notin {"max", "insert"}
Repeats == AfterEnded /\ (Unambiguous /\ disturbed = {} => Idempotent)

(* What a step of an import does to what it has counted and seen ended.     *)
LEMMA AfterOfStep ==
  ASSUME Typed, NEW i \in Imports, ImportBookAnalysis(i)
  PROVE  \/ /\ Begin(i) /\ imp'[i].after = {j \in Imports : imp[j].pc = "done"}
            /\ imp'[i].created = 0 /\ imp'[i].rows = {} /\ imp'[i].pc \notin {"max", "insert"}
         \/ imp'[i].after = {}
         \/ Insert(i) /\ imp'[i].after = imp[i].after
         \/ Find(i) /\ Matching(i) = {} /\ imp'[i].after = imp[i].after
         \/ /\ imp'[i].after = imp[i].after /\ imp'[i].created = imp[i].created
            /\ imp'[i].rows \subseteq imp[i].rows
            /\ imp'[i].pc \in {"max", "insert"} => imp[i].pc \in {"max", "insert"}
<1>1. imp \in [Imports -> Requests] /\ imp[i] \in Requests /\ WellFormed(i, imp[i])
  BY DEF Typed
<1>2. CASE Begin(i)
  <2>1. imp[i].created = 0 /\ imp[i].rows = {}
    BY <1>1, <1>2 DEF Begin, WellFormed, NoImport
  <2>2. /\ imp'[i].after = {j \in Imports : imp[j].pc = "done"}
        /\ imp'[i].created = imp[i].created /\ imp'[i].rows = imp[i].rows
        /\ imp'[i].pc \notin {"max", "insert"}
    BY <1>1, <1>2 DEF Begin, Requests
  <2> QED BY <1>2, <2>1, <2>2
<1>3. CASE Find(i)
  <2>1. CASE \E r \in Matching(i) : imp' = [imp EXCEPT ![i] = With(i, imp[i], r.id)]
    <3>1. PICK r \in Matching(i) : imp' = [imp EXCEPT ![i] = With(i, imp[i], r.id)]
      BY <2>1
    <3>2. r.id \in Ids /\ imp[i].pc \in Looking
      BY <1>1, <1>3 DEF Find, Looking, Matching, Siblings, Seen, Typed, Requests, Rows
    <3> DEFINE p == With(i, imp[i], r.id)
    <3>3. /\ imp'[i] = p /\ p.rows = imp[i].rows /\ p.after = imp[i].after
          /\ p.created = imp[i].created /\ p.pc \in {"find", "mark", "link"}
      BY <1>1, <3>1, <3>2, WithType
    <3> HIDE DEF p
    <3> QED BY <3>3
  <2>2. CASE /\ Matching(i) = {}
             /\ imp' = [imp EXCEPT ![i].pc = IF Entry(i).kind = "skill" THEN "insert" ELSE "max"]
    <3>1. imp'[i].after = imp[i].after
      BY <1>1, <2>2 DEF Requests
    <3> QED BY <1>3, <2>2, <3>1
  <2> QED BY <1>3, <2>1, <2>2 DEF Find
<1>4. CASE ReadOrder(i)
  <2>1. PICK n \in NextOrder(i) : imp' = [imp EXCEPT ![i].order = n, ![i].pc = "insert"]
    BY <1>4 DEF ReadOrder
  <2>2. /\ imp'[i].after = imp[i].after /\ imp'[i].created = imp[i].created
        /\ imp'[i].rows = imp[i].rows /\ imp[i].pc = "max"
    BY <1>1, <1>4, <2>1 DEF Requests, ReadOrder
  <2> QED BY <2>2
<1>5. CASE Insert(i)
  <2>1. imp[i].pc \in Looking
    BY <1>5 DEF Insert, Looking
  <2> DEFINE p == With(i, Wrote(i), <<i, imp[i].at>>)
  <2>2. imp'[i] = p
    BY <1>1, <1>5 DEF Insert, Wrote, New
  <2>3. p.after = imp[i].after
    BY <2>1, WroteType, WithType
  <2> HIDE DEF p
  <2> QED BY <1>5, <2>2, <2>3
<1>6. CASE Link(i)
  <2>1. imp[i].pc \in Looking /\ imp[i].pc = "link"
    BY <1>6 DEF Link, Looking
  <2> DEFINE p == Advance(i, Linked(i))
  <2>2. imp'[i] = p
    BY <1>1, <1>6 DEF Link, Linked
  <2>3. /\ p.rows = imp[i].rows /\ p.after = imp[i].after /\ p.created = imp[i].created
        /\ p.pc \in {"find", "mark"}
    BY <2>1, LinkedType, AdvanceType
  <2> HIDE DEF p
  <2> QED BY <2>2, <2>3
<1>7. CASE Mark(i)
  <2>1. /\ imp'[i].after = imp[i].after /\ imp'[i].created = imp[i].created
        /\ imp'[i].rows = imp[i].rows /\ imp'[i].pc = "commit"
    BY <1>1, <1>7 DEF Mark, Requests
  <2> QED BY <2>1
<1>8. CASE Commit(i)
  <2>1. /\ imp'[i].after = imp[i].after /\ imp'[i].created = imp[i].created
        /\ imp'[i].rows = {} /\ imp'[i].pc = "done"
    BY <1>1, <1>8 DEF Commit, Requests
  <2> QED BY <2>1
<1>9. CASE Fail(i) \/ EndDeadlock(i)
  <2>1. imp'[i].after = {}
    BY <1>1, <1>9 DEF Fail, EndDeadlock, RollBack, NoImport
  <2> QED BY <2>1
<1> QED BY <1>2, <1>3, <1>4, <1>5, <1>6, <1>7, <1>8, <1>9 DEF ImportBookAnalysis

(* The nearest entry above is one entry.                                    *)
LEMMA AboveUnique ==
  ASSUME NEW i, NEW k \in Nat, NEW kind, NEW j, NEW n, IsAbove(i, j, k, kind),
         IsAbove(i, n, k, kind)
  PROVE  j = n
BY DEF IsAbove

(* What the import before has put in its place, this one finds: the unit it *)
(* is in is the unit that the other has put there, for no two siblings have *)
(* one name if no two of those there were had one.                          *)
LEMMA FindsAgain ==
  ASSUME Typed, AllKnown, Unambiguous, Calm, Named, NEW i \in Imports, imp[i].pc = "find",
         imp[i].rows = {}, NEW j \in Imports, imp[j].pc = "done",
         Script[i] = Script[j], SubjectOf[i] = SubjectOf[j]
  PROVE  Matching(i) # {}
<1> DEFINE k == imp[i].at
<1>1. /\ k \in 1..Len(Script[i]) /\ k \in DOMAIN Script[i] /\ Len(Script[i]) \in Nat
      /\ Entry(i) = Script[i][k] /\ Entry(i).kind \in Kinds
  BY EntryType DEF Looking, Entry
<1>2. imp[j].at = Len(Script[i]) + 1 /\ imp[j].rows = {} /\ imp[j].links = {}
  BY DEF Typed, WellFormed, Ended
<1>3. Seen(i) = rows /\ Seen(j) = rows /\ Named = TRUE
  BY <1>2 DEF Seen, Named
<1>4. \A n \in 1..Len(Script[i]) : PlacedAt(rows, links, TRUE, j, n)
  <2>1. Known(j, imp[j], rows, links, TRUE)
    <3>1. Known(j, imp[j], Seen(j), links \cup imp[j].links, Named)
      BY DEF AllKnown
    <3>2. links \cup imp[j].links = links
      BY <1>2
    <3> QED BY <1>3, <3>1, <3>2
  <2>2. imp[j].at - 1 = Len(Script[i])
    BY <1>1, <1>2
  <2> QED BY <2>1, <2>2 DEF Known
<1>5. PlacedAt(rows, links, TRUE, j, k)
  BY <1>1, <1>4
<1> SUFFICES \E r \in rows : r.parent = Parent(i) /\ Fits(r, TRUE, j, k)
  <2>1. \A r : Fits(r, TRUE, j, k) => r.kind = Entry(i).kind /\ <<r.name, Entry(i).name>> \in Like
    <3>1. Entry(i).name \in ScriptNames
      BY EntryType DEF Looking
    <3> QED BY <1>1, <3>1 DEF Fits, Unambiguous, MatchesItself
  <2> QED BY <1>3, <2>1 DEF Matching, Siblings
<1>6. CASE Entry(i).kind = "unit"
  BY <1>1, <1>5, <1>6 DEF PlacedAt, UnitAt, Parent
<1>7. CASE Entry(i).kind = "skill"
  BY <1>1, <1>5, <1>7 DEF PlacedAt, SkillAt, Parent
<1>8. CASE Entry(i).kind = "lesson"
  <2>1. PICK l \in rows : LessonAt(rows, TRUE, l.id, j, k)
    BY <1>1, <1>5, <1>8 DEF PlacedAt
  <2>2. PICK r \in rows :
          /\ Fits(r, TRUE, j, k)
          /\ \E n \in 1..(k - 1) : IsAbove(j, n, k, "unit") /\ UnitAt(rows, TRUE, r.parent, j, n)
    BY <2>1 DEF LessonAt
  <2>3. PICK n \in 1..(k - 1) : IsAbove(j, n, k, "unit") /\ UnitAt(rows, TRUE, r.parent, j, n)
    BY <2>2
  <2>4. Known(i, imp[i], rows, links \cup imp[i].links, TRUE)
    BY <1>3 DEF AllKnown
  <2>5. \E m \in 1..(k - 1) : Script[i][m].kind = "unit"
    BY <1>1, <1>8, NestedEntry
  <2>6. PICK m \in 1..(k - 1) : IsAbove(i, m, k, "unit") /\ UnitAt(rows, TRUE, imp[i].unit, i, m)
    BY <2>4, <2>5 DEF Known
  <2>7. m = n
    <3>1. IsAbove(i, n, k, "unit")
      BY <2>3 DEF IsAbove
    <3> QED BY <1>1, <2>6, <3>1, AboveUnique
  <2>8. PICK u \in rows : u.id = r.parent /\ Fits(u, TRUE, j, n) /\ u.parent = Root(SubjectOf[j])
    BY <2>3 DEF UnitAt
  <2>9. PICK v \in rows :
          v.id = imp[i].unit /\ Fits(v, TRUE, i, n) /\ v.parent = Root(SubjectOf[i])
    BY <2>6, <2>7 DEF UnitAt
  <2>10. Together(u, v) /\ u.name = v.name
    BY <2>8, <2>9 DEF Fits, Together, Unambiguous, Exact
  <2>11. NamesDiffer(Seeded) /\ InsertedDistinct(rows)
    BY DEF Unambiguous, Calm, SeenDistinct
  <2>12. u = v
    <3>1. CASE u \in Seeded /\ v \in Seeded
      BY <2>10, <2>11, <3>1 DEF NamesDiffer
    <3>2. CASE u \notin Seeded
      BY <2>10, <2>11, <3>2 DEF InsertedDistinct, Distinct
    <3>3. CASE v \notin Seeded
      BY <2>10, <2>11, <3>3 DEF InsertedDistinct, Distinct, Together
    <3> QED BY <3>1, <3>2, <3>3
  <2>13. r.parent = Parent(i)
    BY <1>8, <2>8, <2>9, <2>12 DEF Parent
  <2> QED BY <2>2, <2>13
<1> QED BY <1>1, <1>6, <1>7, <1>8 DEF Kinds

LEMMA InitRepeats == Init => Repeats
<1> SUFFICES ASSUME Init PROVE Repeats
  OBVIOUS
<1>1. \A i \in Imports : imp[i].after = {}
  BY DEF Init, NoImport
<1> QED BY <1>1 DEF Repeats, AfterEnded, Idempotent, LikeBefore

LEMMA AfterKeeps ==
  ASSUME Typed, AfterEnded, NEW i \in Imports, ImportBookAnalysis(i)
  PROVE  AfterEnded'
<1>1. imp[i].pc # "done" /\ \A j \in Imports \ {i} : imp'[j] = imp[j]
  BY RowsOfStep, StepOfImport DEF Elsewhere
<1>2. /\ imp'[i].after = {j \in Imports : imp[j].pc = "done"} \/ imp'[i].after = {}
         \/ imp'[i].after = imp[i].after
      /\ \A j \in Imports : imp[j].after \subseteq Imports
  BY AfterOfStep DEF Typed, Requests
<1>3. \A j \in Imports : imp[j].pc = "done" => imp'[j].pc = "done"
  BY <1>1
<1>4. \A j \in imp'[i].after : j \in Imports /\ imp[j].pc = "done"
  BY <1>2 DEF AfterEnded
<1>5. \A j \in Imports \ {i} : \A n \in imp'[j].after : n \in Imports /\ imp[n].pc = "done"
  BY <1>1, <1>2 DEF AfterEnded
<1> QED BY <1>3, <1>4, <1>5 DEF AfterEnded

LEMMA IdempotentKeeps ==
  ASSUME Typed, AllKnown, Calm, Unambiguous, disturbed = {}, AfterEnded, Idempotent,
         NEW i \in Imports, ImportBookAnalysis(i)
  PROVE  Idempotent'
<1>1. \A j \in Imports \ {i} : imp'[j] = imp[j]
  BY StepOfImport DEF Elsewhere
<1>2. \A j \in Imports \ {i} : LikeBefore(j)' => LikeBefore(j)
  BY <1>1 DEF LikeBefore
<1>3. ASSUME LikeBefore(i)'
      PROVE  imp'[i].created = 0 /\ imp'[i].rows = {} /\ imp'[i].pc \notin {"max", "insert"}
  <2>1. CASE Begin(i) \/ imp'[i].after = {}
    <3>1. imp'[i].after # {}
      BY <1>3 DEF LikeBefore
    <3>2. CASE Begin(i)
      <4>1. imp[i].pc = "idle" /\ imp[i].after = {}
        BY <3>2 DEF Begin, Typed, WellFormed, NoImport
      <4> QED BY <3>1, <4>1, AfterOfStep DEF Insert, Find
    <3> QED BY <2>1, <3>1, <3>2
  <2>2. CASE ~Begin(i) /\ imp'[i].after # {}
    <3>1. imp'[i].after = imp[i].after
      BY <2>2, AfterOfStep
    <3>2. LikeBefore(i)
      BY <1>3, <3>1 DEF LikeBefore
    <3>3. imp[i].created = 0 /\ imp[i].rows = {} /\ imp[i].pc \notin {"max", "insert"}
      BY <3>2 DEF Idempotent
    <3>4. ~Insert(i)
      BY <3>3 DEF Insert
    <3>5. ~(Find(i) /\ Matching(i) = {})
      <4>1. PICK j \in imp[i].after : Script[i] = Script[j] /\ SubjectOf[i] = SubjectOf[j]
        BY <3>2 DEF LikeBefore
      <4>2. j \in Imports /\ imp[j].pc = "done" /\ Named
        BY <4>1 DEF AfterEnded, Typed, Requests, Named
      <4> QED BY <3>3, <4>1, <4>2, FindsAgain DEF Find
    <3> QED BY <2>2, <3>3, <3>4, <3>5, AfterOfStep
  <2> QED BY <2>1, <2>2
<1> QED BY <1>1, <1>2, <1>3 DEF Idempotent

LEMMA RepeatsKeep == Typed /\ CInv /\ AllKnown /\ Repeats /\ [Next]_vars => Repeats'
<1> SUFFICES ASSUME Typed, CInv, AllKnown, Repeats, [Next]_vars PROVE Repeats'
  OBVIOUS
<1>1. CASE imp' = imp
  <2>1. AfterEnded' /\ (Idempotent => Idempotent')
    BY <1>1 DEF Repeats, AfterEnded, Idempotent, LikeBefore
  <2> QED BY <2>1, NoteGrows DEF Repeats, Unambiguous, Exact, MatchesItself, NamesDiffer
<1>2. CASE \E i \in Imports : ImportBookAnalysis(i)
  <2>1. PICK i \in Imports : ImportBookAnalysis(i)
    BY <1>2
  <2>2. AfterEnded'
    BY <2>1, AfterKeeps DEF Repeats
  <2>3. ASSUME Unambiguous, disturbed' = {} PROVE Idempotent'
    <3>1. disturbed = {} /\ Calm
      BY <2>3, NoteGrows DEF CInv, Unambiguous
    <3> QED BY <2>1, <2>3, <3>1, IdempotentKeeps DEF Repeats
  <2> QED BY <2>2, <2>3 DEF Repeats, Unambiguous, Exact, MatchesItself, NamesDiffer
<1>3. CASE \E f \in Forms : FormStep(f)
  BY <1>1, <1>3, FormRows
<1> QED BY <1>1, <1>2, <1>3 DEF Next, FormStep, vars

-----------------------------------------------------------------------------
(* The invariant, and what it implies. *)

IInv ==
  /\ Typed /\ CInv /\ AllKnown /\ OwnIds /\ OneRow /\ AllWhole
  /\ Repeats

LEMMA IInvInductive == (Init => IInv) /\ (IInv /\ [Next]_vars => IInv')
<1>1. Init => IInv
  BY InitTyped, InitCalm, InitKnown, InitIds, InitWhole, InitRepeats DEF IInv
<1>2. IInv /\ [Next]_vars => IInv'
  BY TypedKeeps, CalmKeeps, KnownKeeps, IdsKeep, WholeKeeps, RepeatsKeep DEF IInv
<1> QED BY <1>1, <1>2

LEMMA IInvAlways == Spec => []IInv
<1>1. (Init => IInv) /\ (IInv /\ [Next]_vars => IInv')
  BY IInvInductive
<1> QED BY <1>1, PTL DEF Spec

(* Whatever imports and forms do at once, and whichever of them fail: no row*)
(* is seen in two versions, no lesson without its unit, no link without its *)
(* lesson and its skill, committed or not.                                  *)
THEOREM RowsStayWhole == Spec => []TypeOK
<1>1. IInv => TypeOK
  <2> SUFFICES ASSUME IInv PROVE TypeOK
    OBVIOUS
  <2>1. /\ rows \subseteq Rows /\ imp \in [Imports -> Requests]
        /\ \A i \in Imports : WellFormed(i, imp[i])
        /\ disturbed \subseteq Reasons
    BY DEF IInv, Typed
  <2>2. Written \subseteq Rows /\ rows \subseteq Written
    BY <2>1 DEF Written, Requests
  <2>3. \A kind, id, S : S \subseteq Written /\ HasRow(S, kind, id) => id \in IdsOf(kind)
    BY DEF HasRow, IdsOf
  <2>4. \A r \in Written : r.kind = "lesson" => r.parent \in IdsOf("unit")
    <3> SUFFICES ASSUME NEW r \in Written, r.kind = "lesson" PROVE r.parent \in IdsOf("unit")
      OBVIOUS
    <3>1. CASE r \in rows
      BY <2>2, <2>3, <3>1 DEF IInv, AllWhole, Whole
    <3>2. CASE \E i \in Imports : r \in imp[i].rows
      <4>1. PICK i \in Imports : r \in imp[i].rows
        BY <3>2
      <4>2. Seen(i) \subseteq Written /\ r \in Seen(i)
        BY <4>1 DEF Seen, Written
      <4>3. HasRow(Seen(i), "unit", r.parent)
        BY <4>2 DEF IInv, AllWhole, Whole
      <4> QED BY <2>3, <4>2, <4>3
    <3> QED BY <3>1, <3>2 DEF Written
  <2>5. \A p \in links : p[1] \in IdsOf("lesson") /\ p[2] \in IdsOf("skill")
    BY <2>2, <2>3 DEF IInv, AllWhole, Whole
  <2>6. \A i \in Imports : imp[i].at \in 1..(Len(Script[i]) + 1)
    <3> SUFFICES ASSUME NEW i \in Imports PROVE imp[i].at \in 1..(Len(Script[i]) + 1)
      OBVIOUS
    <3>1. Len(Script[i]) \in Nat /\ DOMAIN Script[i] = 1..Len(Script[i])
      BY CurriculumAssumption
    <3>2. CASE imp[i].pc \in Looking
      BY <2>1, <3>1, <3>2 DEF WellFormed
    <3>3. CASE imp[i].pc \in {"mark", "commit", "done"}
      BY <2>1, <3>1, <3>3 DEF WellFormed
    <3>4. CASE imp[i].pc \in {"idle", "failed"}
      <4>1. imp[i].at = 1
        BY <2>1, <3>4 DEF WellFormed, NoImport
      <4> QED BY <3>1, <4>1
    <3>5. imp[i].pc \in Steps
      BY <2>1 DEF Requests
    <3> QED BY <3>2, <3>3, <3>4, <3>5 DEF Steps, Looking
  <2> QED BY <2>1, <2>2, <2>4, <2>5, <2>6 DEF TypeOK, Rows, IInv, OneRow
<1> QED BY <1>1, IInvAlways, PTL

(* What Above chooses is the entry that IsAbove describes.                  *)
LEMMA AboveIs ==
  ASSUME NEW i \in Imports, NEW k \in Nat, NEW kind, NEW j, IsAbove(i, j, k, kind)
  PROVE  Above(Script[i], k, kind) = j
<1> DEFINE P(n) == /\ Script[i][n].kind = kind
                   /\ \A m \in (n + 1)..(k - 1) : Script[i][m].kind # kind
<1>1. j \in 1..(k - 1) /\ P(j)
  BY DEF IsAbove
<1>2. Above(Script[i], k, kind) = CHOOSE n \in 1..(k - 1) : P(n)
  BY DEF Above
<1>3. \A n \in 1..(k - 1) : P(n) => n = j
  <2> SUFFICES ASSUME NEW n \in 1..(k - 1), P(n) PROVE n = j
    OBVIOUS
  <2>1. IsAbove(i, n, k, kind)
    BY DEF IsAbove
  <2> QED BY <2>1, AboveUnique
<1> HIDE DEF P
<1> QED BY <1>1, <1>2, <1>3

(* What is in its place by the ids is there by what TLC checks.             *)
LEMMA PlacedIs ==
  ASSUME NEW i \in Imports, NEW k \in DOMAIN Script[i], links \subseteq Ids \X Ids,
         PlacedAt(rows, links, TRUE, i, k)
  PROVE  Placed(i, k)
<1>1. k \in Nat /\ Script[i][k].kind \in Kinds
  <2>1. DOMAIN Script[i] = 1..Len(Script[i]) /\ Len(Script[i]) \in Nat
    BY CurriculumAssumption
  <2> QED BY <2>1, NestedEntry
<1>2. \A r, m : Fits(r, TRUE, i, m) <=> Holds(r, i, m)
  BY DEF Fits, Holds
<1>3. ASSUME NEW n \in Nat, NEW id, LessonAt(rows, TRUE, id, i, n)
      PROVE  \E l \in rows : l.id = id /\ Holds(l, i, n) /\ InUnit(l, i, n)
  <2>1. PICK l \in rows :
          /\ l.id = id /\ Fits(l, TRUE, i, n)
          /\ \E j \in 1..(n - 1) : IsAbove(i, j, n, "unit") /\ UnitAt(rows, TRUE, l.parent, i, j)
    BY <1>3 DEF LessonAt
  <2>2. PICK j \in 1..(n - 1) : IsAbove(i, j, n, "unit") /\ UnitAt(rows, TRUE, l.parent, i, j)
    BY <2>1
  <2>3. Above(Script[i], n, "unit") = j
    BY <2>2, AboveIs
  <2>4. InUnit(l, i, n)
    BY <1>2, <2>2, <2>3 DEF InUnit, UnitAt
  <2> QED BY <1>2, <2>1, <2>4
<1>4. CASE Script[i][k].kind = "unit"
  BY <1>2, <1>4 DEF PlacedAt, Placed, UnitAt
<1>5. CASE Script[i][k].kind = "lesson"
  BY <1>1, <1>3, <1>5 DEF PlacedAt, Placed
<1>6. CASE Script[i][k].kind = "skill"
  <2>1. PICK j \in 1..(k - 1) :
          /\ IsAbove(i, j, k, "lesson")
          /\ \E p \in links : LessonAt(rows, TRUE, p[1], i, j) /\ SkillAt(rows, TRUE, p[2], i, k)
    BY <1>6 DEF PlacedAt
  <2>2. PICK p \in links : LessonAt(rows, TRUE, p[1], i, j) /\ SkillAt(rows, TRUE, p[2], i, k)
    BY <2>1
  <2>3. Above(Script[i], k, "lesson") = j
    BY <1>1, <2>1, AboveIs
  <2> DEFINE a == p[1]
             b == p[2]
  <2>4. LessonAt(rows, TRUE, a, i, j) /\ SkillAt(rows, TRUE, b, i, k) /\ <<a, b>> \in links
    <3>1. p = <<a, b>>
      <4>1. p \in Ids \X Ids
        BY <2>2
      <4> HIDE <2>2
      <4> QED BY <4>1
    <3> QED BY <2>2, <3>1
  <2> HIDE DEF a, b
  <2>5. j \in Nat
    BY <1>1
  <2>6. PICK l \in rows : l.id = a /\ Holds(l, i, j) /\ InUnit(l, i, j)
    BY <1>3, <2>4, <2>5
  <2>7. PICK s \in rows : s.id = b /\ Holds(s, i, k)
    BY <1>2, <2>4 DEF SkillAt
  <2> QED BY <1>6, <2>3, <2>4, <2>6, <2>7 DEF Placed
<1> QED BY <1>1, <1>4, <1>5, <1>6 DEF Kinds

(* Whatever runs at once with it, and whichever imports fail: an import that*)
(* was acknowledged has put each name it carries where its structure has it,*)
(* and it stays there until somebody renames a row.                         *)
THEOREM ImportedStays == Spec => []ImportedIsThere
<1>1. IInv => ImportedIsThere
  <2> SUFFICES ASSUME IInv, Named, NEW i \in Imports, imp[i].pc = "done",
                      NEW k \in DOMAIN Script[i]
               PROVE  Placed(i, k)
    BY DEF ImportedIsThere, Named
  <2>1. imp[i].at = Len(Script[i]) + 1 /\ imp[i].rows = {} /\ imp[i].links = {}
    BY DEF IInv, Typed, WellFormed, Ended
  <2>2. k \in 1..(imp[i].at - 1)
    <3>1. DOMAIN Script[i] = 1..Len(Script[i]) /\ Len(Script[i]) \in Nat
      BY CurriculumAssumption
    <3> QED BY <2>1, <3>1
  <2>3. Known(i, imp[i], Seen(i), links \cup imp[i].links, Named)
    BY DEF IInv, AllKnown
  <2>4. Seen(i) = rows /\ links \cup imp[i].links = links /\ Named = TRUE
    BY <2>1 DEF Seen, Named
  <2>5. PlacedAt(rows, links, TRUE, i, k)
    BY <2>2, <2>3, <2>4 DEF Known
  <2> QED BY <2>5, PlacedIs DEF IInv, Typed
<1> QED BY <1>1, IInvAlways, PTL

(* An import of a structure that was imported before adds no row, while no  *)
(* import overlaps another and no form is sent, if names match themselves   *)
(* and no other, and no two siblings there were had one name: nothing in    *)
(* the schema ensures either.                                               *)
THEOREM ReimportIsEmpty == Spec => []ReimportAddsNothing
<1>1. IInv => ReimportAddsNothing
  BY DEF IInv, Repeats, Idempotent, LikeBefore, ReimportAddsNothing, Again
<1> QED BY <1>1, IInvAlways, PTL

(* Whatever rows there were, and whichever imports fail: if no two of them  *)
(* overlapped, no form was sent and names match themselves, a row that was  *)
(* inserted has the name of no sibling and, if it is a unit or a lesson,    *)
(* the order of none.                                                       *)
THEOREM SiblingsStayDistinct == Spec => []SiblingsDiffer
<1>1. Init => Typed /\ CInv
  BY InitTyped, InitCalm
<1>2. Typed /\ CInv /\ [Next]_vars => (Typed /\ CInv)'
  BY TypedKeeps, CalmKeeps
<1>3. CInv => SiblingsDiffer
  BY DEF CInv, Calm, SeenDistinct, SiblingsDiffer
<1> QED BY <1>1, <1>2, <1>3, PTL DEF Spec
=============================================================================
