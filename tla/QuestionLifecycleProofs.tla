---------------------- MODULE QuestionLifecycleProofs ----------------------
(***************************************************************************)
(* What happens to the content of the questions, for any number of         *)
(* questions, administrators and versions.                                 *)
(***************************************************************************)
EXTENDS QuestionLifecycle, FiniteSetTheorems, TLAPS

Slots(q) == 1..Latest(q)
Member(q) == \E m \in members : m[2] = q

(* The rows that are stored: each in one slot, and what was published or    *)
(* shown is among them.                                                     *)
Rows ==
  /\ published = publications /\ shown \subseteq published
  /\ published \subseteq StoredRows
  /\ \A q \in Questions : Latest(q) <= writes /\ \A n \in Slots(q) : versions[q][n] <= writes
  /\ \A q, p \in Questions : \A n \in Slots(q), m \in Slots(p) :
       versions[q][n] = versions[p][m] => q = p /\ n = m

(* A question that was ever published stays in a quiz, with a current       *)
(* version that was published.                                              *)
Lives ==
  /\ \A q \in Questions : Exists(q) <=> Latest(q) > 0
  /\ \A q \in Questions : status[q] = "absent" => current[q] = 1
  /\ \A q \in Questions : Exists(q) => current[q] <= Latest(q)
  /\ \A q \in Questions : status[q] = "published" => Member(q)
  /\ \A q \in Questions : status[q] = "approved" => q \in approved
  /\ \A q \in Questions : \A n \in Slots(q) : versions[q][n] \in published => Member(q)
  /\ \A q \in Questions : Member(q) =>
       Exists(q) /\ versions[q][current[q]] \in published /\ q \in approved

(* What a request knows of its question.  An Update that has written holds  *)
(* the slot of the latest version, unpublished, or the one after it.        *)
UpdateFits(r) ==
  /\ Exists(r.q) /\ r.row \in 1..writes /\ r.row \notin StoredRows /\ r.slot <= writes
  /\ r.new => r.slot = Latest(r.q) + 1 /\ versions[r.q][Latest(r.q)] \in published
  /\ ~r.new => r.slot = Latest(r.q) /\ versions[r.q][Latest(r.q)] \notin published
Fits(r) ==
  /\ r.pc # "idle" => status[r.q] # "absent"
  /\ r.pc \in {"version", "update"} /\ r.seen = "published" => Member(r.q)
  /\ r.pc = "version" /\ Exists(r.q) =>
       r.slot \in Slots(r.q) /\ (r.new => versions[r.q][r.slot] \in published)
  /\ r.pc = "update" => UpdateFits(r)
  /\ r.pc \in {"max", "mark", "set", "publish"} => r.q \in approved
  /\ r.pc = "mark" /\ Exists(r.q) => r.slot \in Slots(r.q)
  /\ r.pc \in {"set", "publish"} =>
       Exists(r.q) /\ r.slot \in Slots(r.q) /\ r.row = versions[r.q][r.slot]
  /\ r.pc = "publish" => r.quiz \in 0..quizzes

(* Locks: two requests hold different slots, and write different rows.      *)
Holding == {"update", "set", "publish"}
Apart(r, s) ==
  /\ r.pc \in Holding /\ s.pc \in Holding /\ r.q = s.q => r.slot # s.slot
  /\ r.pc = "update" /\ s.pc = "update" => r.row # s.row

(* Only requests that overlapped when there was no quiz create one each.    *)
Founders == {a \in Admins : req[a].pc = "publish" /\ req[a].quiz = 0}
QuizzesBounded ==
  /\ quizzes + Cardinality(Founders) <= Cardinality(Admins)
  /\ \A m \in members : m[1] <= quizzes

AllRequests == {Idle} \cup Updates \cup Publishes \cup Reviews
RequestsFit ==
  /\ \A a \in Admins : Fits(req[a])
  /\ \A a, b \in Admins : a # b => Apart(req[a], req[b])

IInv == TypeOK /\ Rows /\ Lives /\ OnlyLatestUnpublished /\ RequestsFit /\ QuizzesBounded

-----------------------------------------------------------------------------
(* The records of requests. *)
LEMMA RequestFields ==
  ASSUME NEW r \in AllRequests
  PROVE  /\ r.pc = "idle" => r = Idle
         /\ r.pc \in {"version", "update"} => r \in Updates
         /\ r.pc \in {"max", "mark", "set", "publish"} => r \in Publishes
         /\ r.pc = "record" => r \in Reviews
         /\ r.pc \in {"idle", "version", "update", "max", "mark", "set", "publish", "record"}
         /\ r.pc # "idle" => r.q \in Questions
BY DEF AllRequests, Idle, Updates, Publishes, Reviews

LEMMA RequestTyped ==
  ASSUME TypeOK
  PROVE  req \in [Admins -> AllRequests]
BY DEF TypeOK, AllRequests

LEMMA Decided ==
  ASSUME TypeOK, NEW q \in Questions
  PROVE  /\ Latest(q) \in Nat /\ versions[q] \in Seq(RowIds)
         /\ \A n \in Slots(q) : versions[q][n] \in RowIds /\ n \in Nat
BY DEF TypeOK, Latest, Slots

LEMMA StoredWhere ==
  ASSUME TypeOK, NEW row
  PROVE  row \in StoredRows <=> \E q \in Questions : \E n \in Slots(q) : row = versions[q][n]
<1>1. ASSUME NEW q \in Questions PROVE DOMAIN versions[q] = Slots(q)
  BY DEF TypeOK, Slots, Latest
<1>2. QED
  BY <1>1 DEF StoredRows, Range

LEMMA MemberInQuiz ==
  ASSUME TypeOK, NEW q \in Questions
  PROVE  Member(q) <=> InQuiz(q)
<1>1. members \subseteq Quizzes \X Questions
  BY DEF TypeOK
<1>2. ASSUME NEW m \in members PROVE m = <<m[1], m[2]>> /\ m[1] \in Quizzes
  BY <1>1
<1>3. QED
  BY <1>2 DEF Member, InQuiz

LEMMA FoundersFinite ==
  /\ IsFiniteSet(Founders) /\ Cardinality(Founders) \in Nat
  /\ Cardinality(Admins) \in Nat /\ Cardinality(Founders) <= Cardinality(Admins)
<1>1. Founders \in SUBSET Admins
  BY DEF Founders
<1>2. QED
  BY <1>1, FS_Subset, FS_CardinalityType, LifecycleAssumption

-----------------------------------------------------------------------------
(* Requests that read or wait move nobody's knowledge.                      *)

Same == /\ UNCHANGED <<question, published, publications, quizzes, members, history>>
        /\ decided' \in SUBSET Questions

LEMMA SameTables ==
  ASSUME IInv, UNCHANGED <<question, publication, history>>
  PROVE  Same
BY DEF IInv, TypeOK, Same, publication

LEMMA FitsWithMoreWrites ==
  ASSUME IInv, Same, writes' \in {writes, writes + 1},
         NEW r \in AllRequests, Fits(r)
  PROVE  Fits(r)'
<1>1. writes \in Nat
  BY LifecycleAssumption DEF IInv, TypeOK
<1>2. ASSUME r.pc = "update", UpdateFits(r) PROVE UpdateFits(r)'
  <2>1. r.row \in 1..writes' /\ r.slot <= writes'
    <3>1. r.slot \in RowIds
      BY <1>2, RequestFields DEF Updates
    <3>2. QED
      BY <1>1, <1>2, <3>1 DEF UpdateFits, RowIds
  <2>2. QED
    BY <1>2, <2>1 DEF UpdateFits, Same, question, history, Exists, Latest, StoredRows
<1>3. QED
  BY <1>2 DEF Fits, Same, question, history, Member, Slots, Latest, Exists

LEMMA RequestMoves ==
  ASSUME IInv, NEW a \in Admins, NEW rec \in AllRequests, req' = [req EXCEPT ![a] = rec],
         Same,
         writes' \in {writes, writes + 1}, writes' <= MaxWrites, failures' \in 0..MaxFailures,
         Fits(rec)', \A b \in Admins \ {a} : Apart(rec, req[b]) /\ Apart(req[b], rec),
         rec.pc = "publish" /\ rec.quiz = 0 => quizzes = 0 \/ a \in Founders
  PROVE  IInv'
<1> USE DEF IInv
<1>0. req \in [Admins -> AllRequests] /\ writes \in Nat /\ writes' \in Nat
  BY RequestTyped DEF TypeOK
<1>1. TypeOK'
  <2>1. req' \in [Admins -> AllRequests]
    BY <1>0
  <2>2. writes' \in 0..MaxWrites
    BY <1>0, LifecycleAssumption
  <2>3. QED
    BY <2>1, <2>2 DEF TypeOK, AllRequests, Same, question, history, Exists, Latest
<1>2. Rows'
  <2>1. \A q \in Questions : Latest(q) <= writes' /\ \A n \in Slots(q) : versions[q][n] <= writes'
    <3>1. ASSUME NEW q \in Questions, NEW n \in Slots(q)
          PROVE  versions[q][n] \in Nat /\ versions[q][n] <= writes
      BY <3>1, Decided DEF Rows, RowIds
    <3>2. ASSUME NEW q \in Questions PROVE Latest(q) \in Nat /\ Latest(q) <= writes
      BY <3>2, Decided DEF Rows
    <3>3. QED
      BY <1>0, <3>1, <3>2
  <2>2. QED
    BY <2>1 DEF Rows, Same, question, history, StoredRows, Slots, Latest
<1>3. Lives' /\ OnlyLatestUnpublished'
  BY DEF Lives, OnlyLatestUnpublished, Same, question, history, Member, Exists, Slots, Latest
<1>4. RequestsFit'
  <2>1. ASSUME NEW b \in Admins PROVE Fits(req[b])'
    <3>1. CASE b = a
      <4>1. req'[b] = rec
        BY <1>0, <3>1
      <4>2. QED
        BY <4>1
    <3>2. CASE b # a
      <4>1. PICK r \in AllRequests : r = req[b]
        BY <1>0
      <4>2. Fits(r)'
        BY <4>1, FitsWithMoreWrites DEF RequestsFit
      <4>3. req'[b] = r
        BY <1>0, <3>2, <4>1
      <4>4. QED
        BY <4>2, <4>3
    <3>3. QED
      BY <3>1, <3>2
  <2>2. ASSUME NEW b \in Admins, NEW c \in Admins, b # c PROVE Apart(req[b], req[c])'
    BY <1>0, <2>2 DEF RequestsFit
  <2>3. QED
    BY <2>1, <2>2 DEF RequestsFit
<1>5. QuizzesBounded'
  <2>1. IsFiniteSet(Founders') /\ Cardinality(Founders') \in Nat /\ Cardinality(Founders') <= Cardinality(Admins)
    <3>1. Founders' \in SUBSET Admins
      BY DEF Founders
    <3>2. QED
      BY <3>1, FS_Subset, FS_CardinalityType, LifecycleAssumption
  <2>2. quizzes \in Nat /\ quizzes' = quizzes /\ members' = members
    BY FoundersFinite DEF TypeOK, Quizzes, Same
  <2>3. CASE quizzes = 0
    BY <2>1, <2>2, <2>3, FoundersFinite DEF QuizzesBounded
  <2>4. CASE quizzes # 0
    <3>1. Founders' \in SUBSET Founders
      BY <1>0, <2>4 DEF Founders
    <3>2. Cardinality(Founders') <= Cardinality(Founders)
      BY <3>1, FoundersFinite, FS_Subset
    <3>3. QED
      BY <2>1, <2>2, <3>2, FoundersFinite DEF QuizzesBounded
  <2>5. QED
    BY <2>3, <2>4
<1>6. QED
  BY <1>1, <1>2, <1>3, <1>4, <1>5

LEMMA AnswerKept ==
  ASSUME IInv, NEW a \in Admins, Answer(a), Same, writes' = writes, failures' \in 0..MaxFailures
  PROVE  IInv'
<1>1. /\ Idle \in AllRequests /\ Idle.pc = "idle"
      /\ writes' \in {writes, writes + 1} /\ writes' <= MaxWrites
  BY LifecycleAssumption DEF AllRequests, Idle, IInv, TypeOK
<1>2. Fits(Idle)'
  BY DEF Fits, Idle
<1>3. \A b \in Admins : Apart(Idle, req[b]) /\ Apart(req[b], Idle)
  BY DEF Apart, Idle, Holding
<1>4. QED
  BY <1>1, <1>2, <1>3, RequestMoves DEF Answer

(* A request that holds nothing is apart from all others.                   *)
LEMMA NothingHeld ==
  ASSUME NEW r, r.pc \notin Holding
  PROVE  \A s : Apart(r, s) /\ Apart(s, r)
BY DEF Apart, Holding

LEMMA CheckKept ==
  ASSUME IInv, NEW a \in Admins, NEW q \in Questions, UpdateRead(a, q) \/ PublishCheck(a, q)
  PROVE  IInv'
<1> USE DEF IInv
<1>0. writes' \in {writes, writes + 1} /\ writes' <= MaxWrites /\ failures' \in 0..MaxFailures
  BY LifecycleAssumption DEF UpdateRead, PublishCheck, TypeOK
<1>1. CASE UpdateRead(a, q)
  <2> DEFINE new == versions[q][Latest(q)] \in published
  <2>1. new \in BOOLEAN
    OBVIOUS
  <2> DEFINE rec == [pc |-> "version", q |-> q, slot |-> Latest(q), seen |-> status[q],
                     new |-> new, row |-> 0]
  <2>2. req' = [req EXCEPT ![a] = rec] /\ UNCHANGED <<question, publication, history>>
    BY <1>1 DEF UpdateRead, Tables
  <2>3. Latest(q) \in Slots(q) /\ Latest(q) \in RowIds /\ status[q] \in Statuses
    <3>1. Latest(q) \in Nat /\ Latest(q) > 0 /\ Latest(q) <= writes /\ writes \in 0..MaxWrites
      BY <1>1, Decided DEF UpdateRead, Lives, Rows, TypeOK
    <3>2. QED
      BY <1>1, <3>1, LifecycleAssumption DEF UpdateRead, Exists, Slots, RowIds
  <2>4. rec \in AllRequests
    <3> HIDE DEF new
    <3> QED
      BY <2>1, <2>3 DEF AllRequests, Updates
  <2>5. Fits(rec)
    BY <2>3 DEF Fits, Statuses, Lives
  <2>6. PICK r \in AllRequests : r = rec
    BY <2>4
  <2>7. Fits(r)'
    BY <1>0, <2>2, <2>5, <2>6, FitsWithMoreWrites, SameTables
  <2>8. \A s : Apart(r, s) /\ Apart(s, r)
    BY <2>6, NothingHeld DEF Holding
  <2>9. QED
    BY <1>0, <2>2, <2>6, <2>7, <2>8, RequestMoves, SameTables
<1>2. CASE PublishCheck(a, q)
  <2> DEFINE rec == [pc |-> "max", q |-> q, slot |-> 0, row |-> 0, quiz |-> 0]
  <2>2. req' = [req EXCEPT ![a] = rec] /\ UNCHANGED <<question, publication, history>>
    BY <1>2 DEF PublishCheck, Tables
  <2>4. rec \in AllRequests
    BY DEF AllRequests, Publishes
  <2>5. Fits(rec)
    BY <1>2 DEF Fits, PublishCheck, Lives
  <2>6. PICK r \in AllRequests : r = rec
    BY <2>4
  <2>7. Fits(r)'
    BY <1>0, <2>2, <2>5, <2>6, FitsWithMoreWrites, SameTables
  <2>8. \A s : Apart(r, s) /\ Apart(s, r)
    BY <2>6, NothingHeld DEF Holding
  <2>9. QED
    BY <1>0, <2>2, <2>6, <2>7, <2>8, RequestMoves, SameTables
<1>3. QED
  BY <1>1, <1>2

LEMMA UpdateVersionKept ==
  ASSUME IInv, NEW a \in Admins, UpdateVersion(a)
  PROVE  IInv'
<1> USE DEF IInv
<1> DEFINE r == req[a]
           q == r.q
           to == IF r.new THEN r.slot + 1 ELSE r.slot
           rec == [r EXCEPT !.pc = "update", !.slot = to, !.row = writes + 1]
<1>0. /\ r.pc = "version" /\ ~SlotLocked(q, to)
      /\ UNCHANGED <<question, publication, history>> /\ failures' = failures
  BY DEF UpdateVersion, WriteVersion, Tables
<1>1. /\ r \in AllRequests /\ r \in Updates /\ q \in Questions /\ Fits(r)
      /\ failures \in 0..MaxFailures /\ writes \in Nat /\ req \in [Admins -> AllRequests]
  BY <1>0, RequestTyped, RequestFields, LifecycleAssumption DEF RequestsFit, TypeOK
<1>2. CASE Refused(q, r.slot, r.new)
  BY <1>0, <1>1, <1>2, AnswerKept, SameTables DEF UpdateVersion, WriteVersion
<1>3. CASE ~Refused(q, r.slot, r.new)
  <2>1. writes' = writes + 1 /\ writes < MaxWrites /\ req' = [req EXCEPT ![a] = rec]
    BY <1>3 DEF UpdateVersion, WriteVersion
  <2>2. /\ Exists(q) /\ r.slot \in Slots(q) /\ Latest(q) \in Nat /\ r.new \in BOOLEAN
        /\ r.new => versions[q][r.slot] \in published
    BY <1>0, <1>1, <1>3, Decided DEF Refused, Fits, Updates
  <2>3. r.slot = Latest(q)
    <3>1. CASE r.new
      BY <1>3, <2>2, <3>1 DEF Refused, Slots
    <3>2. CASE ~r.new
      <4>1. versions[q][r.slot] \notin published
        BY <1>3, <3>2 DEF Refused, Rows
      <4>2. QED
        BY <1>1, <2>2, <4>1 DEF OnlyLatestUnpublished, Slots
    <3>3. QED
      BY <3>1, <3>2
  <2>4. Latest(q) \in 1..writes
    BY <1>1, <2>2 DEF Rows, Slots
  <2>5. to \in 1..(writes + 1) /\ writes + 1 \in RowIds /\ to \in RowIds
    BY <1>1, <2>1, <2>2, <2>3, <2>4, LifecycleAssumption DEF RowIds
  <2>6. /\ rec \in Updates /\ rec.pc = "update" /\ rec.q = q /\ rec.slot = to
        /\ rec.row = writes + 1 /\ rec.new = r.new /\ rec.seen = r.seen
    <3> HIDE DEF to
    <3> QED
      BY <1>1, <2>5 DEF Updates
  <2>7. PICK s \in AllRequests : s = rec
    BY <2>6 DEF AllRequests
  <2>8. writes + 1 \notin StoredRows
    <3>1. ASSUME NEW p \in Questions, NEW n \in Slots(p) PROVE versions[p][n] # writes + 1
      <4>1. versions[p][n] <= writes /\ versions[p][n] \in Nat
        BY Decided DEF Rows, RowIds
      <4>2. QED
        BY <1>1, <4>1
    <3>2. QED
      BY <3>1, StoredWhere
  <2>9. UpdateFits(s)'
    <3>1. /\ s.row \in 1..writes' /\ s.slot <= writes' /\ s.row \notin StoredRows
          /\ s.q = q /\ s.slot = to /\ s.new = r.new
      BY <1>1, <2>1, <2>5, <2>6, <2>7, <2>8
    <3>2. ~r.new => versions[q][Latest(q)] \notin published
      BY <1>3, <2>3 DEF Refused, Rows
    <3>3. /\ Exists(s.q)
          /\ s.new => s.slot = Latest(s.q) + 1 /\ versions[s.q][Latest(s.q)] \in published
          /\ ~s.new => s.slot = Latest(s.q) /\ versions[s.q][Latest(s.q)] \notin published
      BY <2>2, <2>3, <3>1, <3>2
    <3>4. QED
      BY <1>0, <3>1, <3>3 DEF UpdateFits, question, publication, Exists, Latest, StoredRows
  <2>10. Fits(s)'
    <3>1. /\ s.pc = "update" /\ status[s.q] # "absent" /\ (s.seen = "published" => Member(s.q))
      BY <1>0, <1>1, <2>6, <2>7 DEF Fits
    <3>2. QED
      BY <1>0, <2>9, <3>1 DEF Fits, question, publication, Member
  <2>11. \A b \in Admins \ {a} : Apart(s, req[b]) /\ Apart(req[b], s)
    <3>1. ASSUME NEW b \in Admins \ {a} PROVE Apart(s, req[b]) /\ Apart(req[b], s)
      <4>1. req[b].pc \in Holding /\ req[b].q = q => req[b].slot # to
        BY <1>0 DEF SlotLocked, Holding
      <4>2. req[b].pc = "update" => req[b].row # writes + 1
        BY <1>1 DEF RequestsFit, Fits, UpdateFits
      <4>3. QED
        BY <2>6, <2>7, <4>1, <4>2 DEF Apart
    <3>2. QED
      BY <3>1
  <2>12. writes' <= MaxWrites
    BY <1>1, <2>1, LifecycleAssumption
  <2>13. QED
    BY <1>0, <1>1, <2>1, <2>6, <2>7, <2>10, <2>11, <2>12, RequestMoves, SameTables
<1>4. QED
  BY <1>2, <1>3

LEMMA PublishStepKept ==
  ASSUME IInv, NEW a \in Admins, PublishMax(a) \/ MarkVersion(a) \/ SetPublished(a)
  PROVE  IInv'
<1> USE DEF IInv
<1> DEFINE r == req[a]
           q == r.q
<1>0. /\ UNCHANGED <<question, publication, history, writes>> /\ failures' = failures
      /\ r.pc \in {"max", "mark", "set"}
  BY DEF PublishMax, MarkVersion, SetPublished, Tables
<1>1. /\ r \in Publishes /\ q \in Questions /\ Fits(r)
      /\ failures' \in 0..MaxFailures /\ req \in [Admins -> AllRequests]
      /\ writes' \in {writes, writes + 1} /\ writes' <= MaxWrites
  BY <1>0, RequestTyped, RequestFields, LifecycleAssumption DEF RequestsFit, TypeOK
<1>2. CASE Answer(a)
  BY <1>0, <1>1, <1>2, AnswerKept, SameTables
<1>3. ASSUME NEW s \in AllRequests, req' = [req EXCEPT ![a] = s], Fits(s),
             \A b \in Admins \ {a} : Apart(s, req[b]) /\ Apart(req[b], s),
             s.pc = "publish" /\ s.quiz = 0 => quizzes = 0
      PROVE  IInv'
  <2>1. Fits(s)'
    BY <1>0, <1>1, <1>3, FitsWithMoreWrites, SameTables
  <2>2. QED
    BY <1>0, <1>1, <1>3, <2>1, RequestMoves, SameTables
<1>4. CASE PublishMax(a) /\ Exists(q)
  <2> DEFINE rec == [r EXCEPT !.pc = "mark", !.slot = Latest(q)]
  <2>1. req' = [req EXCEPT ![a] = rec] /\ r.pc = "max"
    BY <1>4 DEF PublishMax
  <2>2. Latest(q) \in Slots(q) /\ Latest(q) \in RowIds
    <3>1. Latest(q) \in Nat /\ Latest(q) > 0 /\ Latest(q) <= writes /\ writes \in 0..MaxWrites
      BY <1>1, <1>4, Decided DEF Lives, Rows, TypeOK
    <3>2. QED
      BY <3>1, LifecycleAssumption DEF Slots, RowIds
  <2>3. rec \in Publishes /\ rec.pc = "mark" /\ rec.q = q /\ rec.slot = Latest(q)
    BY <1>1, <2>2 DEF Publishes
  <2>4. PICK s \in AllRequests : s = rec
    BY <2>3 DEF AllRequests
  <2>5. Fits(s)
    BY <1>1, <2>1, <2>2, <2>3, <2>4 DEF Fits
  <2>6. QED
    BY <1>3, <2>1, <2>3, <2>4, <2>5, NothingHeld DEF Holding
<1>5. CASE MarkVersion(a) /\ Exists(q)
  <2> DEFINE rec == [r EXCEPT !.pc = "set", !.row = versions[q][r.slot]]
  <2>1. req' = [req EXCEPT ![a] = rec] /\ r.pc = "mark" /\ ~SlotLocked(q, r.slot)
    BY <1>5 DEF MarkVersion
  <2>2. r.slot \in Slots(q) /\ versions[q][r.slot] \in RowIds
    BY <1>1, <1>5, <2>1, Decided DEF Fits
  <2>3. /\ rec \in Publishes /\ rec.pc = "set" /\ rec.q = q /\ rec.slot = r.slot
        /\ rec.row = versions[q][r.slot]
    BY <1>1, <2>2 DEF Publishes
  <2>4. PICK s \in AllRequests : s = rec
    BY <2>3 DEF AllRequests
  <2>5. Fits(s)
    BY <1>1, <1>5, <2>1, <2>2, <2>3, <2>4 DEF Fits
  <2>6. \A b \in Admins \ {a} : Apart(s, req[b]) /\ Apart(req[b], s)
    BY <2>1, <2>3, <2>4 DEF Apart, SlotLocked, Holding
  <2>7. QED
    BY <1>3, <2>1, <2>3, <2>4, <2>5, <2>6
<1>6. CASE SetPublished(a)
  <2>1. PICK quiz \in IF quizzes = 0 THEN {0} ELSE 1..quizzes :
          req' = [req EXCEPT ![a] = [r EXCEPT !.pc = "publish", !.quiz = quiz]]
    BY <1>6 DEF SetPublished
  <2> DEFINE rec == [r EXCEPT !.pc = "publish", !.quiz = quiz]
  <2>2. r.pc = "set" /\ quiz \in 0..quizzes /\ quiz \in {0} \cup Quizzes /\ (quiz = 0 => quizzes = 0)
    <3>1. /\ Cardinality(Admins) \in Nat /\ quizzes \in {0} \cup 1..Cardinality(Admins)
          /\ r.pc = "set"
      BY <1>6, FoundersFinite DEF SetPublished, TypeOK, Quizzes
    <3>2. CASE quizzes = 0
      BY <2>1, <3>1, <3>2
    <3>3. CASE quizzes # 0
      <4>1. quiz \in 1..quizzes
        BY <2>1, <3>3
      <4>2. QED
        BY <3>1, <3>3, <4>1 DEF Quizzes
    <3>4. QED
      BY <3>2, <3>3
  <2>3. /\ rec \in Publishes /\ rec.pc = "publish" /\ rec.q = q /\ rec.slot = r.slot
        /\ rec.row = r.row /\ rec.quiz = quiz
    BY <1>1, <2>2 DEF Publishes
  <2>4. PICK s \in AllRequests : s = rec
    BY <2>3 DEF AllRequests
  <2>5. Fits(s)
    BY <1>1, <2>2, <2>3, <2>4 DEF Fits
  <2>6. \A b \in Admins \ {a} : Apart(s, req[b]) /\ Apart(req[b], s)
    <3>1. \A b \in Admins \ {a} : Apart(r, req[b]) /\ Apart(req[b], r)
      BY DEF RequestsFit
    <3>2. QED
      BY <2>2, <2>3, <2>4, <3>1 DEF Apart, Holding
  <2>7. QED
    BY <1>3, <2>1, <2>2, <2>3, <2>4, <2>5, <2>6
<1>7. QED
  BY <1>2, <1>4, <1>5, <1>6 DEF PublishMax, MarkVersion

-----------------------------------------------------------------------------
(* Steps that change a question but nothing of its content that a request   *)
(* relies on.                                                               *)

LEMMA FitsStays ==
  ASSUME IInv, NEW r \in AllRequests, Fits(r),
         published' = published, members' = members, quizzes' = quizzes,
         approved \subseteq approved', writes' \in {writes, writes + 1},
         r.pc # "idle" => /\ status'[r.q] # "absent"
                          /\ \/ Exists(r.q)' = Exists(r.q) /\ versions'[r.q] = versions[r.q]
                             \/ ~Exists(r.q)' /\ r.pc \notin Holding,
         r.pc = "update" => r.row \notin StoredRows'
  PROVE  Fits(r)'
<1>1. writes \in Nat
  BY LifecycleAssumption DEF IInv, TypeOK
<1>2. ASSUME r.pc = "update", UpdateFits(r) PROVE UpdateFits(r)'
  <2>1. r.row \in 1..writes' /\ r.slot <= writes'
    <3>1. r.slot \in RowIds
      BY <1>2, RequestFields DEF Updates
    <3>2. QED
      BY <1>1, <1>2, <3>1 DEF UpdateFits, RowIds
  <2>2. Exists(r.q)' /\ Latest(r.q)' = Latest(r.q) /\ versions'[r.q] = versions[r.q]
    BY <1>2 DEF UpdateFits, Holding, Latest
  <2>3. r.row \notin StoredRows'
    BY <1>2
  <2>4. QED
    BY <1>2, <2>1, <2>2, <2>3 DEF UpdateFits
<1>3. r.pc \in {"set", "publish"} => Exists(r.q)' /\ versions'[r.q] = versions[r.q]
  BY DEF Fits, Holding
<1>4. r.pc # "idle" /\ Exists(r.q)' =>
        Exists(r.q) /\ versions'[r.q] = versions[r.q] /\ Slots(r.q)' = Slots(r.q)
  BY DEF Slots, Latest
<1>5. QED
  BY <1>2, <1>3, <1>4 DEF Fits, Member, Slots, Latest

(* The requests after such a step, which one request may end.               *)
LEMMA RequestsKept ==
  ASSUME IInv, NEW a, NEW rec \in AllRequests, rec.pc \notin Holding,
         req' = req \/ req' = [req EXCEPT ![a] = rec],
         Fits(rec)', \A r \in AllRequests : (\E b \in Admins : req[b] = r) => Fits(r)',
         quizzes' = quizzes, members' = members
  PROVE  RequestsFit' /\ QuizzesBounded' /\ req' \in [Admins -> AllRequests]
<1> USE DEF IInv
<1>0. req \in [Admins -> AllRequests] /\ req' \in [Admins -> AllRequests]
  BY RequestTyped
<1>1. ASSUME NEW b \in Admins PROVE Fits(req[b])'
  <2>1. PICK r \in AllRequests : r = req'[b]
    BY <1>0
  <2>2. r = rec \/ \E c \in Admins : req[c] = r
    BY <1>0, <2>1
  <2>3. Fits(r)'
    BY <2>2
  <2>4. QED
    BY <2>1, <2>3
<1>2. ASSUME NEW b \in Admins, NEW c \in Admins, b # c PROVE Apart(req[b], req[c])'
  BY <1>0, <1>2, NothingHeld DEF RequestsFit
<1>3. QuizzesBounded'
  <2>1. Founders' \in SUBSET Founders
    BY <1>0 DEF Founders, Holding
  <2>2. Cardinality(Founders') <= Cardinality(Founders) /\ Cardinality(Founders') \in Nat
    BY <2>1, FoundersFinite, FS_Subset, FS_CardinalityType
  <2>3. quizzes \in Nat
    BY FoundersFinite DEF TypeOK, Quizzes
  <2>4. QED
    BY <2>2, <2>3, FoundersFinite DEF QuizzesBounded
<1>4. QED
  BY <1>0, <1>1, <1>2, <1>3 DEF RequestsFit

LEMMA LoadKept ==
  ASSUME IInv, NEW q \in Questions, LoadQuestions(q)
  PROVE  IInv'
<1> USE DEF IInv
<1>1. versions[q][current[q]] \in published
  BY DEF LoadQuestions, Lives
<1>2. /\ shown' = shown \cup {versions[q][current[q]]} /\ UNCHANGED <<question, publication, req>>
      /\ UNCHANGED <<writes, failures, approved, reviewed>>
  BY DEF LoadQuestions
<1>3. TypeOK'
  BY <1>1, <1>2 DEF TypeOK, question, publication, Exists, Latest
<1>4. Rows'
  BY <1>1, <1>2 DEF Rows, question, publication, StoredRows, Slots, Latest
<1>5. Lives' /\ OnlyLatestUnpublished'
  BY <1>2 DEF Lives, OnlyLatestUnpublished, question, publication, Member, Exists, Slots, Latest
<1>6. RequestsFit'
  BY <1>2 DEF RequestsFit, Fits, UpdateFits, question, publication, StoredRows, Member, Exists, Slots, Latest
<1>7. QuizzesBounded'
  BY <1>2 DEF QuizzesBounded, Founders, publication
<1>8. QED
  BY <1>3, <1>4, <1>5, <1>6, <1>7

LEMMA RecordKept ==
  ASSUME IInv, NEW a \in Admins, RecordDecision(a)
  PROVE  IInv'
<1>1. req[a].q \in Questions
  BY RequestTyped, RequestFields DEF IInv, RecordDecision
<1>2. Same /\ Answer(a) /\ writes' = writes /\ failures' \in 0..MaxFailures
  BY <1>1 DEF RecordDecision, Same, IInv, TypeOK
<1>3. QED
  BY <1>2, AnswerKept

(* The status moves, along the review cycle or to the archive.              *)
LEMMA TransitionKept ==
  ASSUME IInv, NEW q \in Questions, NEW to \in Statuses \ {"published"}, Exists(q),
         status' = [status EXCEPT ![q] = to], UNCHANGED <<versions, current, publication, writes, failures>>,
         to = "approved" => q \in approved', approved \subseteq approved', approved' \subseteq Questions,
         reviewed' \subseteq RowIds, shown' = shown,
         NEW a, NEW rec \in AllRequests, rec.pc \notin Holding, Fits(rec)',
         req' = req \/ req' = [req EXCEPT ![a] = rec]
  PROVE  IInv'
<1> USE DEF IInv
<1>0. /\ status \in [Questions -> Statuses \cup {"absent", "deleted"}]
      /\ \A p \in Questions : Exists(p)' = Exists(p)
      /\ \A p \in Questions : p # q => status'[p] = status[p]
      /\ status'[q] = to
  BY DEF TypeOK, Exists
<1>1. \A r \in AllRequests : (\E b \in Admins : req[b] = r) => Fits(r)'
  <2> SUFFICES ASSUME NEW r \in AllRequests, NEW b \in Admins, req[b] = r PROVE Fits(r)'
    OBVIOUS
  <2>1. Fits(r)
    BY DEF RequestsFit
  <2>2. r.pc # "idle" => /\ status'[r.q] # "absent"
                         /\ Exists(r.q)' = Exists(r.q) /\ versions'[r.q] = versions[r.q]
    BY <1>0, <2>1, RequestFields DEF Fits, Statuses
  <2>3. r.pc = "update" => r.row \notin StoredRows'
    BY <2>1 DEF Fits, UpdateFits, StoredRows
  <2>4. QED
    BY <2>1, <2>2, <2>3, FitsStays DEF publication
<1>2. RequestsFit' /\ QuizzesBounded' /\ req' \in [Admins -> AllRequests]
  BY <1>1, RequestsKept DEF publication
<1>3. TypeOK'
  BY <1>0, <1>2 DEF TypeOK, AllRequests, publication, Latest
<1>4. Rows'
  BY DEF Rows, publication, StoredRows, Slots, Latest
<1>5. Lives'
  <2>1. \A p \in Questions : /\ Member(p)' <=> Member(p)
                            /\ Latest(p)' = Latest(p) /\ Slots(p)' = Slots(p)
    BY DEF publication, Member, Slots, Latest
  <2>2. /\ \A p \in Questions : status'[p] = "absent" => status[p] = "absent"
        /\ \A p \in Questions : status'[p] = "published" => status[p] = "published"
        /\ \A p \in Questions : status'[p] = "approved" => status[p] = "approved" \/ p \in approved'
    BY <1>0 DEF Statuses
  <2>3. QED
    BY <1>0, <2>1, <2>2 DEF Lives, publication
<1>6. OnlyLatestUnpublished'
  BY DEF OnlyLatestUnpublished, publication, Latest
<1>7. QED
  BY <1>2, <1>3, <1>4, <1>5, <1>6

LEMMA ReviewCycleKept ==
  ASSUME IInv, NEW q \in Questions,
         \/ SubmitForReview(q) \/ Archive(q)
         \/ \E a \in Admins, decision \in Decisions : Review(a, q, decision)
  PROVE  IInv'
<1> USE DEF IInv
<1>0. Idle \in AllRequests /\ Idle.pc \notin Holding /\ Fits(Idle)'
  BY DEF AllRequests, Idle, Holding, Fits
<1>1. CASE SubmitForReview(q) \/ Archive(q)
  <2>1. PICK to \in {"in_review", "archived"} : status' = [status EXCEPT ![q] = to]
    BY <1>1 DEF SubmitForReview, Archive, Transition
  <2>2. /\ Exists(q) /\ to \in Statuses \ {"published"} /\ to # "approved"
        /\ UNCHANGED <<versions, current, publication, writes, failures, req, approved, reviewed, shown>>
    BY <1>1, <2>1 DEF SubmitForReview, Archive, Transition, Exists, Statuses, history
  <2>3. approved' \subseteq Questions /\ reviewed' \subseteq RowIds
    BY <2>2 DEF TypeOK
  <2>4. QED
    BY <1>0, <2>1, <2>2, <2>3, TransitionKept
<1>2. ASSUME NEW a \in Admins, NEW decision \in Decisions, Review(a, q, decision) PROVE IInv'
  <2>1. /\ status' = [status EXCEPT ![q] = decision] /\ Exists(q)
        /\ decision \in Statuses \ {"published"}
        /\ UNCHANGED <<versions, current, publication, writes, failures, shown>>
    BY <1>2 DEF Review, Transition, Exists, Statuses, Decisions
  <2>2. PICK rec \in Reviews : /\ rec = [pc |-> "record", q |-> q, decision |-> decision]
                               /\ req' = [req EXCEPT ![a] = rec]
    BY <1>2 DEF Review, Reviews
  <2>3. rec \in AllRequests /\ rec.pc \notin Holding /\ rec.q = q
    BY <2>2 DEF AllRequests, Holding
  <2>4. Fits(rec)'
    <3>1. status'[rec.q] # "absent"
      BY <2>1, <2>3 DEF TypeOK, Statuses
    <3>2. QED
      BY <2>2, <3>1 DEF Fits
  <2>5. /\ decision = "approved" => q \in approved'
        /\ approved \subseteq approved' /\ approved' \subseteq Questions
    BY <1>2 DEF Review, TypeOK
  <2>6. reviewed' \subseteq RowIds
    <3>1. Latest(q) > 0 /\ Latest(q) \in Nat
      BY <2>1, Decided DEF Lives
    <3>2. versions[q][Latest(q)] \in RowIds
      BY <3>1, Decided DEF Slots
    <3>3. QED
      BY <1>2, <3>2 DEF Review, TypeOK
  <2>7. QED
    BY <2>1, <2>2, <2>3, <2>4, <2>5, <2>6, TransitionKept
<1>3. QED
  BY <1>1, <1>2

-----------------------------------------------------------------------------
(* Questions come and go. *)

LEMMA RowsBelow ==
  ASSUME IInv, NEW p \in Questions, NEW n \in Slots(p)
  PROVE  versions[p][n] \in 1..writes /\ versions[p][n] \in StoredRows
BY Decided, StoredWhere DEF IInv, Rows, RowIds

LEMMA CreateKept ==
  ASSUME IInv, NEW q \in Questions, Create(q)
  PROVE  IInv'
<1> USE DEF IInv
<1>0. /\ status[q] = "absent" /\ writes \in Nat /\ writes + 1 \in RowIds /\ writes' = writes + 1
      /\ status' = [status EXCEPT ![q] = "draft"] /\ versions' = [versions EXCEPT ![q] = <<writes + 1>>]
      /\ UNCHANGED <<current, publication, req, failures, history>> /\ writes' \in 0..MaxWrites
  BY LifecycleAssumption DEF Create, TypeOK, RowIds
<1>1. /\ \A p \in Questions : p # q =>
           /\ status'[p] = status[p] /\ versions'[p] = versions[p]
           /\ Latest(p)' = Latest(p) /\ Slots(p)' = Slots(p) /\ Exists(p)' = Exists(p)
      /\ status'[q] = "draft" /\ versions'[q] = <<writes + 1>>
      /\ Latest(q)' = 1 /\ Slots(q)' = 1..1 /\ Exists(q)'
  BY <1>0 DEF TypeOK, Exists, Statuses, Latest, Slots
<1>2. writes + 1 \notin StoredRows /\ writes + 1 \notin published
  <2>1. writes + 1 \notin StoredRows
    BY <1>0, StoredWhere, RowsBelow
  <2>2. QED
    BY <2>1 DEF Rows
<1>3. ~Exists(q) /\ ~Member(q) /\ Latest(q) = 0
  BY <1>0, Decided DEF Exists, Statuses, Lives
<1>4. RequestsFit' /\ QuizzesBounded' /\ req' \in [Admins -> AllRequests]
  <2>1. Idle \in AllRequests /\ Idle.pc \notin Holding /\ Fits(Idle)'
    BY DEF AllRequests, Idle, Holding, Fits
  <2>2. \A r \in AllRequests : (\E b \in Admins : req[b] = r) => Fits(r)'
    <3> SUFFICES ASSUME NEW r \in AllRequests, NEW b \in Admins, req[b] = r PROVE Fits(r)'
      OBVIOUS
    <3>1. Fits(r)
      BY DEF RequestsFit
    <3>2. r.pc # "idle" => r.q \in Questions /\ r.q # q
      BY <1>0, <3>1, RequestFields DEF Fits
    <3>3. r.pc = "update" => r.row \notin StoredRows'
      <4> SUFFICES ASSUME r.pc = "update", NEW p \in Questions, NEW n \in Slots(p)'
                   PROVE  r.row # versions'[p][n]
        <5>1. ASSUME NEW p \in Questions PROVE DOMAIN versions'[p] = Slots(p)'
          <6>1. CASE p = q
            BY <1>1, <6>1
          <6>2. CASE p # q
            <7>1. DOMAIN versions[p] = Slots(p)
              BY DEF TypeOK, Slots, Latest
            <7>2. QED
              BY <1>1, <6>2, <7>1
          <6>3. QED
            BY <6>1, <6>2
        <5>2. QED
          BY <5>1 DEF StoredRows, Range
      <4>1. r.row \notin StoredRows /\ r.row \in 1..writes
        BY <3>1 DEF Fits, UpdateFits
      <4>2. CASE p = q
        BY <1>0, <1>1, <4>1, <4>2
      <4>3. CASE p # q
        BY <1>1, <4>1, <4>3, StoredWhere
      <4>4. QED
        BY <4>2, <4>3
    <3>4. QED
      BY <1>0, <1>1, <3>1, <3>2, <3>3, FitsStays DEF publication, history, Fits
  <2>3. QED
    BY <1>0, <2>1, <2>2, RequestsKept DEF publication
<1>5. TypeOK'
  BY <1>0, <1>1, <1>4 DEF TypeOK, AllRequests, publication, history, Lives, Statuses
<1>6. Rows'
  <2>1. published \subseteq StoredRows'
    <3> SUFFICES ASSUME NEW row \in published PROVE row \in StoredRows'
      OBVIOUS
    <3>1. PICK p \in Questions : \E n \in Slots(p) : row = versions[p][n]
      BY StoredWhere DEF Rows
    <3>2. PICK n \in Slots(p) : row = versions[p][n]
      BY <3>1
    <3>3. p # q
      BY <1>3, <3>2 DEF Slots
    <3>4. n \in DOMAIN versions'[p] /\ row = versions'[p][n]
      BY <1>1, <3>2, <3>3 DEF TypeOK, Slots, Latest
    <3>5. QED
      BY <3>4 DEF StoredRows, Range
  <2>2. \A p \in Questions : Latest(p)' <= writes' /\ \A n \in Slots(p)' : versions'[p][n] <= writes'
    <3> SUFFICES ASSUME NEW p \in Questions
                 PROVE  Latest(p)' <= writes' /\ \A n \in Slots(p)' : versions'[p][n] <= writes'
      OBVIOUS
    <3>1. CASE p = q
      BY <1>0, <1>1, <3>1
    <3>2. CASE p # q
      BY <1>0, <1>1, <3>2, RowsBelow, Decided DEF Rows
    <3>3. QED
      BY <3>1, <3>2
  <2>3. ASSUME NEW p \in Questions, NEW k \in Questions, NEW n \in Slots(p)', NEW m \in Slots(k)',
               versions'[p][n] = versions'[k][m]
        PROVE  p = k /\ n = m
    <3>1. CASE p = q /\ k = q
      BY <1>1, <3>1
    <3>2. CASE p # q /\ k # q
      BY <1>1, <2>3, <3>2 DEF Rows
    <3>3. CASE p = q /\ k # q
      BY <1>0, <1>1, <2>3, <3>3, RowsBelow
    <3>4. CASE p # q /\ k = q
      BY <1>0, <1>1, <2>3, <3>4, RowsBelow
    <3>5. QED
      BY <3>1, <3>2, <3>3, <3>4
  <2>4. QED
    BY <1>0, <2>1, <2>2, <2>3 DEF Rows, publication, history
<1>7. Lives'
  <2>1. \A p \in Questions : Member(p)' = Member(p)
    BY <1>0 DEF publication, Member
  <2>2. published' = published /\ current' = current /\ approved' = approved
    BY <1>0 DEF publication, history
  <2>3. ASSUME NEW n \in Slots(q)' PROVE versions'[q][n] \notin published
    BY <1>1, <1>2
  <2>4. current[q] = 1
    BY <1>0 DEF Lives
  <2>5. QED
    BY <1>1, <1>3, <2>1, <2>2, <2>3, <2>4 DEF Lives
<1>8. OnlyLatestUnpublished'
  <2>1. \A p \in Questions : p # q =>
          \A n \in 1..Latest(p) : n < Latest(p)' => versions'[p][n] \in published'
    BY <1>0, <1>1 DEF OnlyLatestUnpublished, publication
  <2>2. QED
    BY <1>1, <2>1 DEF OnlyLatestUnpublished
<1>9. QED
  BY <1>4, <1>5, <1>6, <1>7, <1>8

LEMMA DeleteKept ==
  ASSUME IInv, NEW q \in Questions, Delete(q)
  PROVE  IInv'
<1> USE DEF IInv
<1>0. /\ status[q] = "draft" /\ ~InQuiz(q)
      /\ \A a \in Admins : req[a].pc \in Holding => req[a].q # q
      /\ status' = [status EXCEPT ![q] = "deleted"] /\ versions' = [versions EXCEPT ![q] = <<>>]
      /\ decided' \subseteq Questions
      /\ UNCHANGED <<current, published, publications, quizzes, members, req, writes, failures, history>>
  BY DEF Delete, Holding, TypeOK
<1>1. /\ \A p \in Questions : p # q =>
           /\ status'[p] = status[p] /\ versions'[p] = versions[p]
           /\ Latest(p)' = Latest(p) /\ Slots(p)' = Slots(p) /\ Exists(p)' = Exists(p)
      /\ status'[q] = "deleted" /\ versions'[q] = <<>>
      /\ Latest(q)' = 0 /\ Slots(q)' = {} /\ ~Exists(q)'
  BY <1>0 DEF TypeOK, Exists, Statuses, Latest, Slots
<1>2. ~Member(q)
  BY <1>0, MemberInQuiz
<1>3. RequestsFit' /\ QuizzesBounded' /\ req' \in [Admins -> AllRequests]
  <2>1. Idle \in AllRequests /\ Idle.pc \notin Holding /\ Fits(Idle)'
    BY DEF AllRequests, Idle, Holding, Fits
  <2>2. \A r \in AllRequests : (\E b \in Admins : req[b] = r) => Fits(r)'
    <3> SUFFICES ASSUME NEW r \in AllRequests, NEW b \in Admins, req[b] = r PROVE Fits(r)'
      OBVIOUS
    <3>1. Fits(r)
      BY DEF RequestsFit
    <3>2. r.pc # "idle" => r.q \in Questions /\ (r.q = q => r.pc \notin Holding)
      BY <1>0, RequestFields
    <3>3. r.pc # "idle" => status'[r.q] # "absent"
      BY <1>1, <3>1, <3>2 DEF Fits
    <3>4. StoredRows' \subseteq StoredRows
      <4>1. \A p \in Questions : Range(versions'[p]) \subseteq Range(versions[p])
        BY <1>1 DEF Range
      <4>2. QED
        BY <4>1 DEF StoredRows
    <3>5. r.pc = "update" => r.row \notin StoredRows'
      BY <3>1, <3>4 DEF Fits, UpdateFits
    <3>6. QED
      BY <1>0, <1>1, <3>1, <3>2, <3>3, <3>5, FitsStays DEF history
  <2>3. QED
    BY <1>0, <2>1, <2>2, RequestsKept
<1>4. TypeOK'
  <2>1. /\ status' \in [Questions -> Statuses \cup {"absent", "deleted"}]
        /\ versions' \in [Questions -> Seq(RowIds)]
    <3>1. <<>> \in Seq(RowIds)
      OBVIOUS
    <3>2. QED
      BY <1>0, <3>1 DEF TypeOK
  <2>2. \A p \in Questions : Exists(p)' => current'[p] <= Latest(p)'
    BY <1>0, <1>1 DEF TypeOK
  <2>3. QED
    BY <1>0, <1>3, <2>1, <2>2 DEF TypeOK, AllRequests, history
<1>5. Rows'
  <2>1. published \subseteq StoredRows'
    <3> SUFFICES ASSUME NEW row \in published PROVE row \in StoredRows'
      OBVIOUS
    <3>1. PICK p \in Questions : \E n \in Slots(p) : row = versions[p][n]
      BY StoredWhere DEF Rows
    <3>2. PICK n \in Slots(p) : row = versions[p][n]
      BY <3>1
    <3>3. p # q
      BY <1>2, <3>2 DEF Lives
    <3>4. n \in DOMAIN versions'[p] /\ row = versions'[p][n]
      BY <1>1, <3>2, <3>3 DEF TypeOK, Slots, Latest
    <3>5. QED
      BY <3>4 DEF StoredRows, Range
  <2>2. 0 <= writes
    BY LifecycleAssumption DEF TypeOK
  <2>3. QED
    BY <1>0, <1>1, <2>1, <2>2 DEF Rows, history
<1>6. Lives'
  <2>1. \A p \in Questions : Member(p)' = Member(p)
    BY <1>0 DEF Member
  <2>2. QED
    BY <1>0, <1>1, <1>2, <2>1 DEF Lives, history
<1>7. OnlyLatestUnpublished'
  BY <1>0, <1>1 DEF OnlyLatestUnpublished, Slots
<1>8. QED
  BY <1>3, <1>4, <1>5, <1>6, <1>7

-----------------------------------------------------------------------------
(* Content changes. *)

(* No two updates of a question have written at once.                       *)
LEMMA OneUpdate ==
  ASSUME IInv, NEW a \in Admins, NEW b \in Admins, a # b,
         req[a].pc = "update", req[b].pc = "update"
  PROVE  req[a].q # req[b].q
<1>1. UpdateFits(req[a]) /\ UpdateFits(req[b])
  BY DEF IInv, RequestsFit, Fits
<1>2. req[a].q = req[b].q => req[a].slot # req[b].slot
  BY DEF IInv, RequestsFit, Apart, Holding
<1>3. QED
  BY <1>1, <1>2 DEF UpdateFits

LEMMA Appended ==
  ASSUME NEW S, NEW s \in Seq(S), NEW x \in S
  PROVE  /\ Append(s, x) \in Seq(S) /\ Len(Append(s, x)) = Len(s) + 1
         /\ Append(s, x)[Len(s) + 1] = x /\ \A n \in 1..Len(s) : Append(s, x)[n] = s[n]
OBVIOUS

LEMMA Replaced ==
  ASSUME NEW S, NEW s \in Seq(S), NEW k \in 1..Len(s), NEW x \in S
  PROVE  /\ [s EXCEPT ![k] = x] \in Seq(S) /\ Len([s EXCEPT ![k] = x]) = Len(s)
         /\ [s EXCEPT ![k] = x][k] = x
         /\ \A n \in 1..Len(s) : n # k => [s EXCEPT ![k] = x][n] = s[n]
OBVIOUS

(* What the commit of an Update does to the slots of its question.          *)
SlotsRewritten(r, q) ==
  /\ r \in Updates /\ q \in Questions /\ UpdateFits(r) /\ Exists(q)
  /\ versions' \in [Questions -> Seq(RowIds)]
  /\ \A p \in Questions : p # q => versions'[p] = versions[p] /\ Latest(p)' = Latest(p)
  /\ Latest(q) > 0 /\ Latest(q)' = r.slot /\ Slots(q)' = 1..r.slot
  /\ r.slot \in {Latest(q), Latest(q) + 1}
  /\ versions'[q][r.slot] = r.row
  /\ \A n \in 1..r.slot : n # r.slot =>
       n \in Slots(q) /\ versions'[q][n] = versions[q][n] /\ versions[q][n] \in published
  /\ \A n \in Slots(q) : versions[q][n] \in published =>
       n # r.slot /\ n \in Slots(q)' /\ versions'[q][n] = versions[q][n]
  /\ \A n \in Slots(q) : n # r.slot => n < r.slot

LEMMA Rewritten ==
  ASSUME IInv, NEW a \in Admins, UpdateCommit(a),
         NEW r \in AllRequests, r = req[a], NEW q \in Questions, q = r.q
  PROVE  SlotsRewritten(r, q)
<1> USE DEF IInv
<1>1. r.pc = "update" /\ r \in AllRequests
  BY RequestTyped DEF UpdateCommit
<1>2. /\ r \in Updates /\ q \in Questions /\ UpdateFits(r) /\ Exists(q) /\ r.new \in BOOLEAN
      /\ r.row \in RowIds /\ r.slot \in Nat
  <2>1. r \in Updates /\ q \in Questions /\ UpdateFits(r)
    BY <1>1, RequestFields DEF RequestsFit, Fits
  <2>2. r.row \in RowIds
    BY <2>1, LifecycleAssumption DEF UpdateFits, RowIds, TypeOK
  <2>3. QED
    BY <2>1, <2>2 DEF UpdateFits, Updates, RowIds
<1>3. Latest(q) \in Nat /\ Latest(q) > 0 /\ versions[q] \in Seq(RowIds)
  BY <1>2, Decided DEF Lives
<1>4. \A n \in Slots(q) : n < Latest(q) => versions[q][n] \in published
  BY <1>2 DEF OnlyLatestUnpublished, Slots
<1>5. CASE r.new
  <2>1. versions' = [versions EXCEPT ![q] = Append(versions[q], r.row)]
    BY <1>5 DEF UpdateCommit
  <2>2. r.slot = Latest(q) + 1 /\ versions[q][Latest(q)] \in published
    BY <1>2, <1>5 DEF UpdateFits
  <2>3. versions'[q] = Append(versions[q], r.row)
    BY <1>2, <2>1 DEF TypeOK
  <2>4. versions' \in [Questions -> Seq(RowIds)]
    BY <1>2, <1>3, <2>1 DEF TypeOK
  <2>5. /\ Latest(q)' = Latest(q) + 1 /\ versions'[q][Latest(q) + 1] = r.row
        /\ \A n \in Slots(q) : versions'[q][n] = versions[q][n]
    BY <1>2, <1>3, <2>3, Appended DEF Latest, Slots
  <2>6. \A p \in Questions : p # q => versions'[p] = versions[p] /\ Latest(p)' = Latest(p)
    BY <2>1 DEF TypeOK, Latest
  <2>7. \A n \in Slots(q) : versions[q][n] \in published
    BY <1>3, <1>4, <2>2 DEF Slots
  <2>8. Slots(q)' = 1..(Latest(q) + 1) /\ Slots(q) = 1..Latest(q)
    BY <2>5 DEF Slots
  <2>9. /\ Slots(q)' = 1..r.slot /\ r.slot = Latest(q) + 1 /\ Latest(q)' = r.slot
        /\ versions'[q][r.slot] = r.row
    BY <2>2, <2>5, <2>8
  <2>10. /\ \A n \in 1..r.slot : n # r.slot => n \in Slots(q)
         /\ \A n \in Slots(q) : n # r.slot /\ n < r.slot /\ n \in 1..r.slot
    BY <1>3, <2>8, <2>9
  <2>11. \A n \in Slots(q) : n \in Slots(q)'
    BY <2>9, <2>10
  <2>12. QED
    BY <1>2, <1>3, <2>4, <2>5, <2>6, <2>7, <2>9, <2>10, <2>11 DEF SlotsRewritten
<1>6. CASE ~r.new
  <2>1. versions' = [versions EXCEPT ![q] = [versions[q] EXCEPT ![r.slot] = r.row]]
    BY <1>6 DEF UpdateCommit
  <2>2. r.slot = Latest(q) /\ versions[q][Latest(q)] \notin published
    BY <1>2, <1>6 DEF UpdateFits
  <2>3. versions'[q] = [versions[q] EXCEPT ![Latest(q)] = r.row]
    BY <1>2, <2>1, <2>2 DEF TypeOK
  <2>4. versions' \in [Questions -> Seq(RowIds)]
    <3>1. [versions[q] EXCEPT ![r.slot] = r.row] \in Seq(RowIds)
      BY <1>2, <1>3, <2>2, Replaced DEF Latest
    <3>2. QED
      BY <1>2, <2>1, <3>1 DEF TypeOK
  <2>5. /\ Latest(q)' = Latest(q) /\ versions'[q][Latest(q)] = r.row
        /\ \A n \in Slots(q) : n # Latest(q) => versions'[q][n] = versions[q][n]
    BY <1>2, <1>3, <2>3, Replaced DEF Latest, Slots
  <2>6. \A p \in Questions : p # q => versions'[p] = versions[p] /\ Latest(p)' = Latest(p)
    BY <2>1 DEF TypeOK, Latest
  <2>7. Slots(q)' = 1..Latest(q) /\ Slots(q) = 1..Latest(q)
    BY <2>5 DEF Slots
  <2>8. /\ Slots(q)' = 1..r.slot /\ r.slot = Latest(q) /\ Latest(q)' = r.slot
        /\ versions'[q][r.slot] = r.row /\ Slots(q) = 1..r.slot
    BY <2>2, <2>5, <2>7
  <2>9. \A n \in Slots(q) : n # r.slot => n < r.slot /\ versions[q][n] \in published
    BY <1>3, <1>4, <2>8
  <2>10. \A n \in Slots(q) : versions[q][n] \in published => n # r.slot
    BY <2>2, <2>8
  <2>11. \A n \in Slots(q) : n \in Slots(q)'
    BY <2>8
  <2>12. QED
    BY <1>2, <1>3, <2>4, <2>5, <2>6, <2>8, <2>9, <2>10, <2>11 DEF SlotsRewritten
<1>7. QED
  BY <1>2, <1>5, <1>6

LEMMA UpdateCommitKept ==
  ASSUME IInv, NEW a \in Admins, UpdateCommit(a)
  PROVE  IInv'
<1> USE DEF IInv
<1>1. PICK r \in AllRequests : r = req[a]
  BY RequestTyped
<1>2. r.pc = "update"
  BY <1>1 DEF UpdateCommit
<1>3. PICK q \in Questions : q = r.q
  BY <1>2, RequestFields
<1>4. /\ r \in Updates /\ UpdateFits(r) /\ Exists(q)
      /\ versions' \in [Questions -> Seq(RowIds)]
      /\ \A p \in Questions : p # q => versions'[p] = versions[p] /\ Latest(p)' = Latest(p)
      /\ Latest(q) > 0 /\ Latest(q)' = r.slot /\ r.slot \in {Latest(q), Latest(q) + 1}
      /\ versions'[q][r.slot] = r.row
      /\ \A n \in Slots(q)' : n # r.slot =>
           n \in Slots(q) /\ versions'[q][n] = versions[q][n] /\ versions[q][n] \in published
      /\ \A n \in Slots(q) : versions[q][n] \in published =>
           n # r.slot /\ n \in Slots(q)' /\ versions'[q][n] = versions[q][n]
      /\ \A n \in Slots(q) : n # r.slot => n < r.slot
  <2> HIDE DEF IInv
  <2>1. IInv /\ UpdateCommit(a) /\ r = req[a] /\ q = r.q
    BY <1>1, <1>3
  <2>2. SlotsRewritten(r, q)
    BY <2>1, Rewritten
  <2>3. \A n \in Slots(q)' : n # r.slot =>
          n \in Slots(q) /\ versions'[q][n] = versions[q][n] /\ versions[q][n] \in published
    <3>1. Slots(q)' = 1..r.slot
      BY <2>2 DEF SlotsRewritten
    <3>2. \A n \in 1..r.slot : n # r.slot =>
            n \in Slots(q) /\ versions'[q][n] = versions[q][n] /\ versions[q][n] \in published
      BY <2>2 DEF SlotsRewritten
    <3>3. QED
      BY <3>1, <3>2
  <2>4. QED
    BY <2>2, <2>3 DEF SlotsRewritten
<1>5. /\ status' = [status EXCEPT ![q] = NewStatus(r.seen, r.new)]
      /\ Answer(a) /\ UNCHANGED <<current, publication, writes, failures, history>>
  BY <1>1, <1>3 DEF UpdateCommit
<1>6. /\ status'[q] \in Statuses \ {"approved", "in_review"}
      /\ status'[q] = "published" => Member(q)
  <2>1. r.seen \in Statuses /\ (r.seen = "published" => Member(q))
    BY <1>1, <1>2, <1>3, <1>4 DEF Updates, RequestsFit, Fits
  <2>2. status'[q] = NewStatus(r.seen, r.new)
    BY <1>5 DEF TypeOK
  <2>3. QED
    BY <2>1, <2>2 DEF NewStatus, Statuses
<1>7. /\ \A p \in Questions : p # q =>
           status'[p] = status[p] /\ Exists(p)' = Exists(p) /\ Slots(p)' = Slots(p)
      /\ Exists(q)' /\ Slots(q)' = 1..r.slot
  BY <1>4, <1>5, <1>6 DEF TypeOK, Exists, Slots
<1>8. /\ r.row \notin StoredRows /\ r.row \in 1..writes /\ r.row \notin published
      /\ r.slot <= writes /\ Latest(q) \in Nat /\ r.slot \in Nat /\ r.slot \in Slots(q)'
  <2>1. r.row \notin StoredRows /\ r.row \in 1..writes /\ r.slot <= writes /\ Latest(q) \in Nat
    BY <1>4, Decided DEF UpdateFits
  <2>2. QED
    BY <1>4, <1>7, <2>1 DEF Rows
<1>9. \A row : row \in StoredRows' <=> \E p \in Questions : \E n \in Slots(p)' : row = versions'[p][n]
  <2>1. ASSUME NEW p \in Questions PROVE DOMAIN versions'[p] = Slots(p)'
    BY <1>4 DEF Slots, Latest
  <2>2. QED
    BY <2>1 DEF StoredRows, Range
<1>10. \A row \in StoredRows' : row = r.row \/ row \in StoredRows
  <2> SUFFICES ASSUME NEW p \in Questions, NEW n \in Slots(p)', versions'[p][n] # r.row
               PROVE  versions'[p][n] \in StoredRows
    BY <1>9
  <2>1. n \in Slots(p) /\ versions'[p][n] = versions[p][n]
    BY <1>4, <1>7
  <2>2. QED
    BY <2>1, RowsBelow
<1>11. TypeOK'
  <2>1. status' \in [Questions -> Statuses \cup {"absent", "deleted"}]
    BY <1>5, <1>6 DEF TypeOK
  <2>2. \A p \in Questions : Exists(p)' => current'[p] <= Latest(p)'
    <3>1. ASSUME NEW p \in Questions, Exists(p)' PROVE current[p] <= Latest(p)'
      <4>1. CASE p = q
        <5>1. current[q] <= Latest(q) /\ current[q] \in Nat
          BY <1>4 DEF TypeOK, RowIds
        <5>2. QED
          BY <1>4, <1>8, <4>1, <5>1
      <4>2. CASE p # q
        BY <1>4, <1>7, <3>1, <4>2 DEF TypeOK
      <4>3. QED
        BY <4>1, <4>2
    <3>2. QED
      BY <1>5, <3>1
  <2>3. req' \in [Admins -> AllRequests]
    BY <1>5, RequestTyped DEF Answer, AllRequests
  <2>4. QED
    BY <1>4, <1>5, <2>1, <2>2, <2>3 DEF TypeOK, AllRequests, publication, history
<1>12. Rows'
  <2>1. published \subseteq StoredRows'
    <3> SUFFICES ASSUME NEW row \in published PROVE row \in StoredRows'
      OBVIOUS
    <3>1. PICK p \in Questions : \E n \in Slots(p) : row = versions[p][n]
      BY StoredWhere DEF Rows
    <3>2. PICK n \in Slots(p) : row = versions[p][n]
      BY <3>1
    <3>3. n \in Slots(p)' /\ row = versions'[p][n]
      BY <1>4, <1>7, <3>2
    <3>4. QED
      BY <1>9, <3>3
  <2>2. \A p \in Questions : Latest(p)' <= writes /\ \A n \in Slots(p)' : versions'[p][n] <= writes
    <3> SUFFICES ASSUME NEW p \in Questions
                 PROVE  Latest(p)' <= writes /\ \A n \in Slots(p)' : versions'[p][n] <= writes
      OBVIOUS
    <3>1. CASE p = q
      BY <1>4, <1>8, <3>1, RowsBelow
    <3>2. CASE p # q
      BY <1>4, <1>7, <3>2 DEF Rows
    <3>3. QED
      BY <3>1, <3>2
  <2>3. ASSUME NEW p \in Questions, NEW k \in Questions, NEW n \in Slots(p)', NEW m \in Slots(k)',
               versions'[p][n] = versions'[k][m]
        PROVE  p = k /\ n = m
    <3>1. ASSUME NEW j \in Questions, NEW i \in Slots(j)', ~(j = q /\ i = r.slot)
          PROVE  i \in Slots(j) /\ versions'[j][i] = versions[j][i] /\ versions[j][i] # r.row
      <4>1. i \in Slots(j) /\ versions'[j][i] = versions[j][i]
        BY <1>4, <1>7, <3>1
      <4>2. QED
        BY <1>8, <4>1, RowsBelow
    <3>2. CASE p = q /\ n = r.slot
      BY <1>4, <2>3, <3>1, <3>2
    <3>3. CASE k = q /\ m = r.slot
      BY <1>4, <2>3, <3>1, <3>3
    <3>4. CASE ~(p = q /\ n = r.slot) /\ ~(k = q /\ m = r.slot)
      BY <2>3, <3>1, <3>4 DEF Rows
    <3>5. QED
      BY <3>2, <3>3, <3>4
  <2>4. QED
    BY <1>5, <2>1, <2>2, <2>3 DEF Rows, publication, history
<1>13. Lives'
  <2>1. /\ \A p \in Questions : Member(p)' = Member(p)
        /\ published' = published /\ current' = current /\ approved' = approved
    BY <1>5 DEF publication, history, Member
  <2>2. Latest(q)' > 0 /\ status'[q] # "absent" /\ current[q] <= Latest(q)'
    BY <1>4, <1>5, <1>6, <1>7, <1>8, <1>11 DEF TypeOK, Statuses
  <2>3. ASSUME NEW n \in Slots(q)', versions'[q][n] \in published PROVE Member(q)
    BY <1>4, <1>8, <2>3 DEF Lives
  <2>4. Member(q) => versions'[q][current[q]] \in published /\ q \in approved
    <3>1. current[q] \in Slots(q)
      BY <1>4, <1>8 DEF Lives, TypeOK, RowIds, Slots
    <3>2. QED
      BY <1>4, <3>1 DEF Lives
  <2>5. ASSUME NEW p \in Questions, p # q
        PROVE  /\ Exists(p)' <=> Latest(p)' > 0
               /\ status'[p] = "absent" => current'[p] = 1
               /\ Exists(p)' => current'[p] <= Latest(p)'
               /\ status'[p] = "published" => Member(p)'
               /\ status'[p] = "approved" => p \in approved'
               /\ \A n \in Slots(p) : versions'[p][n] \in published' => Member(p)'
               /\ Member(p)' =>
                    Exists(p)' /\ versions'[p][current'[p]] \in published' /\ p \in approved'
    BY <1>4, <1>7, <2>1, <2>5 DEF Lives
  <2>6. /\ Exists(q)' <=> Latest(q)' > 0
        /\ status'[q] = "absent" => current'[q] = 1
        /\ Exists(q)' => current'[q] <= Latest(q)'
        /\ status'[q] = "published" => Member(q)'
        /\ status'[q] # "approved"
        /\ Member(q)' =>
             Exists(q)' /\ versions'[q][current'[q]] \in published' /\ q \in approved'
    BY <1>6, <1>7, <2>1, <2>2, <2>4
  <2>7. QED
    BY <1>7, <2>1, <2>3, <2>5, <2>6 DEF Lives
<1>14. OnlyLatestUnpublished'
  <2>1. published' = published
    BY <1>5 DEF publication
  <2>2. ASSUME NEW n \in 1..Latest(q)', n < Latest(q)' PROVE versions'[q][n] \in published
    BY <1>4, <1>8, <2>2 DEF Slots
  <2>3. ASSUME NEW p \in Questions, p # q, NEW n \in 1..Latest(p)', n < Latest(p)'
        PROVE  versions'[p][n] \in published
    BY <1>4, <2>3 DEF OnlyLatestUnpublished
  <2>4. QED
    BY <2>1, <2>2, <2>3 DEF OnlyLatestUnpublished
<1>15. RequestsFit'
  <2>0. req \in [Admins -> AllRequests] /\ req' = [req EXCEPT ![a] = Idle]
    BY <1>5, RequestTyped DEF Answer
  <2>1. ASSUME NEW b \in Admins, b # a PROVE Fits(req[b])'
    <3>1. PICK x \in AllRequests : x = req[b] /\ x = req'[b]
      BY <2>0, <2>1
    <3>2. Fits(x) /\ Apart(r, x) /\ (x.pc = "update" => x.q # q)
      BY <1>1, <1>2, <1>3, <2>1, <3>1, OneUpdate DEF RequestsFit
    <3>3. CASE x.pc = "idle" \/ x.q # q
      <4>1. x.pc = "update" => x.row \notin StoredRows'
        BY <1>2, <1>10, <3>2 DEF Fits, UpdateFits, Apart
      <4>2. x.pc # "idle" => /\ status'[x.q] # "absent"
                             /\ Exists(x.q)' = Exists(x.q) /\ versions'[x.q] = versions[x.q]
        BY <1>4, <1>7, <3>2, <3>3, RequestFields DEF Fits
      <4>3. Fits(x)'
        BY <1>5, <3>2, <4>1, <4>2, FitsStays DEF publication, history
      <4>4. QED
        BY <3>1, <4>3
    <3>4. CASE x.pc # "idle" /\ x.q = q
      <4>1. status'[q] # "absent" /\ x.pc # "update" /\ x.pc # "idle"
        BY <1>6, <3>2, <3>4 DEF Statuses
      <4>2. x.pc = "version" /\ x.seen = "published" => Member(q)
        BY <3>2, <3>4 DEF Fits
      <4>3. x.pc = "version" =>
              x.slot \in Slots(q)' /\ (x.new => versions'[q][x.slot] \in published)
        <5>1. x.pc = "version" => x.slot \in Slots(q) /\ (x.new => versions[q][x.slot] \in published)
          BY <1>4, <3>2, <3>4 DEF Fits
        <5>2. Slots(q) \subseteq Slots(q)'
          BY <1>4, <1>7, <1>8 DEF Slots
        <5>3. QED
          BY <1>4, <5>1, <5>2
      <4>4. /\ x.pc \in {"max", "mark", "set", "publish"} => q \in approved
            /\ x.pc = "mark" => x.slot \in Slots(q)'
            /\ x.pc = "publish" => x.quiz \in 0..quizzes
        <5>1. Slots(q) \subseteq Slots(q)'
          BY <1>4, <1>7, <1>8 DEF Slots
        <5>2. QED
          BY <1>4, <3>2, <3>4, <5>1 DEF Fits
      <4>5. x.pc \in {"set", "publish"} =>
              x.slot \in Slots(q)' /\ x.row = versions'[q][x.slot]
        <5>1. x.pc \in {"set", "publish"} =>
                x.slot \in Slots(q) /\ x.row = versions[q][x.slot] /\ x.slot # r.slot
          BY <1>2, <1>3, <3>2, <3>4 DEF Fits, Apart, Holding
        <5>2. Slots(q) \subseteq Slots(q)'
          BY <1>4, <1>7, <1>8 DEF Slots
        <5>3. QED
          BY <1>4, <5>1, <5>2
      <4>6. Fits(x)'
        BY <1>5, <1>7, <3>4, <4>1, <4>2, <4>3, <4>4, <4>5 DEF Fits, publication, history, Member
      <4>7. QED
        BY <3>1, <4>6
    <3>5. QED
      BY <3>3, <3>4
  <2>2. Fits(req[a])'
    BY <2>0 DEF Fits, Idle
  <2>3. ASSUME NEW b \in Admins, NEW c \in Admins, b # c PROVE Apart(req[b], req[c])'
    BY <2>0, <2>3 DEF RequestsFit, Apart, Idle, Holding
  <2>4. QED
    BY <2>1, <2>2, <2>3 DEF RequestsFit
<1>16. QuizzesBounded'
  <2>1. Founders' \in SUBSET Founders
    BY <1>5, RequestTyped DEF Founders, Answer, Idle
  <2>2. Cardinality(Founders') <= Cardinality(Founders) /\ Cardinality(Founders') \in Nat
    BY <2>1, FoundersFinite, FS_Subset, FS_CardinalityType
  <2>3. quizzes \in Nat /\ quizzes' = quizzes /\ members' = members
    BY <1>5, FoundersFinite DEF TypeOK, Quizzes, publication
  <2>4. QED
    BY <2>2, <2>3, FoundersFinite DEF QuizzesBounded
<1>17. QED
  BY <1>11, <1>12, <1>13, <1>14, <1>15, <1>16

LEMMA PublishKept ==
  ASSUME IInv, NEW a \in Admins, CommitPublish(a)
  PROVE  IInv'
<1> USE DEF IInv
<1>1. PICK r \in AllRequests : r = req[a]
  BY RequestTyped
<1>2. r.pc = "publish"
  BY <1>1 DEF CommitPublish
<1>3. PICK q \in Questions : q = r.q
  BY <1>2, RequestFields
<1>4. PICK k : k = IF r.quiz = 0 THEN quizzes + 1 ELSE r.quiz
  OBVIOUS
<1>5. /\ published' = published \cup {r.row} /\ publications' = publications \cup {r.row}
      /\ status' = [status EXCEPT ![q] = "published"]
      /\ current' = [current EXCEPT ![q] = r.slot]
      /\ quizzes' = (IF r.quiz = 0 THEN quizzes + 1 ELSE quizzes)
      /\ members' = members \cup {<<k, q>>}
      /\ Answer(a) /\ UNCHANGED <<versions, decided, writes, failures, history>>
  BY <1>1, <1>3, <1>4 DEF CommitPublish, PublishAs
<1>6. /\ Fits(r) /\ Exists(q) /\ r.slot \in Slots(q) /\ r.row = versions[q][r.slot]
      /\ q \in approved /\ r.quiz \in 0..quizzes /\ r.row \in RowIds
  <2>1. Fits(r)
    BY <1>1 DEF RequestsFit
  <2>2. /\ Exists(q) /\ r.slot \in Slots(q) /\ r.row = versions[q][r.slot]
        /\ q \in approved /\ r.quiz \in 0..quizzes
    BY <1>2, <1>3, <2>1 DEF Fits
  <2>3. QED
    BY <2>1, <2>2, Decided
<1>7. /\ \A p \in Questions :
           /\ p # q => status'[p] = status[p] /\ current'[p] = current[p]
           /\ Exists(p)' = Exists(p) /\ versions'[p] = versions[p]
           /\ Latest(p)' = Latest(p) /\ Slots(p)' = Slots(p)
           /\ (Member(p)' <=> Member(p) \/ p = q)
      /\ status'[q] = "published" /\ current'[q] = r.slot /\ StoredRows' = StoredRows
  <2>1. \A p \in Questions : p # q => status'[p] = status[p] /\ current'[p] = current[p]
    BY <1>5 DEF TypeOK
  <2>2. status'[q] = "published" /\ current'[q] = r.slot /\ StoredRows' = StoredRows
    BY <1>5 DEF TypeOK, StoredRows
  <2>3. \A p \in Questions : /\ Exists(p)' = Exists(p) /\ versions'[p] = versions[p]
                             /\ Latest(p)' = Latest(p) /\ Slots(p)' = Slots(p)
    BY <1>5, <1>6, <2>1, <2>2 DEF Exists, Statuses, Latest, Slots
  <2>4. \A p \in Questions : Member(p)' <=> Member(p) \/ p = q
    <3>1. <<k, q>>[2] = q
      OBVIOUS
    <3>2. QED
      BY <1>5, <3>1 DEF Member
  <2>5. QED
    BY <2>1, <2>2, <2>3, <2>4
<1>8. r.slot \in Nat /\ r.slot <= Latest(q) /\ r.slot > 0 /\ Latest(q) <= writes /\ r.slot \in RowIds
  <2>1. /\ Latest(q) \in Nat /\ r.slot \in 1..Latest(q) /\ Latest(q) <= writes
        /\ writes \in Nat /\ writes <= MaxWrites
    BY <1>6, Decided, LifecycleAssumption DEF Slots, Rows, TypeOK
  <2>2. QED
    BY <2>1, LifecycleAssumption DEF RowIds
<1>9. /\ quizzes \in Nat /\ quizzes' \in Nat /\ quizzes <= quizzes' /\ k \in 1..quizzes'
      /\ quizzes' + Cardinality(Founders') <= Cardinality(Admins)
      /\ quizzes' <= Cardinality(Admins) /\ Cardinality(Admins) \in Nat
  <2>1. quizzes \in Nat /\ Cardinality(Admins) \in Nat
    BY FoundersFinite DEF TypeOK, Quizzes
  <2>2. req \in [Admins -> AllRequests] /\ req' = [req EXCEPT ![a] = Idle]
    BY <1>5, RequestTyped DEF Answer
  <2>3. Founders' \in SUBSET (Founders \ {a})
    BY <2>2 DEF Founders, Idle
  <2>4. IsFiniteSet(Founders \ {a}) /\ Cardinality(Founders \ {a}) \in Nat
    BY FoundersFinite, FS_RemoveElement, FS_CardinalityType
  <2>5. Cardinality(Founders') \in Nat /\ Cardinality(Founders') <= Cardinality(Founders \ {a})
    BY <2>3, <2>4, FS_Subset, FS_CardinalityType
  <2>6. CASE r.quiz = 0
    <3>1. a \in Founders
      BY <1>1, <1>2, <2>6 DEF Founders
    <3>2. Cardinality(Founders \ {a}) = Cardinality(Founders) - 1
      BY <3>1, FoundersFinite, FS_RemoveElement
    <3>3. quizzes' = quizzes + 1 /\ k = quizzes + 1
      BY <1>4, <1>5, <2>6
    <3>4. QED
      BY <2>1, <2>5, <3>2, <3>3, FoundersFinite DEF QuizzesBounded
  <2>7. CASE r.quiz # 0
    <3>1. Cardinality(Founders \ {a}) <= Cardinality(Founders)
      BY FoundersFinite, FS_Subset
    <3>2. quizzes' = quizzes /\ k = r.quiz
      BY <1>4, <1>5, <2>7
    <3>3. QED
      BY <1>6, <2>1, <2>4, <2>5, <2>7, <3>1, <3>2, FoundersFinite DEF QuizzesBounded
  <2>8. QED
    BY <2>6, <2>7
<1>10. TypeOK'
  <2>1. /\ status' \in [Questions -> Statuses \cup {"absent", "deleted"}]
        /\ current' \in [Questions -> RowIds]
    BY <1>5, <1>8 DEF TypeOK, Statuses
  <2>2. \A p \in Questions : Exists(p)' => current'[p] <= Latest(p)'
    BY <1>7, <1>8 DEF TypeOK
  <2>3. quizzes' \in {0} \cup Quizzes /\ k \in Quizzes
    BY <1>9 DEF Quizzes
  <2>4. members' \subseteq Quizzes \X Questions
    BY <1>5, <2>3 DEF TypeOK
  <2>5. req' \in [Admins -> AllRequests]
    BY <1>5, RequestTyped DEF Answer, AllRequests
  <2>6. published' \subseteq RowIds /\ publications' \subseteq RowIds
    BY <1>5, <1>6 DEF TypeOK
  <2>7. QED
    BY <1>5, <2>1, <2>2, <2>3, <2>4, <2>5, <2>6 DEF TypeOK, AllRequests, history
<1>11. Rows'
  <2>1. r.row \in StoredRows
    BY <1>6, RowsBelow
  <2>2. /\ published' = publications' /\ shown' \subseteq published'
        /\ published' \subseteq StoredRows'
    BY <1>5, <1>7, <2>1 DEF Rows, history
  <2>3. QED
    BY <1>5, <1>7, <2>2 DEF Rows
<1>12. Lives'
  <2>1. ASSUME NEW p \in Questions, NEW n \in Slots(p), versions[p][n] \in published'
        PROVE  Member(p) \/ p = q
    BY <1>5, <1>6, <2>1 DEF Lives, Rows
  <2>2. ASSUME NEW p \in Questions, Member(p)'
        PROVE  Exists(p) /\ versions[p][current'[p]] \in published' /\ p \in approved
    BY <1>5, <1>6, <1>7, <2>2 DEF Lives
  <2>3. \A p \in Questions : Exists(p)' => current'[p] <= Latest(p)'
    BY <1>10 DEF TypeOK
  <2>4. approved' = approved
    BY <1>5 DEF history
  <2>5. QED
    BY <1>6, <1>7, <2>1, <2>2, <2>3, <2>4 DEF Lives
<1>13. OnlyLatestUnpublished'
  BY <1>5, <1>7 DEF OnlyLatestUnpublished
<1>14. RequestsFit'
  <2>0. req \in [Admins -> AllRequests] /\ req' = [req EXCEPT ![a] = Idle]
    BY <1>5, RequestTyped DEF Answer
  <2>1. ASSUME NEW b \in Admins, b # a PROVE Fits(req[b])'
    <3>1. PICK x \in AllRequests : x = req[b] /\ x = req'[b]
      BY <2>0, <2>1
    <3>2. Fits(x) /\ Apart(r, x) /\ (x.pc # "idle" => x.q \in Questions)
      BY <1>1, <2>1, <3>1, RequestFields DEF RequestsFit
    <3>3. x.pc = "update" => UpdateFits(x)'
      <4> SUFFICES ASSUME x.pc = "update" PROVE UpdateFits(x)'
        OBVIOUS
      <4>1. UpdateFits(x) /\ x.q \in Questions
        BY <3>2 DEF Fits
      <4>2. ~x.new => versions[x.q][Latest(x.q)] # r.row
        <5> SUFFICES ASSUME ~x.new PROVE versions[x.q][Latest(x.q)] # r.row
          OBVIOUS
        <5>1. x.slot = Latest(x.q)
          BY <4>1 DEF UpdateFits
        <5>2. Latest(x.q) \in Slots(x.q)
          BY <4>1, Decided DEF UpdateFits, Lives, Slots
        <5>3. ~(x.q = q /\ Latest(x.q) = r.slot)
          BY <1>2, <1>3, <3>2, <5>1 DEF Apart, Holding
        <5>4. QED
          BY <1>6, <4>1, <5>2, <5>3 DEF Rows
      <4>3. QED
        BY <1>5, <1>7, <4>1, <4>2 DEF UpdateFits
    <3>4. x.pc # "idle" => status'[x.q] # "absent"
      BY <1>7, <3>2 DEF Fits
    <3>5. x.pc = "publish" => x.quiz \in 0..quizzes'
      BY <1>9, <3>2 DEF Fits
    <3>6. Fits(x)'
      <4>1. x.pc \in {"version", "update"} /\ x.seen = "published" => Member(x.q)'
        BY <1>7, <3>2 DEF Fits
      <4>2. x.pc = "version" /\ Exists(x.q)' =>
              x.slot \in Slots(x.q)' /\ (x.new => versions'[x.q][x.slot] \in published')
        BY <1>5, <1>7, <3>2 DEF Fits
      <4>3. /\ x.pc \in {"max", "mark", "set", "publish"} => x.q \in approved'
            /\ x.pc = "mark" /\ Exists(x.q)' => x.slot \in Slots(x.q)'
            /\ x.pc \in {"set", "publish"} =>
                 Exists(x.q)' /\ x.slot \in Slots(x.q)' /\ x.row = versions'[x.q][x.slot]
        BY <1>5, <1>7, <3>2 DEF Fits, history
      <4>4. QED
        BY <3>3, <3>4, <3>5, <4>1, <4>2, <4>3 DEF Fits
    <3>7. QED
      BY <3>1, <3>6
  <2>2. Fits(req[a])'
    BY <2>0 DEF Fits, Idle
  <2>3. ASSUME NEW b \in Admins, NEW c \in Admins, b # c PROVE Apart(req[b], req[c])'
    BY <2>0, <2>3 DEF RequestsFit, Apart, Idle, Holding
  <2>4. QED
    BY <2>1, <2>2, <2>3 DEF RequestsFit
<1>15. QuizzesBounded'
  <2>1. \A m \in members' : m[1] <= quizzes'
    <3>1. \A m \in members : m[1] <= quizzes'
      <4>1. \A m \in members : m[1] \in Nat /\ m[1] <= quizzes
        BY <1>9 DEF QuizzesBounded, TypeOK, Quizzes
      <4>2. QED
        BY <1>9, <4>1
    <3>2. <<k, q>>[1] <= quizzes'
      BY <1>9
    <3>3. QED
      BY <1>5, <3>1, <3>2
  <2>2. QED
    BY <1>9, <2>1 DEF QuizzesBounded
<1>16. QED
  BY <1>10, <1>11, <1>12, <1>13, <1>14, <1>15

-----------------------------------------------------------------------------
LEMMA InitInv == Init => IInv
<1> SUFFICES ASSUME Init PROVE IInv
  OBVIOUS
<1>0. Cardinality(Admins) \in Nat /\ MaxWrites \in Nat \ {0} /\ MaxFailures \in Nat
  BY FoundersFinite, LifecycleAssumption
<1>1. /\ \A q \in Questions : status[q] = "absent" /\ versions[q] = <<>> /\ Latest(q) = 0
                              /\ Slots(q) = {} /\ ~Exists(q) /\ ~Member(q)
      /\ \A a \in Admins : req[a] = Idle
      /\ published = {} /\ members = {} /\ shown = {} /\ quizzes = 0 /\ writes = 0
  BY DEF Init, Latest, Slots, Exists, Statuses, Member
<1>2. TypeOK
  <2>1. versions \in [Questions -> Seq(RowIds)]
    <3>1. <<>> \in Seq(RowIds)
      OBVIOUS
    <3>2. QED
      BY <3>1 DEF Init
  <2>2. current \in [Questions -> RowIds]
    BY <1>0 DEF Init, RowIds
  <2>3. QED
    BY <1>0, <1>1, <2>1, <2>2 DEF Init, TypeOK
<1>3. Rows /\ Lives /\ OnlyLatestUnpublished
  BY <1>1 DEF Init, Rows, Lives, OnlyLatestUnpublished, Slots
<1>4. RequestsFit
  BY <1>1 DEF RequestsFit, Fits, Apart, Holding, Idle
<1>5. QuizzesBounded
  <2>1. Founders = {}
    BY <1>1 DEF Founders, Idle
  <2>2. QED
    BY <1>0, <1>1, <2>1, FS_EmptySet DEF QuizzesBounded
<1>6. QED
  BY <1>2, <1>3, <1>4, <1>5 DEF IInv

LEMMA StepKept == IInv /\ [Next]_vars => IInv'
<1> SUFFICES ASSUME IInv, [Next]_vars PROVE IInv'
  OBVIOUS
<1>1. ASSUME NEW q \in Questions, Create(q) PROVE IInv'
  BY <1>1, CreateKept
<1>2. ASSUME NEW q \in Questions, SubmitForReview(q) \/ Archive(q) PROVE IInv'
  BY <1>2, ReviewCycleKept
<1>3. ASSUME NEW q \in Questions, Delete(q) PROVE IInv'
  BY <1>3, DeleteKept
<1>4. ASSUME NEW q \in Questions, LoadQuestions(q) PROVE IInv'
  BY <1>4, LoadKept
<1>5. ASSUME NEW a \in Admins, NEW q \in Questions, UpdateRead(a, q) \/ PublishCheck(a, q)
      PROVE  IInv'
  BY <1>5, CheckKept
<1>6. ASSUME NEW a \in Admins, NEW q \in Questions, NEW decision \in Decisions,
             Review(a, q, decision)
      PROVE  IInv'
  BY <1>6, ReviewCycleKept
<1>7. ASSUME NEW a \in Admins, UpdateVersion(a) PROVE IInv'
  BY <1>7, UpdateVersionKept
<1>8. ASSUME NEW a \in Admins, UpdateCommit(a) PROVE IInv'
  BY <1>8, UpdateCommitKept
<1>9. ASSUME NEW a \in Admins, RecordDecision(a) PROVE IInv'
  BY <1>9, RecordKept
<1>10. ASSUME NEW a \in Admins, PublishMax(a) \/ MarkVersion(a) \/ SetPublished(a) PROVE IInv'
  BY <1>10, PublishStepKept
<1>11. ASSUME NEW a \in Admins, CommitPublish(a) PROVE IInv'
  BY <1>11, PublishKept
<1>12. ASSUME NEW a \in Admins, RequestFail(a) PROVE IInv'
  <2>1. /\ Answer(a) /\ UNCHANGED <<question, publication, history>> /\ writes' = writes
        /\ failures' \in 0..MaxFailures
    BY <1>12, LifecycleAssumption DEF RequestFail, Tables, IInv, TypeOK
  <2>2. QED
    BY <2>1, AnswerKept, SameTables
<1>13. CASE UNCHANGED vars
  BY <1>13 DEF vars, question, publication, history, IInv, TypeOK, Rows, Lives,
     OnlyLatestUnpublished, RequestsFit, QuizzesBounded, Fits, UpdateFits, Apart, Founders,
     Member, Slots, Latest, Exists, StoredRows
<1>14. QED
  BY <1>1, <1>2, <1>3, <1>4, <1>5, <1>6, <1>7, <1>8, <1>9, <1>10, <1>11, <1>12, <1>13 DEF Next

-----------------------------------------------------------------------------
LEMMA Always == Spec => []IInv
BY InitInv, StepKept, PTL DEF Spec

(* The states of the model are typed: no request finds a slot without a     *)
(* version, and there are never more quizzes than concurrent publications.  *)
THEOREM TypeCorrect == Spec => []TypeOK
<1>1. IInv => TypeOK
  BY DEF IInv
<1>2. QED
  BY <1>1, Always, PTL

(* Whatever was published or shown to a student stays stored as it was,     *)
(* with any number of concurrent updates and publications.                  *)
THEOREM RowsStay == Spec => []ShownVersionsStay
<1>1. IInv => ShownVersionsStay
  BY DEF IInv, Rows, ShownVersionsStay
<1>2. QED
  BY <1>1, Always, PTL

(* Every version before the latest was published.                           *)
THEOREM LatestOnly == Spec => []OnlyLatestUnpublished
<1>1. IInv => OnlyLatestUnpublished
  BY DEF IInv
<1>2. QED
  BY <1>1, Always, PTL

(* A published question is in a quiz of its lesson.                         *)
THEOREM InAQuiz == Spec => []PublishedInQuiz
<1>1. IInv => PublishedInQuiz
  BY MemberInQuiz DEF IInv, Lives, PublishedInQuiz
<1>2. QED
  BY <1>1, Always, PTL

(* No version is published or shown of a question of which no version was   *)
(* ever approved: the race of Publish with an edit replaces the content     *)
(* that was approved, not the need for an approval.                         *)
THEOREM ApprovedFirst == Spec => []ApprovedBeforePublished
<1>1. IInv => ApprovedBeforePublished
  BY DEF IInv, Rows, Lives, Slots, ApprovedBeforePublished
<1>2. QED
  BY <1>1, Always, PTL

(* A step that gives a question new content does not leave it approved or   *)
(* in review.                                                               *)
THEOREM NewContentIsDraft == Spec => EditReturnsToDraft
<1> DEFINE Fresh == \A q \in Questions :
             versions'[q] # versions[q] => status'[q] \notin {"in_review", "approved"}
<1>1. ASSUME IInv, [Next]_vars PROVE [Fresh]_vars
  <2>0. /\ status \in [Questions -> Statuses \cup {"absent", "deleted"}]
        /\ versions \in [Questions -> Seq(RowIds)]
    BY <1>1 DEF IInv, TypeOK
  <2>1. ASSUME NEW q \in Questions, Create(q) \/ Delete(q) PROVE Fresh
    BY <2>0, <2>1 DEF Create, Delete
  <2>2. ASSUME NEW a \in Admins, UpdateCommit(a) PROVE Fresh
    <3>1. req[a].q \in Questions
      BY <1>1, <2>2, RequestTyped, RequestFields DEF IInv, UpdateCommit
    <3>2. /\ status'[req[a].q] = NewStatus(req[a].seen, req[a].new)
          /\ \A q \in Questions : versions'[q] # versions[q] => q = req[a].q
      BY <2>0, <2>2, <3>1 DEF UpdateCommit
    <3>3. QED
      BY <3>2 DEF NewStatus
  <2>3. ASSUME UNCHANGED versions PROVE Fresh
    BY <2>3
  <2>4. ASSUME NEW q \in Questions,
               \/ SubmitForReview(q) \/ Archive(q) \/ LoadQuestions(q)
               \/ \E a \in Admins : UpdateRead(a, q) \/ PublishCheck(a, q)
               \/ \E a \in Admins, decision \in Decisions : Review(a, q, decision)
        PROVE  UNCHANGED versions
    BY <2>4 DEF SubmitForReview, Archive, LoadQuestions, UpdateRead, PublishCheck, Review,
       Transition, Tables, question
  <2>5. ASSUME NEW a \in Admins,
               \/ UpdateVersion(a) \/ RecordDecision(a) \/ PublishMax(a) \/ MarkVersion(a)
               \/ SetPublished(a) \/ CommitPublish(a) \/ RequestFail(a)
        PROVE  UNCHANGED versions
    BY <2>5 DEF UpdateVersion, WriteVersion, RecordDecision, PublishMax, MarkVersion,
       SetPublished, CommitPublish, PublishAs, RequestFail, Tables, question
  <2>6. QED
    <3> HIDE DEF Fresh
    <3> QED
      BY <1>1, <2>1, <2>2, <2>3, <2>4, <2>5 DEF Next
<1>2. Spec => [][Fresh]_vars
  BY <1>1, Always, PTL DEF Spec
<1>3. QED
  BY <1>2 DEF EditReturnsToDraft

(* The version students see of a published question was published.          *)
THEOREM CurrentWasPublished == Spec => []CurrentIsPublished
<1>1. ASSUME IInv PROVE CurrentIsPublished
  <2> SUFFICES ASSUME NEW q \in Questions, status[q] = "published"
               PROVE  current[q] \in 1..Latest(q) /\ versions[q][current[q]] \in published
    BY DEF CurrentIsPublished
  <2>1. Exists(q) /\ Member(q)
    BY <1>1 DEF IInv, Lives, Exists, Statuses
  <2>2. current[q] \in RowIds /\ current[q] <= Latest(q) /\ Latest(q) \in Nat
    BY <1>1, <2>1, Decided DEF IInv, Lives, TypeOK
  <2>3. QED
    BY <1>1, <2>1, <2>2 DEF IInv, Lives, RowIds
<1>2. QED
  BY <1>1, Always, PTL
=============================================================================
