-------------------------- MODULE DailyPlanProofs --------------------------
(***************************************************************************)
(* The invariants of the daily plan, for any number of devices, tasks and  *)
(* attempts.                                                               *)
(***************************************************************************)
EXTENDS DailyPlan, FiniteSetTheorems, TLAPS

TaskSteps == Steps \ {"build", "insert"}

(* Only test tasks get an attempt. *)
TestSteps == \A d \in Devices :
  dev[d].pc \in {"find", "create"} => dev[d].task \in TestTasks

(* Requests and attempts are about tasks of the plan. *)
PlannedOnly ==
  /\ \A d \in Devices : dev[d].pc \in TaskSteps => taskStatus[dev[d].task] # "absent"
  /\ \A i \in Started : taskStatus[attempts[i].task] # "absent"

(* One transaction at a time inserts a plan, and only the first of all. *)
OneInserts ==
  /\ \A d, e \in Devices : dev[d].pc = "insert" /\ dev[e].pc = "insert" => d = e
  /\ \A d \in Devices : dev[d].pc = "insert" => plans = {}

PlanRows ==
  /\ plans = {} \/ \E T \in SUBSET Tasks : plans = {T}
  /\ \A t \in Tasks : taskStatus[t] # "absent" <=> \E T \in plans : t \in T

(* A test task is about to be in progress after its attempt was created. *)
StartsCreated == \A d \in Devices :
  dev[d].pc = "start" /\ dev[d].task \in TestTasks =>
    \E i \in Started : attempts[i].task = dev[d].task

(* Who is going to create an attempt of t found none in progress, and each  *)
(* device creates one at most before it looks again.                        *)
Creators(t) == {d \in Devices : dev[d].pc = "create" /\ dev[d].task = t}
CreatorsBounded(t) ==
  Cardinality(OpenOf(t)) + Cardinality(Creators(t)) <= Cardinality(Devices)

TInv == TypeOK /\ TestSteps
PInv == TInv /\ PlannedOnly /\ OneInserts /\ PlanRows

-----------------------------------------------------------------------------
(* The records of requests. *)
LEMMA RequestFields ==
  ASSUME NEW r \in Requests
  PROVE  /\ r.pc \in {"idle"} \cup Steps
         /\ r.pc \in {"build", "insert"} => r.tasks \in SUBSET Tasks
         /\ r.pc \in TaskSteps => r.task \in Tasks
BY DEF Requests, Idle, Steps, TaskSteps

LEMMA RequestMade ==
  /\ Idle \in Requests
  /\ \A T \in SUBSET Tasks : Building("build", T) \in Requests /\ Building("insert", T) \in Requests
  /\ \A pc \in TaskSteps, t \in Tasks : OnTask(pc, t) \in Requests
BY DEF Requests, Idle, Building, OnTask, TaskSteps

LEMMA TypesKept ==
  ASSUME TInv, [Next]_vars
  PROVE  TInv'
<1> USE RequestMade, PlanAssumption DEF TInv, Goto
<1>0. /\ \A d \in Devices : dev[d] \in Requests
      /\ \A i \in Started : attempts[i] \in Attempt
  BY DEF TypeOK, Started
<1>1. ASSUME NEW d \in Devices, NEW T \in SUBSET Tasks, Generate(d, T) PROVE TInv'
  BY <1>1 DEF TypeOK, TestSteps, Generate, Building
<1>2. ASSUME NEW d \in Devices, InsertPlan(d) \/ CommitPlan(d) PROVE TInv'
  <2>1. dev[d].tasks \in SUBSET Tasks
    BY <1>0, <1>2, RequestFields DEF InsertPlan, CommitPlan
  <2>2. CASE InsertPlan(d)
    BY <2>1, <2>2 DEF TypeOK, TestSteps, InsertPlan, Building, Idle
  <2>3. CASE CommitPlan(d)
    BY <2>1, <2>3 DEF TypeOK, TestSteps, CommitPlan, Building, Idle, Statuses
  <2>4. QED
    BY <1>2, <2>2, <2>3
<1>3. ASSUME NEW d \in Devices, NEW t \in Tasks, StartTask(d, t) \/ CompleteTask(d, t) PROVE TInv'
  <2>1. PICK pc \in TaskSteps :
          /\ dev' = [dev EXCEPT ![d] = OnTask(pc, t)]
          /\ pc = "find" => t \in TestTasks
          /\ pc # "create"
    BY <1>3 DEF StartTask, CompleteTask, TaskSteps, Steps
  <2>2. dev' \in [Devices -> Requests]
    BY <2>1 DEF TypeOK
  <2>3. TestSteps'
    BY <2>1 DEF TypeOK, TestSteps, OnTask
  <2>4. QED
    BY <1>3, <2>2, <2>3 DEF TypeOK, StartTask, CompleteTask
<1>4. ASSUME NEW d \in Devices,
             \/ FindAttempt(d) \/ NoQuestions(d) \/ SetInProgress(d) \/ SetCompleted(d)
             \/ InsertCompletion(d) \/ AwardFirstTask(d) \/ CompleteLinked(d) \/ InsertLinked(d)
      PROVE TInv'
  <2>1. dev[d].pc \in TaskSteps /\ dev[d].task \in Tasks
    BY <1>0, <1>4, RequestFields
    DEF FindAttempt, NoQuestions, SetInProgress, SetCompleted, InsertCompletion, AwardFirstTask,
        CompleteLinked, InsertLinked, TaskSteps, Steps
  <2>2. PICK rec \in {Idle, OnTask("create", dev[d].task), OnTask("row", dev[d].task),
                      OnTask("award", dev[d].task), OnTask("linkedRow", dev[d].task)} :
          /\ dev' = [dev EXCEPT ![d] = rec]
          /\ rec.pc = "create" => dev[d].pc = "find"
    BY <1>4
    DEF FindAttempt, NoQuestions, SetInProgress, SetCompleted, InsertCompletion, AwardFirstTask,
        CompleteLinked, InsertLinked, Idle, OnTask
  <2>3. rec \in Requests
    BY <2>1, <2>2 DEF TaskSteps, Steps
  <2>4. dev' \in [Devices -> Requests]
    BY <2>2, <2>3 DEF TypeOK
  <2>5. TestSteps'
    BY <2>1, <2>2 DEF TypeOK, TestSteps, OnTask, Idle
  <2>6. taskStatus' \in [Tasks -> Statuses] /\ completions' \in SUBSET Tasks
    BY <1>4, <2>1
    DEF TypeOK, FindAttempt, NoQuestions, SetInProgress, SetCompleted, InsertCompletion,
        AwardFirstTask, CompleteLinked, InsertLinked, Statuses
  <2>7. QED
    BY <1>4, <2>4, <2>5, <2>6
    DEF TypeOK, FindAttempt, NoQuestions, SetInProgress, SetCompleted, InsertCompletion,
        AwardFirstTask, CompleteLinked, InsertLinked
<1>5. ASSUME NEW d \in Devices, CreateAttempt(d) PROVE TInv'
  <2>1. dev[d].task \in TestTasks
    BY <1>5 DEF CreateAttempt, TestSteps
  <2>2. /\ attempts' \in Seq(Attempt) /\ Len(attempts') <= MaxAttempts
    BY <1>5, <2>1 DEF TypeOK, CreateAttempt, Attempt
  <2>3. dev' \in [Devices -> Requests] /\ TestSteps'
    BY <1>5, <2>1 DEF TypeOK, CreateAttempt, TestSteps, OnTask, TaskSteps, Steps
  <2>4. QED
    BY <1>5, <2>2, <2>3 DEF TypeOK, CreateAttempt
<1>6. ASSUME NEW i \in Started, ExpireAttempt(i) \/ \E d \in Devices : SubmitAttempt(d, i)
      PROVE TInv'
  <2>1. attempts[i].task \in TestTasks
    BY <1>0 DEF Attempt
  <2>2. attempts' \in Seq(Attempt) /\ Len(attempts') = Len(attempts)
    <3>1. PICK status \in {"submitted", "abandoned"} :
            attempts' = [attempts EXCEPT ![i] = [attempts[i] EXCEPT !.status = status]]
      BY <1>6 DEF ExpireAttempt, SubmitAttempt
    <3>2. [attempts[i] EXCEPT !.status = status] \in Attempt
      BY <1>0 DEF Attempt
    <3>3. QED
      BY <3>1, <3>2 DEF TypeOK, Started
  <2>3. dev' \in [Devices -> Requests] /\ TestSteps'
    <3>1. ASSUME NEW d \in Devices, SubmitAttempt(d, i)
          PROVE  dev' \in [Devices -> Requests] /\ TestSteps'
      <4>1. OnTask("linked", attempts[i].task) \in Requests
        BY <2>1 DEF TaskSteps, Steps
      <4>2. QED
        BY <3>1, <4>1 DEF TypeOK, SubmitAttempt, TestSteps, OnTask
    <3>2. CASE ExpireAttempt(i)
      BY <3>2 DEF TypeOK, ExpireAttempt, TestSteps
    <3>3. QED
      BY <1>6, <3>1, <3>2
  <2>4. QED
    BY <1>6, <2>2, <2>3 DEF TypeOK, ExpireAttempt, SubmitAttempt
<1>7. ASSUME NEW d \in Devices, RequestFail(d) PROVE TInv'
  BY <1>7 DEF TypeOK, TestSteps, RequestFail, Idle
<1>8. CASE UNCHANGED vars
  BY <1>8 DEF TypeOK, TestSteps, vars
<1>9. QED
  BY <1>1, <1>2, <1>3, <1>4, <1>5, <1>6, <1>7, <1>8 DEF Next

(* An attempt keeps its task, and a new one is of the task it was created for. *)
LEMMA AttemptsStay ==
  ASSUME TInv, [Next]_vars
  PROVE  /\ Started \subseteq Started'
         /\ \A i \in Started : attempts'[i].task = attempts[i].task
         /\ \A i \in Started' \ Started : \E d \in Devices :
              CreateAttempt(d) /\ attempts'[i].task = dev[d].task
<1>1. attempts \in Seq(Attempt)
  BY DEF TInv, TypeOK
<1>2. ASSUME NEW d \in Devices, CreateAttempt(d)
      PROVE  /\ Started \subseteq Started'
             /\ \A i \in Started : attempts'[i].task = attempts[i].task
             /\ \A i \in Started' \ Started : attempts'[i].task = dev[d].task
  <2> DEFINE new == [task |-> dev[d].task, status |-> "in_progress"]
  <2>1. /\ DOMAIN attempts' = 1..(Len(attempts) + 1) /\ DOMAIN attempts = 1..Len(attempts)
        /\ \A i \in 1..Len(attempts) : attempts'[i] = attempts[i]
        /\ attempts'[Len(attempts) + 1] = new
    BY <1>1, <1>2 DEF CreateAttempt
  <2>2. QED
    BY <1>1, <2>1 DEF Started
<1>3. ASSUME NEW j \in Started, ExpireAttempt(j) \/ \E d \in Devices : SubmitAttempt(d, j)
      PROVE  /\ Started = Started'
             /\ \A i \in Started : attempts'[i].task = attempts[i].task
  <2>1. attempts[j] \in Attempt
    BY <1>1 DEF Started
  <2>2. PICK status \in {"submitted", "abandoned"} :
          attempts' = [attempts EXCEPT ![j] = [attempts[j] EXCEPT !.status = status]]
    BY <1>3 DEF ExpireAttempt, SubmitAttempt
  <2>3. [attempts[j] EXCEPT !.status = status].task = attempts[j].task
    BY <2>1 DEF Attempt
  <2>4. QED
    BY <1>1, <2>2, <2>3 DEF Started
<1>4. CASE UNCHANGED attempts
  BY <1>4 DEF Started
<1>5. QED
  BY <1>2, <1>3, <1>4
  DEF Next, Generate, InsertPlan, CommitPlan, StartTask, CompleteTask, FindAttempt, NoQuestions,
      SetInProgress, SetCompleted, InsertCompletion, AwardFirstTask, CompleteLinked, InsertLinked,
      RequestFail, vars

-----------------------------------------------------------------------------
(* One plan. *)

LEMMA OneInsertsKept ==
  ASSUME PInv, [Next]_vars
  PROVE  OneInserts'
<1> USE DEF PInv, TInv, OneInserts, Goto
<1>1. ASSUME NEW d \in Devices, InsertPlan(d) PROVE OneInserts'
  BY <1>1 DEF TypeOK, InsertPlan, Building, Idle
<1>2. ASSUME NEW d \in Devices, CommitPlan(d) PROVE OneInserts'
  BY <1>2 DEF TypeOK, CommitPlan, Idle
<1>3. ASSUME NEW d \in Devices, NEW rec, rec.pc # "insert", dev' = [dev EXCEPT ![d] = rec],
             UNCHANGED plans
      PROVE  OneInserts'
  BY <1>3 DEF TypeOK
<1>4. CASE UNCHANGED <<dev, plans>>
  BY <1>4
<1>5. QED
  BY <1>1, <1>2, <1>3, <1>4
  DEF Next, Generate, StartTask, CompleteTask, FindAttempt, NoQuestions, CreateAttempt,
      SetInProgress, SetCompleted, InsertCompletion, AwardFirstTask, SubmitAttempt, CompleteLinked,
      InsertLinked, RequestFail, ExpireAttempt, vars, Building, OnTask, Idle

(* Rows of tasks appear with the plan, and never go. *)
LEMMA RowsStay ==
  ASSUME PInv, [Next]_vars
  PROVE  \/ \E d \in Devices : CommitPlan(d)
         \/ /\ plans' = plans
            /\ \A t \in Tasks : taskStatus'[t] = "absent" <=> taskStatus[t] = "absent"
<1> USE DEF PInv, TInv
<1>1. ASSUME NEW d \in Devices,
             SetInProgress(d) \/ SetCompleted(d) \/ CompleteLinked(d)
      PROVE  /\ plans' = plans
             /\ \A t \in Tasks : taskStatus'[t] = "absent" <=> taskStatus[t] = "absent"
  <2>1. dev[d].pc \in TaskSteps
    BY <1>1 DEF SetInProgress, SetCompleted, CompleteLinked, TaskSteps, Steps
  <2>2. taskStatus[dev[d].task] # "absent" /\ plans' = plans
    BY <1>1, <2>1 DEF PlannedOnly, SetInProgress, SetCompleted, CompleteLinked
  <2>3. PICK status \in {"in_progress", "completed"} :
          taskStatus' = [taskStatus EXCEPT ![dev[d].task] = status]
    BY <1>1 DEF SetInProgress, SetCompleted, CompleteLinked
  <2>4. QED
    BY <2>2, <2>3 DEF TypeOK
<1>2. QED
  BY <1>1
  DEF Next, Generate, InsertPlan, StartTask, CompleteTask, FindAttempt, NoQuestions, CreateAttempt,
      InsertCompletion, AwardFirstTask, SubmitAttempt, InsertLinked, RequestFail, ExpireAttempt, vars

LEMMA NothingBefore ==
  ASSUME PInv, NEW d \in Devices, CommitPlan(d)
  PROVE  /\ plans = {} /\ \A t \in Tasks : taskStatus[t] = "absent"
         /\ dev[d].tasks \in SUBSET Tasks
<1>1. plans = {}
  BY DEF PInv, OneInserts, CommitPlan
<1>2. dev[d] \in Requests
  BY DEF PInv, TInv, TypeOK
<1>3. QED
  BY <1>1, <1>2, RequestFields DEF PInv, PlanRows, CommitPlan

LEMMA PlanRowsKept ==
  ASSUME PInv, [Next]_vars
  PROVE  PlanRows'
<1>1. ASSUME NEW d \in Devices, CommitPlan(d) PROVE PlanRows'
  <2>1. plans' = {dev[d].tasks}
    BY <1>1, NothingBefore DEF CommitPlan
  <2>2. \A t \in Tasks : taskStatus'[t] # "absent" <=> t \in dev[d].tasks
    BY <1>1, NothingBefore DEF CommitPlan
  <2>3. QED
    BY <1>1, <2>1, <2>2, NothingBefore DEF PlanRows
<1>2. QED
  BY <1>1, RowsStay DEF PInv, PlanRows

LEMMA PlannedOnlyKept ==
  ASSUME PInv, [Next]_vars
  PROVE  PlannedOnly'
<1> USE DEF PInv, Goto
<1>0. \A t \in Tasks : taskStatus[t] # "absent" => taskStatus'[t] # "absent"
  BY RowsStay, NothingBefore
<1>1. /\ \A d \in Devices : dev[d] \in Requests
      /\ \A i \in Started : attempts[i].task \in Tasks
  <2>1. \A i \in Started : attempts[i] \in Attempt
    BY DEF TInv, TypeOK, Started
  <2>2. QED
    BY <2>1, PlanAssumption DEF TInv, TypeOK, Attempt
<1>2. ASSUME NEW i \in Started' PROVE taskStatus'[attempts'[i].task] # "absent"
  <2>1. CASE i \in Started
    BY <1>0, <1>1, <2>1, AttemptsStay DEF PlannedOnly
  <2>2. CASE i \notin Started
    <3>1. PICK d \in Devices : CreateAttempt(d) /\ attempts'[i].task = dev[d].task
      BY <2>2, AttemptsStay
    <3>2. dev[d].pc \in TaskSteps
      BY <3>1 DEF CreateAttempt, TaskSteps, Steps
    <3>3. QED
      BY <1>0, <1>1, <3>1, <3>2, RequestFields DEF PlannedOnly
  <2>3. QED
    BY <2>1, <2>2
<1>3. ASSUME NEW d \in Devices, dev'[d].pc \in TaskSteps
      PROVE  taskStatus'[dev'[d].task] # "absent"
  <2>1. SUFFICES dev'[d].task \in Tasks /\ taskStatus[dev'[d].task] # "absent"
    BY <1>0
  <2>2. CASE dev[d].pc \in TaskSteps /\ dev'[d].task = dev[d].task
    BY <1>1, <2>2, RequestFields DEF PlannedOnly
  <2>3. CASE \E i \in Started : SubmitAttempt(d, i)
    <3>1. PICK i \in Started : dev' = [dev EXCEPT ![d] = OnTask("linked", attempts[i].task)]
      BY <2>3 DEF SubmitAttempt
    <3>2. QED
      BY <1>1, <3>1 DEF TInv, TypeOK, PlannedOnly, OnTask
  <2>4. CASE \E t \in Tasks : StartTask(d, t) \/ CompleteTask(d, t)
    <3>1. PICK t \in Tasks, pc \in TaskSteps :
            dev' = [dev EXCEPT ![d] = OnTask(pc, t)] /\ taskStatus[t] # "absent"
      BY <2>4 DEF StartTask, CompleteTask, TaskSteps, Steps
    <3>2. QED
      BY <3>1 DEF TInv, TypeOK, OnTask
  <2>5. ASSUME NEW e \in Devices, NEW rec, dev' = [dev EXCEPT ![e] = rec],
               rec.pc \in TaskSteps => dev[e].pc \in TaskSteps /\ rec.task = dev[e].task
        PROVE  dev[d].pc \in TaskSteps /\ dev'[d].task = dev[d].task
    BY <1>3, <2>5 DEF TInv, TypeOK
  <2>6. ASSUME NEW e \in Devices,
               \/ \E T \in SUBSET Tasks : Generate(e, T)
               \/ InsertPlan(e) \/ CommitPlan(e) \/ NoQuestions(e) \/ SetInProgress(e)
               \/ AwardFirstTask(e) \/ InsertLinked(e) \/ RequestFail(e)
        PROVE  dev[d].pc \in TaskSteps /\ dev'[d].task = dev[d].task
    <3>1. PICK rec : dev' = [dev EXCEPT ![e] = rec] /\ rec.pc \in {"idle", "build", "insert"}
      BY <2>6
      DEF Generate, InsertPlan, CommitPlan, NoQuestions, SetInProgress, AwardFirstTask,
          InsertLinked, RequestFail, Idle, Building
    <3>2. QED
      BY <2>5, <3>1 DEF TaskSteps, Steps
  <2>7. ASSUME NEW e \in Devices,
               \/ FindAttempt(e) \/ CreateAttempt(e) \/ SetCompleted(e)
               \/ InsertCompletion(e) \/ CompleteLinked(e)
        PROVE  dev[d].pc \in TaskSteps /\ dev'[d].task = dev[d].task
    <3>1. dev[e].pc \in TaskSteps
      BY <2>7
      DEF FindAttempt, CreateAttempt, SetCompleted, InsertCompletion, CompleteLinked, TaskSteps, Steps
    <3>2. PICK rec : /\ dev' = [dev EXCEPT ![e] = rec]
                     /\ rec.pc = "idle" \/ rec.task = dev[e].task
      BY <2>7
      DEF FindAttempt, CreateAttempt, SetCompleted, InsertCompletion, CompleteLinked, OnTask, Idle
    <3>3. rec.pc \in TaskSteps => dev[e].pc \in TaskSteps /\ rec.task = dev[e].task
      BY <3>1, <3>2 DEF TaskSteps, Steps
    <3>4. QED
      BY <2>5, <3>2, <3>3
  <2>8. ASSUME NEW e \in Devices \ {d},
               \/ \E t \in Tasks : StartTask(e, t) \/ CompleteTask(e, t)
               \/ \E i \in Started : SubmitAttempt(e, i)
        PROVE  dev'[d] = dev[d]
    BY <2>8 DEF TInv, TypeOK, StartTask, CompleteTask, SubmitAttempt
  <2>9. CASE UNCHANGED dev
    BY <1>3, <2>2, <2>9
  <2>10. QED
    BY <1>3, <2>2, <2>3, <2>4, <2>6, <2>7, <2>8, <2>9 DEF Next, ExpireAttempt, vars
<1>4. QED
  BY <1>2, <1>3 DEF PlannedOnly

LEMMA InitPlan == Init => PInv
<1> SUFFICES ASSUME Init PROVE PInv
  OBVIOUS
<1>1. TInv
  <2>1. attempts \in Seq(Attempt) /\ Len(attempts) <= MaxAttempts
    BY PlanAssumption DEF Init
  <2>2. dev \in [Devices -> Requests] /\ TestSteps
    BY RequestMade DEF Init, TestSteps, Idle
  <2>3. /\ plans \in SUBSET (SUBSET Tasks) /\ completions \in SUBSET Tasks
        /\ taskStatus \in [Tasks -> Statuses]
    BY DEF Init, Statuses
  <2>4. firstTask \in BOOLEAN
    BY Zenon DEF Init
  <2>5. failures \in 0..MaxFailures
    BY PlanAssumption DEF Init
  <2>6. QED
    BY <2>1, <2>2, <2>3, <2>4, <2>5 DEF TInv, TypeOK
<1>2. \A d \in Devices : dev[d].pc = "idle"
  BY DEF Init, Idle
<1>3. Started = {}
  BY DEF Init, Started
<1>4. QED
  BY <1>1, <1>2, <1>3 DEF Init, PInv, PlannedOnly, OneInserts, PlanRows, TaskSteps, Steps

LEMMA PlanKept == PInv /\ [Next]_vars => PInv'
BY TypesKept, OneInsertsKept, PlanRowsKept, PlannedOnlyKept DEF PInv

(* The plan of the day is stored once, with the tasks it was built with. *)
THEOREM OnePlan == Spec => []OnePlanWithItsTasks
<1>1. PInv => OnePlanWithItsTasks
  <2> SUFFICES ASSUME PInv PROVE OnePlanWithItsTasks
    OBVIOUS
  <2>1. Cardinality(plans) <= 1
    <3>1. CASE plans = {}
      BY <3>1, FS_EmptySet
    <3>2. CASE \E T \in SUBSET Tasks : plans = {T}
      BY <3>2, FS_Singleton
    <3>3. QED
      BY <3>1, <3>2 DEF PInv, PlanRows
  <2>2. {t \in Tasks : taskStatus[t] # "absent"} = UNION plans
    BY DEF PInv, PlanRows, TInv, TypeOK
  <2>3. QED
    BY <2>1, <2>2 DEF OnePlanWithItsTasks
<1>2. QED
  BY <1>1, InitPlan, PlanKept, PTL DEF Spec

(* Types, for any number of devices, tasks and attempts.                    *)
THEOREM TypeCorrect == Spec => []TypeOK
<1>1. PInv => TypeOK
  BY DEF PInv, TInv
<1>2. QED
  BY <1>1, InitPlan, PlanKept, PTL DEF Spec

-----------------------------------------------------------------------------
(* A test task in progress has an attempt. *)

HasAttempt(t) == \E i \in Started : attempts[i].task = t

LEMMA AttemptRemains ==
  ASSUME TInv, [Next]_vars, NEW t, HasAttempt(t)
  PROVE  HasAttempt(t)'
BY AttemptsStay DEF HasAttempt

LEMMA StartsCreatedKept ==
  ASSUME PInv, StartsCreated, [Next]_vars
  PROVE  StartsCreated'
<1> USE DEF PInv, Goto
<1> SUFFICES ASSUME NEW d \in Devices, NEW t \in TestTasks,
                    dev'[d].pc = "start", dev'[d].task = t
             PROVE  HasAttempt(t)'
  BY DEF StartsCreated, HasAttempt
<1>0. dev \in [Devices -> Requests]
  BY DEF TInv, TypeOK
<1>1. CASE dev'[d] = dev[d]
  BY <1>1, AttemptRemains DEF StartsCreated, HasAttempt
<1>2. ASSUME NEW e \in Devices, NEW rec, dev' = [dev EXCEPT ![e] = rec],
             rec.pc = "start" => rec.task # t \/ HasAttempt(t)'
      PROVE  HasAttempt(t)'
  <2>1. (d = e => dev'[d] = rec) /\ (d # e => dev'[d] = dev[d])
    BY <1>0, <1>2
  <2>2. QED
    BY <1>1, <1>2, <2>1
<1>3. ASSUME NEW e \in Devices, NEW u \in Tasks, StartTask(e, u) PROVE HasAttempt(t)'
  <2>1. CASE u \in TestTasks
    <3>1. dev' = [dev EXCEPT ![e] = OnTask("find", u)]
      BY <1>3, <2>1 DEF StartTask
    <3>2. OnTask("find", u).pc # "start"
      BY DEF OnTask
    <3>3. QED
      BY <1>2, <3>1, <3>2
  <2>2. CASE u \notin TestTasks
    <3>1. dev' = [dev EXCEPT ![e] = OnTask("start", u)]
      BY <1>3, <2>2 DEF StartTask
    <3>2. OnTask("start", u).task # t
      BY <2>2 DEF OnTask
    <3>3. QED
      BY <1>2, <3>1, <3>2
  <2>3. QED
    BY <2>1, <2>2
<1>4. ASSUME NEW e \in Devices, CreateAttempt(e) PROVE HasAttempt(t)'
  <2>1. attempts \in Seq(Attempt)
    BY DEF TInv, TypeOK
  <2>2. /\ Len(attempts) + 1 \in Started'
        /\ attempts'[Len(attempts) + 1].task = dev[e].task
    BY <1>4, <2>1 DEF CreateAttempt, Started
  <2>3. dev[e].task = t => HasAttempt(t)'
    BY <2>2 DEF HasAttempt
  <2>4. QED
    BY <1>2, <1>4, <2>3 DEF CreateAttempt, OnTask
<1>5. ASSUME NEW e \in Devices,
             \/ \E T \in SUBSET Tasks : Generate(e, T)
             \/ InsertPlan(e) \/ CommitPlan(e) \/ FindAttempt(e) \/ NoQuestions(e)
             \/ SetInProgress(e) \/ SetCompleted(e) \/ InsertCompletion(e) \/ AwardFirstTask(e)
             \/ CompleteLinked(e) \/ InsertLinked(e) \/ RequestFail(e)
             \/ \E u \in Tasks : CompleteTask(e, u)
             \/ \E i \in Started : SubmitAttempt(e, i)
      PROVE  HasAttempt(t)'
  <2>1. PICK rec : dev' = [dev EXCEPT ![e] = rec] /\ rec.pc # "start"
    BY <1>5
    DEF Generate, InsertPlan, CommitPlan, FindAttempt, NoQuestions, SetInProgress, SetCompleted,
        InsertCompletion, AwardFirstTask, CompleteLinked, InsertLinked, RequestFail, CompleteTask,
        SubmitAttempt, Idle, Building, OnTask
  <2>2. QED
    BY <1>2, <2>1
<1>6. QED
  BY <1>1, <1>3, <1>4, <1>5 DEF Next, ExpireAttempt, vars

LEMMA InProgressKept ==
  ASSUME PInv, StartsCreated, InProgressHasAttempt, [Next]_vars
  PROVE  InProgressHasAttempt'
<1> SUFFICES ASSUME NEW t \in TestTasks, taskStatus'[t] = "in_progress" PROVE HasAttempt(t)'
  BY DEF InProgressHasAttempt, HasAttempt
<1>0. t \in Tasks /\ taskStatus \in [Tasks -> Statuses]
  BY PlanAssumption DEF PInv, TInv, TypeOK
<1>1. taskStatus[t] = "in_progress" => HasAttempt(t)
  BY DEF InProgressHasAttempt, HasAttempt
<1>2. ASSUME NEW d \in Devices, SetInProgress(d), dev[d].task = t PROVE HasAttempt(t)
  BY <1>2 DEF StartsCreated, HasAttempt, SetInProgress
<1>3. taskStatus[t] = "in_progress" \/ \E d \in Devices : SetInProgress(d) /\ dev[d].task = t
  BY <1>0
  DEF Next, Generate, InsertPlan, CommitPlan, StartTask, CompleteTask, FindAttempt, NoQuestions,
      CreateAttempt, SetInProgress, SetCompleted, InsertCompletion, AwardFirstTask, SubmitAttempt,
      CompleteLinked, InsertLinked, RequestFail, ExpireAttempt, vars
<1>4. QED
  BY <1>1, <1>2, <1>3, AttemptRemains DEF PInv

(* A test task is in progress only once an attempt of it was created. *)
THEOREM InProgressCreated == Spec => []InProgressHasAttempt
<1>1. Init => StartsCreated /\ InProgressHasAttempt
  BY PlanAssumption DEF Init, StartsCreated, InProgressHasAttempt, Idle
<1>2. QED
  BY <1>1, InitPlan, PlanKept, StartsCreatedKept, InProgressKept, PTL DEF Spec

-----------------------------------------------------------------------------
(* What is completed is recorded. *)

Busy == {"row", "linked", "linkedRow"}
Done(t) == \/ taskStatus[t] = "completed"
           \/ \E i \in Started : attempts[i].task = t /\ attempts[i].status = "submitted"
Recorded(t) == failures = 0 => (Done(t) /\ ~On(t, Busy) => t \in completions)

(* An attempt is submitted by a request that goes on to its task. *)
LEMMA SubmittedBy ==
  ASSUME PInv, [Next]_vars, NEW i \in Started', attempts'[i].status = "submitted"
  PROVE  \/ i \in Started /\ attempts[i].status = "submitted"
         \/ i \in Started /\ \E d \in Devices : SubmitAttempt(d, i)
<1>0. attempts \in Seq(Attempt)
  BY DEF PInv, TInv, TypeOK
<1>1. ASSUME NEW d \in Devices, CreateAttempt(d) PROVE i \in Started /\ attempts'[i] = attempts[i]
  BY <1>0, <1>1 DEF CreateAttempt, Started
<1>2. ASSUME NEW j \in Started, ExpireAttempt(j) \/ \E d \in Devices : SubmitAttempt(d, j), i # j
      PROVE  i \in Started /\ attempts'[i] = attempts[i]
  BY <1>0, <1>2 DEF ExpireAttempt, SubmitAttempt, Started
<1>3. ASSUME ExpireAttempt(i), i \in Started PROVE attempts'[i].status = "abandoned"
  <2>1. attempts[i] \in Attempt
    BY <1>0, <1>3 DEF Started
  <2>2. QED
    BY <1>0, <1>3, <2>1 DEF ExpireAttempt, Started, Attempt
<1>4. CASE UNCHANGED attempts
  BY <1>4 DEF Started
<1>5. QED
  BY <1>1, <1>2, <1>3, <1>4
  DEF Next, Generate, InsertPlan, CommitPlan, StartTask, CompleteTask, FindAttempt, NoQuestions,
      SetInProgress, SetCompleted, InsertCompletion, AwardFirstTask, CompleteLinked, InsertLinked,
      RequestFail, vars

LEMMA RecordedKept ==
  ASSUME PInv, NEW t \in Tasks, Recorded(t), [Next]_vars
  PROVE  Recorded(t)'
<1> USE DEF PInv, Goto
<1>0. /\ dev \in [Devices -> Requests] /\ taskStatus \in [Tasks -> Statuses]
      /\ completions \subseteq completions'
  BY DEF TInv, TypeOK, Next, Generate, InsertPlan, CommitPlan, StartTask, CompleteTask, FindAttempt,
         NoQuestions, CreateAttempt, SetInProgress, SetCompleted, InsertCompletion, AwardFirstTask,
         SubmitAttempt, CompleteLinked, InsertLinked, RequestFail, ExpireAttempt, vars
<1>1. ASSUME Done(t)' => Done(t) \/ On(t, Busy)',
             On(t, Busy) => On(t, Busy)' \/ t \in completions',
             failures' = failures
      PROVE  Recorded(t)'
  BY <1>0, <1>1 DEF Recorded
<1>2. ASSUME NEW d \in Devices, NEW i \in Started, SubmitAttempt(d, i) PROVE Recorded(t)'
  <2>1. dev[d].pc = "idle" /\ dev' = [dev EXCEPT ![d] = OnTask("linked", attempts[i].task)]
    BY <1>2 DEF SubmitAttempt, Idle
  <2>2. On(t, Busy) => On(t, Busy)'
    BY <1>0, <2>1 DEF On, Busy
  <2>3. attempts[i].task = t => On(t, Busy)'
    BY <1>0, <2>1 DEF On, Busy, OnTask
  <2>4. taskStatus' = taskStatus /\ failures' = failures
    BY <1>2 DEF SubmitAttempt
  <2>5. ASSUME NEW j \in Started', attempts'[j].task = t, attempts'[j].status = "submitted"
        PROVE  Done(t) \/ On(t, Busy)'
    <3>1. j \in Started /\ attempts[j].task = t
      BY <2>5, SubmittedBy, AttemptsStay
    <3>2. CASE attempts[j].status = "submitted"
      BY <3>1, <3>2 DEF Done
    <3>3. CASE j = i
      BY <2>3, <3>1, <3>3
    <3>4. CASE j # i
      <4>1. attempts'[j] = attempts[j]
        BY <1>2, <3>1, <3>4 DEF SubmitAttempt
      <4>2. QED
        BY <2>5, <3>2, <4>1
    <3>5. QED
      BY <3>3, <3>4
  <2>6. Done(t)' => Done(t) \/ On(t, Busy)'
    BY <2>4, <2>5 DEF Done
  <2>7. QED
    BY <1>1, <2>2, <2>4, <2>6
<1>3. ASSUME ~ \E d \in Devices, i \in Started : SubmitAttempt(d, i),
             taskStatus'[t] = "completed" => taskStatus[t] = "completed" \/ On(t, Busy)'
      PROVE  Done(t)' => Done(t) \/ On(t, Busy)'
  <2>1. ASSUME NEW j \in Started', attempts'[j].task = t, attempts'[j].status = "submitted"
        PROVE  Done(t)
    BY <1>3, <2>1, SubmittedBy, AttemptsStay DEF Done
  <2>2. QED
    BY <1>3, <2>1 DEF Done
<1>4. ASSUME NEW d \in Devices, SetCompleted(d) \/ CompleteLinked(d) PROVE Recorded(t)'
  <2>1. PICK pc \in {"row", "linkedRow"} :
          /\ dev' = [dev EXCEPT ![d] = OnTask(pc, dev[d].task)]
          /\ taskStatus' = [taskStatus EXCEPT ![dev[d].task] = "completed"]
          /\ UNCHANGED <<attempts, failures>>
          /\ dev[d].pc \in {"complete", "linked"}
    BY <1>4 DEF SetCompleted, CompleteLinked
  <2>2. dev[d].task = t => On(t, Busy)'
    BY <1>0, <2>1 DEF On, Busy, OnTask
  <2>3. On(t, Busy) => On(t, Busy)'
    BY <1>0, <2>1, <2>2 DEF On, Busy
  <2>4. taskStatus'[t] = "completed" => taskStatus[t] = "completed" \/ On(t, Busy)'
    BY <1>0, <2>1, <2>2
  <2>5. Done(t)' => Done(t) \/ On(t, Busy)'
    BY <2>1, <2>4 DEF Done, Started
  <2>6. QED
    BY <1>1, <2>1, <2>3, <2>5
<1>5. ASSUME NEW d \in Devices, InsertCompletion(d) \/ InsertLinked(d) PROVE Recorded(t)'
  <2>1. PICK rec :
          /\ dev' = [dev EXCEPT ![d] = rec]
          /\ completions' = completions \cup {dev[d].task}
          /\ UNCHANGED <<attempts, taskStatus, failures>>
    BY <1>5 DEF InsertCompletion, InsertLinked
  <2>2. On(t, Busy) => On(t, Busy)' \/ t \in completions'
    BY <1>0, <2>1 DEF On, Busy
  <2>3. Done(t)' => Done(t)
    BY <2>1 DEF Done, Started
  <2>4. QED
    BY <1>1, <2>1, <2>2, <2>3
<1>6. ASSUME NEW d \in Devices,
             \/ \E T \in SUBSET Tasks : Generate(d, T)
             \/ InsertPlan(d) \/ CommitPlan(d) \/ FindAttempt(d) \/ CreateAttempt(d)
             \/ NoQuestions(d) \/ SetInProgress(d) \/ AwardFirstTask(d)
             \/ \E u \in Tasks : StartTask(d, u) \/ CompleteTask(d, u)
      PROVE  Recorded(t)'
  <2>1. dev[d].pc \notin Busy /\ failures' = failures
    BY <1>6
    DEF Generate, InsertPlan, CommitPlan, FindAttempt, CreateAttempt, NoQuestions, SetInProgress,
        AwardFirstTask, StartTask, CompleteTask, Busy, Idle
  <2>2. PICK rec : dev' = [dev EXCEPT ![d] = rec]
    BY <1>6
    DEF Generate, InsertPlan, CommitPlan, FindAttempt, CreateAttempt, NoQuestions, SetInProgress,
        AwardFirstTask, StartTask, CompleteTask
  <2>3. On(t, Busy) => On(t, Busy)'
    BY <1>0, <2>1, <2>2 DEF On
  <2>4. taskStatus'[t] = "completed" => taskStatus[t] = "completed"
    BY <1>0, <1>6
    DEF Generate, InsertPlan, CommitPlan, FindAttempt, CreateAttempt, NoQuestions, SetInProgress,
        AwardFirstTask, StartTask, CompleteTask
  <2>5. ~ \E e \in Devices, i \in Started : SubmitAttempt(e, i)
    <3>1. ASSUME NEW e \in Devices, NEW i \in Started, SubmitAttempt(e, i) PROVE FALSE
      <4>1. attempts' # attempts /\ Len(attempts') = Len(attempts)
        <5>1. attempts \in Seq(Attempt) /\ attempts[i] \in Attempt
          BY DEF TInv, TypeOK, Started
        <5>2. QED
          BY <3>1, <5>1 DEF SubmitAttempt, Started, Attempt
      <4>2. CASE CreateAttempt(d)
        BY <4>1, <4>2 DEF CreateAttempt, TInv, TypeOK
      <4>3. QED
        BY <1>6, <4>1, <4>2
        DEF Generate, InsertPlan, CommitPlan, FindAttempt, NoQuestions, SetInProgress,
            AwardFirstTask, StartTask, CompleteTask
    <3>2. QED
      BY <3>1
  <2>6. QED
    BY <1>1, <1>3, <2>1, <2>3, <2>4, <2>5
<1>7. ASSUME NEW i \in Started, ExpireAttempt(i) PROVE Recorded(t)'
  <2>1. dev' = dev /\ taskStatus' = taskStatus /\ failures' = failures
    BY <1>7 DEF ExpireAttempt
  <2>2. ~ \E e \in Devices, j \in Started : SubmitAttempt(e, j)
    <3>1. attempts \in Seq(Attempt) /\ attempts[i] \in Attempt
      BY DEF TInv, TypeOK, Started
    <3>2. attempts'[i].status = "abandoned"
      BY <1>7, <3>1 DEF ExpireAttempt, Started, Attempt
    <3>3. ASSUME NEW e \in Devices, NEW j \in Started, SubmitAttempt(e, j)
          PROVE  attempts'[i].status # "abandoned"
      BY <1>7, <3>1, <3>3 DEF ExpireAttempt, SubmitAttempt, Started, Attempt
    <3>4. QED
      BY <3>2, <3>3
  <2>3. On(t, Busy) => On(t, Busy)'
    BY <2>1 DEF On
  <2>4. QED
    BY <1>1, <1>3, <2>1, <2>2, <2>3
<1>8. ASSUME NEW d \in Devices, RequestFail(d) PROVE Recorded(t)'
  <2>1. failures' # 0
    BY <1>8 DEF RequestFail, TInv, TypeOK
  <2>2. QED
    BY <2>1 DEF Recorded
<1>9. CASE UNCHANGED vars
  BY <1>9 DEF Recorded, Done, On, Started, vars
<1>10. QED
  BY <1>2, <1>4, <1>5, <1>6, <1>7, <1>8, <1>9 DEF Next

(* A task that is completed, or whose attempt is submitted, is recorded once *)
(* nobody works on it, unless a request died.                               *)
THEOREM CompletionRecorded == Spec => []CompletedIsRecorded
<1> DEFINE All == \A t \in Tasks : Recorded(t)
<1>1. Init => All
  BY DEF Init, Recorded, Done, Started
<1>2. PInv /\ All /\ [Next]_vars => All'
  BY RecordedKept
<1>3. All => CompletedIsRecorded
  BY DEF CompletedIsRecorded, Recorded, Done, Busy
<1>4. QED
  BY <1>1, <1>2, <1>3, InitPlan, PlanKept, PTL DEF Spec

-----------------------------------------------------------------------------
(* Attempts in progress. *)

LEMMA SetsFinite ==
  ASSUME TInv, NEW t
  PROVE  IsFiniteSet(OpenOf(t)) /\ IsFiniteSet(Creators(t))
<1>1. Len(attempts) \in Nat /\ Started = 1..Len(attempts)
  BY DEF TInv, TypeOK, Started
<1>2. IsFiniteSet(Started)
  BY <1>1, FS_Interval
<1>3. OpenOf(t) \in SUBSET Started /\ Creators(t) \in SUBSET Devices
  BY DEF OpenOf, Creators
<1>4. QED
  BY <1>2, <1>3, FS_Subset, PlanAssumption

(* A request is about to create an attempt if it was, or if it found none.  *)
LEMMA CreatorsStep ==
  ASSUME TInv, [Next]_vars, NEW t, NEW d \in Creators(t)'
  PROVE  d \in Creators(t) \/ (FindAttempt(d) /\ dev[d].task = t /\ OpenOf(t) = {})
<1> USE DEF Goto
<1>0. dev \in [Devices -> Requests]
  BY DEF TInv, TypeOK
<1>1. d \in Devices /\ dev'[d].pc = "create" /\ dev'[d].task = t
  BY DEF Creators
<1>2. ASSUME dev'[d] = dev[d] PROVE d \in Creators(t)
  BY <1>1, <1>2 DEF Creators
<1>3. ASSUME NEW e \in Devices, NEW rec, dev' = [dev EXCEPT ![e] = rec], rec.pc # "create"
      PROVE  d \in Creators(t)
  <2>1. d # e
    BY <1>0, <1>1, <1>3
  <2>2. QED
    BY <1>0, <1>1, <1>2, <1>3, <2>1
<1>4. ASSUME NEW e \in Devices, FindAttempt(e)
      PROVE  d \in Creators(t) \/ (FindAttempt(d) /\ dev[d].task = t /\ OpenOf(t) = {})
  <2>1. CASE d # e
    BY <1>0, <1>2, <1>4, <2>1 DEF FindAttempt
  <2>2. CASE d = e /\ OpenOf(dev[d].task) = {}
    <3>1. dev'[d].task = dev[d].task
      BY <1>0, <1>4, <2>2 DEF FindAttempt, OnTask
    <3>2. QED
      BY <1>1, <1>4, <2>2, <3>1
  <2>3. CASE d = e /\ OpenOf(dev[d].task) # {}
    BY <1>0, <1>1, <1>4, <2>3 DEF FindAttempt, Idle
  <2>4. QED
    BY <2>1, <2>2, <2>3
<1>5. ASSUME NEW e \in Devices,
             \/ \E T \in SUBSET Tasks : Generate(e, T)
             \/ InsertPlan(e) \/ CommitPlan(e) \/ CreateAttempt(e) \/ NoQuestions(e)
             \/ SetInProgress(e) \/ SetCompleted(e) \/ InsertCompletion(e) \/ AwardFirstTask(e)
             \/ CompleteLinked(e) \/ InsertLinked(e) \/ RequestFail(e)
             \/ \E u \in Tasks : CompleteTask(e, u)
             \/ \E i \in Started : SubmitAttempt(e, i)
      PROVE  d \in Creators(t)
  <2>1. PICK rec : dev' = [dev EXCEPT ![e] = rec] /\ rec.pc # "create"
    BY <1>5
    DEF Generate, InsertPlan, CommitPlan, CreateAttempt, NoQuestions, SetInProgress, SetCompleted,
        InsertCompletion, AwardFirstTask, CompleteLinked, InsertLinked, RequestFail, CompleteTask,
        SubmitAttempt, Idle, Building, OnTask
  <2>2. QED
    BY <1>3, <2>1
<1>6. ASSUME NEW e \in Devices, NEW u \in Tasks, StartTask(e, u) PROVE d \in Creators(t)
  <2>1. PICK pc \in {"find", "start"} : dev' = [dev EXCEPT ![e] = OnTask(pc, u)]
    BY <1>6 DEF StartTask
  <2>2. OnTask(pc, u).pc # "create"
    BY <2>1 DEF OnTask
  <2>3. QED
    BY <1>3, <2>1, <2>2
<1>7. QED
  BY <1>2, <1>4, <1>5, <1>6 DEF Next, ExpireAttempt, vars

(* An attempt is in progress if it was, or if it has just been created.     *)
LEMMA OpenStep ==
  ASSUME TInv, [Next]_vars, NEW t, ~ \E d \in Devices : CreateAttempt(d) /\ dev[d].task = t
  PROVE  OpenOf(t)' \subseteq OpenOf(t)
<1> SUFFICES ASSUME NEW i \in OpenOf(t)' PROVE i \in OpenOf(t)
  OBVIOUS
<1>0. attempts \in Seq(Attempt)
  BY DEF TInv, TypeOK
<1>1. i \in Started' /\ attempts'[i].task = t /\ attempts'[i].status = "in_progress"
  BY DEF OpenOf
<1>2. i \in Started /\ attempts[i].task = t
  BY <1>1, AttemptsStay
<1>3. CASE attempts'[i] = attempts[i]
  BY <1>1, <1>2, <1>3 DEF OpenOf
<1>4. ASSUME NEW d \in Devices, CreateAttempt(d) PROVE attempts'[i] = attempts[i]
  BY <1>0, <1>2, <1>4 DEF CreateAttempt, Started
<1>5. ASSUME NEW j \in Started, ExpireAttempt(j) \/ \E d \in Devices : SubmitAttempt(d, j)
      PROVE  attempts'[i] = attempts[i]
  <2>1. CASE i = j
    <3>1. attempts[j] \in Attempt
      BY <1>0 DEF Started
    <3>2. attempts'[j].status # "in_progress"
      BY <1>0, <1>5, <3>1 DEF ExpireAttempt, SubmitAttempt, Started, Attempt
    <3>3. QED
      BY <1>1, <2>1, <3>2
  <2>2. CASE i # j
    BY <1>0, <1>2, <1>5, <2>2 DEF ExpireAttempt, SubmitAttempt, Started
  <2>3. QED
    BY <2>1, <2>2
<1>6. CASE UNCHANGED attempts
  BY <1>3, <1>6
<1>7. QED
  BY <1>3, <1>4, <1>5, <1>6
  DEF Next, Generate, InsertPlan, CommitPlan, StartTask, CompleteTask, FindAttempt, NoQuestions,
      SetInProgress, SetCompleted, InsertCompletion, AwardFirstTask, CompleteLinked, InsertLinked,
      RequestFail, vars

LEMMA BoundKept ==
  ASSUME PInv, NEW t \in TestTasks, CreatorsBounded(t), [Next]_vars
  PROVE  CreatorsBounded(t)'
<1> USE DEF PInv
<1>0. /\ IsFiniteSet(OpenOf(t)) /\ IsFiniteSet(Creators(t))
      /\ Cardinality(OpenOf(t)) \in Nat /\ Cardinality(Creators(t)) \in Nat
      /\ Cardinality(Devices) \in Nat
  BY SetsFinite, FS_CardinalityType, PlanAssumption
<1>1. TInv'
  BY TypesKept
<1>2. /\ IsFiniteSet(OpenOf(t)') /\ IsFiniteSet(Creators(t)')
      /\ Cardinality(OpenOf(t)') \in Nat /\ Cardinality(Creators(t)') \in Nat
  <2>1. (IsFiniteSet(OpenOf(t)) /\ IsFiniteSet(Creators(t)))'
    BY <1>1, SetsFinite, PTL
  <2>2. QED
    BY <2>1, FS_CardinalityType
<1>3. CASE \E d \in Devices : CreateAttempt(d) /\ dev[d].task = t
  <2>1. PICK d \in Devices : CreateAttempt(d) /\ dev[d].task = t
    BY <1>3
  <2>2. attempts \in Seq(Attempt) /\ dev \in [Devices -> Requests]
    BY DEF TInv, TypeOK
  <2>3. /\ Len(attempts) + 1 \notin OpenOf(t)
        /\ OpenOf(t)' \subseteq OpenOf(t) \cup {Len(attempts) + 1}
    BY <2>1, <2>2 DEF CreateAttempt, OpenOf, Started
  <2>4. d \in Creators(t) /\ Creators(t)' \subseteq Creators(t) \ {d}
    BY <2>1, <2>2 DEF CreateAttempt, Creators, OnTask, Goto
  <2>5. Cardinality(OpenOf(t)') <= Cardinality(OpenOf(t)) + 1
    <3> DEFINE S == OpenOf(t) \cup {Len(attempts) + 1}
    <3>1. IsFiniteSet(S) /\ Cardinality(S) = Cardinality(OpenOf(t)) + 1
      BY <1>0, <2>3, FS_AddElement
    <3>2. OpenOf(t)' \in SUBSET S
      BY <2>3
    <3>3. QED
      BY <3>1, <3>2, FS_Subset
  <2>6. Cardinality(Creators(t)') <= Cardinality(Creators(t)) - 1
    <3> DEFINE S == Creators(t) \ {d}
    <3>1. IsFiniteSet(S) /\ Cardinality(S) = Cardinality(Creators(t)) - 1
      BY <1>0, <2>4, FS_RemoveElement
    <3>2. Creators(t)' \in SUBSET S
      BY <2>4
    <3>3. QED
      BY <3>1, <3>2, FS_Subset
  <2>7. QED
    BY <1>0, <1>2, <2>5, <2>6 DEF CreatorsBounded
<1>4. CASE /\ ~ \E d \in Devices : CreateAttempt(d) /\ dev[d].task = t
           /\ OpenOf(t) = {}
  <2>1. OpenOf(t)' = {}
    BY <1>4, OpenStep
  <2>2. Creators(t)' \in SUBSET Devices
    BY DEF Creators
  <2>3. Cardinality(Creators(t)') <= Cardinality(Devices)
    BY <2>2, FS_Subset, PlanAssumption
  <2>4. Cardinality(OpenOf(t)') = 0
    BY <2>1, FS_EmptySet
  <2>5. QED
    BY <1>0, <1>2, <2>3, <2>4 DEF CreatorsBounded
<1>5. CASE /\ ~ \E d \in Devices : CreateAttempt(d) /\ dev[d].task = t
           /\ OpenOf(t) # {}
  <2>1. OpenOf(t)' \in SUBSET OpenOf(t)
    BY <1>5, OpenStep
  <2>2. Creators(t)' \in SUBSET Creators(t)
    BY <1>5, CreatorsStep
  <2>3. /\ Cardinality(OpenOf(t)') <= Cardinality(OpenOf(t))
        /\ Cardinality(Creators(t)') <= Cardinality(Creators(t))
    BY <1>0, <2>1, <2>2, FS_Subset
  <2>4. QED
    BY <1>0, <1>2, <2>3 DEF CreatorsBounded
<1>6. QED
  BY <1>3, <1>4, <1>5

(* Starts that overlap may create an attempt of one task each, and none     *)
(* creates two: a task never has more in progress than there are devices.   *)
THEOREM OpenPerDevice == Spec => []OpenAttemptsBounded
<1> DEFINE All == \A t \in TestTasks : CreatorsBounded(t)
<1>1. Init => All
  <2> SUFFICES ASSUME Init, NEW t \in TestTasks PROVE CreatorsBounded(t)
    OBVIOUS
  <2>1. OpenOf(t) = {} /\ Creators(t) = {}
    BY DEF Init, OpenOf, Creators, Started, Idle
  <2>2. Cardinality(Devices) \in Nat
    BY FS_CardinalityType, PlanAssumption
  <2>3. QED
    BY <2>1, <2>2, FS_EmptySet DEF CreatorsBounded
<1>2. PInv /\ All /\ [Next]_vars => All'
  BY BoundKept
<1>3. PInv /\ All => OpenAttemptsBounded
  <2> SUFFICES ASSUME PInv, All, NEW t \in TestTasks
               PROVE  Cardinality(OpenOf(t)) <= Cardinality(Devices)
    BY DEF OpenAttemptsBounded
  <2>1. /\ Cardinality(OpenOf(t)) \in Nat /\ Cardinality(Creators(t)) \in Nat
        /\ Cardinality(Devices) \in Nat
    BY SetsFinite, FS_CardinalityType, PlanAssumption DEF PInv
  <2>2. QED
    BY <2>1 DEF CreatorsBounded
<1>4. QED
  BY <1>1, <1>2, <1>3, InitPlan, PlanKept, PTL DEF Spec
=============================================================================
