----------------------------- MODULE DailyPlan -----------------------------
(***************************************************************************)
(* One student's daily plan on one day: generated once, its tasks started  *)
(* and completed from several devices, the attempts of its test tasks      *)
(* submitted or abandoned.                                                 *)
(*                                                                         *)
(* A request is a read followed by writes that are commits of their own;   *)
(* only the insertion of a plan with its tasks is one transaction.  The    *)
(* transaction of Submit is one step here, its side effects on the task    *)
(* are steps of the request that submits (module AttemptEngine has the     *)
(* rest of it).                                                            *)
(***************************************************************************)
EXTENDS Integers, FiniteSets, Sequences

CONSTANTS
  Devices,      \* clients of the student, one request at a time each
  Tasks,        \* tasks a plan may consist of
  TestTasks,    \* those that are done by an attempt: new_questions
  MaxAttempts,  \* bound on the attempts started
  MaxFailures   \* bound on the requests that die

ASSUME PlanAssumption ==
  /\ IsFiniteSet(Devices)
  /\ TestTasks \subseteq Tasks
  /\ MaxAttempts \in Nat /\ MaxFailures \in Nat

VARIABLES
  plans,        \* daily_plans of today, each with the tasks it was built with
  taskStatus,   \* daily_tasks.status, "absent" without a row
  completions,  \* task_completions
  attempts,     \* the attempts of tasks: a sequence of task and status
  firstTask,    \* the first_task achievement is awarded
  dev,          \* the request of each device
  failures

vars == <<plans, taskStatus, completions, attempts, firstTask, dev, failures>>

AttemptIds == 1..MaxAttempts
Attempt == [task : TestTasks, status : {"in_progress", "submitted", "abandoned"}]
Statuses == {"absent", "pending", "in_progress", "completed"}
Steps == {"build", "insert", "find", "create", "start", "complete", "row",
          "award", "linked", "linkedRow"}

Idle == [pc |-> "idle"]
Building(pc, T) == [pc |-> pc, tasks |-> T]
OnTask(pc, t) == [pc |-> pc, task |-> t]
Requests ==
  {Idle} \cup [pc : {"build", "insert"}, tasks : SUBSET Tasks]
         \cup [pc : Steps \ {"build", "insert"}, task : Tasks]

Started == DOMAIN attempts
OpenOf(t) == {i \in Started : attempts[i].task = t /\ attempts[i].status = "in_progress"}

Init ==
  /\ plans = {}
  /\ taskStatus = [t \in Tasks |-> "absent"]
  /\ completions = {}
  /\ attempts = <<>>
  /\ firstTask = FALSE
  /\ dev = [d \in Devices |-> Idle]
  /\ failures = 0

Goto(d, rec) == dev' = [dev EXCEPT ![d] = rec]

-----------------------------------------------------------------------------
(* Generate *)

(* GetToday finds no plan; the queries pick the material of the tasks. *)
Generate(d, T) ==
  /\ dev[d] = Idle
  /\ plans = {}
  /\ Goto(d, Building("build", T))
  /\ UNCHANGED <<plans, taskStatus, completions, attempts, firstTask, failures>>

(* Mutant: nothing keeps a second plan of the day out. *)
InsertPlanTwice(d) ==
  /\ dev[d].pc = "build"
  /\ Goto(d, Building("insert", dev[d].tasks))
  /\ UNCHANGED <<plans, taskStatus, completions, attempts, firstTask, failures>>

(* INSERT of the plan row: UNIQUE (user_id, plan_date) makes it wait for    *)
(* another transaction that inserted one, and fail if there is one.         *)
InsertPlan(d) ==
  /\ dev[d].pc = "build"
  /\ \A e \in Devices : dev[e].pc # "insert"
  /\ Goto(d, IF plans = {} THEN Building("insert", dev[d].tasks) ELSE Idle)
  /\ UNCHANGED <<plans, taskStatus, completions, attempts, firstTask, failures>>

(* The tasks, and the commit. *)
CommitPlan(d) ==
  /\ dev[d].pc = "insert"
  /\ plans' = plans \cup {dev[d].tasks}
  /\ taskStatus' = [t \in Tasks |->
       IF t \in dev[d].tasks THEN "pending" ELSE taskStatus[t]]
  /\ Goto(d, Idle)
  /\ UNCHANGED <<completions, attempts, firstTask, failures>>

-----------------------------------------------------------------------------
(* StartTask *)

(* Mutant: the task is in progress before there is an attempt. *)
StartTaskEarly(d, t) ==
  /\ dev[d] = Idle
  /\ taskStatus[t] \in {"pending", "in_progress"}
  /\ taskStatus' = [taskStatus EXCEPT ![t] = "in_progress"]
  /\ Goto(d, IF t \in TestTasks THEN OnTask("find", t) ELSE Idle)
  /\ UNCHANGED <<plans, completions, attempts, firstTask, failures>>

(* getTask: a task that is completed is not started. *)
StartTask(d, t) ==
  /\ dev[d] = Idle
  /\ taskStatus[t] \in {"pending", "in_progress"}
  /\ Goto(d, OnTask(IF t \in TestTasks THEN "find" ELSE "start", t))
  /\ UNCHANGED <<plans, taskStatus, completions, attempts, firstTask, failures>>

(* FindInProgressByDailyTask: the attempt is resumed, or one is created. *)
FindAttempt(d) ==
  /\ dev[d].pc = "find"
  /\ Goto(d, IF OpenOf(dev[d].task) = {} THEN OnTask("create", dev[d].task) ELSE Idle)
  /\ UNCHANGED <<plans, taskStatus, completions, attempts, firstTask, failures>>

CreateAttempt(d) ==
  /\ dev[d].pc = "create"
  /\ Len(attempts) < MaxAttempts
  /\ attempts' = Append(attempts, [task |-> dev[d].task, status |-> "in_progress"])
  /\ Goto(d, OnTask("start", dev[d].task))
  /\ UNCHANGED <<plans, taskStatus, completions, firstTask, failures>>

(* ErrNoQuestions: none of the task's questions is published any more. *)
NoQuestions(d) ==
  /\ dev[d].pc = "create"
  /\ Goto(d, Idle)
  /\ UNCHANGED <<plans, taskStatus, completions, attempts, firstTask, failures>>

(* setTaskStatus(in_progress), whatever the status is by now. *)
SetInProgress(d) ==
  /\ dev[d].pc = "start"
  /\ taskStatus' = [taskStatus EXCEPT ![dev[d].task] = "in_progress"]
  /\ Goto(d, Idle)
  /\ UNCHANGED <<plans, completions, attempts, firstTask, failures>>

-----------------------------------------------------------------------------
(* CompleteTask, for a task of any kind *)

(* getTask; a task that is completed already goes straight to the award. *)
CompleteTask(d, t) ==
  /\ dev[d] = Idle
  /\ taskStatus[t] # "absent"
  /\ Goto(d, OnTask(IF taskStatus[t] = "completed" THEN "award" ELSE "complete", t))
  /\ UNCHANGED <<plans, taskStatus, completions, attempts, firstTask, failures>>

SetCompleted(d) ==
  /\ dev[d].pc = "complete"
  /\ taskStatus' = [taskStatus EXCEPT ![dev[d].task] = "completed"]
  /\ Goto(d, OnTask("row", dev[d].task))
  /\ UNCHANGED <<plans, completions, attempts, firstTask, failures>>

InsertCompletion(d) ==
  /\ dev[d].pc = "row"
  /\ completions' = completions \cup {dev[d].task}
  /\ Goto(d, OnTask("award", dev[d].task))
  /\ UNCHANGED <<plans, taskStatus, attempts, firstTask, failures>>

AwardFirstTask(d) ==
  /\ dev[d].pc = "award"
  /\ firstTask' = TRUE
  /\ Goto(d, Idle)
  /\ UNCHANGED <<plans, taskStatus, completions, attempts, failures>>

-----------------------------------------------------------------------------
(* The attempts of the test tasks *)

(* Submit commits; then completeLinkedDailyTask. *)
SubmitAttempt(d, i) ==
  /\ dev[d] = Idle
  /\ attempts[i].status = "in_progress"
  /\ attempts' = [attempts EXCEPT ![i].status = "submitted"]
  /\ Goto(d, OnTask("linked", attempts[i].task))
  /\ UNCHANGED <<plans, taskStatus, completions, firstTask, failures>>

CompleteLinked(d) ==
  /\ dev[d].pc = "linked"
  /\ taskStatus' = [taskStatus EXCEPT ![dev[d].task] = "completed"]
  /\ Goto(d, OnTask("linkedRow", dev[d].task))
  /\ UNCHANGED <<plans, completions, attempts, firstTask, failures>>

(* Mutant: Submit leaves the completion row to CompleteTask. *)
LinkedWithoutRow(d) ==
  /\ dev[d].pc = "linkedRow"
  /\ Goto(d, Idle)
  /\ UNCHANGED <<plans, taskStatus, completions, attempts, firstTask, failures>>

InsertLinked(d) ==
  /\ dev[d].pc = "linkedRow"
  /\ completions' = completions \cup {dev[d].task}
  /\ Goto(d, Idle)
  /\ UNCHANGED <<plans, taskStatus, attempts, firstTask, failures>>

(* The worker abandons an attempt that is a day old. *)
ExpireAttempt(i) ==
  /\ attempts[i].status = "in_progress"
  /\ attempts' = [attempts EXCEPT ![i].status = "abandoned"]
  /\ UNCHANGED <<plans, taskStatus, completions, firstTask, dev, failures>>

(* A request dies where it stands. *)
RequestFail(d) ==
  /\ dev[d] # Idle
  /\ failures < MaxFailures
  /\ failures' = failures + 1
  /\ Goto(d, Idle)
  /\ UNCHANGED <<plans, taskStatus, completions, attempts, firstTask>>

Next ==
  \/ \E d \in Devices :
       \/ \E T \in SUBSET Tasks : Generate(d, T)
       \/ InsertPlan(d)
       \/ CommitPlan(d)
       \/ \E t \in Tasks : StartTask(d, t) \/ CompleteTask(d, t)
       \/ FindAttempt(d)
       \/ CreateAttempt(d)
       \/ NoQuestions(d)
       \/ SetInProgress(d)
       \/ SetCompleted(d)
       \/ InsertCompletion(d)
       \/ AwardFirstTask(d)
       \/ \E i \in Started : SubmitAttempt(d, i)
       \/ CompleteLinked(d)
       \/ InsertLinked(d)
       \/ RequestFail(d)
  \/ \E i \in Started : ExpireAttempt(i)

Spec == Init /\ [][Next]_vars

-----------------------------------------------------------------------------
TypeOK ==
  /\ plans \in SUBSET (SUBSET Tasks)
  /\ taskStatus \in [Tasks -> Statuses]
  /\ completions \in SUBSET Tasks
  /\ attempts \in Seq(Attempt) /\ Len(attempts) <= MaxAttempts
  /\ firstTask \in BOOLEAN
  /\ dev \in [Devices -> Requests]
  /\ failures \in 0..MaxFailures

On(t, pcs) == \E d \in Devices : dev[d].pc \in pcs /\ dev[d].task = t

(* "Calling it more than once a day returns the same plan without a copy":  *)
(* however many devices generate at once, one plan is stored, and its tasks *)
(* are the ones it was built with, never a mixture.                         *)
OnePlanWithItsTasks ==
  /\ Cardinality(plans) <= 1
  /\ {t \in Tasks : taskStatus[t] # "absent"} = UNION plans

(* A task that is completed, or whose attempt is submitted, has its row in  *)
(* task_completions once the requests that work on it have ended, unless    *)
(* one of them died.                                                        *)
CompletedIsRecorded ==
  failures = 0 =>
    \A t \in Tasks :
      /\ \/ taskStatus[t] = "completed"
         \/ \E i \in Started : attempts[i].task = t /\ attempts[i].status = "submitted"
      /\ ~On(t, {"row", "linked", "linkedRow"})
      => t \in completions

(* A test task is in progress only once an attempt of it was created. *)
InProgressHasAttempt ==
  \A t \in TestTasks : taskStatus[t] = "in_progress" =>
    \E i \in Started : attempts[i].task = t

(* The comments of StartTask, "pressing again does not create a duplicate    *)
(* attempt", and of FindInProgressByDailyTask, which "prevents" one: no task *)
(* has two attempts in progress.  Two starts that overlap both look for the *)
(* attempt before either has created it, and no index keeps the second out. *)
NoDuplicateAttempt == \A t \in TestTasks : Cardinality(OpenOf(t)) <= 1

(* What is left of it: only requests that overlap create more than one, so  *)
(* the attempts of a task in progress are never more than the devices.      *)
OpenAttemptsBounded ==
  \A t \in TestTasks : Cardinality(OpenOf(t)) <= Cardinality(Devices)

(* The comment of StartTask: "a completed task cannot be started at all (it *)
(* used to be set back to in_progress silently)".  The status is read when  *)
(* the request comes and written, unconditionally, when it ends.            *)
CompletedStays ==
  [][\A t \in Tasks : taskStatus[t] = "completed" => taskStatus'[t] = "completed"]_vars
=============================================================================
