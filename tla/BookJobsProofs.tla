--------------------------- MODULE BookJobsProofs ---------------------------
(***************************************************************************)
(* What the queue promises, for any number of books, workers, uploads and  *)
(* attempts.                                                               *)
(***************************************************************************)
EXTENDS BookJobs, FiniteSetTheorems, TLAPS

QueuedJob == [book : Books, attempts : Nat, due : BOOLEAN,
              status : {"pending", "processing", "completed", "failed"}]
StoredAnalysis == [book : Books, of : Nat, job : Nat,
                   status : {"processing", "completed", "failed"}]
Claiming == [pc : {"claim"}, job : Nat]
Working == [pc : Steps, job : Nat, of : Nat, id : Nat, ok : BOOLEAN]

(* Types without the bounds, and workers have jobs that exist. *)
Queue ==
  /\ file \in [Books -> Nat] /\ toEnqueue \in [Books -> Nat]
  /\ jobs \in Seq(QueuedJob) /\ analyses \in Seq(StoredAnalysis)
  /\ worker \in [Workers -> {Idle} \cup Claiming \cup Working]
  /\ \A w \in Workers : worker[w].pc # "idle" => worker[w].job \in Jobs
  /\ losses \in Nat

(* What a worker is filling in is the analysis of its job, and has its      *)
(* outcome when the job is about to be reported as done.                    *)
OwnAnalysis(w) ==
  /\ worker[w].id \in DOMAIN analyses
  /\ analyses[worker[w].id].job = worker[w].job
  /\ analyses[worker[w].id].book = BookOfJob(w)
  /\ analyses[worker[w].id].of = worker[w].of
FillsOwn == \A w \in Workers :
  /\ worker[w].pc \in {"analyse", "store", "mark"} => OwnAnalysis(w)
  /\ worker[w].pc = "finish" /\ worker[w].ok =>
       OwnAnalysis(w) /\ (losses = 0 => analyses[worker[w].id].status # "processing")

-----------------------------------------------------------------------------
LEMMA WorkerFields ==
  ASSUME Queue, NEW w \in Workers
  PROVE  /\ worker[w].pc = "idle" <=> worker[w] = Idle
         /\ worker[w].pc \in {"idle", "claim"} \cup Steps
         /\ worker[w].pc = "claim" => worker[w] \in Claiming
         /\ worker[w].pc \in Steps => worker[w] \in Working
         /\ worker[w].pc # "idle" => worker[w].job \in Jobs
<1>1. worker[w] \in {Idle} \cup Claiming \cup Working
  BY DEF Queue
<1>2. QED
  BY <1>1 DEF Queue, Idle, Claiming, Working, Steps

LEMMA JobFields ==
  ASSUME Queue, NEW j \in Jobs
  PROVE  jobs[j] \in QueuedJob
BY DEF Queue, Jobs

(* How a job leaves the hands of a worker. *)
LEMMA OutcomeFields ==
  ASSUME NEW job \in QueuedJob, NEW ok \in BOOLEAN, NEW e \in BOOLEAN
  PROVE  /\ Outcome(job, ok, e) \in QueuedJob
         /\ Outcome(job, ok, e).book = job.book
         /\ Outcome(job, ok, e).status = IF ok THEN "completed" ELSE IF e THEN "failed" ELSE "pending"
<1>1. CASE ok
  BY <1>1 DEF Outcome, QueuedJob
<1>2. CASE ~ok /\ e
  <2>1. Outcome(job, ok, e) = [book |-> job.book, attempts |-> job.attempts + 1,
                               due |-> job.due, status |-> "failed"]
    BY <1>2 DEF Outcome, QueuedJob
  <2>2. job.book \in Books /\ job.attempts + 1 \in Nat /\ job.due \in BOOLEAN
    BY DEF QueuedJob
  <2>3. Outcome(job, ok, e) \in QueuedJob
    BY <2>1, <2>2 DEF QueuedJob
  <2>4. Outcome(job, ok, e).book = job.book /\ Outcome(job, ok, e).status = "failed"
    BY <2>1
  <2>5. QED
    BY <1>2, <2>3, <2>4
<1>3. CASE ~ok /\ ~e
  <2>1. Outcome(job, ok, e) = [book |-> job.book, attempts |-> job.attempts + 1,
                               due |-> FALSE, status |-> "pending"]
    BY <1>3 DEF Outcome, QueuedJob
  <2>2. QED
    BY <1>3, <2>1 DEF QueuedJob
<1>4. QED
  BY <1>1, <1>2, <1>3

(* A job stays, of the same book; one worker at a time moves its status.    *)
LEMMA JobsStay ==
  ASSUME Queue, [JobsNext]_jobsVars
  PROVE  /\ Jobs \subseteq Jobs' /\ jobs' \in Seq(QueuedJob)
         /\ \A j \in Jobs :
              /\ jobs'[j].book = jobs[j].book
              /\ \/ jobs'[j].status = jobs[j].status
                 \/ \E w \in Workers : worker[w].job = j /\ (CommitClaim(w) \/ FinishJob(w))
         /\ \A j \in Jobs' \ Jobs : jobs'[j].status = "pending"
<1> USE DEF Jobs
<1>0. jobs \in Seq(QueuedJob)
  BY DEF Queue
<1>1. ASSUME NEW b \in Books, Enqueue(b)
      PROVE  /\ Jobs \subseteq Jobs' /\ jobs' \in Seq(QueuedJob)
             /\ \A j \in Jobs : jobs'[j] = jobs[j]
             /\ \A j \in Jobs' \ Jobs : jobs'[j].status = "pending"
  <2>1. jobs' = Append(jobs, [book |-> b, attempts |-> 0, due |-> TRUE, status |-> "pending"])
    BY <1>1 DEF Enqueue
  <2>2. [book |-> b, attempts |-> 0, due |-> TRUE, status |-> "pending"] \in QueuedJob
    BY DEF QueuedJob
  <2>3. QED
    BY <1>0, <2>1, <2>2
<1>2. ASSUME NEW w \in Workers, CommitClaim(w) \/ FinishJob(w)
      PROVE  /\ Jobs' = Jobs /\ jobs' \in Seq(QueuedJob)
             /\ \A j \in Jobs :
                  /\ jobs'[j].book = jobs[j].book
                  /\ j # worker[w].job => jobs'[j].status = jobs[j].status
  <2>1. worker[w].job \in Jobs
    BY <1>2, WorkerFields DEF CommitClaim, FinishJob, FinishAs, Steps
  <2>2. jobs[worker[w].job] \in QueuedJob
    BY <2>1, JobFields
  <2> DEFINE job == jobs[worker[w].job]
  <2>3. CASE CommitClaim(w)
    <3>1. jobs' = [jobs EXCEPT ![worker[w].job] = [job EXCEPT !.status = "processing"]]
      BY <1>0, <2>1, <2>3 DEF CommitClaim
    <3>2. /\ [job EXCEPT !.status = "processing"] \in QueuedJob
          /\ [job EXCEPT !.status = "processing"].book = job.book
      BY <2>2 DEF QueuedJob
    <3>3. QED
      BY <1>0, <2>1, <3>1, <3>2
  <2>4. CASE FinishJob(w)
    <3> DEFINE e == job.attempts + 1 >= MaxAttempts
               rec == Outcome(job, worker[w].ok, e)
    <3>1. jobs' = [jobs EXCEPT ![worker[w].job] = rec]
      BY <2>4 DEF FinishJob, FinishAs
    <3>2. worker[w].ok \in BOOLEAN /\ e \in BOOLEAN
      BY <2>4, WorkerFields DEF FinishJob, FinishAs, Working, Steps
    <3>3. rec \in QueuedJob /\ rec.book = job.book
      <4> HIDE DEF e
      <4> QED
        BY <2>2, <3>2, OutcomeFields
    <3>4. QED
      BY <1>0, <2>1, <3>1, <3>3
  <2>5. QED
    BY <1>2, <2>3, <2>4
<1>3. ASSUME NEW j \in Jobs, BecomesDue(j)
      PROVE  /\ Jobs' = Jobs /\ jobs' \in Seq(QueuedJob)
             /\ \A i \in Jobs : jobs'[i].book = jobs[i].book /\ jobs'[i].status = jobs[i].status
  <2>1. jobs[j] \in QueuedJob
    BY JobFields
  <2>2. jobs' = [jobs EXCEPT ![j] = [jobs[j] EXCEPT !.due = TRUE]]
    BY <1>0, <1>3 DEF BecomesDue
  <2>3. [jobs[j] EXCEPT !.due = TRUE] \in QueuedJob
    BY <2>1 DEF QueuedJob
  <2>4. QED
    BY <1>0, <2>1, <2>2, <2>3 DEF QueuedJob
<1>4. CASE UNCHANGED jobs
  BY <1>0, <1>4
<1>5. QED
  BY <1>1, <1>2, <1>3, <1>4
  DEF JobsNext, Run, UploadBook, UploadLost, SelectJob, ReadPath, InsertAnalysis, Analyse, StoreResult,
      MarkFailed, MarkLost, StatementFails, WorkerLost, WorkStep, jobsVars, tables

(* The steps of runAnalyzeBook: the worker keeps its job.                   *)
Continues(w) == \/ ReadPath(w) \/ InsertAnalysis(w) \/ Analyse(w) \/ StoreResult(w)
                \/ MarkFailed(w) \/ MarkLost(w) \/ StatementFails(w)

LEMMA ContinuesWithJob ==
  ASSUME Queue, NEW w \in Workers, Continues(w)
  PROVE  /\ worker[w] \in Working
         /\ \E rec \in Working : rec.job = worker[w].job /\ worker' = [worker EXCEPT ![w] = rec]
         /\ jobs' = jobs
<1>1. worker[w].pc \in Steps
  BY DEF Continues, ReadPath, InsertAnalysis, Analyse, StoreResult, MarkFailed, MarkLost,
         StatementFails, Steps
<1>2. worker[w] \in Working /\ worker[w].job \in Jobs
  BY <1>1, WorkerFields DEF Steps
<1>3. file[BookOfJob(w)] \in Nat
  <2>1. BookOfJob(w) \in Books
    BY <1>2, JobFields DEF BookOfJob, QueuedJob
  <2>2. QED
    BY <2>1 DEF Queue
<1>4. Len(analyses) \in Nat
  BY DEF Queue
<1> DEFINE To(rec) == rec \in Working /\ rec.job = worker[w].job /\ worker' = [worker EXCEPT ![w] = rec]
<1>5. CASE ReadPath(w)
  <2>1. To([worker[w] EXCEPT !.pc = "insert", !.of = file[BookOfJob(w)]])
    BY <1>2, <1>3, <1>5 DEF ReadPath, Working, Steps, Queue
  <2>2. QED
    BY <1>2, <1>5, <2>1 DEF ReadPath, tables
<1>6. CASE InsertAnalysis(w)
  <2> DEFINE n == Len(analyses) + 1
  <2>1. worker' = [worker EXCEPT ![w].pc = "analyse", ![w].id = n] /\ jobs' = jobs
    BY <1>6 DEF InsertAnalysis
  <2>2. n \in Nat
    BY <1>4
  <2>3. To([worker[w] EXCEPT !.pc = "analyse", !.id = n])
    <3> HIDE DEF n
    <3> QED
      BY <1>2, <2>1, <2>2 DEF Working, Steps, Queue
  <2>4. QED
    BY <1>2, <2>1, <2>3
<1>7. CASE StatementFails(w)
  <2>1. To([worker[w] EXCEPT !.pc = "finish", !.ok = FALSE])
    BY <1>2, <1>7 DEF StatementFails, Working, Steps, Queue
  <2>2. QED
    BY <1>2, <1>7, <2>1 DEF StatementFails, tables
<1>8. CASE Analyse(w) \/ StoreResult(w) \/ MarkFailed(w) \/ MarkLost(w)
  <2>1. PICK pc \in Steps : worker' = [worker EXCEPT ![w].pc = pc] /\ jobs' = jobs
    BY <1>8 DEF Analyse, StoreResult, MarkFailed, MarkLost, WorkStep, Steps, tables
  <2>2. To([worker[w] EXCEPT !.pc = pc])
    BY <1>2, <2>1 DEF Working, Queue
  <2>3. QED
    BY <1>2, <2>1, <2>2
<1>9. QED
  BY <1>5, <1>6, <1>7, <1>8 DEF Continues

(* An analysis keeps what it is of, and never loses its outcome.            *)
LEMMA AnalysesStay ==
  ASSUME Queue, FillsOwn, [JobsNext]_jobsVars
  PROVE  /\ DOMAIN analyses \subseteq DOMAIN analyses' /\ analyses' \in Seq(StoredAnalysis)
         /\ \A i \in DOMAIN analyses :
              /\ analyses'[i].job = analyses[i].job /\ analyses'[i].book = analyses[i].book
              /\ analyses'[i].of = analyses[i].of
              /\ analyses[i].status # "processing" => analyses'[i].status # "processing"
<1>0. analyses \in Seq(StoredAnalysis)
  BY DEF Queue
<1>1. ASSUME NEW w \in Workers, InsertAnalysis(w)
      PROVE  /\ DOMAIN analyses \subseteq DOMAIN analyses' /\ analyses' \in Seq(StoredAnalysis)
             /\ \A i \in DOMAIN analyses : analyses'[i] = analyses[i]
  <2> DEFINE new == [book |-> BookOfJob(w), of |-> worker[w].of, job |-> worker[w].job,
                     status |-> "processing"]
  <2>1. worker[w] \in Working /\ worker[w].job \in Jobs
    BY <1>1, WorkerFields DEF InsertAnalysis, Steps
  <2>2. BookOfJob(w) \in Books
    BY <2>1, JobFields DEF BookOfJob, QueuedJob
  <2>3. new \in StoredAnalysis
    BY <2>1, <2>2 DEF Working, StoredAnalysis
  <2>4. analyses' = Append(analyses, new)
    BY <1>1 DEF InsertAnalysis
  <2>5. QED
    BY <1>0, <2>3, <2>4
<1>2. ASSUME NEW w \in Workers, StoreResult(w) \/ MarkFailed(w)
      PROVE  /\ DOMAIN analyses' = DOMAIN analyses /\ analyses' \in Seq(StoredAnalysis)
             /\ \A i \in DOMAIN analyses :
                  /\ analyses'[i].job = analyses[i].job /\ analyses'[i].book = analyses[i].book
                  /\ analyses'[i].of = analyses[i].of
                  /\ analyses[i].status # "processing" => analyses'[i].status # "processing"
  <2>1. worker[w].id \in DOMAIN analyses
    BY <1>2 DEF StoreResult, MarkFailed, FillsOwn, OwnAnalysis
  <2>2. analyses[worker[w].id] \in StoredAnalysis
    BY <1>0, <2>1
  <2>3. PICK status \in {"completed", "failed"} :
          analyses' = [analyses EXCEPT ![worker[w].id] =
                         [analyses[worker[w].id] EXCEPT !.status = status]]
    BY <1>0, <1>2, <2>1 DEF StoreResult, MarkFailed
  <2>4. [analyses[worker[w].id] EXCEPT !.status = status] \in StoredAnalysis
    BY <2>2 DEF StoredAnalysis
  <2>5. QED
    BY <1>0, <2>1, <2>2, <2>3, <2>4 DEF StoredAnalysis
<1>3. CASE UNCHANGED analyses
  BY <1>0, <1>3
<1>4. QED
  BY <1>1, <1>2, <1>3
  DEF JobsNext, Run, UploadBook, UploadLost, Enqueue, SelectJob, CommitClaim, ReadPath, Analyse,
      FinishJob, FinishAs, BecomesDue, MarkLost, StatementFails, WorkerLost, WorkStep, jobsVars, tables

LEMMA QueueKept ==
  ASSUME Queue, FillsOwn, [JobsNext]_jobsVars
  PROVE  Queue'
<1>1. Jobs \subseteq Jobs' /\ jobs' \in Seq(QueuedJob) /\ analyses' \in Seq(StoredAnalysis)
  BY JobsStay, AnalysesStay
<1>2. file' \in [Books -> Nat] /\ toEnqueue' \in [Books -> Nat] /\ losses' \in Nat
  <2>1. file \in [Books -> Nat] /\ toEnqueue \in [Books -> Nat] /\ losses \in Nat
    BY DEF Queue
  <2>2. ASSUME NEW b \in Books, UploadBook(b) \/ Enqueue(b) \/ UploadLost(b)
        PROVE  file' \in [Books -> Nat] /\ toEnqueue' \in [Books -> Nat] /\ losses' \in Nat
    <3>1. CASE UploadBook(b)
      BY <2>1, <3>1 DEF UploadBook
    <3>2. CASE Enqueue(b) \/ UploadLost(b)
      <4>1. /\ toEnqueue[b] > 0 /\ toEnqueue' = [toEnqueue EXCEPT ![b] = @ - 1]
            /\ file' = file /\ losses' \in {losses, losses + 1}
        BY <3>2 DEF Enqueue, UploadLost
      <4>2. toEnqueue[b] - 1 \in Nat
        BY <2>1, <4>1
      <4>3. QED
        BY <2>1, <4>1, <4>2
    <3>3. QED
      BY <2>2, <3>1, <3>2
  <2>3. CASE UNCHANGED <<file, toEnqueue>> /\ losses' \in {losses, losses + 1}
    BY <2>1, <2>3
  <2>4. QED
    BY <2>2, <2>3
    DEF JobsNext, Run, SelectJob, CommitClaim, ReadPath, InsertAnalysis, Analyse, StoreResult, MarkFailed,
        FinishJob, FinishAs, BecomesDue, MarkLost, StatementFails, WorkerLost, WorkStep, jobsVars, tables
<1> DEFINE Fine(rec) == /\ rec \in {Idle} \cup Claiming \cup Working
                        /\ rec.pc # "idle" => rec.job \in Jobs'
<1>3. CASE worker' = worker
  BY <1>1, <1>2, <1>3 DEF Queue
<1>4. ASSUME NEW w \in Workers, NEW rec, Fine(rec), worker' = [worker EXCEPT ![w] = rec]
      PROVE  Queue'
  <2>1. worker' \in [Workers -> {Idle} \cup Claiming \cup Working]
    BY <1>4 DEF Queue
  <2>2. ASSUME NEW x \in Workers, worker'[x].pc # "idle" PROVE worker'[x].job \in Jobs'
    <3>1. CASE x = w
      BY <1>4, <2>2, <3>1 DEF Queue
    <3>2. CASE x # w
      BY <1>1, <1>4, <2>2, <3>2 DEF Queue
    <3>3. QED
      BY <3>1, <3>2
  <2>3. QED
    BY <1>1, <1>2, <2>1, <2>2 DEF Queue
<1>5. ASSUME NEW w \in Workers, SelectJob(w) PROVE Queue'
  <2>1. PICK j \in Jobs : worker' = [worker EXCEPT ![w] = [pc |-> "claim", job |-> j]]
    BY <1>5 DEF SelectJob
  <2>2. j \in Nat
    BY DEF Queue, Jobs
  <2>3. Fine([pc |-> "claim", job |-> j])
    BY <1>1, <2>2 DEF Claiming
  <2>4. QED
    BY <1>4, <2>1, <2>3
<1>6. ASSUME NEW w \in Workers, CommitClaim(w) PROVE Queue'
  <2> DEFINE rec == [pc |-> "path", job |-> worker[w].job, of |-> 0, id |-> 0, ok |-> TRUE]
  <2>1. worker' = [worker EXCEPT ![w] = rec]
    BY <1>6 DEF CommitClaim
  <2>2. worker[w].job \in Jobs /\ worker[w].job \in Nat
    BY <1>6, WorkerFields DEF CommitClaim, Claiming
  <2>3. Fine(rec)
    BY <1>1, <2>2 DEF Working, Steps
  <2>4. QED
    BY <1>4, <2>1, <2>3
<1>7. ASSUME NEW w \in Workers, Continues(w) PROVE Queue'
  <2>1. PICK rec \in Working : rec.job = worker[w].job /\ worker' = [worker EXCEPT ![w] = rec]
    BY <1>7, ContinuesWithJob
  <2>2. worker[w].job \in Jobs
    BY <1>7, ContinuesWithJob, WorkerFields DEF Working, Steps
  <2>3. QED
    BY <1>1, <1>4, <2>1, <2>2
<1>8. ASSUME NEW w \in Workers, FinishJob(w) \/ WorkerLost(w) PROVE Queue'
  <2>1. worker' = [worker EXCEPT ![w] = Idle]
    BY <1>8 DEF FinishJob, FinishAs, WorkerLost
  <2>2. Fine(Idle)
    BY DEF Idle
  <2>3. QED
    BY <1>4, <2>1, <2>2
<1>9. QED
  BY <1>3, <1>5, <1>6, <1>7, <1>8
  DEF JobsNext, Run, UploadBook, UploadLost, Enqueue, BecomesDue, Continues, jobsVars, tables

LEMMA LossesGrow ==
  ASSUME [JobsNext]_jobsVars
  PROVE  losses' \in {losses, losses + 1}
BY DEF JobsNext, Run, UploadBook, UploadLost, Enqueue, SelectJob, CommitClaim, ReadPath, InsertAnalysis,
       Analyse, StoreResult, MarkFailed, FinishJob, FinishAs, BecomesDue, MarkLost, StatementFails,
       WorkerLost, WorkStep, jobsVars, tables

LEMMA OwnStays ==
  ASSUME Queue, FillsOwn, [JobsNext]_jobsVars, NEW x \in Workers, OwnAnalysis(x), worker[x].job \in Jobs,
         worker'[x].job = worker[x].job, worker'[x].of = worker[x].of, worker'[x].id = worker[x].id
  PROVE  /\ OwnAnalysis(x)'
         /\ analyses[worker[x].id].status # "processing" =>
              analyses'[worker'[x].id].status # "processing"
BY JobsStay, AnalysesStay DEF OwnAnalysis, BookOfJob

LEMMA FillsOwnKept ==
  ASSUME Queue, FillsOwn, [JobsNext]_jobsVars
  PROVE  FillsOwn'
<1> DEFINE Good(x) ==
      /\ worker'[x].pc \in {"analyse", "store", "mark"} => OwnAnalysis(x)'
      /\ worker'[x].pc = "finish" /\ worker'[x].ok =>
           OwnAnalysis(x)' /\ (losses' = 0 => analyses'[worker'[x].id].status # "processing")
<1>0. /\ worker \in [Workers -> {Idle} \cup Claiming \cup Working]
      /\ analyses \in Seq(StoredAnalysis) /\ losses \in Nat
  BY DEF Queue
<1>1. losses' = 0 => losses = 0
  BY <1>0, LossesGrow
<1>2. ASSUME NEW x \in Workers, worker'[x] = worker[x] PROVE Good(x)
  <2>1. worker[x].pc # "idle" => worker[x].job \in Jobs
    BY DEF Queue
  <2>2. QED
    BY <1>1, <1>2, <2>1, OwnStays DEF FillsOwn
<1>3. ASSUME NEW w \in Workers, NEW rec, worker' = [worker EXCEPT ![w] = rec],
             rec.pc \notin {"analyse", "store", "mark"}, ~(rec.pc = "finish" /\ rec.ok)
      PROVE  \A x \in Workers : Good(x)
  <2>1. worker'[w] = rec /\ \A x \in Workers \ {w} : worker'[x] = worker[x]
    BY <1>0, <1>3
  <2>2. QED
    BY <1>2, <1>3, <2>1
<1>4. ASSUME NEW w \in Workers,
             SelectJob(w) \/ CommitClaim(w) \/ FinishJob(w) \/ WorkerLost(w)
      PROVE  \A x \in Workers : Good(x)
  <2>1. PICK rec : worker' = [worker EXCEPT ![w] = rec] /\ rec.pc \in {"claim", "path", "idle"}
    BY <1>4 DEF SelectJob, CommitClaim, FinishJob, FinishAs, WorkerLost, Idle
  <2>2. QED
    BY <1>3, <2>1
<1>5. ASSUME NEW w \in Workers, ReadPath(w) \/ StatementFails(w)
      PROVE  \A x \in Workers : Good(x)
  <2>1. worker[w] \in Working
    BY <1>5, WorkerFields DEF ReadPath, StatementFails, Steps
  <2>2. CASE ReadPath(w)
    <3>1. worker' = [worker EXCEPT ![w] = [worker[w] EXCEPT !.pc = "insert", !.of = file[BookOfJob(w)]]]
      BY <1>0, <2>2 DEF ReadPath
    <3>2. [worker[w] EXCEPT !.pc = "insert", !.of = file[BookOfJob(w)]].pc = "insert"
      BY <2>1 DEF Working
    <3>3. QED
      BY <1>3, <3>1, <3>2
  <2>3. CASE StatementFails(w)
    <3>1. worker' = [worker EXCEPT ![w] = [worker[w] EXCEPT !.pc = "finish", !.ok = FALSE]]
      BY <1>0, <2>3 DEF StatementFails
    <3>2. [worker[w] EXCEPT !.pc = "finish", !.ok = FALSE].pc = "finish"
          /\ ~[worker[w] EXCEPT !.pc = "finish", !.ok = FALSE].ok
      BY <2>1 DEF Working
    <3>3. QED
      BY <1>3, <3>1, <3>2
  <2>4. QED
    BY <1>5, <2>2, <2>3
<1>6. ASSUME NEW w \in Workers, InsertAnalysis(w) PROVE \A x \in Workers : Good(x)
  <2> DEFINE n == Len(analyses) + 1
  <2>1. worker[w] \in Working /\ worker[w].job \in Jobs
    BY <1>6, WorkerFields DEF InsertAnalysis, Steps
  <2>2. /\ worker' = [worker EXCEPT ![w] = [worker[w] EXCEPT !.pc = "analyse", !.id = n]]
        /\ jobs' = jobs
    BY <1>0, <1>6 DEF InsertAnalysis
  <2>3. /\ worker'[w].pc = "analyse" /\ worker'[w].id = n
        /\ worker'[w].job = worker[w].job /\ worker'[w].of = worker[w].of
    BY <1>0, <2>1, <2>2 DEF Working
  <2>4. n \in DOMAIN analyses' /\ analyses'[n] = [book |-> BookOfJob(w), of |-> worker[w].of,
                                              job |-> worker[w].job, status |-> "processing"]
    BY <1>0, <1>6 DEF InsertAnalysis
  <2>5. OwnAnalysis(w)'
    BY <2>2, <2>3, <2>4 DEF OwnAnalysis, BookOfJob
  <2>6. Good(w)
    BY <2>3, <2>5
  <2>7. \A x \in Workers \ {w} : worker'[x] = worker[x]
    BY <1>0, <2>2
  <2>8. QED
    BY <1>2, <2>6, <2>7
<1>7. ASSUME NEW w \in Workers, Analyse(w) \/ StoreResult(w) \/ MarkFailed(w) \/ MarkLost(w)
      PROVE  \A x \in Workers : Good(x)
  <2>1. PICK pc \in Steps : worker' = [worker EXCEPT ![w] = [worker[w] EXCEPT !.pc = pc]]
    BY <1>0, <1>7 DEF Analyse, StoreResult, MarkFailed, MarkLost, WorkStep, Steps
  <2>2. /\ worker[w] \in Working /\ worker[w].job \in Jobs
        /\ worker[w].pc \in {"analyse", "store", "mark"}
    BY <1>7, WorkerFields DEF Analyse, StoreResult, MarkFailed, MarkLost, Steps
  <2>3. /\ worker'[w].job = worker[w].job /\ worker'[w].of = worker[w].of
        /\ worker'[w].id = worker[w].id /\ worker'[w].pc = pc
    BY <1>0, <2>1, <2>2 DEF Working
  <2>4. OwnAnalysis(w) /\ OwnAnalysis(w)'
    BY <2>2, <2>3, OwnStays DEF FillsOwn
  <2>5. pc = "finish" /\ losses' = 0 => analyses'[worker'[w].id].status # "processing"
    <3>1. CASE StoreResult(w) \/ MarkFailed(w)
      <4>1. worker[w].id \in DOMAIN analyses /\ analyses[worker[w].id] \in StoredAnalysis
        BY <1>0, <2>4 DEF OwnAnalysis
      <4>2. analyses'[worker[w].id].status \in {"completed", "failed"}
        BY <1>0, <3>1, <4>1 DEF StoreResult, MarkFailed, StoredAnalysis
      <4>3. QED
        BY <2>3, <4>2
    <3>2. CASE Analyse(w)
      <4>1. worker'[w].pc \in {"store", "mark"}
        BY <1>0, <2>2, <3>2 DEF Analyse, WorkStep, Working
      <4>2. QED
        BY <2>3, <4>1
    <3>3. CASE MarkLost(w)
      BY <1>0, <3>3 DEF MarkLost
    <3>4. QED
      BY <1>7, <3>1, <3>2, <3>3
  <2>6. Good(w)
    BY <2>3, <2>4, <2>5
  <2>7. \A x \in Workers \ {w} : worker'[x] = worker[x]
    BY <1>0, <2>1
  <2>8. QED
    BY <1>2, <2>6, <2>7
<1>8. ASSUME worker' = worker PROVE \A x \in Workers : Good(x)
  BY <1>2, <1>8
<1>9. \A x \in Workers : Good(x)
  BY <1>4, <1>5, <1>6, <1>7, <1>8
  DEF JobsNext, Run, UploadBook, UploadLost, Enqueue, BecomesDue, jobsVars, tables
<1>10. QED
  BY <1>9 DEF FillsOwn

LEMMA InitQueue == JobsInit => Queue /\ FillsOwn
BY QueueAssumption DEF JobsInit, Queue, FillsOwn, Idle

-----------------------------------------------------------------------------
(* Who runs a job. *)

LEMMA HeldStep ==
  ASSUME Queue, FillsOwn, [JobsNext]_jobsVars, NEW w \in Workers, worker'[w].pc # "idle"
  PROVE  \/ SelectJob(w)
         \/ /\ worker[w].pc # "idle" /\ worker'[w].job = worker[w].job
            /\ CommitClaim(w) \/ (worker'[w].pc = "claim" <=> worker[w].pc = "claim")
<1>0. worker \in [Workers -> {Idle} \cup Claiming \cup Working]
  BY DEF Queue
<1>1. CASE worker'[w] = worker[w]
  BY <1>1
<1>2. ASSUME NEW x \in Workers, NEW rec, worker' = [worker EXCEPT ![x] = rec], worker'[w] # worker[w]
      PROVE  x = w /\ worker'[w] = rec
  BY <1>0, <1>2
<1>3. ASSUME NEW x \in Workers, FinishJob(x) \/ WorkerLost(x) PROVE worker'[w] = worker[w]
  <2>1. worker' = [worker EXCEPT ![x] = Idle]
    BY <1>3 DEF FinishJob, FinishAs, WorkerLost
  <2>2. QED
    BY <1>2, <2>1 DEF Idle
<1>4. ASSUME NEW x \in Workers, SelectJob(x) PROVE worker'[w] = worker[w] \/ SelectJob(w)
  BY <1>2, <1>4 DEF SelectJob
<1>5. ASSUME NEW x \in Workers, CommitClaim(x), worker'[w] # worker[w]
      PROVE  CommitClaim(w) /\ worker[w].pc # "idle" /\ worker'[w].job = worker[w].job
  <2>1. worker' = [worker EXCEPT ![x] = [pc |-> "path", job |-> worker[x].job, of |-> 0,
                                         id |-> 0, ok |-> TRUE]]
    BY <1>5 DEF CommitClaim
  <2>2. x = w
    BY <1>2, <1>5, <2>1
  <2>3. QED
    BY <1>0, <1>5, <2>1, <2>2 DEF CommitClaim
<1>6. ASSUME NEW x \in Workers, Continues(x), worker'[w] # worker[w]
      PROVE  /\ worker[w].pc # "idle" /\ worker'[w].job = worker[w].job
             /\ worker[w].pc # "claim" /\ worker'[w].pc # "claim"
  <2>1. PICK rec \in Working : rec.job = worker[x].job /\ worker' = [worker EXCEPT ![x] = rec]
    BY <1>6, ContinuesWithJob
  <2>2. x = w /\ worker'[w] = rec /\ worker[w] \in Working
    BY <1>2, <1>6, <2>1, ContinuesWithJob
  <2>3. QED
    BY <2>1, <2>2 DEF Working, Steps
<1>7. QED
  BY <1>1, <1>3, <1>4, <1>5, <1>6
  DEF JobsNext, Run, UploadBook, UploadLost, Enqueue, BecomesDue, Continues, jobsVars, tables

LEMMA RunByOneKept ==
  ASSUME Queue, FillsOwn, RunByOne, [JobsNext]_jobsVars
  PROVE  RunByOne'
<1>0. worker \in [Workers -> {Idle} \cup Claiming \cup Working] /\ jobs \in Seq(QueuedJob)
  BY DEF Queue
<1>1. Queue' /\ \A w \in Workers : worker'[w] # Idle => worker'[w].pc # "idle"
  <2>1. Queue'
    BY QueueKept
  <2>2. QED
    BY <2>1 DEF Queue, Idle, Claiming, Working, Steps
<1> SUFFICES ASSUME NEW w \in Workers, worker'[w].pc # "idle"
             PROVE  /\ \A x \in Workers \ {w} :
                         worker'[x].pc # "idle" => worker'[x].job # worker'[w].job
                    /\ jobs'[worker'[w].job].status =
                         IF worker'[w].pc = "claim" THEN "pending" ELSE "processing"
  BY <1>1 DEF RunByOne, WorksOn
<1>2. ASSUME NEW x \in Workers, NEW y \in Workers, x # y, SelectJob(x), worker'[y].pc # "idle"
      PROVE  worker'[y].job # worker'[x].job
  <2>1. PICK j \in Jobs :
          /\ worker' = [worker EXCEPT ![x] = [pc |-> "claim", job |-> j]]
          /\ \A v \in Workers : ~WorksOn(v, j)
    BY <1>2 DEF SelectJob
  <2>2. worker'[y] = worker[y] /\ worker'[x].job = j
    BY <1>0, <1>2, <2>1
  <2>3. QED
    BY <1>2, <2>1, <2>2 DEF WorksOn
<1>3. ASSUME NEW x \in Workers \ {w}, worker'[x].pc # "idle"
      PROVE  worker'[x].job # worker'[w].job
  <2>1. CASE SelectJob(w) \/ SelectJob(x)
    BY <1>2, <1>3, <2>1
  <2>2. CASE /\ worker[w].pc # "idle" /\ worker'[w].job = worker[w].job
             /\ worker[x].pc # "idle" /\ worker'[x].job = worker[x].job
    BY <2>2 DEF RunByOne, WorksOn, Idle
  <2>3. QED
    BY <1>3, <2>1, <2>2, HeldStep
<1>4. CASE SelectJob(w)
  <2>1. PICK j \in Jobs :
          /\ worker' = [worker EXCEPT ![w] = [pc |-> "claim", job |-> j]]
          /\ jobs[j].status = "pending" /\ jobs' = jobs
    BY <1>4 DEF SelectJob, Claimable, tables
  <2>2. worker'[w] = [pc |-> "claim", job |-> j]
    BY <1>0, <2>1
  <2>3. QED
    BY <1>3, <2>1, <2>2
<1>5. CASE CommitClaim(w)
  <2>1. worker[w].job \in Jobs
    BY <1>5, WorkerFields DEF CommitClaim
  <2>2. worker'[w].pc = "path" /\ worker'[w].job = worker[w].job
    BY <1>0, <1>5 DEF CommitClaim
  <2>3. jobs[worker[w].job] \in QueuedJob
    BY <2>1, JobFields
  <2>4. jobs'[worker[w].job].status = "processing"
    BY <1>0, <1>5, <2>1, <2>3 DEF CommitClaim, Jobs, QueuedJob
  <2>5. QED
    BY <1>3, <2>2, <2>4
<1>6. CASE ~SelectJob(w) /\ ~CommitClaim(w)
  <2>1. /\ worker[w].pc # "idle" /\ worker'[w].job = worker[w].job
        /\ worker'[w].pc = "claim" <=> worker[w].pc = "claim"
    BY <1>6, HeldStep
  <2>2. worker[w].job \in Jobs /\ worker[w] # Idle
    BY <2>1, WorkerFields
  <2>3. jobs'[worker[w].job].status = jobs[worker[w].job].status
    <3>1. ASSUME NEW x \in Workers, worker[x].job = worker[w].job, CommitClaim(x) \/ FinishJob(x)
          PROVE  FALSE
      <4>1. worker[x].pc # "idle"
        BY <3>1 DEF CommitClaim, FinishJob, FinishAs
      <4>2. x = w
        BY <2>2, <3>1, <4>1 DEF RunByOne, WorksOn
      <4>3. FinishJob(w)
        BY <1>6, <3>1, <4>2
      <4>4. worker'[w].pc = "idle"
        BY <1>0, <4>3 DEF FinishJob, FinishAs, Idle
      <4>5. QED
        BY <4>4
    <3>2. QED
      BY <2>2, <3>1, JobsStay
  <2>4. QED
    BY <1>3, <2>1, <2>2, <2>3 DEF RunByOne
<1>7. QED
  BY <1>4, <1>5, <1>6

(* Several workers never run the same job at once, for any number of        *)
(* workers, and the job a worker runs is marked so for the others.          *)
THEOREM OneWorkerPerJob == JobsSpec => []RunByOne
<1>1. JobsInit => RunByOne
  BY DEF JobsInit, RunByOne
<1>2. QED
  BY <1>1, InitQueue, QueueKept, FillsOwnKept, RunByOneKept, PTL DEF JobsSpec

-----------------------------------------------------------------------------
(* What a completed job leaves behind. *)

LEMMA StatusMoves ==
  ASSUME Queue, NEW w \in Workers
  PROVE  /\ CommitClaim(w) => jobs'[worker[w].job].status = "processing"
         /\ FinishJob(w) => jobs'[worker[w].job].status \in
                              IF worker[w].ok THEN {"completed"} ELSE {"pending", "failed"}
<1>0. jobs \in Seq(QueuedJob)
  BY DEF Queue
<1>1. ASSUME CommitClaim(w) PROVE jobs'[worker[w].job].status = "processing"
  <2>1. worker[w].job \in Jobs
    BY <1>1, WorkerFields DEF CommitClaim
  <2>2. jobs[worker[w].job] \in QueuedJob
    BY <2>1, JobFields
  <2>3. QED
    BY <1>0, <1>1, <2>1, <2>2 DEF CommitClaim, Jobs, QueuedJob
<1>2. ASSUME FinishJob(w)
      PROVE  jobs'[worker[w].job].status \in
               IF worker[w].ok THEN {"completed"} ELSE {"pending", "failed"}
  <2> DEFINE job == jobs[worker[w].job]
             e == job.attempts + 1 >= MaxAttempts
  <2>1. worker[w].job \in Jobs /\ worker[w].ok \in BOOLEAN
    BY <1>2, WorkerFields DEF FinishJob, FinishAs, Working, Steps
  <2>2. job \in QueuedJob
    BY <2>1, JobFields
  <2>3. jobs'[worker[w].job] = Outcome(job, worker[w].ok, e)
    BY <1>0, <1>2, <2>1 DEF FinishJob, FinishAs, Jobs
  <2>4. e \in BOOLEAN
    OBVIOUS
  <2>5. QED
    <3> HIDE DEF e, job
    <3> QED
      BY <2>1, <2>2, <2>3, <2>4, OutcomeFields
<1>3. QED
  BY <1>1, <1>2

(* Which job may become completed, and how. *)
LEMMA Completing ==
  ASSUME Queue, [JobsNext]_jobsVars, NEW j \in Jobs', jobs'[j].status = "completed"
  PROVE  /\ j \in Jobs
         /\ \/ jobs[j].status = "completed"
            \/ \E w \in Workers : worker[w].job = j /\ worker[w].ok /\ FinishJob(w)
BY JobsStay, StatusMoves

Documented(j) == losses = 0 /\ jobs[j].status = "completed" =>
  \E i \in DOMAIN analyses : analyses[i].job = j /\ analyses[i].status # "processing"

LEMMA DocumentedKept ==
  ASSUME Queue, FillsOwn, \A j \in Jobs : Documented(j), [JobsNext]_jobsVars
  PROVE  \A j \in Jobs' : Documented(j)'
<1> SUFFICES ASSUME NEW j \in Jobs', losses' = 0, jobs'[j].status = "completed"
             PROVE  \E i \in DOMAIN analyses' :
                      analyses'[i].job = j /\ analyses'[i].status # "processing"
  BY DEF Documented
<1>1. losses = 0
  BY LossesGrow DEF Queue
<1>2. ASSUME NEW w \in Workers, worker[w].job = j, worker[w].ok, FinishJob(w)
      PROVE  \E i \in DOMAIN analyses : analyses[i].job = j /\ analyses[i].status # "processing"
  BY <1>1, <1>2 DEF FillsOwn, OwnAnalysis, FinishJob, FinishAs
<1>3. \E i \in DOMAIN analyses : analyses[i].job = j /\ analyses[i].status # "processing"
  BY <1>1, <1>2, Completing DEF Documented
<1>4. QED
  BY <1>3, AnalysesStay

(* A completed job has an analysis with its outcome, however many workers   *)
(* run, as long as nothing was lost.                                        *)
THEOREM CompletedHasOutcome == JobsSpec => []CompletedIsDocumented
<1> DEFINE All == \A j \in Jobs : Documented(j)
<1>1. JobsInit => All
  BY DEF JobsInit, Jobs
<1>2. Queue /\ FillsOwn /\ All /\ [JobsNext]_jobsVars => All'
  BY DocumentedKept
<1>3. All => CompletedIsDocumented
  BY DEF Documented, CompletedIsDocumented
<1>4. QED
  BY <1>1, <1>2, <1>3, InitQueue, QueueKept, FillsOwnKept, PTL DEF JobsSpec

-----------------------------------------------------------------------------
(* Which file is analysed in the end. *)

(* A job of the current file is under way, or will be again. *)
UnderWay(w, b) ==
  /\ worker[w].pc \in Steps /\ BookOfJob(w) = b
  /\ \/ worker[w].pc = "path"
     \/ worker[w].of = file[b]
     \/ worker[w].pc = "finish" /\ ~worker[w].ok
Waits(j, b) == jobs[j].book = b /\ jobs[j].status \in {"pending", "failed"}
Analysed(i, b) ==
  /\ analyses[i].book = b /\ analyses[i].of = file[b] /\ analyses[i].status # "processing"
Pursued(b) ==
  \/ toEnqueue[b] > 0
  \/ \E j \in Jobs : Waits(j, b)
  \/ \E w \in Workers : UnderWay(w, b)
  \/ \E i \in DOMAIN analyses : Analysed(i, b)

LEMMA FileMoves ==
  ASSUME Queue, [JobsNext]_jobsVars, NEW b \in Books
  PROVE  file'[b] = file[b] \/ UploadBook(b)
BY DEF Queue, JobsNext, Run, UploadBook, UploadLost, Enqueue, SelectJob, CommitClaim, ReadPath,
       InsertAnalysis, Analyse, StoreResult, MarkFailed, FinishJob, FinishAs, BecomesDue, MarkLost,
       StatementFails, WorkerLost, WorkStep, jobsVars, tables

LEMMA ToEnqueueMoves ==
  ASSUME Queue, [JobsNext]_jobsVars, NEW b \in Books
  PROVE  toEnqueue'[b] = toEnqueue[b] \/ UploadBook(b) \/ Enqueue(b) \/ UploadLost(b)
<1>0. toEnqueue \in [Books -> Nat]
  BY DEF Queue
<1>1. ASSUME NEW c \in Books, UploadBook(c) \/ Enqueue(c) \/ UploadLost(c), c # b
      PROVE  toEnqueue'[b] = toEnqueue[b]
  BY <1>0, <1>1 DEF UploadBook, Enqueue, UploadLost
<1>2. QED
  BY <1>1
  DEF JobsNext, Run, SelectJob, CommitClaim, ReadPath, InsertAnalysis, Analyse, StoreResult, MarkFailed,
      FinishJob, FinishAs, BecomesDue, MarkLost, StatementFails, WorkerLost, WorkStep, jobsVars, tables

LEMMA WaitsThenPursued ==
  ASSUME Queue, RunByOne, [JobsNext]_jobsVars, NEW b \in Books, NEW j \in Jobs, Waits(j, b)
  PROVE  Pursued(b)'
<1>1. j \in Jobs' /\ jobs'[j].book = b
  BY JobsStay DEF Waits
<1>2. CASE jobs'[j].status = jobs[j].status
  BY <1>1, <1>2 DEF Waits, Pursued
<1>3. ASSUME NEW w \in Workers, worker[w].job = j, CommitClaim(w) PROVE Pursued(b)'
  <2>1. worker'[w].pc = "path" /\ worker'[w].job = j
    BY <1>3 DEF CommitClaim, Queue
  <2>2. UnderWay(w, b)'
    BY <1>1, <2>1 DEF UnderWay, BookOfJob, Steps
  <2>3. QED
    BY <2>2 DEF Pursued
<1>4. ASSUME NEW w \in Workers, worker[w].job = j, FinishJob(w) PROVE FALSE
  <2>1. worker[w].pc = "finish"
    BY <1>4 DEF FinishJob, FinishAs
  <2>2. jobs[j].status = "processing"
    BY <1>4, <2>1 DEF RunByOne, Idle
  <2>3. QED
    BY <2>2 DEF Waits
<1>5. QED
  BY <1>2, <1>3, <1>4, JobsStay

LEMMA UnderWayThenPursued ==
  ASSUME Queue, FillsOwn, [JobsNext]_jobsVars, NEW b \in Books, NEW w \in Workers, UnderWay(w, b),
         losses' = 0, file'[b] = file[b]
  PROVE  Pursued(b)'
<1>0. /\ worker \in [Workers -> {Idle} \cup Claiming \cup Working]
      /\ worker[w] \in Working /\ worker[w].job \in Jobs /\ losses = 0
  BY WorkerFields, LossesGrow DEF Queue, UnderWay, Steps
<1>1. worker[w].job \in Jobs' /\ jobs'[worker[w].job].book = b
  BY <1>0, JobsStay DEF UnderWay, BookOfJob
<1> DEFINE Goes == UnderWay(w, b)'
<1>2. Goes => Pursued(b)'
  BY DEF Pursued
<1>3. CASE worker'[w] = worker[w]
  <2>1. Goes
    BY <1>1, <1>3 DEF UnderWay, BookOfJob
  <2>2. QED
    BY <1>2, <2>1
<1>4. CASE ReadPath(w)
  <2>1. worker' = [worker EXCEPT ![w] = [worker[w] EXCEPT !.pc = "insert", !.of = file[b]]]
    BY <1>0, <1>4 DEF ReadPath, UnderWay
  <2>2. worker'[w].pc = "insert" /\ worker'[w].of = file[b] /\ worker'[w].job = worker[w].job
    BY <1>0, <2>1 DEF Working
  <2>3. Goes
    BY <1>1, <2>2 DEF UnderWay, BookOfJob, Steps
  <2>4. QED
    BY <1>2, <2>3
<1>5. CASE StatementFails(w)
  <2>1. worker' = [worker EXCEPT ![w] = [worker[w] EXCEPT !.pc = "finish", !.ok = FALSE]]
    BY <1>0, <1>5 DEF StatementFails
  <2>2. worker'[w].pc = "finish" /\ ~worker'[w].ok /\ worker'[w].job = worker[w].job
    BY <1>0, <2>1 DEF Working
  <2>3. Goes
    BY <1>1, <2>2 DEF UnderWay, BookOfJob, Steps
  <2>4. QED
    BY <1>2, <2>3
<1>6. CASE InsertAnalysis(w) \/ Analyse(w) \/ StoreResult(w) \/ MarkFailed(w) \/ MarkLost(w)
  <2>1. worker[w].of = file[b]
    BY <1>6 DEF UnderWay, InsertAnalysis, Analyse, StoreResult, MarkFailed, MarkLost
  <2>2. worker'[w].pc \in Steps /\ worker'[w].of = worker[w].of /\ worker'[w].job = worker[w].job
    <3>1. CASE InsertAnalysis(w)
      <4>1. worker' = [worker EXCEPT ![w] =
                         [worker[w] EXCEPT !.pc = "analyse", !.id = Len(analyses) + 1]]
        BY <1>0, <3>1 DEF InsertAnalysis
      <4>2. QED
        BY <1>0, <4>1 DEF Working, Steps
    <3>2. CASE Analyse(w) \/ StoreResult(w) \/ MarkFailed(w) \/ MarkLost(w)
      <4>1. PICK pc \in Steps : worker' = [worker EXCEPT ![w] = [worker[w] EXCEPT !.pc = pc]]
        BY <1>0, <3>2 DEF Analyse, StoreResult, MarkFailed, MarkLost, WorkStep, Steps
      <4>2. QED
        BY <1>0, <4>1 DEF Working
    <3>3. QED
      BY <1>6, <3>1, <3>2
  <2>3. Goes
    BY <1>1, <2>1, <2>2 DEF UnderWay, BookOfJob
  <2>4. QED
    BY <1>2, <2>3
<1>7. CASE FinishJob(w) /\ ~worker[w].ok
  <2>1. PICK j \in Jobs' : j = worker[w].job
    BY <1>1
  <2>2. Waits(j, b)'
    BY <1>1, <1>7, <2>1, StatusMoves DEF Waits
  <2>3. QED
    BY <2>1, <2>2 DEF Pursued
<1>8. CASE FinishJob(w) /\ worker[w].ok
  <2>1. worker[w].pc = "finish" /\ worker[w].of = file[b] /\ analyses' = analyses
    BY <1>8 DEF UnderWay, FinishJob, FinishAs
  <2>2. worker[w].id \in DOMAIN analyses /\ Analysed(worker[w].id, b)
    BY <1>0, <1>8, <2>1 DEF FillsOwn, OwnAnalysis, Analysed, UnderWay
  <2>3. PICK i \in DOMAIN analyses : i = worker[w].id
    BY <2>2
  <2>4. i \in DOMAIN analyses' /\ Analysed(i, b)'
    BY <2>1, <2>2, <2>3 DEF Analysed
  <2>5. QED
    BY <2>4 DEF Pursued
<1>9. ~WorkerLost(w) /\ ~SelectJob(w) /\ ~CommitClaim(w)
  BY <1>0 DEF WorkerLost, SelectJob, CommitClaim, UnderWay, Idle, Steps
<1>10. ASSUME NEW x \in Workers, NEW rec, worker' = [worker EXCEPT ![x] = rec], x # w
       PROVE  worker'[w] = worker[w]
  BY <1>0, <1>10
<1>11. ASSUME NEW x \in Workers, x # w,
              Run(x) \/ MarkLost(x) \/ StatementFails(x) \/ WorkerLost(x)
       PROVE  worker'[w] = worker[w]
  <2>1. CASE Continues(x)
    BY <1>10, <1>11, <2>1, ContinuesWithJob
  <2>2. CASE SelectJob(x) \/ CommitClaim(x) \/ FinishJob(x) \/ WorkerLost(x)
    BY <1>10, <1>11, <2>2 DEF SelectJob, CommitClaim, FinishJob, FinishAs, WorkerLost
  <2>3. QED
    BY <1>11, <2>1, <2>2 DEF Run, Continues
<1>12. CASE worker' = worker
  BY <1>3, <1>12
<1>13. QED
  BY <1>3, <1>4, <1>5, <1>6, <1>7, <1>8, <1>9, <1>11, <1>12
  DEF JobsNext, Run, UploadBook, UploadLost, Enqueue, BecomesDue, jobsVars, tables

LEMMA PursuedKept ==
  ASSUME Queue, FillsOwn, RunByOne, [JobsNext]_jobsVars, NEW b \in Books,
         losses = 0 /\ file[b] > 0 => Pursued(b), losses' = 0, file'[b] > 0
  PROVE  Pursued(b)'
<1>0. toEnqueue \in [Books -> Nat] /\ jobs \in Seq(QueuedJob) /\ losses = 0
  BY LossesGrow DEF Queue
<1>1. CASE UploadBook(b)
  BY <1>0, <1>1 DEF UploadBook, Pursued
<1>2. ASSUME file'[b] = file[b] PROVE Pursued(b)'
  <2>1. Pursued(b)
    BY <1>0, <1>2
  <2>2. CASE toEnqueue[b] > 0
    <3>1. CASE Enqueue(b)
      <4>1. /\ Len(jobs) + 1 \in Jobs'
            /\ jobs'[Len(jobs) + 1].book = b /\ jobs'[Len(jobs) + 1].status = "pending"
        BY <1>0, <3>1 DEF Enqueue, Jobs
      <4>2. QED
        BY <4>1 DEF Pursued, Waits
    <3>2. ~UploadLost(b)
      BY <1>0 DEF UploadLost
    <3>3. CASE toEnqueue'[b] = toEnqueue[b]
      BY <2>2, <3>3 DEF Pursued
    <3>4. QED
      BY <1>1, <3>1, <3>2, <3>3, ToEnqueueMoves
  <2>3. CASE \E j \in Jobs : Waits(j, b)
    BY <2>3, WaitsThenPursued
  <2>4. CASE \E w \in Workers : UnderWay(w, b)
    BY <1>2, <2>4, UnderWayThenPursued
  <2>5. CASE \E i \in DOMAIN analyses : Analysed(i, b)
    <3>1. PICK i \in DOMAIN analyses : Analysed(i, b)
      BY <2>5
    <3>2. i \in DOMAIN analyses' /\ Analysed(i, b)'
      BY <1>2, <3>1, AnalysesStay DEF Analysed
    <3>3. QED
      BY <3>2 DEF Pursued
  <2>6. QED
    BY <2>1, <2>2, <2>3, <2>4, <2>5 DEF Pursued
<1>3. QED
  BY <1>1, <1>2, FileMoves

(* However the uploads and the workers interleave, the file a book has when *)
(* its jobs have ended is one that was analysed, unless something was lost. *)
THEOREM CurrentFileInTheEnd == JobsSpec => []CurrentFileAnalysed
<1> DEFINE All == \A b \in Books : losses = 0 /\ file[b] > 0 => Pursued(b)
<1>1. JobsInit => All
  BY DEF JobsInit
<1>2. Queue /\ FillsOwn /\ RunByOne /\ All /\ [JobsNext]_jobsVars => All'
  BY PursuedKept
<1>3. Queue /\ RunByOne /\ All => CurrentFileAnalysed
  <2> SUFFICES ASSUME Queue, RunByOne, All, losses = 0, NEW b \in Books, file[b] > 0,
                      toEnqueue[b] = 0,
                      \A j \in Jobs : jobs[j].book = b => jobs[j].status = "completed"
               PROVE  \E i \in DOMAIN analyses : Analysed(i, b)
    BY DEF CurrentFileAnalysed, Analysed
  <2>1. Pursued(b)
    OBVIOUS
  <2>2. ~ \E j \in Jobs : Waits(j, b)
    BY DEF Waits
  <2>3. ASSUME NEW w \in Workers, UnderWay(w, b) PROVE FALSE
    <3>1. worker[w] # Idle /\ worker[w].pc # "claim" /\ worker[w].job \in Jobs
      BY <2>3, WorkerFields DEF UnderWay, Steps
    <3>2. jobs[worker[w].job].status = "processing" /\ jobs[worker[w].job].book = b
      BY <2>3, <3>1 DEF RunByOne, UnderWay, BookOfJob
    <3>3. QED
      BY <3>1, <3>2
  <2>4. QED
    BY <2>1, <2>2, <2>3 DEF Pursued
<1>4. JobsInit => RunByOne
  BY DEF JobsInit, RunByOne
<1>5. QED
  BY <1>1, <1>2, <1>3, <1>4, InitQueue, QueueKept, FillsOwnKept, RunByOneKept, PTL DEF JobsSpec

-----------------------------------------------------------------------------
(* How many jobs there are, and how often one runs. *)

JobsOf(b) == {j \in Jobs : jobs[j].book = b}

(* Every job of a book, and every one still to be inserted, is of an upload *)
(* of its own.                                                              *)
FromUploads == \A b \in Books :
  file[b] <= MaxUploads /\ Cardinality(JobsOf(b)) + toEnqueue[b] <= file[b]

(* What workers and analyses refer to has been uploaded, or is queued.      *)
InBounds ==
  /\ errors \in 0..MaxErrors /\ losses \in 0..MaxLosses
  /\ \A w \in Workers : worker[w].pc \in Steps => worker[w].of \in Files
  /\ \A i \in DOMAIN analyses : analyses[i].of \in Files /\ analyses[i].job \in Jobs

Charged ==
  /\ runs \in [JobIds -> Nat] /\ \A j \in JobIds \ Jobs : runs[j] = 0
  /\ AttemptsCountRuns

LEMMA JobsAre ==
  ASSUME Queue
  PROVE  /\ Jobs = 1..Len(jobs) /\ Len(jobs) \in Nat
         /\ \A b \in Books : IsFiniteSet(JobsOf(b)) /\ Cardinality(JobsOf(b)) \in Nat
<1>1. Jobs = 1..Len(jobs) /\ Len(jobs) \in Nat
  BY DEF Queue, Jobs
<1>2. IsFiniteSet(Jobs)
  BY <1>1, FS_Interval
<1>3. ASSUME NEW b \in Books
      PROVE  IsFiniteSet(JobsOf(b)) /\ Cardinality(JobsOf(b)) \in Nat
  <2>1. JobsOf(b) \in SUBSET Jobs
    BY DEF JobsOf
  <2>2. IsFiniteSet(JobsOf(b))
    BY <1>2, <2>1, FS_Subset
  <2>3. QED
    BY <2>2, FS_CardinalityType
<1>4. QED
  BY <1>1, <1>3

(* A job is told from all others by its book and its number among those of  *)
(* the book: there are at most MaxUploads for each book.                    *)
LEMMA JobsFit ==
  ASSUME Queue, FromUploads
  PROVE  Len(jobs) <= MaxUploads * Cardinality(Books) /\ Jobs \subseteq JobIds
<1> DEFINE Before(j) == {i \in 1..j : jobs[i].book = jobs[j].book}
           f == [j \in Jobs |-> <<jobs[j].book, Cardinality(Before(j))>>]
<1>1. Jobs = 1..Len(jobs) /\ Len(jobs) \in Nat /\ \A j \in Jobs : jobs[j].book \in Books
  BY JobsAre, JobFields DEF QueuedJob
<1>2. ASSUME NEW j \in Jobs
      PROVE  IsFiniteSet(Before(j)) /\ Cardinality(Before(j)) \in 1..MaxUploads
  <2> DEFINE b == jobs[j].book
  <2>1. b \in Books /\ j \in Nat /\ j >= 1 /\ 1..j \subseteq Jobs
    BY <1>1
  <2>2. Before(j) \in SUBSET JobsOf(b) /\ j \in Before(j)
    BY <2>1 DEF JobsOf
  <2>3. IsFiniteSet(JobsOf(b)) /\ Cardinality(JobsOf(b)) \in Nat
    BY <2>1, JobsAre
  <2>4. IsFiniteSet(Before(j)) /\ Cardinality(Before(j)) <= Cardinality(JobsOf(b))
    BY <2>2, <2>3, FS_Subset
  <2>5. Cardinality(Before(j)) \in Nat /\ Cardinality(Before(j)) # 0
    BY <2>2, <2>4, FS_CardinalityType, FS_EmptySet
  <2>6. Cardinality(JobsOf(b)) <= MaxUploads
    <3>1. /\ toEnqueue[b] \in Nat /\ file[b] \in Nat /\ file[b] <= MaxUploads
          /\ Cardinality(JobsOf(b)) + toEnqueue[b] <= file[b]
      BY <2>1 DEF Queue, FromUploads
    <3>2. QED
      BY <2>3, <3>1, QueueAssumption
  <2>7. QED
    BY <2>3, <2>4, <2>5, <2>6, QueueAssumption
<1>3. ASSUME NEW i \in Jobs, NEW j \in Jobs, i < j, jobs[i].book = jobs[j].book
      PROVE  Cardinality(Before(i)) # Cardinality(Before(j))
  <2>1. i \in Nat /\ j \in Nat
    BY <1>1
  <2>2. Before(i) \in SUBSET Before(j) /\ j \in Before(j) /\ j \notin Before(i)
    BY <1>1, <1>3, <2>1
  <2>3. IsFiniteSet(Before(j))
    BY <1>2
  <2>4. QED
    BY <2>2, <2>3, FS_Subset
<1>4. f \in Injection(Jobs, Books \X (1..MaxUploads))
  <2>1. f \in [Jobs -> Books \X (1..MaxUploads)]
    BY <1>1, <1>2
  <2>2. ASSUME NEW i \in Jobs, NEW j \in Jobs, f[i] = f[j] PROVE i = j
    <3>1. jobs[i].book = jobs[j].book /\ Cardinality(Before(i)) = Cardinality(Before(j))
      BY <2>2
    <3>2. i \in Nat /\ j \in Nat
      BY <1>1
    <3>3. ~(i < j) /\ ~(j < i)
      BY <1>3, <3>1
    <3>4. QED
      BY <3>2, <3>3
  <2>3. QED
    BY <2>1, <2>2 DEF Injection, IsInjective
<1> HIDE DEF f
<1>5. IsFiniteSet(1..MaxUploads) /\ Cardinality(1..MaxUploads) = MaxUploads
  BY QueueAssumption, FS_Interval
<1>6. /\ IsFiniteSet(Books \X (1..MaxUploads))
      /\ Cardinality(Books \X (1..MaxUploads)) = Cardinality(Books) * MaxUploads
  BY <1>5, QueueAssumption, FS_Product
<1>7. Cardinality(Jobs) <= Cardinality(Books) * MaxUploads
  BY <1>4, <1>6, FS_Injection
<1>8. Cardinality(Jobs) = Len(jobs)
  BY <1>1, FS_Interval
<1>9. Cardinality(Books) \in Nat
  BY QueueAssumption, FS_CardinalityType
<1>10. Len(jobs) <= MaxUploads * Cardinality(Books)
  BY <1>7, <1>8, <1>9, QueueAssumption
<1>11. MaxUploads * Cardinality(Books) \in Nat
  BY <1>9, QueueAssumption
<1>12. QED
  BY <1>1, <1>10, <1>11 DEF JobIds

(* The queue grows only by Enqueue. *)
LEMMA JobsSame ==
  ASSUME Queue, [JobsNext]_jobsVars
  PROVE  (\E b \in Books : Enqueue(b)) \/ Jobs' = Jobs
<1>1. CASE jobs' = jobs
  BY <1>1 DEF Jobs
<1>2. ASSUME NEW w \in Workers, CommitClaim(w) \/ FinishJob(w) PROVE Jobs' = Jobs
  BY <1>2 DEF CommitClaim, FinishJob, FinishAs, Jobs, Queue
<1>3. ASSUME NEW j \in Jobs, BecomesDue(j) PROVE Jobs' = Jobs
  BY <1>3 DEF BecomesDue, Jobs, Queue
<1>4. QED
  BY <1>1, <1>2, <1>3
  DEF JobsNext, Run, UploadBook, UploadLost, SelectJob, ReadPath, InsertAnalysis, Analyse, StoreResult,
      MarkFailed, MarkLost, StatementFails, WorkerLost, WorkStep, jobsVars, tables

LEMMA FromUploadsKept ==
  ASSUME Queue, FromUploads, [JobsNext]_jobsVars
  PROVE  FromUploads'
<1>0. /\ toEnqueue \in [Books -> Nat] /\ file \in [Books -> Nat] /\ jobs \in Seq(QueuedJob)
      /\ MaxUploads \in Nat
  BY QueueAssumption DEF Queue
<1> SUFFICES ASSUME NEW b \in Books
             PROVE  /\ file'[b] <= MaxUploads
                    /\ Cardinality(JobsOf(b)') + toEnqueue'[b] <= file'[b]
  BY DEF FromUploads
<1>1. /\ IsFiniteSet(JobsOf(b)) /\ Cardinality(JobsOf(b)) \in Nat
      /\ file[b] <= MaxUploads /\ Cardinality(JobsOf(b)) + toEnqueue[b] <= file[b]
      /\ file[b] \in Nat /\ toEnqueue[b] \in Nat
  BY <1>0, JobsAre DEF FromUploads
<1>2. CASE \E c \in Books : Enqueue(c)
  <2>1. PICK c \in Books : Enqueue(c)
    BY <1>2
  <2>2. /\ toEnqueue[c] > 0 /\ toEnqueue' = [toEnqueue EXCEPT ![c] = toEnqueue[c] - 1]
        /\ file' = file
        /\ jobs' = Append(jobs, [book |-> c, attempts |-> 0, due |-> TRUE, status |-> "pending"])
    BY <2>1 DEF Enqueue
  <2> DEFINE n == Len(jobs) + 1
  <2>3. Jobs' = Jobs \cup {n} /\ jobs'[n].book = c /\ \A j \in Jobs : jobs'[j] = jobs[j]
    BY <1>0, <2>2 DEF Jobs
  <2>4. CASE c = b
    <3>1. JobsOf(b)' = JobsOf(b) \cup {n}
      BY <2>3, <2>4 DEF JobsOf
    <3>2. Cardinality(JobsOf(b)') \in {Cardinality(JobsOf(b)), Cardinality(JobsOf(b)) + 1}
      <4>1. \/ Cardinality(JobsOf(b) \cup {n}) = Cardinality(JobsOf(b))
            \/ Cardinality(JobsOf(b) \cup {n}) = Cardinality(JobsOf(b)) + 1
        <5> HIDE DEF n
        <5> QED
          BY <1>1, FS_AddElement
      <4>2. QED
        BY <3>1, <4>1
    <3>3. toEnqueue'[b] = toEnqueue[b] - 1
      BY <1>0, <2>2, <2>4
    <3>4. QED
      BY <1>1, <2>2, <3>2, <3>3
  <2>5. CASE c # b
    <3>1. JobsOf(b)' = JobsOf(b)
      BY <2>3, <2>5 DEF JobsOf
    <3>2. toEnqueue'[b] = toEnqueue[b]
      BY <1>0, <2>2, <2>5
    <3>3. QED
      BY <1>1, <2>2, <3>1, <3>2
  <2>6. QED
    BY <2>4, <2>5
<1>3. CASE ~(\E c \in Books : Enqueue(c))
  <2>1. Jobs' = Jobs /\ \A j \in Jobs : jobs'[j].book = jobs[j].book
    BY <1>3, JobsSame, JobsStay
  <2>2. JobsOf(b)' = JobsOf(b)
    BY <2>1 DEF JobsOf
  <2>3. CASE UploadBook(b)
    <3>1. file'[b] = file[b] + 1 /\ toEnqueue'[b] = toEnqueue[b] + 1 /\ file[b] < MaxUploads
      BY <1>0, <2>3 DEF UploadBook
    <3>2. QED
      BY <1>0, <1>1, <2>2, <3>1
  <2>4. CASE UploadLost(b)
    <3>1. file'[b] = file[b] /\ toEnqueue'[b] = toEnqueue[b] - 1
      BY <1>0, <2>4 DEF UploadLost
    <3>2. QED
      BY <1>1, <2>2, <3>1
  <2>5. CASE file'[b] = file[b] /\ toEnqueue'[b] = toEnqueue[b]
    BY <1>1, <2>2, <2>5
  <2>6. QED
    BY <1>3, <2>3, <2>4, <2>5, FileMoves, ToEnqueueMoves
<1>4. QED
  BY <1>2, <1>3

LEMMA LossesBounded ==
  ASSUME Queue, InBounds, [JobsNext]_jobsVars
  PROVE  errors' \in 0..MaxErrors /\ losses' \in 0..MaxLosses
<1>1. errors' = errors \/ (errors < MaxErrors /\ errors' = errors + 1)
  BY DEF JobsNext, Run, UploadBook, UploadLost, Enqueue, SelectJob, CommitClaim, ReadPath,
         InsertAnalysis, Analyse, StoreResult, MarkFailed, FinishJob, FinishAs, BecomesDue, MarkLost,
         StatementFails, WorkerLost, WorkStep, jobsVars, tables
<1>2. losses' = losses \/ (losses < MaxLosses /\ losses' = losses + 1)
  BY DEF JobsNext, Run, UploadBook, UploadLost, Enqueue, SelectJob, CommitClaim, ReadPath,
         InsertAnalysis, Analyse, StoreResult, MarkFailed, FinishJob, FinishAs, BecomesDue, MarkLost,
         StatementFails, WorkerLost, WorkStep, jobsVars, tables
<1>3. QED
  BY <1>1, <1>2, QueueAssumption DEF InBounds

(* Where a worker has the number of its file from.                          *)
LEMMA WorkerReads ==
  ASSUME Queue, FromUploads, InBounds, [JobsNext]_jobsVars
  PROVE  \A w \in Workers : worker'[w].pc \in Steps => worker'[w].of \in Files
<1>0. worker \in [Workers -> {Idle} \cup Claiming \cup Working] /\ MaxUploads \in Nat
  BY QueueAssumption DEF Queue
<1> DEFINE Good(rec) == rec.pc \in Steps => rec.of \in Files
<1>1. \A x \in Workers : Good(worker[x])
  BY DEF InBounds
<1>2. ASSUME NEW w \in Workers, NEW rec, worker' = [worker EXCEPT ![w] = rec], Good(rec)
      PROVE  \A x \in Workers : Good(worker'[x])
  BY <1>0, <1>1, <1>2
<1>3. ASSUME NEW w \in Workers, SelectJob(w) \/ FinishJob(w) \/ WorkerLost(w)
      PROVE  \A x \in Workers : Good(worker'[x])
  <2>1. PICK rec : worker' = [worker EXCEPT ![w] = rec] /\ rec.pc \in {"claim", "idle"}
    BY <1>3 DEF SelectJob, FinishJob, FinishAs, WorkerLost, Idle
  <2>2. Good(rec)
    BY <2>1 DEF Steps
  <2>3. QED
    BY <1>2, <2>1, <2>2
<1>4. ASSUME NEW w \in Workers, CommitClaim(w)
      PROVE  \A x \in Workers : Good(worker'[x])
  <2> DEFINE rec == [pc |-> "path", job |-> worker[w].job, of |-> 0, id |-> 0, ok |-> TRUE]
  <2>1. worker' = [worker EXCEPT ![w] = rec]
    BY <1>4 DEF CommitClaim
  <2>2. Good(rec)
    BY <1>0 DEF Files
  <2>3. QED
    BY <1>2, <2>1, <2>2
<1>5. ASSUME NEW w \in Workers, ReadPath(w)
      PROVE  \A x \in Workers : Good(worker'[x])
  <2> DEFINE n == file[BookOfJob(w)]
             rec == [worker[w] EXCEPT !.pc = "insert", !.of = n]
  <2>1. worker[w] \in Working /\ worker[w].job \in Jobs
    BY <1>5, WorkerFields DEF ReadPath, Steps
  <2>2. BookOfJob(w) \in Books
    BY <2>1, JobFields DEF BookOfJob, QueuedJob
  <2>3. n \in Files
    BY <1>0, <2>2 DEF Files, Queue, FromUploads
  <2>4. worker' = [worker EXCEPT ![w] = rec]
    BY <1>0, <1>5 DEF ReadPath
  <2> HIDE DEF n
  <2>5. Good(rec)
    BY <2>1, <2>3 DEF Working
  <2> HIDE DEF rec
  <2>6. QED
    BY <1>2, <2>4, <2>5
<1>6. ASSUME NEW w \in Workers,
             \/ InsertAnalysis(w) \/ Analyse(w) \/ StoreResult(w) \/ MarkFailed(w)
             \/ MarkLost(w) \/ StatementFails(w)
      PROVE  \A x \in Workers : Good(worker'[x])
  <2>1. worker[w] \in Working /\ worker[w].pc \in Steps
    BY <1>6, WorkerFields DEF InsertAnalysis, Analyse, StoreResult, MarkFailed, MarkLost,
       StatementFails, Steps
  <2>2. worker'[w].of = worker[w].of /\ \A x \in Workers : x # w => worker'[x] = worker[x]
    <3>1. CASE InsertAnalysis(w)
      BY <1>0, <2>1, <3>1 DEF InsertAnalysis, Working
    <3>2. CASE StatementFails(w)
      BY <1>0, <2>1, <3>2 DEF StatementFails, Working
    <3>3. CASE Analyse(w) \/ StoreResult(w) \/ MarkFailed(w) \/ MarkLost(w)
      <4>1. PICK pc \in Steps : worker' = [worker EXCEPT ![w] = [worker[w] EXCEPT !.pc = pc]]
        BY <1>0, <3>3 DEF Analyse, StoreResult, MarkFailed, MarkLost, WorkStep, Steps
      <4>2. QED
        BY <1>0, <2>1, <4>1 DEF Working
    <3>4. QED
      BY <1>6, <3>1, <3>2, <3>3
  <2>3. QED
    BY <1>1, <2>1, <2>2
<1>7. CASE worker' = worker
  BY <1>1, <1>7
<1>8. QED
  BY <1>3, <1>4, <1>5, <1>6, <1>7
  DEF JobsNext, Run, UploadBook, UploadLost, Enqueue, BecomesDue, jobsVars, tables

LEMMA InBoundsKept ==
  ASSUME Queue, FillsOwn, FromUploads, InBounds, [JobsNext]_jobsVars
  PROVE  InBounds'
<1>0. analyses \in Seq(StoredAnalysis) /\ Jobs \subseteq Jobs'
  BY JobsStay DEF Queue
<1>1. ASSUME NEW i \in DOMAIN analyses
      PROVE  analyses'[i].of \in Files /\ analyses'[i].job \in Jobs'
  BY <1>0, AnalysesStay DEF InBounds
<1>2. ASSUME NEW i \in DOMAIN analyses' \ DOMAIN analyses
      PROVE  analyses'[i].of \in Files /\ analyses'[i].job \in Jobs'
  <2>1. \E w \in Workers : InsertAnalysis(w)
    <3>1. ASSUME analyses' = analyses PROVE FALSE
      BY <1>2, <3>1
    <3>2. ASSUME NEW w \in Workers, StoreResult(w) \/ MarkFailed(w) PROVE FALSE
      <4>1. DOMAIN analyses' = DOMAIN analyses
        BY <3>2 DEF StoreResult, MarkFailed
      <4>2. QED
        BY <1>2, <4>1
    <3>3. QED
      BY <3>1, <3>2
      DEF JobsNext, Run, UploadBook, UploadLost, Enqueue, SelectJob, CommitClaim, ReadPath, Analyse,
          FinishJob, FinishAs, BecomesDue, MarkLost, StatementFails, WorkerLost, WorkStep, jobsVars, tables
  <2>2. PICK w \in Workers : InsertAnalysis(w)
    BY <2>1
  <2>3. worker[w].pc \in Steps /\ worker[w].job \in Jobs
    BY <2>2, WorkerFields DEF InsertAnalysis, Steps
  <2>4. analyses'[i].of = worker[w].of /\ analyses'[i].job = worker[w].job
    BY <1>0, <1>2, <2>2 DEF InsertAnalysis
  <2>5. QED
    BY <1>0, <2>3, <2>4 DEF InBounds
<1>3. QED
  BY <1>1, <1>2, LossesBounded, WorkerReads DEF InBounds

(* The runs of a job are its attempts, and the one under way or completed.  *)
LEMMA ChargedKept ==
  ASSUME Queue, FillsOwn, RunByOne, FromUploads, Charged, [JobsNext]_jobsVars
  PROVE  Charged'
<1>0. /\ jobs \in Seq(QueuedJob) /\ runs \in [JobIds -> Nat] /\ Jobs \subseteq JobIds
      /\ MaxAttempts \in Nat /\ MaxAttempts # 0
      /\ \A j \in Jobs : jobs[j] \in QueuedJob
  BY JobsFit, JobFields, QueueAssumption DEF Queue, Charged
<1> DEFINE Fair(job, n) ==
      /\ n = job.attempts + IF job.status \in {"processing", "completed"} THEN 1 ELSE 0
      /\ n <= MaxAttempts
      /\ job.status = "failed" <=> job.attempts = MaxAttempts
<1>1. \A j \in Jobs : Fair(jobs[j], runs[j])
  BY DEF Charged, AttemptsCountRuns
<1>2. ASSUME runs' \in [JobIds -> Nat], \A j \in JobIds \ Jobs' : runs'[j] = 0,
             \A j \in Jobs' : Fair(jobs'[j], runs'[j])
      PROVE  Charged'
  BY <1>2 DEF Charged, AttemptsCountRuns
<1>3. CASE \E b \in Books : Enqueue(b)
  <2>1. PICK b \in Books : Enqueue(b)
    BY <1>3
  <2> DEFINE new == [book |-> b, attempts |-> 0, due |-> TRUE, status |-> "pending"]
             n == Len(jobs) + 1
  <2>2. jobs' = Append(jobs, new) /\ runs' = runs
    BY <2>1 DEF Enqueue
  <2>3. /\ Jobs' = Jobs \cup {n} /\ n \notin Jobs /\ jobs'[n] = new
        /\ \A j \in Jobs : jobs'[j] = jobs[j]
    BY <1>0, <2>2 DEF Jobs
  <2>4. n \in JobIds
    <3>1. Queue' /\ FromUploads'
      BY QueueKept, FromUploadsKept
    <3>2. Jobs' \subseteq JobIds
      <4>1. (Queue /\ FromUploads => Jobs \subseteq JobIds)'
        BY JobsFit, PTL
      <4>2. QED
        BY <3>1, <4>1 DEF JobIds
    <3>3. QED
      BY <2>3, <3>2
  <2>5. runs[n] = 0
    BY <2>3, <2>4 DEF Charged
  <2>6. Fair(jobs'[n], runs'[n])
    BY <1>0, <2>2, <2>3, <2>5
  <2>7. \A j \in Jobs' : Fair(jobs'[j], runs'[j])
    BY <1>1, <2>2, <2>3, <2>6
  <2>8. QED
    BY <1>0, <1>2, <2>2, <2>3, <2>7 DEF Charged
<1>4. ASSUME NEW w \in Workers, CommitClaim(w)
      PROVE  Charged'
  <2> DEFINE j == worker[w].job
             job == [jobs[j] EXCEPT !.status = "processing"]
  <2>1. j \in Jobs /\ jobs[j].status = "pending"
    BY <1>4, WorkerFields DEF CommitClaim, RunByOne, Idle
  <2>2. jobs' = [jobs EXCEPT ![j] = job] /\ runs' = [runs EXCEPT ![j] = runs[j] + 1]
    BY <1>0, <1>4, <2>1 DEF CommitClaim
  <2>3. job.attempts = jobs[j].attempts /\ job.status = "processing" /\ jobs[j].attempts \in Nat
    BY <1>0, <2>1 DEF QueuedJob
  <2>4. /\ Jobs' = Jobs /\ jobs'[j] = job /\ \A i \in Jobs : i # j => jobs'[i] = jobs[i]
    BY <1>0, <2>1, <2>2 DEF Jobs
  <2>5. /\ runs' \in [JobIds -> Nat] /\ runs'[j] = runs[j] + 1
        /\ \A i \in JobIds : i # j => runs'[i] = runs[i]
    BY <1>0, <2>1, <2>2
  <2>6. Fair(jobs[j], runs[j])
    BY <1>1, <2>1
  <2>7. jobs[j].attempts # MaxAttempts /\ runs[j] = jobs[j].attempts /\ runs[j] <= MaxAttempts
    BY <2>1, <2>3, <2>6
  <2>8. Fair(job, runs[j] + 1)
    <3> HIDE DEF job, j
    <3> QED BY <1>0, <2>3, <2>7
  <2> HIDE DEF job, j
  <2>9. \A i \in Jobs' : Fair(jobs'[i], runs'[i])
    BY <1>0, <1>1, <2>4, <2>5, <2>8
  <2>10. \A i \in JobIds \ Jobs' : runs'[i] = 0
    BY <2>1, <2>4, <2>5 DEF Charged
  <2>11. QED
    BY <1>2, <2>5, <2>9, <2>10
<1>5. ASSUME NEW w \in Workers, FinishJob(w)
      PROVE  Charged'
  <2> DEFINE j == worker[w].job
             e == jobs[j].attempts + 1 >= MaxAttempts
             job == Outcome(jobs[j], worker[w].ok, e)
  <2>1. j \in Jobs /\ worker[w].ok \in BOOLEAN /\ worker[w].pc = "finish" /\ runs' = runs
    BY <1>5, WorkerFields DEF FinishJob, FinishAs, Working, Steps
  <2>2. jobs[j].status = "processing" /\ jobs[j] \in QueuedJob /\ jobs[j].attempts \in Nat
    BY <1>0, <2>1 DEF RunByOne, Idle, QueuedJob
  <2>3. jobs' = [jobs EXCEPT ![j] = job]
    BY <1>5 DEF FinishJob, FinishAs
  <2>4. Fair(jobs[j], runs[j])
    BY <1>1, <2>1
  <2>5. runs[j] = jobs[j].attempts + 1 /\ runs[j] <= MaxAttempts /\ jobs[j].attempts # MaxAttempts
    BY <2>2, <2>4
  <2>6. Fair(job, runs[j])
    <3>1. CASE worker[w].ok
      <4>1. job.attempts = jobs[j].attempts /\ job.status = "completed"
        BY <2>2, <3>1 DEF Outcome, QueuedJob
      <4>2. QED
        <5> HIDE DEF job, j, e
        <5> QED BY <2>2, <2>5, <4>1
    <3>2. CASE ~worker[w].ok /\ e
      <4>1. job.attempts = jobs[j].attempts + 1 /\ job.status = "failed"
        BY <2>2, <3>2 DEF Outcome, QueuedJob
      <4>2. jobs[j].attempts + 1 >= MaxAttempts
        BY <3>2
      <4>3. QED
        <5> HIDE DEF job, j, e
        <5> QED BY <1>0, <2>2, <2>5, <4>1, <4>2
    <3>3. CASE ~worker[w].ok /\ ~e
      <4>1. job.attempts = jobs[j].attempts + 1 /\ job.status = "pending"
        BY <2>2, <3>3 DEF Outcome, QueuedJob
      <4>2. ~(jobs[j].attempts + 1 >= MaxAttempts)
        BY <3>3
      <4>3. QED
        <5> HIDE DEF job, j, e
        <5> QED BY <1>0, <2>2, <2>5, <4>1, <4>2
    <3>4. QED
      BY <2>1, <3>1, <3>2, <3>3
  <2> HIDE DEF job, j, e
  <2>7. Jobs' = Jobs /\ jobs'[j] = job /\ \A i \in Jobs : i # j => jobs'[i] = jobs[i]
    BY <1>0, <2>1, <2>3 DEF Jobs
  <2>8. \A i \in Jobs' : Fair(jobs'[i], runs'[i])
    BY <1>1, <2>1, <2>6, <2>7
  <2>9. QED
    BY <1>0, <1>2, <2>1, <2>7, <2>8 DEF Charged
<1>6. ASSUME NEW j \in Jobs, BecomesDue(j)
      PROVE  Charged'
  <2> DEFINE job == [jobs[j] EXCEPT !.due = TRUE]
  <2>1. jobs' = [jobs EXCEPT ![j] = job] /\ runs' = runs
    BY <1>0, <1>6 DEF BecomesDue
  <2>2. job.attempts = jobs[j].attempts /\ job.status = jobs[j].status
    BY <1>0 DEF QueuedJob
  <2> HIDE DEF job
  <2>3. Jobs' = Jobs /\ jobs'[j] = job /\ \A i \in Jobs : i # j => jobs'[i] = jobs[i]
    BY <1>0, <2>1 DEF Jobs
  <2>4. \A i \in Jobs' : Fair(jobs'[i], runs'[i])
    BY <1>1, <2>1, <2>2, <2>3
  <2>5. QED
    BY <1>0, <1>2, <2>1, <2>3, <2>4 DEF Charged
<1>7. CASE jobs' = jobs /\ runs' = runs
  BY <1>7 DEF Charged, AttemptsCountRuns, Jobs
<1>8. QED
  BY <1>3, <1>4, <1>5, <1>6, <1>7
  DEF JobsNext, Run, UploadBook, UploadLost, SelectJob, ReadPath, InsertAnalysis, Analyse, StoreResult,
      MarkFailed, MarkLost, StatementFails, WorkerLost, WorkStep, jobsVars, tables

LEMMA InitCounts == JobsInit => FromUploads /\ InBounds /\ Charged /\ RunByOne
<1> SUFFICES ASSUME JobsInit PROVE FromUploads /\ InBounds /\ Charged /\ RunByOne
  OBVIOUS
<1>1. /\ file = [b \in Books |-> 0] /\ toEnqueue = [b \in Books |-> 0] /\ jobs = <<>>
      /\ analyses = <<>> /\ worker = [w \in Workers |-> Idle] /\ runs = [j \in JobIds |-> 0]
      /\ errors = 0 /\ losses = 0
  BY DEF JobsInit
<1>2. Jobs = {} /\ DOMAIN analyses = {}
  BY <1>1 DEF Jobs
<1>3. FromUploads
  <2>1. \A b \in Books : JobsOf(b) = {} /\ file[b] = 0 /\ toEnqueue[b] = 0
    BY <1>1, <1>2 DEF JobsOf
  <2>2. QED
    BY <2>1, FS_EmptySet, QueueAssumption DEF FromUploads
<1>4. InBounds
  BY <1>1, <1>2, QueueAssumption DEF InBounds, Idle, Steps
<1>5. Charged /\ RunByOne
  BY <1>1, <1>2 DEF Charged, AttemptsCountRuns, RunByOne
<1>6. QED
  BY <1>3, <1>4, <1>5

LEMMA TypesFollow ==
  ASSUME Queue, FromUploads, InBounds, Charged
  PROVE  JobsTypeOK
<1>0. Len(jobs) <= MaxUploads * Cardinality(Books) /\ Jobs \subseteq JobIds /\ MaxUploads \in Nat
      /\ MaxAttempts \in Nat
  BY JobsFit, QueueAssumption
<1>1. file \in [Books -> Files] /\ toEnqueue \in [Books -> Files]
  <2>1. file \in [Books -> Nat] /\ toEnqueue \in [Books -> Nat]
    BY DEF Queue
  <2>2. ASSUME NEW b \in Books PROVE file[b] <= MaxUploads /\ toEnqueue[b] <= MaxUploads
    <3>1. /\ file[b] \in Nat /\ toEnqueue[b] \in Nat /\ Cardinality(JobsOf(b)) \in Nat
          /\ file[b] <= MaxUploads /\ Cardinality(JobsOf(b)) + toEnqueue[b] <= file[b]
      BY <2>1, JobsAre DEF FromUploads
    <3>2. QED
      BY <1>0, <3>1
  <2>3. QED
    BY <1>0, <2>1, <2>2 DEF Files
<1>2. ASSUME NEW j \in Jobs PROVE jobs[j] \in Job /\ runs[j] <= MaxAttempts
  <2>1. jobs[j] \in QueuedJob /\ runs[j] \in Nat
    BY <1>0, JobFields DEF Charged
  <2>2. /\ runs[j] = jobs[j].attempts +
             IF jobs[j].status \in {"processing", "completed"} THEN 1 ELSE 0
        /\ runs[j] <= MaxAttempts
    BY DEF Charged, AttemptsCountRuns
  <2>3. jobs[j].attempts \in 0..MaxAttempts
    BY <1>0, <2>1, <2>2 DEF QueuedJob
  <2>4. QED
    BY <2>1, <2>2, <2>3 DEF QueuedJob, Job
<1>3. jobs \in Seq(Job)
  BY <1>2 DEF Queue, Jobs
<1>4. runs \in [JobIds -> 0..MaxAttempts]
  <2>1. ASSUME NEW j \in JobIds PROVE runs[j] \in 0..MaxAttempts
    <3>1. CASE j \in Jobs
      BY <1>0, <1>2, <3>1 DEF Charged
    <3>2. CASE j \notin Jobs
      BY <1>0, <3>2 DEF Charged
    <3>3. QED
      BY <3>1, <3>2
  <2>2. QED
    BY <2>1 DEF Charged
<1>5. analyses \in Seq(Analysis)
  <2>1. ASSUME NEW i \in DOMAIN analyses PROVE analyses[i] \in Analysis
    <3>1. analyses[i] \in StoredAnalysis
      BY DEF Queue
    <3>2. analyses[i].of \in Files /\ analyses[i].job \in JobIds
      BY <1>0 DEF InBounds
    <3>3. QED
      BY <3>1, <3>2 DEF StoredAnalysis, Analysis
  <2>2. QED
    BY <2>1 DEF Queue
<1>6. worker \in [Workers -> {Idle} \cup Claims \cup Work]
  <2>1. ASSUME NEW w \in Workers PROVE worker[w] \in {Idle} \cup Claims \cup Work
    <3>1. CASE worker[w].pc = "idle"
      BY <3>1, WorkerFields
    <3>2. CASE worker[w].pc = "claim"
      <4>1. worker[w] \in Claiming /\ worker[w].job \in JobIds
        BY <1>0, <3>2, WorkerFields
      <4>2. QED
        BY <4>1 DEF Claiming, Claims
    <3>3. CASE worker[w].pc \in Steps
      <4>1. worker[w] \in Working /\ worker[w].job \in JobIds /\ worker[w].of \in Files
        BY <1>0, <3>3, WorkerFields DEF InBounds, Steps
      <4>2. QED
        BY <4>1 DEF Working, Work
    <3>4. QED
      BY <3>1, <3>2, <3>3, WorkerFields
  <2>2. QED
    BY <2>1 DEF Queue
<1>7. QED
  BY <1>0, <1>1, <1>3, <1>4, <1>5, <1>6 DEF JobsTypeOK, InBounds

LEMMA CountsKept ==
  JobsSpec => [](Queue /\ FillsOwn /\ RunByOne /\ FromUploads /\ InBounds /\ Charged)
BY InitQueue, InitCounts, QueueKept, FillsOwnKept, RunByOneKept, FromUploadsKept, InBoundsKept,
   ChargedKept, PTL DEF JobsSpec

(* The queue stays within its bounds: there are no more jobs of a book than *)
(* uploads, an analysis is of a file and a job that exist, and no job runs  *)
(* more often than max_attempts (UploadBook, claimNextAIJob, finishAIJob).  *)
THEOREM QueueStaysBounded == JobsSpec => []JobsTypeOK
BY CountsKept, TypesFollow, PTL

(* The attempts of a job count its runs that returned an error: it is given *)
(* up after exactly max_attempts of them and never before, whatever crashes *)
(* and however many workers compete (finishAIJob).                          *)
THEOREM RetriesAreCounted == JobsSpec => []AttemptsCountRuns
<1>1. Charged => AttemptsCountRuns
  BY DEF Charged
<1>2. QED
  BY <1>1, CountsKept, PTL
=============================================================================
