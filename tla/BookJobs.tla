------------------------------ MODULE BookJobs ------------------------------
(***************************************************************************)
(* The textbooks of the subjects and the queue of AI jobs that analyses    *)
(* them.  The API stores an uploaded file and enqueues a job; any number   *)
(* of worker processes claim jobs, analyse the file and record the outcome *)
(* in book_analyses, as a draft for an administrator.                      *)
(*                                                                         *)
(* Only the claim of a job is a transaction; everything else is statements *)
(* that commit one by one, with the slow call of the model between them.   *)
(***************************************************************************)
EXTENDS Integers, FiniteSets, Sequences

CONSTANTS
  Books,        \* books: a subject and a type
  Workers,      \* worker processes
  MaxAttempts,  \* ai_jobs.max_attempts
  MaxUploads,   \* bound on the uploads of a book
  MaxErrors,    \* bound on the statements of a job that fail
  MaxLosses     \* bound on what dies or is lost without a trace

ASSUME QueueAssumption ==
  /\ IsFiniteSet(Books)
  /\ MaxAttempts \in Nat \ {0}
  /\ MaxUploads \in Nat /\ MaxErrors \in Nat /\ MaxLosses \in Nat

VARIABLES
  file,       \* subject_books.storage_path: the number of the upload, 0 without a row
  toEnqueue,  \* uploads of a book whose job is not inserted yet
  jobs,       \* ai_jobs, in the order of created_at
  analyses,   \* book_analyses, in the order of created_at
  worker,     \* what each worker process is doing
  runs,       \* how often each job was claimed (history)
  errors,     \* failed statements so far
  losses      \* processes and updates lost so far

tables == <<file, toEnqueue, jobs, analyses>>
jobsVars == <<tables, worker, runs, errors, losses>>

JobIds == 1..(MaxUploads * Cardinality(Books))
Jobs == DOMAIN jobs
Files == 0..MaxUploads
Job == [book : Books, attempts : 0..MaxAttempts, due : BOOLEAN,
        status : {"pending", "processing", "completed", "failed"}]
(* of and job, the file analysed and the job that did it, are history. *)
Analysis == [book : Books, of : Files, job : JobIds,
             status : {"processing", "completed", "failed"}]

Idle == [pc |-> "idle"]
Claims == [pc : {"claim"}, job : JobIds]
Steps == {"path", "insert", "analyse", "store", "mark", "finish"}
Work == [pc : Steps, job : JobIds, of : Files, id : Nat, ok : BOOLEAN]

WorksOn(w, j) == worker[w].pc # "idle" /\ worker[w].job = j
BookOfJob(w) == jobs[worker[w].job].book

JobsInit ==
  /\ file = [b \in Books |-> 0]
  /\ toEnqueue = [b \in Books |-> 0]
  /\ jobs = <<>>
  /\ analyses = <<>>
  /\ worker = [w \in Workers |-> Idle]
  /\ runs = [j \in JobIds |-> 0]
  /\ errors = 0 /\ losses = 0

-----------------------------------------------------------------------------
(* The API *)

(* Mutant: only the first upload of a book is analysed. *)
UploadFirstOnly(b) ==
  /\ file[b] < MaxUploads
  /\ file' = [file EXCEPT ![b] = @ + 1]
  /\ toEnqueue' = [toEnqueue EXCEPT ![b] = IF file[b] = 0 THEN @ + 1 ELSE @]
  /\ UNCHANGED <<jobs, analyses, worker, runs, errors, losses>>

(* UploadBook: the file is saved, then the row of the book points to it. *)
UploadBook(b) ==
  /\ file[b] < MaxUploads
  /\ file' = [file EXCEPT ![b] = @ + 1]
  /\ toEnqueue' = [toEnqueue EXCEPT ![b] = @ + 1]
  /\ UNCHANGED <<jobs, analyses, worker, runs, errors, losses>>

Enqueue(b) ==
  /\ toEnqueue[b] > 0
  /\ toEnqueue' = [toEnqueue EXCEPT ![b] = @ - 1]
  /\ jobs' = Append(jobs, [book |-> b, attempts |-> 0, due |-> TRUE,
                           status |-> "pending"])
  /\ UNCHANGED <<file, analyses, worker, runs, errors, losses>>

(* The request dies between the two: the book is there, its job is not. *)
UploadLost(b) ==
  /\ toEnqueue[b] > 0
  /\ losses < MaxLosses
  /\ losses' = losses + 1
  /\ toEnqueue' = [toEnqueue EXCEPT ![b] = @ - 1]
  /\ UNCHANGED <<file, jobs, analyses, worker, runs, errors>>

-----------------------------------------------------------------------------
(* claimNextAIJob: a short transaction *)

Claimable(j) == jobs[j].status = "pending" /\ jobs[j].due

(* Mutant: no row lock is taken. *)
SelectUnlocked(w) ==
  /\ worker[w] = Idle
  /\ \E j \in Jobs :
       /\ Claimable(j)
       /\ \A i \in 1..(j - 1) : ~Claimable(i)
       /\ worker' = [worker EXCEPT ![w] = [pc |-> "claim", job |-> j]]
  /\ UNCHANGED <<tables, runs, errors, losses>>

(* FOR UPDATE SKIP LOCKED: the oldest job that is due and that no other     *)
(* worker is about to claim.                                                *)
SelectJob(w) ==
  /\ worker[w] = Idle
  /\ LET free == {j \in Jobs : Claimable(j) /\ \A x \in Workers : ~WorksOn(x, j)}
     IN  \E j \in free :
           /\ \A i \in free : j <= i
           /\ worker' = [worker EXCEPT ![w] = [pc |-> "claim", job |-> j]]
  /\ UNCHANGED <<tables, runs, errors, losses>>

CommitClaim(w) ==
  /\ worker[w].pc = "claim"
  /\ LET j == worker[w].job IN
       /\ jobs' = [jobs EXCEPT ![j].status = "processing"]
       /\ runs' = [runs EXCEPT ![j] = @ + 1]
       /\ worker' = [worker EXCEPT ![w] =
            [pc |-> "path", job |-> j, of |-> 0, id |-> 0, ok |-> TRUE]]
  /\ UNCHANGED <<file, toEnqueue, analyses, errors, losses>>

-----------------------------------------------------------------------------
(* runAnalyzeBook *)

WorkStep(w, pc) ==
  /\ worker' = [worker EXCEPT ![w].pc = pc]
  /\ UNCHANGED <<file, toEnqueue, jobs, runs, errors, losses>>

ReadPath(w) ==
  /\ worker[w].pc = "path"
  /\ worker' = [worker EXCEPT ![w].pc = "insert", ![w].of = file[BookOfJob(w)]]
  /\ UNCHANGED <<tables, runs, errors, losses>>

InsertAnalysis(w) ==
  /\ worker[w].pc = "insert"
  /\ analyses' = Append(analyses,
       [book |-> BookOfJob(w), of |-> worker[w].of, job |-> worker[w].job,
        status |-> "processing"])
  /\ worker' = [worker EXCEPT ![w].pc = "analyse", ![w].id = Len(analyses) + 1]
  /\ UNCHANGED <<file, toEnqueue, jobs, runs, errors, losses>>

(* The file is read and the model answers with a structure, or not. *)
Analyse(w) ==
  /\ worker[w].pc = "analyse"
  /\ \E pc \in {"store", "mark"} : WorkStep(w, pc)
  /\ UNCHANGED analyses

StoreResult(w) ==
  /\ worker[w].pc = "store"
  /\ analyses' = [analyses EXCEPT ![worker[w].id].status = "completed"]
  /\ WorkStep(w, "finish")

(* Mutant: the failure is not recorded. *)
SkipMark(w) ==
  /\ worker[w].pc = "mark"
  /\ WorkStep(w, "finish")
  /\ UNCHANGED analyses

(* markBookAnalysisFailed: as far as the queue goes, the job is done. *)
MarkFailed(w) ==
  /\ worker[w].pc = "mark"
  /\ analyses' = [analyses EXCEPT ![worker[w].id].status = "failed"]
  /\ WorkStep(w, "finish")

(* Its own error is only printed. *)
MarkLost(w) ==
  /\ worker[w].pc = "mark"
  /\ losses < MaxLosses
  /\ losses' = losses + 1
  /\ worker' = [worker EXCEPT ![w].pc = "finish"]
  /\ UNCHANGED <<tables, runs, errors>>

(* Any other statement that fails makes the handler return an error. *)
StatementFails(w) ==
  /\ worker[w].pc \in {"path", "insert", "store"}
  /\ errors < MaxErrors
  /\ errors' = errors + 1
  /\ worker' = [worker EXCEPT ![w].pc = "finish", ![w].ok = FALSE]
  /\ UNCHANGED <<tables, runs, losses>>

-----------------------------------------------------------------------------
(* finishAIJob *)

FinishAs(w, outcome) ==
  /\ worker[w].pc = "finish"
  /\ jobs' = [jobs EXCEPT ![worker[w].job] = outcome]
  /\ worker' = [worker EXCEPT ![w] = Idle]
  /\ UNCHANGED <<file, toEnqueue, analyses, runs, errors, losses>>

(* Done; or given up; or back in the queue, due only after a while. *)
Outcome(job, ok, exhausted) ==
  IF ok THEN [job EXCEPT !.status = "completed"]
  ELSE IF exhausted
  THEN [job EXCEPT !.status = "failed", !.attempts = @ + 1]
  ELSE [job EXCEPT !.status = "pending", !.attempts = @ + 1, !.due = FALSE]

(* Mutant: one attempt too many. *)
FinishLate(w) ==
  LET job == jobs[worker[w].job]
  IN  FinishAs(w, Outcome(job, worker[w].ok, job.attempts >= MaxAttempts))

(* Mutant: a job whose handler returned an error is not put back. *)
FinishUnlessError(w) ==
  LET job == jobs[worker[w].job]
  IN  FinishAs(w, IF worker[w].ok THEN Outcome(job, TRUE, FALSE) ELSE job)

FinishJob(w) ==
  LET job == jobs[worker[w].job]
  IN  FinishAs(w, Outcome(job, worker[w].ok, job.attempts + 1 >= MaxAttempts))

(* The worker is stopped or killed, or its last update fails and is only    *)
(* logged.  An open claim is rolled back; a claimed job keeps its status.   *)
WorkerLost(w) ==
  /\ worker[w] # Idle
  /\ losses < MaxLosses
  /\ losses' = losses + 1
  /\ worker' = [worker EXCEPT ![w] = Idle]
  /\ UNCHANGED <<tables, runs, errors>>

(* The time available_at of a job that was put back has come. *)
BecomesDue(j) ==
  /\ ~jobs[j].due
  /\ jobs' = [jobs EXCEPT ![j].due = TRUE]
  /\ UNCHANGED <<file, toEnqueue, analyses, worker, runs, errors, losses>>

-----------------------------------------------------------------------------
Run(w) ==
  \/ SelectJob(w)
  \/ CommitClaim(w)
  \/ ReadPath(w)
  \/ InsertAnalysis(w)
  \/ Analyse(w)
  \/ StoreResult(w)
  \/ MarkFailed(w)
  \/ FinishJob(w)

JobsNext ==
  \/ \E b \in Books : UploadBook(b) \/ Enqueue(b) \/ UploadLost(b)
  \/ \E w \in Workers : Run(w) \/ MarkLost(w) \/ StatementFails(w) \/ WorkerLost(w)
  \/ \E j \in Jobs : BecomesDue(j)

JobsSpec == JobsInit /\ [][JobsNext]_jobsVars

(* A worker polls for ever, a call of the model ends, time passes. *)
JobsFairness ==
  /\ \A w \in Workers : WF_jobsVars(Run(w))
  /\ \A b \in Books : WF_jobsVars(Enqueue(b))
  /\ \A j \in JobIds : WF_jobsVars(j \in Jobs /\ BecomesDue(j))
FairSpec == JobsSpec /\ JobsFairness

-----------------------------------------------------------------------------
JobsTypeOK ==
  /\ file \in [Books -> Files]
  /\ toEnqueue \in [Books -> Files]
  /\ jobs \in Seq(Job) /\ Len(jobs) <= MaxUploads * Cardinality(Books)
  /\ analyses \in Seq(Analysis)
  /\ worker \in [Workers -> {Idle} \cup Claims \cup Work]
  /\ runs \in [JobIds -> 0..MaxAttempts]
  /\ errors \in 0..MaxErrors /\ losses \in 0..MaxLosses

(* Several workers never run the same job at once, and the job that a      *)
(* worker runs is marked so for all the others.                            *)
RunByOne ==
  \A w \in Workers : worker[w] # Idle =>
    /\ \A x \in Workers \ {w} : ~WorksOn(x, worker[w].job)
    /\ jobs[worker[w].job].status =
         IF worker[w].pc = "claim" THEN "pending" ELSE "processing"

(* The attempts of a job count its runs that returned an error: it is      *)
(* given up after exactly max_attempts of them and never before, and no    *)
(* crash or competing worker gives it a run more.                          *)
AttemptsCountRuns ==
  \A j \in Jobs :
    LET job == jobs[j] IN
    /\ runs[j] = job.attempts + IF job.status \in {"processing", "completed"} THEN 1 ELSE 0
    /\ runs[j] <= MaxAttempts
    /\ job.status = "failed" <=> job.attempts = MaxAttempts

(* A job the queue calls completed has an analysis with an outcome that the *)
(* administrator can read, as long as nothing was lost.                     *)
CompletedIsDocumented ==
  losses = 0 =>
    \A j \in Jobs : jobs[j].status = "completed" =>
      \E i \in DOMAIN analyses : analyses[i].job = j /\ analyses[i].status # "processing"

(* A book that is replaced while workers analyse it: once its jobs have     *)
(* ended, the file it has now was analysed, unless a job was given up or    *)
(* something was lost.                                                      *)
CurrentFileAnalysed ==
  losses = 0 =>
    \A b \in Books :
      /\ file[b] > 0 /\ toEnqueue[b] = 0
      /\ \A j \in Jobs : jobs[j].book = b => jobs[j].status = "completed"
      => \E i \in DOMAIN analyses :
           /\ analyses[i].book = b /\ analyses[i].of = file[b]
           /\ analyses[i].status # "processing"

JobEnded(j) == j \in Jobs /\ jobs[j].status \in {"completed", "failed"}

(* Every job ends, completed or given up, unless something was lost. *)
JobsEnd == \A j \in JobIds : j \in Jobs ~> losses > 0 \/ JobEnded(j)

(* The comment of finishAIJob: a job is completed, or put back, or marked   *)
(* failed at the end of its attempts; and the log line of main calls the    *)
(* stop of a worker a clean one.                                            *)
JobsEndAnyway == \A j \in JobIds : j \in Jobs ~> JobEnded(j)
=============================================================================
