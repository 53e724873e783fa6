------------------------------- MODULE JobLoop -------------------------------
(***************************************************************************)
(* One ai-loop job: the controller, the worker, the operator's programs    *)
(* (start, resume, stop, the GUI's refresh) and what they share: the job,  *)
(* task and run rows in SQLite and the job's groups on two Redis streams.  *)
(* Every SQLite transaction, every Redis command and every process launch  *)
(* or kill is a step of its own, so the model interleaves, and crashes,    *)
(* between any two of them.  What a language model answers and what a      *)
(* worker run produces are arbitrary choices.                              *)
(***************************************************************************)
EXTENDS ConsumerGroup, JobStatus, FiniteSets

CONSTANTS
  MaxIterations,       \* jobs.max_iterations
  RecoveryMaxTasks,    \* PROMOTION_RECOVERY_MAX_TASKS
  ResumeKinds,         \* which resumes the operator uses: "cli", "gui"
  MaxResumes,          \* bound: resumes of the job
  MaxFaults,           \* bound: crashes, and exceptions of SQLite or Redis
  PromotionFails,      \* whether a promotion, or its validation, may fail
  TokenLimits,         \* whether providers run out of tokens
  GuiRefresh,          \* whether a GUI is open on the job
  GuiStop              \* whether the operator may stop or finish the job

ASSUME ConstantsAssumption ==
  /\ MaxIterations \in Nat
  /\ RecoveryMaxTasks \in Nat \ {0}
  /\ ResumeKinds \subseteq {"cli", "gui"}
  /\ MaxResumes \in Nat
  /\ MaxFaults \in Nat
  /\ PromotionFails \in BOOLEAN
  /\ TokenLimits \in BOOLEAN
  /\ GuiRefresh \in BOOLEAN
  /\ GuiStop \in BOOLEAN

VARIABLES
  jobStatus,    \* jobs.status
  tasks,        \* the rows of tasks, by iteration (the position less one)
  runs,         \* the rows of runs: the task of each, in the order inserted
  requests,     \* ai:claude:requests as the job's controller group sees it
  activations,  \* ai:codex:tasks as the job's worker group sees it
  published,    \* keys of the publication-ids hash: tasks published already
  controller,   \* the controller process
  worker,       \* the worker process
  operator,     \* what is left to do of a start or a resume
  gui,          \* the GUI refresh: what list_jobs has read so far
  resumes,      \* resumes begun (bounded by MaxResumes)
  faults        \* faults so far (bounded by MaxFaults)

db    == <<jobStatus, tasks, runs>>
redis == <<requests, activations, published>>
procs == <<controller, worker>>
env   == <<operator, gui, resumes, faults>>
vars  == <<db, redis, procs, env>>

Requests ==
  [type : {"PLAN", "PROMOTION_RECOVERY"}, task : {0}]
    \cup [type : {"REVIEW"}, task : Nat \ {0}]

Actions == {"CONTINUE", "REPAIR", "DONE", "HUMAN_NEEDED"}

(* A process is down, or at a point of its main loop.  "msg" is the entry  *)
(* it handles (0: none), "boot" says that it is still reclaiming what was  *)
(* pending when it started.  "event" is the terminal event it has to       *)
(* publish.  Killed or exited, a process leaves nothing behind.            *)
Down     == [pc |-> "down", msg |-> 0, action |-> "none", event |-> "none", boot |-> FALSE]
Launched == [Down EXCEPT !.pc = "idle", !.boot = TRUE]

ControllerPCs ==
  {"down", "idle", "deciding", "waiting", "decided", "publish", "recover", "announce", "ack"}
WorkerPCs ==
  {"down", "idle", "loaded", "running", "waiting", "ran", "announce", "ack"}
Process(PCs) ==
  [pc : PCs, msg : Nat, action : Actions \cup {"none"},
   event : TerminalStatuses \cup {"none"}, boot : BOOLEAN]

Init ==
  /\ jobStatus = "planning"
  /\ tasks = <<>> /\ runs = <<>>
  /\ requests = EmptyGroup /\ activations = EmptyGroup
  /\ published = {}
  /\ controller = Down /\ worker = Down
  /\ operator = <<"launch", "plan">>          \* start_job: create_job is committed
  /\ gui = [pc |-> "idle", status |-> "planning"]
  /\ resumes = 0 /\ faults = 0

(* A definition X_how is X with one plausible mistake in it: it is used     *)
(* nowhere, and a run that checks a property tells it from X.              *)

-----------------------------------------------------------------------------
(* The main loop of both processes.                                        *)

Idle(p) == p.pc = "idle"

(* The entries the process may take up now: the next new one, or, while it *)
(* starts and whenever nothing new arrives, one left pending by a crash.   *)
Takeable(p, g) ==
  IF ~Idle(p) THEN {}
  ELSE {i \in {g.next} : HasNew(g)} \cup
       {i \in g.pending : p.boot \/ ~HasNew(g)}

Take(g, i) == IF i = g.next THEN ReadNew(g) ELSE g

(* The handler is entered for entry i; a new entry ends the startup phase. *)
Enter(p, g, i, pc) ==
  [p EXCEPT !.pc = pc, !.msg = i, !.boot = @ /\ i # g.next]

(* The job has just been given a terminal status, whose event is due. *)
Announcing(p, event) == [p EXCEPT !.pc = "announce", !.event = event]

Loop(p) == [p EXCEPT !.pc = "idle", !.msg = 0, !.action = "none", !.event = "none"]

(* After the acknowledgement a terminal job ends the process, except on    *)
(* the path that has just recorded the job dead.                           *)
AfterAck(p) ==
  IF jobStatus \in TerminalStatuses /\ p.event # "dead" THEN Down ELSE Loop(p)

(* An idle process leaves once its job is terminal. *)
IdleExit(p, g) == Idle(p) /\ ~HasNew(g) /\ jobStatus \in TerminalStatuses

-----------------------------------------------------------------------------
(* The controller.                                                         *)

Request     == requests.log[controller.msg]
RequestTask == Request.task
IsRecovery(t) == tasks[t].creator = "recovery"

(* recovery_review or a PROMOTION_RECOVERY request *)
RecoveryLineage ==
  \/ Request.type = "PROMOTION_RECOVERY"
  \/ Request.type = "REVIEW" /\ IsRecovery(RequestTask)

RecoveryTasks == {t \in DOMAIN tasks : IsRecovery(t)}

(* What a decision may be: promotion recovery offers no CONTINUE, and DONE *)
(* only when it reviews a recovery task.                                   *)
Answers ==
  IF ~RecoveryLineage THEN Actions
  ELSE {"REPAIR", "HUMAN_NEEDED"} \cup {a \in {"DONE"} : Request.type = "REVIEW"}

CtlTake(i) ==
  /\ i \in Takeable(controller, requests)
  /\ requests' = Take(requests, i)
  /\ controller' = Enter(controller, requests, i, "deciding")
  /\ UNCHANGED <<db, activations, published, worker, env>>

(* controller_decision sleeps until the provider's quota is replenished;   *)
(* promotion recovery never waits.                                         *)
CtlTokenWait ==
  /\ TokenLimits
  /\ controller.pc = "deciding" /\ ~RecoveryLineage
  /\ controller' = [controller EXCEPT !.pc = "waiting"]
  /\ jobStatus' = "waiting_tokens"
  /\ UNCHANGED <<tasks, runs, redis, worker, env>>

AskAgain_never == controller
AskAgain == [controller EXCEPT !.pc = "deciding"]

CtlTokenResume ==
  /\ controller.pc = "waiting"
  /\ controller' = AskAgain
  /\ jobStatus' = "planning"
  /\ UNCHANGED <<tasks, runs, redis, worker, env>>

(* The answer is validated and the decision row is committed. *)
CtlDecide ==
  /\ controller.pc = "deciding"
  /\ \E a \in Answers : controller' = [controller EXCEPT !.pc = "decided", !.action = a]
  /\ UNCHANGED <<db, redis, worker, env>>

LimitReached_late ==
  IF RecoveryLineage THEN Cardinality(RecoveryTasks) >= RecoveryMaxTasks
                     ELSE Len(tasks) > MaxIterations
LimitReached ==
  IF RecoveryLineage THEN Cardinality(RecoveryTasks) >= RecoveryMaxTasks
                     ELSE Len(tasks) >= MaxIterations

WantsTask == controller.pc = "decided" /\ controller.action \in {"CONTINUE", "REPAIR"}

Creator ==
  IF RecoveryLineage THEN "recovery"
  ELSE IF controller.action = "REPAIR" THEN "repair"
  ELSE IF Request.type = "PLAN" THEN "plan" ELSE "review"

(* The limits are checked, and create_next_task runs up to its commit.     *)
(* Only the controller adds tasks, so the two transactions are one step;   *)
(* the new task is active, so the job's status is always derived from it.  *)
CtlCreateTask ==
  /\ WantsTask /\ ~LimitReached
  /\ tasks' = Append(tasks, [status |-> "queued", creator |-> Creator])
  /\ jobStatus' = ActiveJobStatus(tasks')
  /\ controller' = [controller EXCEPT !.pc = "publish"]
  /\ UNCHANGED <<runs, redis, worker, env>>

(* publish_worker_task: xadd_json_once under the key of the newest task,   *)
(* the one this controller has just created.                               *)
NewTask == Len(tasks)

CtlPublish ==
  /\ controller.pc = "publish"
  /\ activations' = IF NewTask \in published THEN activations
                    ELSE Xadd(activations, NewTask)
  /\ published' = published \cup {NewTask}
  /\ controller' = [controller EXCEPT !.pc = "ack"]
  /\ UNCHANGED <<db, requests, worker, env>>

(* finish_job, by the model's choice or because a limit is reached. *)
CtlHumanNeeded ==
  /\ \/ controller.pc = "decided" /\ controller.action = "HUMAN_NEEDED"
     \/ WantsTask /\ LimitReached
  /\ jobStatus' = "human_needed"
  /\ controller' = Announcing(controller, "human_needed")
  /\ UNCHANGED <<tasks, runs, redis, worker, env>>

(* finish_done_job when promotion and validation succeed. *)
CtlDone ==
  /\ controller.pc = "decided" /\ controller.action = "DONE"
  /\ jobStatus' = "done"
  /\ controller' = Announcing(controller, "done")
  /\ UNCHANGED <<tasks, runs, redis, worker, env>>

(* finish_done_job when they do not: request_promotion_recovery publishes  *)
(* first and commits the status afterwards.                                *)
CtlPromotionFailed ==
  /\ PromotionFails
  /\ controller.pc = "decided" /\ controller.action = "DONE"
  /\ requests' = Xadd(requests, [type |-> "PROMOTION_RECOVERY", task |-> 0])
  /\ controller' = [controller EXCEPT !.pc = "recover"]
  /\ UNCHANGED <<db, activations, published, worker, env>>

CtlRecoveryRequested ==
  /\ controller.pc = "recover"
  /\ jobStatus' = "planning"
  /\ controller' = [controller EXCEPT !.pc = "ack"]
  /\ UNCHANGED <<tasks, runs, redis, worker, env>>

CtlAnnounce ==
  /\ controller.pc = "announce"
  /\ controller' = [controller EXCEPT !.pc = "ack"]
  /\ UNCHANGED <<db, redis, worker, env>>

CtlAck ==
  /\ controller.pc = "ack"
  /\ requests' = Ack(requests, controller.msg)
  /\ controller' = AfterAck(controller)
  /\ UNCHANGED <<db, activations, published, worker, env>>

CtlIdleExit ==
  /\ IdleExit(controller, requests)
  /\ controller' = Down
  /\ UNCHANGED <<db, redis, worker, env>>

(* record_dead commits; the dead event and the acknowledgement follow. *)
CtlRecordDead ==
  /\ jobStatus' = "dead"
  /\ controller' = Announcing(controller, "dead")
  /\ UNCHANGED <<tasks, runs, redis, worker>>

(* The prompt context cannot be loaded, or no valid decision comes back. *)
CtlReject ==
  /\ controller.pc = "deciding"
  /\ CtlRecordDead
  /\ UNCHANGED env

CtlHandling == controller.pc \notin {"down", "idle"}

(* SQLite or Redis raises in the middle of the handler. *)
CtlFault ==
  /\ CtlHandling /\ controller.event # "dead"
  /\ faults < MaxFaults /\ faults' = faults + 1
  /\ CtlRecordDead
  /\ UNCHANGED <<operator, gui, resumes>>

(* ... and again in record_dead, before its commit or, in the publication  *)
(* or the acknowledgement, after it: the entry is left pending.            *)
CtlUnrecorded ==
  /\ CtlHandling
  /\ faults < MaxFaults /\ faults' = faults + 1
  /\ jobStatus' \in {jobStatus, "dead"}
  /\ controller' = Loop(controller)
  /\ UNCHANGED <<tasks, runs, redis, worker, operator, gui, resumes>>

Controller ==
  \/ \E i \in Takeable(controller, requests) : CtlTake(i)
  \/ CtlTokenWait \/ CtlTokenResume \/ CtlDecide
  \/ CtlCreateTask \/ CtlPublish \/ CtlHumanNeeded
  \/ CtlDone \/ CtlPromotionFailed \/ CtlRecoveryRequested
  \/ CtlAnnounce \/ CtlAck \/ CtlIdleExit \/ CtlReject

-----------------------------------------------------------------------------
(* The worker.                                                             *)

Task == activations.log[worker.msg]

SetTask(t, st) == [tasks EXCEPT ![t].status = st]

Startable_always(t)   == TRUE
Startable_notBusy(t)  == tasks[t].status \notin {"running", "waiting_tokens"}
Startable(t)          == tasks[t].status = "queued"

(* The entry is read and its task row with it: a task that is not queued   *)
(* is a duplicate delivery, acknowledged and ignored.                      *)
WkrTake(i) ==
  /\ i \in Takeable(worker, activations)
  /\ activations' = Take(activations, i)
  /\ worker' = Enter(worker, activations, i,
                     IF Startable(activations.log[i]) THEN "loaded" ELSE "ack")
  /\ UNCHANGED <<db, requests, published, controller, env>>

WkrStart ==
  /\ worker.pc = "loaded"
  /\ tasks' = SetTask(Task, "running")
  /\ jobStatus' = "implementing"
  /\ worker' = [worker EXCEPT !.pc = "running"]
  /\ UNCHANGED <<runs, redis, controller, env>>

WkrTokenWait ==
  /\ TokenLimits
  /\ worker.pc = "running"
  /\ tasks' = SetTask(Task, "waiting_tokens")
  /\ jobStatus' = "waiting_tokens"
  /\ worker' = [worker EXCEPT !.pc = "waiting"]
  /\ UNCHANGED <<runs, redis, controller, env>>

StatusAfterWait_default == "planning"
StatusAfterWait == "implementing"             \* resume_status=running_status

WkrTokenResume ==
  /\ worker.pc = "waiting"
  /\ tasks' = SetTask(Task, "running")
  /\ jobStatus' = StatusAfterWait
  /\ worker' = [worker EXCEPT !.pc = "running"]
  /\ UNCHANGED <<runs, redis, controller, env>>

(* The run ends: its row, the task and the job in one transaction.  With   *)
(* no worker binary or no sandbox the task ends human_needed.              *)
TasksAfterRun(outcome) == SetTask(Task, outcome)

AfterRun(outcome) ==
  IF outcome = "human_needed"
  THEN Announcing(worker, "human_needed")
  ELSE [worker EXCEPT !.pc = "ran"]

WkrFinish(outcome) ==
  /\ worker.pc = "running"
  /\ runs' = Append(runs, Task)
  /\ tasks' = TasksAfterRun(outcome)
  /\ jobStatus' = IF outcome = "human_needed" THEN "human_needed" ELSE "planning"
  /\ worker' = AfterRun(outcome)
  /\ UNCHANGED <<redis, controller, env>>

(* The REVIEW is a plain XADD: nothing deduplicates it. *)
RequestReview_dropped(t) == requests
RequestReview(t) == Xadd(requests, [type |-> "REVIEW", task |-> t])

WkrReview ==
  /\ worker.pc = "ran"
  /\ requests' = RequestReview(Task)
  /\ worker' = [worker EXCEPT !.pc = "ack"]
  /\ UNCHANGED <<db, activations, published, controller, env>>

WkrAnnounce ==
  /\ worker.pc = "announce"
  /\ worker' = [worker EXCEPT !.pc = "ack"]
  /\ UNCHANGED <<db, redis, controller, env>>

WkrAck ==
  /\ worker.pc = "ack"
  /\ activations' = Ack(activations, worker.msg)
  /\ worker' = AfterAck(worker)
  /\ UNCHANGED <<db, requests, published, controller, env>>

WkrIdleExit ==
  /\ IdleExit(worker, activations)
  /\ worker' = Down
  /\ UNCHANGED <<db, redis, controller, env>>

TasksAfterDeath == SetTask(Task, "dead")

WkrRecordDead ==
  /\ tasks' = TasksAfterDeath
  /\ jobStatus' = "dead"
  /\ worker' = Announcing(worker, "dead")
  /\ UNCHANGED <<runs, redis, controller>>

(* The prompt context cannot be loaded, or formal verification refuses the *)
(* task after its run is committed.                                        *)
WkrReject ==
  /\ worker.pc \in {"loaded", "ran"}
  /\ WkrRecordDead
  /\ UNCHANGED env

WkrHandling == worker.pc \notin {"down", "idle"}

WkrFault ==
  /\ WkrHandling /\ worker.event # "dead"
  /\ faults < MaxFaults /\ faults' = faults + 1
  /\ WkrRecordDead
  /\ UNCHANGED <<operator, gui, resumes>>

WkrUnrecorded ==
  /\ WkrHandling
  /\ faults < MaxFaults /\ faults' = faults + 1
  /\ \/ UNCHANGED <<jobStatus, tasks>>
     \/ jobStatus' = "dead" /\ tasks' = TasksAfterDeath
  /\ worker' = Loop(worker)
  /\ UNCHANGED <<runs, redis, controller, operator, gui, resumes>>

Worker ==
  \/ \E i \in Takeable(worker, activations) : WkrTake(i)
  \/ WkrStart \/ WkrTokenWait \/ WkrTokenResume
  \/ \E outcome \in {"completed", "human_needed"} : WkrFinish(outcome)
  \/ WkrReview \/ WkrAnnounce \/ WkrAck \/ WkrIdleExit \/ WkrReject

-----------------------------------------------------------------------------
(* The operator: a start or a resume is a list of steps left to do.        *)

Script_unplanned(kind) == <<"kill", "mark", "launch">>
Script(kind) ==
  IF kind = "cli" THEN <<"mark", "kill", "launch", "plan">>   \* resume_job.py
                  ELSE <<"kill", "mark", "plan", "launch">>   \* LoopBackend.resume_job

Step(s) == operator # <<>> /\ Head(operator) = s /\ operator' = Tail(operator)

BeginResume(kind) ==
  /\ operator = <<>> /\ resumes < MaxResumes
  /\ operator' = Script(kind)
  /\ resumes' = resumes + 1
  /\ UNCHANGED <<db, redis, procs, gui, faults>>

OpMark ==
  /\ Step("mark")
  /\ jobStatus' = "planning"
  /\ UNCHANGED <<tasks, runs, redis, procs, gui, resumes, faults>>

(* terminate_previous_job_processes, stop_processes *)
OpKill ==
  /\ Step("kill")
  /\ controller' = Down /\ worker' = Down
  /\ UNCHANGED <<db, redis, gui, resumes, faults>>

OpLaunch ==
  /\ Step("launch")
  /\ controller' = Launched /\ worker' = Launched
  /\ UNCHANGED <<db, redis, gui, resumes, faults>>

OpPlan ==
  /\ Step("plan")
  /\ requests' = Xadd(requests, [type |-> "PLAN", task |-> 0])
  /\ UNCHANGED <<db, activations, published, procs, gui, resumes, faults>>

(* Redis refuses, a launch raises, the program is interrupted. *)
OpAbort ==
  /\ operator # <<>>
  /\ faults < MaxFaults /\ faults' = faults + 1
  /\ operator' = <<>>
  /\ UNCHANGED <<db, redis, procs, gui, resumes>>

Operator == OpMark \/ OpKill \/ OpLaunch \/ OpPlan

(* The GUI's Stop, for an active job, and its Finish, for any. *)
StopJob ==
  /\ GuiStop /\ operator = <<>>
  /\ controller' = Down /\ worker' = Down
  /\ \/ jobStatus' = "human_needed"
     \/ jobStatus \in TerminalStatuses /\ jobStatus' = jobStatus
  /\ UNCHANGED <<tasks, runs, redis, env>>

-----------------------------------------------------------------------------
(* The GUI refresh, LoopBackend.list_jobs: the job rows are selected, then *)
(* the tasks of each, then a status that disagrees is overwritten.  Reads  *)
(* before the first write hold no lock in SQLite's deferred transactions.  *)

(* Of a job read in a terminal status nothing more is done. *)
GuiReadJob ==
  /\ GuiRefresh /\ gui.pc = "idle" /\ jobStatus \in ActiveStatuses
  /\ gui' = [pc |-> "job", status |-> jobStatus]
  /\ UNCHANGED <<db, redis, procs, operator, resumes, faults>>

Expected_queued(ts) == IF \E t \in DOMAIN ts : ts[t].status = "queued" THEN "queued" ELSE "none"
Expected(ts) == ActiveJobStatus(ts)

GuiReadTasks ==
  /\ gui.pc = "job"
  /\ LET expected == Expected(tasks)
     IN  gui' = IF expected \notin {"none", gui.status}
                THEN [pc |-> "write", status |-> expected]
                ELSE [pc |-> "idle", status |-> "planning"]
  /\ UNCHANGED <<db, redis, procs, operator, resumes, faults>>

GuiReconcile ==
  /\ gui.pc = "write"
  /\ jobStatus' = gui.status
  /\ gui' = [pc |-> "idle", status |-> "planning"]
  /\ UNCHANGED <<tasks, runs, redis, procs, operator, resumes, faults>>

Gui == GuiReadJob \/ GuiReadTasks \/ GuiReconcile

-----------------------------------------------------------------------------
(* A process is killed, or the machine goes down under it. *)

CtlCrash ==
  /\ controller.pc # "down"
  /\ faults < MaxFaults /\ faults' = faults + 1
  /\ controller' = Down
  /\ UNCHANGED <<db, redis, worker, operator, gui, resumes>>

WkrCrash ==
  /\ worker.pc # "down"
  /\ faults < MaxFaults /\ faults' = faults + 1
  /\ worker' = Down
  /\ UNCHANGED <<db, redis, controller, operator, gui, resumes>>

(* Nothing is left to do: the processes have gone and no operator acts. *)
Terminated ==
  /\ controller.pc = "down" /\ worker.pc = "down" /\ operator = <<>>
  /\ UNCHANGED vars

Next ==
  \/ Controller \/ Worker \/ Operator
  \/ \E kind \in ResumeKinds : BeginResume(kind)
  \/ StopJob \/ Gui
  \/ CtlFault \/ CtlUnrecorded \/ CtlCrash
  \/ WkrFault \/ WkrUnrecorded \/ WkrCrash \/ OpAbort
  \/ Terminated

(* Fairness: a running process runs on, a started resume is carried out,   *)
(* an open GUI keeps refreshing, and a provider whose quota is replenished *)
(* again and again eventually answers.                                     *)
Fairness ==
  /\ WF_vars(Controller) /\ SF_vars(CtlDecide)
  /\ WF_vars(Worker) /\ SF_vars(\E o \in {"completed", "human_needed"} : WkrFinish(o))
  /\ WF_vars(Operator) /\ WF_vars(Gui)

Spec     == Init /\ [][Next]_vars
FairSpec == Spec /\ Fairness

-----------------------------------------------------------------------------
(* What holds whatever crashes, is redelivered, fails or is resumed.       *)

TypeOK ==
  /\ jobStatus \in JobStatuses
  /\ tasks \in Seq(Tasks)
  /\ runs \in Seq(Nat)
  /\ requests \in Groups(Requests)
  /\ activations \in Groups(Nat)
  /\ published \subseteq DOMAIN tasks
  /\ controller \in Process(ControllerPCs)
  /\ worker \in Process(WorkerPCs)
  /\ operator \in Seq({"mark", "kill", "launch", "plan"})
  /\ gui \in [pc : {"idle", "job", "write"}, status : JobStatuses]
  /\ resumes \in 0 .. MaxResumes
  /\ faults \in 0 .. MaxFaults

(* Each position of the sequence holds another value. *)
Distinct(s) == \A i, j \in DOMAIN s : s[i] = s[j] => i = j

(* A task is executed to a run at most once, although its activation may   *)
(* be delivered any number of times.                                       *)
OneRunPerTask == Distinct(runs)

(* A finished task is sent to review at most once, although the REVIEW is  *)
(* a plain XADD and the worker may crash around it.                        *)
OneReviewPerTask ==
  \A i, j \in DOMAIN requests.log :
    /\ requests.log[i].type = "REVIEW"
    /\ requests.log[i] = requests.log[j]
    => i = j

HasRun(t)   == \E r \in DOMAIN runs : runs[r] = t
Reviewed(t) == \E i \in DOMAIN requests.log :
                 requests.log[i].type = "REVIEW" /\ requests.log[i].task = t

(* A task sent to review has a run, a task with a run has left the worker, *)
(* and a completed task has a run.                                         *)
RunsMatchTasks ==
  \A t \in DOMAIN tasks :
    /\ Reviewed(t) \/ tasks[t].status = "completed" => HasRun(t)
    /\ HasRun(t) => tasks[t].status \notin ActiveTaskStatuses

(* An acknowledged activation was taken up: no task is lost before it is   *)
(* started.                                                                *)
QueuedNeverSettled ==
  \A i \in Settled(activations) : tasks[activations.log[i]].status # "queued"

(* max_iterations bounds every task of the normal lineage, and              *)
(* PROMOTION_RECOVERY_MAX_TASKS the tasks of the recovery lineage, however  *)
(* often requests are redelivered and the job is resumed.                   *)
IterationLimit ==
  /\ \A t \in DOMAIN tasks : ~IsRecovery(t) => t <= MaxIterations
  /\ Cardinality(RecoveryTasks) <= RecoveryMaxTasks

(* A task goes from queued through the worker to an end and never back.    *)
Stage(st) == CASE st = "queued" -> 0
               [] st \in {"running", "waiting_tokens"} -> 1
               [] st \in {"completed", "human_needed"} -> 2
               [] st = "dead" -> 3

TaskMovesForward ==
  [][\A t \in DOMAIN tasks : Stage(tasks[t].status) <= Stage(tasks'[t].status)]_vars

-----------------------------------------------------------------------------
(* What holds of a job that nobody interrupts.                             *)

(* The status shown for a job with an active task is that task's.          *)
StatusMatchesTasks == ActiveTasks(tasks) # {} => jobStatus = ActiveJobStatus(tasks)

(* A job that is not terminal always has something on its way.             *)
NoSilentStall ==
  jobStatus \in ActiveStatuses =>
    operator # <<>> \/ Outstanding(requests) # {} \/ Outstanding(activations) # {}

(* The job reaches a terminal status and its processes leave.              *)
JobEnds ==
  <>[](jobStatus \in TerminalStatuses /\ controller.pc = "down" /\ worker.pc = "down")

-----------------------------------------------------------------------------
(* What a resume achieves.                                                 *)

(* After a GUI resume, and with no fault left to come, the job reaches a   *)
(* terminal status, whatever state a crash had left it in.                 *)
ResumeCompletes ==
  (operator = <<"launch">> /\ faults = MaxFaults) ~> (jobStatus \in TerminalStatuses)

(* An active job whose status is not the one its tasks call for. *)
Disagrees ==
  /\ jobStatus \in ActiveStatuses
  /\ ActiveJobStatus(tasks) \notin {"none", jobStatus}

(* A status that keeps disagreeing with the job's tasks is corrected by    *)
(* the GUI refresh, as long as the job is active.                          *)
RefreshReconciles == Disagrees ~> ~Disagrees

=============================================================================
