---------------------------- MODULE Verification ----------------------------
(***************************************************************************)
(* The verification of a formal job (verification_orchestrator.py with the *)
(* parts of controller.py and worker.py that use it).  After each run the  *)
(* worker executes the verification cases its task has selected, an        *)
(* attempt of several repetitions each, and keeps the correction counters  *)
(* of every case.  The controller answers a PLAN or a REVIEW under the     *)
(* rules these counters impose, up to the completion gate of a DONE.       *)
(* Controller, worker and the GUI's dashboard each refresh the cases'      *)
(* states from what the worktree realizes, reading and writing them in     *)
(* separate transactions.                                                  *)
(*                                                                         *)
(* Left out: manual cases, which are never executed and never block, and   *)
(* the retargeting of a job to a new version of its specification.         *)
(***************************************************************************)
EXTENDS Naturals, FiniteSets, Sequences

CONSTANTS
  N,                \* the automated cases are 1 .. N, in manifest order
  Blocking,         \* the blocking ones
  Required,         \* per mandatory or high-risk requirement: its cases
  MaxAttempts,      \* maximum_correction_attempts
  StagnationLimit,  \* stagnation_limit
  Repetitions,      \* repetitions_per_attempt
  MaxIterations,    \* the job's max_iterations
  Dashboard,        \* whether a GUI shows the job's verification
  MaxFaults         \* bound: deaths of controller and worker, and resumes

ASSUME VerificationAssumption ==
  /\ N \in Nat /\ Blocking \subseteq 1 .. N
  /\ Required \subseteq SUBSET (1 .. N)
  /\ MaxAttempts \in Nat \ {0} /\ StagnationLimit \in Nat \ {0}
  /\ Repetitions \in Nat \ {0}
  /\ MaxIterations \in Nat /\ MaxFaults \in Nat
  /\ Dashboard \in BOOLEAN

VARIABLES
  job,        \* "active", or how it has ended
  realized,   \* the cases whose infrastructure the worktree has
  row,        \* job_verification_states: the row of each case
  last,       \* verification_repetitions: the latest attempt of each case
  requests,   \* the controller's stream: what is not acknowledged yet
  tasks,      \* the worker's stream: the cases each task selects
  ctl,        \* where the controller is
  wkr,        \* where the worker is
  todo,       \* the cases the worker's task has still to verify
  done,       \* repetitions of the first of them that have been executed
  known,      \* the statuses each refresh under way has read
  seen,       \* the runtime summary the controller decides on
  runs, iterations, faults,   \* the counters
  escalated,  \* history: blocking cases that have been escalated
  accepted    \* history: the run whose review was DONE

counters == <<runs, iterations, faults>>
streams  == <<requests, tasks>>
work     == <<wkr, todo, done>>
history  == <<escalated, accepted>>
vars == <<job, realized, row, last, streams, ctl, work, known, seen, counters, history>>

Cases  == 1 .. N
Actors == {"controller", "worker", "dashboard"}

Statuses ==
  {"unrealized", "executable_but_failing", "passing", "stagnated", "escalated"}

Nothing == [c \in Cases |-> "unread"]

Plan      == [type |-> "PLAN", run |-> 0]
Review(r) == [type |-> "REVIEW", run |-> r]
Recovery  == [type |-> "PROMOTION_RECOVERY", run |-> 0]

(* A task, and whether it names any requirement or case of the manifest.   *)
Task(cases)  == [named |-> TRUE, cases |-> cases]
RecoveryTask == [named |-> FALSE, cases |-> {}]

(* A definition X_how is X with one plausible mistake in it: it is used     *)
(* nowhere, and a run that checks a property tells it from X.              *)

NoSummary ==
  [status |-> Nothing, fresh |-> {}, retry |-> {}, failed |-> {}]

Init ==
  /\ job = "active" /\ realized = {}
  /\ row = [c \in Cases |->
       [status |-> "unrealized", attempts |-> 0, failures |-> 0, stagnation |-> 0]]
  /\ last = [c \in Cases |-> [attempt |-> 0, count |-> 0, passed |-> TRUE, run |-> 0]]
  /\ requests = <<Plan>> /\ tasks = <<>>
  /\ ctl = "idle" /\ wkr = "idle" /\ todo = {} /\ done = 0
  /\ known = [a \in Actors |-> Nothing]
  /\ seen = NoSummary
  /\ runs = 0 /\ iterations = 0 /\ faults = 0
  /\ escalated = {} /\ accepted = 0

First(S) == CHOOSE c \in S : \A d \in S : c <= d

-----------------------------------------------------------------------------
(* load_prompt_context: the statuses are read, the worktree is inspected,  *)
(* and the statuses are written.                                           *)

Refreshed(status, isRealized) ==   \* transition_realization_state
  IF ~isRealized THEN "unrealized"
  ELSE IF status \in {"passing", "stagnated", "escalated"} THEN status
  ELSE "executable_but_failing"

Read(actor) ==
  known' = [known EXCEPT ![actor] = [c \in Cases |-> row[c].status]]

Persist(actor) ==
  /\ row' = [c \in Cases |->
       [row[c] EXCEPT !.status = Refreshed(known[actor][c], c \in realized)]]
  /\ known' = [known EXCEPT ![actor] = Nothing]

DashboardReads ==
  /\ Dashboard /\ known["dashboard"] = Nothing
  /\ Read("dashboard")
  /\ UNCHANGED <<job, realized, row, last, streams, ctl, work, seen, counters, history>>

DashboardPersists ==
  /\ known["dashboard"] # Nothing
  /\ Persist("dashboard")
  /\ UNCHANGED <<job, realized, last, streams, ctl, work, seen, counters, history>>

-----------------------------------------------------------------------------
(* build_runtime_verification_summary, for the run under review            *)

Complete_count(c) == last[c].count = Repetitions
Complete(c) == last[c].count = Repetitions /\ last[c].passed

Fresh(c, run) ==
  row[c].status = "passing" /\ Complete(c) /\ last[c].run = run /\ run > 0

(* A case that may be tried again: a budget is reported once there is a    *)
(* first completed attempt.                                                *)
Retry ==
  {c \in Blocking : /\ row[c].status = "executable_but_failing"
                    /\ row[c].attempts > 0 /\ last[c].attempt < MaxAttempts}

Summary(run) ==
  [status |-> [c \in Cases |-> row[c].status],
   fresh  |-> {c \in Cases : Fresh(c, run)},
   retry  |-> Retry,
   failed |-> {c \in Cases : ~last[c].passed}]

With(status) == {c \in Cases : seen.status[c] = status}

(* build_focused_repair_context *)
Focus == seen.retry \cap seen.failed

(* evaluate_completion_gate *)
Ready ==
  /\ Blocking \subseteq seen.fresh
  /\ \A cover \in Required : cover \cap seen.fresh # {}

(* The validators, one after the other: realization, correction, completion. *)

ValidTask(ids) ==
  /\ seen.retry = {} /\ With("unrealized") # {} => ids \cap With("unrealized") # {}
  /\ Focus # {} => ids = {First(Focus)}
  /\ With("escalated") \cap Blocking = {}

ValidDone ==
  /\ seen.retry = {} => With("unrealized") = {}
  /\ Focus = {}
  /\ Ready

ValidHuman == Focus = {}

-----------------------------------------------------------------------------
(* The controller.                                                         *)

Request == Head(requests)

CtlTake ==
  /\ job = "active" /\ ctl = "idle" /\ requests # <<>>
  /\ ctl' = "persist"
  /\ Read("controller")
  /\ UNCHANGED <<job, realized, row, last, streams, work, seen, counters, history>>

CtlPersist ==
  /\ ctl = "persist" /\ ctl' = "summarize"
  /\ Persist("controller")
  /\ UNCHANGED <<job, realized, last, streams, work, seen, counters, history>>

CtlSummarize ==
  /\ ctl = "summarize" /\ ctl' = "decide"
  /\ seen' = Summary(Request.run)
  /\ UNCHANGED <<job, realized, row, last, streams, work, known, counters, history>>

(* CONTINUE or REPAIR, with verification_ids and the cases linked to its    *)
(* requirement_ids.                                                        *)
CtlTask(ids, linked) ==
  /\ ctl = "decide" /\ Request.type # "PROMOTION_RECOVERY"
  /\ ValidTask(ids)
  /\ iterations < MaxIterations /\ iterations' = iterations + 1
  /\ tasks' = Append(tasks, Task(ids \cup linked))
  /\ ctl' = "ack" /\ seen' = NoSummary
  /\ UNCHANGED <<job, realized, row, last, requests, work, known, runs, faults,
                 history>>

(* The answer to a recovery request names nothing of the manifest, since    *)
(* it is validated as that of a job without one.                           *)
CtlRecover ==
  /\ ctl = "decide" /\ Request.type = "PROMOTION_RECOVERY"
  /\ iterations' = iterations + 1
  /\ tasks' = Append(tasks, RecoveryTask)
  /\ ctl' = "ack" /\ seen' = NoSummary
  /\ UNCHANGED <<job, realized, row, last, requests, work, known, runs, faults,
                 history>>

Decided(end) ==
  /\ job' = end /\ ctl' = "ack" /\ seen' = NoSummary
  /\ UNCHANGED <<realized, row, last, work, known, counters, escalated>>

CtlDone ==
  /\ ctl = "decide" /\ Request.type # "PROMOTION_RECOVERY" /\ ValidDone
  /\ accepted' = Request.run
  /\ Decided("done") /\ UNCHANGED streams

(* The same decision, but the promotion fails. *)
CtlPromotionFails ==
  /\ ctl = "decide" /\ Request.type # "PROMOTION_RECOVERY" /\ ValidDone
  /\ requests' = Append(requests, Recovery)
  /\ Decided("active") /\ UNCHANGED <<tasks, accepted>>

(* HUMAN_NEEDED, or a task the limit forbids. *)
CtlHuman ==
  /\ ctl = "decide"
  /\ \/ Request.type = "PROMOTION_RECOVERY" \/ ValidHuman
     \/ iterations >= MaxIterations /\ \E ids \in SUBSET Cases : ValidTask(ids)
  /\ Decided("human_needed") /\ UNCHANGED <<streams, accepted>>

(* No provider offers a valid decision. *)
CtlFails ==
  /\ ctl = "decide"
  /\ Decided("dead") /\ UNCHANGED <<streams, accepted>>

CtlAck ==
  /\ ctl = "ack" /\ ctl' = "idle"
  /\ requests' = Tail(requests)
  /\ UNCHANGED <<job, realized, row, last, tasks, work, known, seen, counters, history>>

(* It is started again, and its request is delivered again. *)
CtlDies ==
  /\ ctl # "idle" /\ faults < MaxFaults /\ faults' = faults + 1
  /\ ctl' = "idle" /\ seen' = NoSummary
  /\ known' = [known EXCEPT !["controller"] = Nothing]
  /\ UNCHANGED <<job, realized, row, last, streams, work, runs, iterations, history>>

Controller ==
  \/ CtlTake \/ CtlPersist \/ CtlSummarize
  \/ \E ids, linked \in SUBSET Cases : CtlTask(ids, linked)
  \/ CtlRecover \/ CtlDone \/ CtlPromotionFails \/ CtlHuman \/ CtlFails
  \/ CtlAck \/ CtlDies

-----------------------------------------------------------------------------
(* The worker.                                                             *)

WkrTake ==
  /\ job = "active" /\ wkr = "idle" /\ tasks # <<>>
  /\ wkr' = "persist"
  /\ Read("worker")
  /\ UNCHANGED <<job, realized, row, last, streams, ctl, todo, done, seen, counters, history>>

WkrPersist ==
  /\ wkr = "persist" /\ wkr' = "run"
  /\ Persist("worker")
  /\ UNCHANGED <<job, realized, last, streams, ctl, todo, done, seen, counters, history>>

(* The agent works in the worktree. *)
WkrEdit(result) ==
  /\ wkr = "run" /\ realized' = result /\ result # realized
  /\ UNCHANGED <<job, row, last, streams, ctl, work, known, seen, counters, history>>

(* The run is committed; its task selects the cases to be executed. *)
WkrRun ==
  /\ wkr = "run" /\ Head(tasks).named
  /\ wkr' = "verify" /\ todo' = Head(tasks).cases /\ done' = 0
  /\ runs' = runs + 1
  /\ UNCHANGED <<job, realized, row, last, streams, ctl, known, seen, iterations, faults,
                 history>>

(* The worker is done with its task: it has sent the REVIEW, or given up.  *)
Finish ==
  /\ wkr' = "idle" /\ todo' = {} /\ done' = 0
  /\ tasks' = Tail(tasks)
  /\ UNCHANGED <<realized, row, last, ctl, known, seen, iterations, faults, history>>

(* The agent cannot run the task. *)
WkrHuman ==
  /\ wkr = "run"
  /\ job' = "human_needed" /\ runs' = runs + 1
  /\ Finish /\ UNCHANGED requests

(* select_task_verification_cases rejects a task that names nothing. *)
WkrUnnamed ==
  /\ wkr = "run" /\ ~Head(tasks).named
  /\ job' = "dead" /\ runs' = runs + 1
  /\ Finish /\ UNCHANGED requests

Exhausted_late(c) ==
  /\ c \in Blocking
  /\ \/ row[c].status = "escalated"
     \/ last[c].attempt > MaxAttempts
     \/ row[c].stagnation >= StagnationLimit
Exhausted_status(c) == c \in Blocking /\ row[c].status = "escalated"
Exhausted(c) ==
  /\ c \in Blocking
  /\ \/ row[c].status = "escalated"
     \/ last[c].attempt + 1 > MaxAttempts
     \/ row[c].stagnation >= StagnationLimit

WkrRefused ==
  /\ wkr = "verify" /\ todo # {} /\ Exhausted(First(todo))
  /\ job' = "dead"
  /\ Finish /\ UNCHANGED <<requests, runs>>

WkrBegin ==
  /\ wkr = "verify" /\ todo # {} /\ ~Exhausted(First(todo))
  /\ wkr' = "repeat" /\ done' = 0
  /\ UNCHANGED <<job, realized, row, last, streams, ctl, todo, known, seen, counters, history>>

(* A repetition is executed and stored.  The first one makes the attempt's *)
(* number the latest.                                                      *)
WkrRepeat(passes) ==
  /\ wkr = "repeat" /\ done < Repetitions /\ done' = done + 1
  /\ LET c == First(todo)
         l == last[c]
     IN  last' = [last EXCEPT ![c] =
           IF done = 0
           THEN [attempt |-> l.attempt + 1, count |-> 1, passed |-> passes, run |-> runs]
           ELSE [l EXCEPT !.count = l.count + 1, !.passed = l.passed /\ passes]]
  /\ UNCHANGED <<job, realized, row, streams, ctl, wkr, todo, known, seen, counters, history>>

(* _persist_correction_result: the counters after a failed attempt whose   *)
(* failure is "other" than the one before, the same with metrics that are  *)
(* "improving", or the "same".  (The number of the series, which is zero   *)
(* exactly when there are no failures, is left out.)                       *)
Failed(c, how) ==
  LET r == row[c]
      count == IF r.failures = 0 \/ how # "same" THEN 0 ELSE r.stagnation + 1
      exhausted == last[c].attempt >= MaxAttempts \/ count >= StagnationLimit
  IN  [status |-> IF ~exhausted THEN "executable_but_failing"
                  ELSE IF c \in Blocking THEN "escalated" ELSE "stagnated",
       attempts |-> last[c].attempt,
       failures |-> r.failures + 1,
       stagnation |-> count]

Passed(c) ==
  [status |-> "passing", attempts |-> last[c].attempt, failures |-> 0,
   stagnation |-> 0]

Correct(c, new) ==
  /\ row' = [row EXCEPT ![c] = new]
  /\ escalated' = escalated \cup {d \in {c} : new.status = "escalated"}
  /\ wkr' = "verify" /\ todo' = todo \ {c} /\ done' = 0
  /\ UNCHANGED <<job, realized, last, streams, ctl, known, seen, counters, accepted>>

WkrPasses ==
  /\ wkr = "repeat" /\ done = Repetitions /\ last[First(todo)].passed
  /\ Correct(First(todo), Passed(First(todo)))

WkrFails(how) ==
  /\ wkr = "repeat" /\ done = Repetitions /\ ~last[First(todo)].passed
  /\ Correct(First(todo), Failed(First(todo), how))

WkrReview ==
  /\ wkr = "verify" /\ todo = {}
  /\ requests' = Append(requests, Review(runs))
  /\ Finish /\ UNCHANGED <<job, runs>>

(* It is started again; the task, which is not queued any more, is ignored. *)
WkrDies ==
  /\ wkr \in {"run", "verify", "repeat"}
  /\ faults < MaxFaults /\ faults' = faults + 1
  /\ wkr' = "idle" /\ todo' = {} /\ done' = 0
  /\ tasks' = Tail(tasks)
  /\ UNCHANGED <<job, realized, row, last, requests, ctl, known, seen, runs, iterations,
                 history>>

Worker ==
  \/ WkrTake \/ WkrPersist \/ \E result \in SUBSET Cases : WkrEdit(result)
  \/ WkrRun \/ WkrHuman \/ WkrUnnamed \/ WkrRefused \/ WkrBegin
  \/ \E passes \in BOOLEAN : WkrRepeat(passes)
  \/ WkrPasses \/ \E how \in {"other", "improving", "same"} : WkrFails(how)
  \/ WkrReview \/ WkrDies

-----------------------------------------------------------------------------
(* The operator resumes a job that has ended or that stands still: both     *)
(* processes are replaced, and a PLAN is sent.                             *)
Resume ==
  /\ \/ job \in {"dead", "human_needed"}
     \/ job = "active" /\ ctl = "idle" /\ wkr = "idle" /\ requests = <<>> /\ tasks = <<>>
  /\ faults < MaxFaults /\ faults' = faults + 1
  /\ job' = "active"
  /\ requests' = Append(requests, Plan)
  /\ tasks' = IF wkr \in {"idle", "persist"} THEN tasks ELSE Tail(tasks)
  /\ ctl' = "idle" /\ wkr' = "idle" /\ todo' = {} /\ done' = 0 /\ seen' = NoSummary
  /\ known' = [known EXCEPT !["controller"] = Nothing, !["worker"] = Nothing]
  /\ UNCHANGED <<realized, row, last, runs, iterations, history>>

(* The job has ended, or waits for a resume the bound forbids. *)
Terminated ==
  /\ ctl = "idle" /\ wkr = "idle"
  /\ job # "active" \/ (requests = <<>> /\ tasks = <<>>)
  /\ UNCHANGED vars

Next ==
  \/ Controller \/ Worker \/ DashboardReads \/ DashboardPersists \/ Resume
  \/ Terminated

Spec == Init /\ [][Next]_vars

(* Bound of a run: three tasks without a fault, or two with one. *)
Bounded == iterations + faults <= 3

-----------------------------------------------------------------------------
Rows ==
  [status : Statuses, attempts : Nat, failures : Nat, stagnation : Nat]
Attempts == [attempt : Nat, count : 0 .. Repetitions, passed : BOOLEAN, run : Nat]
Requests == [type : {"PLAN", "REVIEW", "PROMOTION_RECOVERY"}, run : Nat]
Tasks    == [named : BOOLEAN, cases : SUBSET Cases]
Readings == [Cases -> Statuses \cup {"unread"}]
Summaries ==
  [status : Readings, fresh : SUBSET Cases, retry : SUBSET Cases, failed : SUBSET Cases]

TypeOK ==
  /\ job \in {"active", "done", "human_needed", "dead"}
  /\ realized \subseteq Cases
  /\ row \in [Cases -> Rows]
  /\ last \in [Cases -> Attempts]
  /\ requests \in Seq(Requests)
  /\ tasks \in Seq(Tasks)
  /\ ctl \in {"idle", "persist", "summarize", "decide", "ack"}
  /\ wkr \in {"idle", "persist", "run", "verify", "repeat"}
  /\ todo \subseteq Cases /\ done \in 0 .. Repetitions
  /\ known \in [Actors -> Readings]
  /\ seen \in Summaries
  /\ runs \in Nat /\ iterations \in Nat
  /\ faults \in 0 .. MaxFaults
  /\ escalated \subseteq Blocking /\ accepted \in 0 .. runs

(* The bounds of the correction policy (IMPLEMENTATION_STATUS.md:308) hold *)
(* whatever is lost or overwritten: a blocking case is attempted at most   *)
(* MaxAttempts times, attempts that a crash cut short included, and its    *)
(* stagnation never passes its limit.                                      *)
BudgetKept ==
  \A c \in Blocking :
    /\ last[c].attempt <= MaxAttempts
    /\ row[c].stagnation <= StagnationLimit
    /\ row[c].attempts <= last[c].attempt
    /\ row[c].stagnation <= row[c].failures

(* An escalated case is never executed again, even when a refresh that had *)
(* read its status before has taken "escalated" back, or its               *)
(* infrastructure was removed and came back.                               *)
EscalatedNeverRuns ==
  [][\A c \in escalated : last'[c] = last[c]]_vars

(* A pass of the case by this run, unless a later run has tried it since.  *)
VerifiedBy(c, run) ==
  \/ last[c].run > run
  \/ last[c].run = run /\ last[c].count = Repetitions /\ last[c].passed

(* A job is done only if the run whose review said so has passed every      *)
(* repetition of the latest attempt of every blocking case, and of a case  *)
(* of every mandatory or high-risk requirement: no older pass, partial     *)
(* attempt or overwritten status passes the gate.                          *)
DoneIsVerified ==
  job = "done" =>
    /\ \A c \in Blocking : VerifiedBy(c, accepted)
    /\ \A cover \in Required : \E c \in cover : VerifiedBy(c, accepted)

=============================================================================
