# TLA+ models of AI-Loop and ICODA

This directory holds TLA+ specifications of the programs in this repository, the
TLC configurations that check them and theorems about them that TLAPS has
checked. Line numbers refer to the sources as they are in this commit; paths
without a directory are below `ai-loop/` or `ai-loop/ai_loop/`.

- [What the repository contains](#what-the-repository-contains)
- [The modules](#the-modules)
- [The runs](#the-runs)
- [What is proved](#what-is-proved)
- [Where program and documents disagree](#where-program-and-documents-disagree)
- [Not modelled, and why](#not-modelled-and-why)
- [Plan](#plan)

## What the repository contains

Two independent applications, and a program that renders slides (`video/`).

### AI-Loop

AI-Loop (`ai-loop/`) runs one *job* unattended: a goal, constraints and a
repository, handed from one language model that decides (the controller's) to
another that works (the worker's) until the first says DONE, asks for its human,
or a limit is reached. A *formal* job is pinned to an approved version of a
specification and carries a manifest of verification cases.

| Component | State | Operations | What makes it correct |
|---|---|---|---|
| **Streams** `queues.py` | log, consumer groups and pending lists in Redis; the publication-ids hash | add, add once, read, reclaim, acknowledge | nothing delivered is lost before it is taken up |
| **Controller** `controller.py` | none of its own: one request at a time from its group; jobs, tasks, events in SQLite | answer a PLAN, REVIEW or PROMOTION_RECOVERY request: make a task, promote, ask the human; wait for tokens | limits on tasks hold whatever is redelivered; terminal statuses are final; every live job has something on its way |
| **Worker** `worker.py` | none of its own: one activation at a time; runs in SQLite, the job's git worktree | run a task, wait for tokens, verify, send it to review | a task is executed and reviewed once |
| **Job status** `job_status.py` | - | derive a job's status from its tasks | the status shown is that of the work under way |
| **Start and resume** `start_job.py`, `resume_job.py` | pid files | mark, kill, launch, plan; each may be interrupted | a resume revives a job from whatever state it was left in |
| **GUI** `ai_loop_gui.py` | what it has read | refresh (which writes statuses), resume, stop, finish | a refresh does not invent statuses |
| **Watcher** `watcher.py`, `email_commands.py` | stream cursors; waiting flag; replies fetched | read events, poll the mailbox, apply a reply, resume the job, leave | one watcher remains to hear replies; a reply is applied once |
| **Promotion** `controller.py:1487-2060` | paths copied and skipped so far | scan, compare, copy, validate, roll back | no edit of the operator's is lost; a failure leaves nothing behind |
| **Verification** `verification_orchestrator.py` | a row per case; repetitions; correction attempts | refresh what is realized, execute cases, count failures, escalate, summarize, gate | budgets hold; DONE means verified by the run under review |
| **Specifications** `specifications.py`, `specification_workflow.py`, `specification_compiler.py`, `elicitation.py` | versions, drafts, reviews, manifests and their revisions | edit, review, approve, compile, attach, retarget | an approved version never changes; stale drafts are refused |
| **Store** `db.py` | jobs, tasks, runs, events, verification tables | single-purpose transactions | each of the above |
| Analysis, editors, prompts, notifications, sandbox, recovery | - | - | see [Not modelled](#not-modelled-and-why) |

How they interact. SQLite is shared by all processes; every function opens short
transactions, and between two of them anything may happen. In the default
deferred mode a transaction that reads before it writes holds no lock while it
reads. Controller and worker wake each other only through two Redis streams:
the controller commits a task and then publishes its activation; the worker
commits a run and then adds a REVIEW. A handler that returns is acknowledged; a
handler that raises has its job recorded as dead and is then acknowledged; one
that dies leaves its entry pending, and the next process of that name reclaims
it. Terminal statuses are committed first and then published as events, which
only the watcher reads. The operator may start, stop, finish and resume a job
at any time, edit the checkout, answer by mail, or have the GUI open, which
derives statuses of its own and refreshes the verification dashboard.

Hard behaviours, in the order of their weight: crashes between a transaction and
the stream command that belongs to it; redelivery; resumes begun while the old
processes are in the middle of something; statuses written from stale reads by
four programs; two processes taking turns for one mailbox and one pid file; a
multi-file copy into a checkout someone else uses; counters of several
transactions that together grant or deny another attempt; validators that each
restrict a decision from another part of the same summary; an answer that must
come although the quota of tokens runs out again and again.

### ICODA

ICODA (`icoda/`) is an interactive tool that takes a C++ or Python project
through specification, architecture and implementation. A step asks a provider
for a proposal, builds and tests it in an isolated git worktree, and either
promotes it as a commit or drops it.

| Component | State | Operations | What makes it correct |
|---|---|---|---|
| **Step engine** `icoda_core/steps.py`, `steplog.py`, `git.py` | phase, step number, pending proposal or approach, step log, project tree | prepare, propose, approve, reject, undo, commit manual edits | approval and undo are all-or-nothing; log, model and commits agree |
| **Proposal recovery** `recovery.py` | journal of a proposal under way | write, restore, discard | a journal is restored only onto the state it was made for |
| **Implementation queue** `implementation_queue.py`, `grouping.py`, `auto_approve.py` | order, cursor, scope, batch | advance, reorder, batch | each function is offered once, dependencies first |
| **Store and session** `persistence.py`, `session.py` | `.icoda/` files | atomic saves, reopening | a crash leaves the old or the new file |
| **Service** `service.py` | queue of operations, workflow thread, pending flag | dispatch, cancel, supersede, review, decide | an obsolete answer changes nothing; cancellation is answered once |
| **VS Code client** `vscode/src/` | selected project, revision, requests under way | request, cancel, restart | answers are shown only for what is selected |
| **Desktop application** `icoda.py`, `icoda_gui/step_controller.py`, `troubleshooting.py`, `tasks.py` | the project shown, the busy panel, the proposal shown, recoveries, analyses in flight | open, reload, start a step, show its result, recover, converse, save | nobody releases a panel another one holds; a proposal is promoted into the project it was made for; nothing begun is forgotten |
| Source analysis, generation, views, processes | derived data | - | see [Not modelled](#not-modelled-and-why) |

## The modules

| Module | Models | Used by |
|---|---|---|
| `ConsumerGroup` | a stream as one consumer group sees it (`queues.py`) | `JobLoop` |
| `JobStatus` | status vocabulary and derivation (`job_status.py`) | `JobLoop` |
| `JobLoop` | controller, worker, start, resume, stop, GUI refresh of one job | `JobLoopProofs` |
| `Watcher` | watchers, the mailbox, resumes that replace watchers | `OperatorProofs` |
| `Promotion` | promotion, validation, rollback against an editing operator | `OperatorProofs` |
| `Verification` | cases, attempts, escalation, validators, completion gate | `VerificationProofs` |
| `Specification` | versions of a specification, their artifacts, reviews and approvals, several editors | `SpecificationProofs` |
| `Retarget` | attachment of a job to an approved version, its manifest, retargeting while the job works | `RetargetProofs` |
| `Steps` | ICODA's step engine under its service: worktree, review, approval, undo, journal | `StepsProofs` |
| `ProjectHistory` | what a project's history promises its developer | `Steps`, which implements it |
| `Service` | ICODA's JSON-lines service: reader, worker, cancellation, revisions, the model's cache | `Extension` |
| `Extension` | the VS Code extension over channels that delay, composed with `Service` | `ExtensionProofs` |
| `Workflow` | the service's workflow thread, reviews, recoveries and the extension's automatic queue | `IcodaProofs` |
| `Desktop` | ICODA's desktop window: one Tk thread and the threads whose results it shows | `IcodaProofs` |

Conventions. A definition `X_how` is `X` with one plausible mistake in it; it is
used nowhere and documents what the property next to it is able to detect. Bounds
of the exploration are constants marked `bound:`; everything else in CONSTANTS is
a parameter of the program. History variables, marked `history:`, are read by no
action. What a language model answers, what a worker writes, whether tests pass
and when tokens are back is an arbitrary choice.

### JobLoop

Each SQLite transaction, each Redis command and each launch or kill is one step.
`tasks` and `runs` are the rows in order of insertion; `requests` and
`activations` the two streams as the job's groups see them; `published` the hash
that makes publication idempotent (`queues.py:83-187`). A process is a record: the
point of its main loop (`pc`), the entry it handles (`msg`), whether it is still
reclaiming what it found pending when it started (`boot`). The controller goes

    idle - deciding - decided - publish - ack        a task is made and published
           |  |                \- announce - ack     done, human_needed
           |  \- waiting (tokens)                    asks again
           \-- recover                               a failed promotion asks for repair

and the worker `idle - loaded - running (- waiting) - ran - ack`. Any of their
steps may raise (`CtlFault`, `WkrFault`: `record_dead`), the recording may itself
raise (`CtlUnrecorded`, `WkrUnrecorded`), and the process may die (`CtlCrash`,
`WkrCrash`). `operator` is the list of steps left of a start or a resume, in the
order the CLI (mark, kill, launch, plan) and the GUI (kill, mark, plan, launch)
perform them; it may be cut off (`OpAbort`). `gui` holds what a refresh has read:
job row, then tasks, then a write.

### Watcher

Every watcher ever launched is a record in `watchers`; `pidFile` names the one
`resume_job.py` will kill. `cursor` is 0 for `$`; `from` is what the XREAD under
way has resolved it to, so an event published in between is visible to the next
read or lost as in the program. The mailbox is never emptied: a poll notes the replies
handled so far (`seen`), then fetches the others as a batch (`todo`, a set: their order
is any) that the watcher works through. A reply's way (`Fetch`, `ReadJob`, `Constrain`,
`Resume`, ...) follows `apply_email_command` through its transactions, and its
resume is a script like the operator's, begun by the watcher as its child and
therefore never killing it. Controller and worker are reduced to what a watcher
sees: a status, and events that follow it. The history variable `clash` marks
runs in which two resumes overlap, or one is decided on a status that has changed
since; nothing is promised of them.

### Promotion

Paths are `1 .. N` in git's order and a path's content is one of HEAD's, a
version, the operator's, nothing, or half of a copy. The loops of
`promote_successful_worktree` visit one path a step: local changes are asked for
all paths first (`Scan`), then compared with the worktree (`Compare`), then
copied (`BeginWrite`, `FinishWrite`, `Remove`). Both rollbacks are modelled, with
the paths each considers, and each file operation may fail. The operator edits
and commits in between. `raced` marks an edit that falls between a path's check
and its write, which the program has no means to notice; `broken` marks
promotions that died or whose file operations failed part-way, after which a
half-written path may remain (a comment, `controller.py:1621`, defers full
atomicity). Abstracted: the index equals HEAD (`git add` by the operator is
left out), a rename is two paths, directories are paths.

### Verification

One formal job with automated cases `1 .. N`. `row` is
`job_verification_states`; `last` the latest attempt of each case in
`verification_repetitions`, with how many repetitions it has, whether all passed
and the run it belongs to. Controller, worker and dashboard all refresh: `Read`
takes the statuses, the worktree is inspected, `Persist` writes the new status of
every row, so what is stored in between is overwritten as in
`check_manifest_realization` and `persist_realization_checks`. The worker's
`WkrBegin`, `WkrRepeat`, `WkrPasses` and `WkrFails` are `run_task_verification`,
each repetition a transaction of its own. `Summary` is what
`build_runtime_verification_summary` gives the controller; `ValidTask`,
`ValidDone` and `ValidHuman` are the conjunction of its validators for each kind
of decision; `Ready` is `evaluate_completion_gate`. Left out: manual cases (never
executed, never blocking), retargeting to a new version of the specification, the
number of a stagnation series (zero exactly when there are no failures). Races of
a job that has ended are left to `JobLoop`.

### Specification

One specification. `row` is its row in `specifications`, `versions` its rows in
`specification_versions` (with who made each), `files` the artifacts `v<n>.json`,
`choices` the unresolved blocking rows of `specification_decisions`. A document is one
that passes the approval checks or one that does not. An editor (`specification_gui.py`)
is what its window shows and the text in it (`editor`), and the operation its background
thread runs (`op`): the operation, the point it has reached, the version it works on.
The operations follow `specifications.py`, `specification_workflow.py` and
`elicitation.py`: `db.transaction` brackets them, but sqlite3's legacy mode begins the
transaction with the first write, so what `revise`, `submit`, `return_to_draft`, `approve`
and `resolve` check is read in steps before the write, and another editor may write in
between. A version's artifact is created exclusively before its row is inserted and
unlinked if that fails; an editor may be killed in between (`lost`). `submitted` is history.

### Retarget

One job and the approved versions of its specification, each known by the contracts of
its cases. `job.pin`, `base` and `revisions` are what the rows of jobs, manifests and
manifest revisions name, `files` the artifacts, `state` and `rep` the cases' rows and last
repetitions. Two programs (`Clients`) attach and retarget, each divided at its
queries, its artifacts and its commit; one may be killed between artifact and commit.
Worker and controller read the manifest and the statuses when they load a task, begin
verification or review, and write statuses back later. `raced` is history: a retarget has
come between such a look at the manifest and its last use, which nothing compares
again; `PassingIsCurrent` and `DoneIsVerified` hold outside these windows, and the
[disagreements](#where-program-and-documents-disagree) say what happens in them.
`JobLoop` treats `db.transaction` as atomic, because the rows of its transactions are
written by processes that take turns, or by single statements; `Specification` and
`Retarget` do not.

### Steps and ProjectHistory

Paths here are below `icoda/icoda_core/`. A file's content is a version number and a
file stands for the functions in it. `commits` is the git history with the tree of
each commit; `code`, `log`, `state` and `index` are the project as it lies on disk;
`worktree` and `journal` what a proposal leaves there, `job` and `reviewed` what the
service keeps in memory and a crash forgets. The operations of the service are
started by actions named after them, with the guards of `review_request`,
`decide_proposal`, `start_workflow` and `recovery_request`: `Free` (no workflow is
running), `Waiting` (a proposal is retained), `Clean` (sources are as in HEAD),
`Seen` (the evidence is what the developer was shown), `Checked` (the candidate is
what passed the gates), `Based` (HEAD has not moved). What such an operation writes is
a list, `op.todo`, which `Writing` takes step by step and in the order of the code:

    approve    promote gates log [state] stage commit clear finish
    approach   state log clear finish
    reject     log clear finish
    undo       checkout revert append log stage commit finish
    manual     log stage commit finish
    phase      state log queue

Before each of them the write may fail, and `ApproveFails`, `DecisionFails` and
`OtherFails` are what the three kinds of error paths take back; or the service may
die, and `Resume` and `Discard` are what the developer can do about a proposal that
has lost its job. The developer edits and commits in project and worktree whenever
ICODA writes nothing (`Edit`, `EditWorktree`, `CommitByHand`).

`ProjectHistory` is the promise: the steps in effect only grow by approvals and
manual commits under new numbers (and by commits made without ICODA), and an undo
takes the last approved step away. `Steps` implements it under the history variable
`effect`, the commits in effect: a commit extends it, the commit of an undo takes the
last one away; `IsHistory` is that specification.

Abstracted: a reply that cannot be read counts as one that fails its gates, and of
up to three attempts of a proposal the last counts; batches have one function; the
derived model is that of the present files; signature confirmation and quality rules
are part of `job.ok`; an undo starts with nothing left in the index. The retained
worktree of a version without journal, which `recovery.py` also resumes, cannot arise.

### Service and Extension

`Service` has the reader, which signals cancellation and supersession before it queues a
request, and the worker, which handles one request at a time: `queue`, `worker`, `ops`
(the cancellation events), the identity `project` (session, revision, target) with the
model it holds, and `cache`, that model on disk. A model is known by the version of the
sources it was derived from. `Extension` extends it by the client: `ctx` (the identity
it shows), `pend` (requests with the ticket captured for each), `shown` (the model and
its state), `unreported` (a save within the one-second debounce), `refresh` (an
automatic analysis is due). Answers travel in `toClient`; the developer may open, select,
save, abort, restart at any time, and the backend may die. `known` is history: it
records that one of the losses of a save listed under
[disagreements](#where-program-and-documents-disagree) has happened, and `FreshIsCurrent`
excepts them.

### Workflow

The threads beside the service's worker: `job`, a round of the AI (in the queue, for
purpose comments, a revision, or a recovered proposal), and `talk`, a conversation or a
rephrasing. `disk` is what outlives the service (the retained proposal with its journal,
settings, manual edits, the queue's length), `pending` the session's flag, `reviewed` the
evidence token, `cont` the service's continuation and its budget, `client` the extension's
loop and review. A round is divided at what others can see: checkpoint, provider, the
candidate's publication, the end of its thread. A request is a step, except where it
waits for a thread (`joining`). The developer may edit, commit, revise, reopen, recover,
decide, cancel or change the settings between any two of them, and the service may die.

### Desktop

Paths here are below `icoda/`. Everything the Tk thread keeps is one record, `win`, and
each of its handlers an operator from windows to windows, because handlers call each other
within one callback: `Finished` is what `_start` hands to `run_async`, `HandleFailure`,
`SetProject` and `Reset` are `troubleshooting.py`'s, `Show`, `OpenProject`, `Reload` and
`SourceChanged` the window's. `jobs` are the threads of steps, recoveries and
conversations with what they have captured (the project, the proposal), `inbox` the
queue that `UiTasks.drain` empties; `analysing`, `results`, `pending` and `polls` are the
analyses with their own queue and poll loop; `timers` and `drains` are callbacks put off
by `after`. A recovery is forgotten by its generation (`stale`), a step never is. The menu
and Ctrl+Return start steps whether or not the panel is busy (`Enabled`). History:
`crossed` says that two activities have claimed the panel at once, `moved` that the
project was changed under a step, a proposal or a save, `stuck` that a rephrasing ended
without releasing the panel; the properties except these, and the
[disagreements](#where-program-and-documents-disagree) say what follows from them.

## The runs

| Run | Shows | Distinct states |
|---|---|---|
| `JobLoop_undisturbed` | the status is that of the tasks, no silent stall, no deadlock, both limits; the job ends | 7,750 |
| `JobLoop_disturbed` | with a fault anywhere, a CLI or GUI resume anywhere and Stop: one run and one review per task, none is lost before it starts | 2.4 million |
| `JobLoop_recovers` | a GUI resume brings the job to an end although refreshes write stale statuses; refreshes correct wrong ones | 540 thousand |
| `Watcher_replaced` | whoever replaces whom, one watcher is left, every reply is taken up and none is applied twice | 258 thousand |
| `Promotion_kept` | edits are kept, failures leave nothing, done means promoted | 1.3 million |
| `Verification_done` | budgets hold, escalated cases rest, done means verified | 3.0 million |
| `Specification_versions` | versions follow each other and keep their artifacts; what is approved has been reviewed | 2.9 million |
| `Retarget_pinned` | the pin is the manifest's; passing means passed under it; done means all of it passed in one run | 4.5 million |
| `Steps_history` | the commits are a history of steps, the log agrees with it, an approach is for the next function; with a write that fails or a crash anywhere, what is committed was checked and shown, and a failed approval takes everything back | 2.0 million |
| `Extension_agrees` | requests are answered once; extension and service agree on the model while they agree on the revision; nothing stale is shown as fresh; cache and model agree | 2.9 million |
| `Workflow_queue` | what waits can be decided, after a crash as well; automatic approval approves what its gates have seen; the queue's loop ends | 820 thousand |
| `Desktop_owned` | the panel is busy exactly while something holds it; the proposal shown is the project's; every analysis, failure and save is dealt with | 413 thousand |

### Bounds, and why they are enough

*JobLoop.* Undisturbed: three tasks and a recovery lineage of two reach both limits,
and a promotion that fails twice. Disturbed: two tasks, so that one is under
review while another can be made, one fault and one resume: the
properties concern one task and at most two handlers of the same entry, which one
death and one relaunch produce. Recovers: one task; liveness needs the states
after the last fault only. `CHECK_DEADLOCK FALSE` in all runs with faults: a job
whose process has died stands still until someone resumes it.

*Watcher.* A good reply and a bad one: the batch a resume leaves behind still has the
other in it. A manual resume or Stop may come before, after or during the one a reply
begins, so that a watcher that has replaced another is replaced itself; the job
stops twice, and asks again between. One failure, or one event of another job. The constraint `Unclashed` cuts off
runs of which nothing is promised.

*Promotion.* A tracked and a new path are the two kinds the rollbacks distinguish,
and two paths are needed for one to fail after the other. Two runs: a promotion,
and another over what it left. Two edits: one and its revert or commit. One death.
The theorems remove all of these bounds.

*Verification.* A blocking case and the only cover of a requirement are the two ways into
the gate; two repetitions make partial attempts; two attempts and a stagnation
limit of one put both ways of exhaustion within three tasks. `Bounded` spends the
three on tasks and faults together. The theorems remove these bounds too.

*Specification.* Two editors race; a third would add orders, not cases, since the
artifact's creation serialises writers. Three versions: one made from nothing, one saved
or analysed from it, and one more that an editor of the first has not seen. One death.
The theorems remove these bounds.

*Retarget.* A case that all versions state alike and one that changes; three
versions are two retargets, the second from a manifest that is itself a revision. Two
runs: evidence of an earlier run must not count. One death between artifacts and commit.

*Steps.* Two files: one that exists and one that a step adds, so that queues have up to two
functions and rollback and revert have files to remove. Four commits are a step, something
between it and its undo, the undo and another step; four records take a project into
implementation and through a step, its undo or the next decision. One write that fails or one death, in
any transaction but an undo (see below), then a recovery and another decision. A version
is new content, so two allow one change at a time. `CHECK_DEADLOCK FALSE`: a developer
may stop at any time, and the bounds stop the model. The log and commits disagree after a
death in between (`LogMatchesCommits` then asks for one direction only): the developer
finds a project that is not clean.

*Extension.* One command, one request that supersedes it and one of a view are all the
kinds of request that can be under way at once. Two sessions, revisions, and versions of
the sources are what an answer may belong to wrongly.

*Workflow.* A queue of two: the loop approves one and begins the next. Everything the
developer may do besides is allowed (`Activities`).

*Desktop.* Two projects are enough to show the wrong one. Four things the developer does
make a step during an analysis with the project changed under both; one failure
and what it begins is a recovery under way while an analysis or a step ends.
`CHECK_DEADLOCK FALSE`: a developer may stop.

### Fairness, and why the code justifies it

`JobLoop!Fairness` has weak fairness of a running controller, worker, resume and
GUI refresh: each is a loop that takes its next step when it can, blocked only by
reads with a timeout. It is not fairness of faults, of resumes or of the
operator's choices. `SF(CtlDecide)` and `SF(WkrFinish)` say that a provider asked
again and again answers in the end: the token wait sleeps until the announced
time and repeats the question (`controller.py:1133`), so a model that is limited
each time it is asked would postpone for ever, which is the provider's doing and
not the program's. `Watcher!Fairness` has weak fairness of each watcher and of each
resume, strong fairness of `BeginPoll`, because the loop polls the mailbox on every pass
and its passes alternate with reads, and weak fairness of `Publish`, the
controller's step after a committed status. `Workflow!Fairness` has weak fairness of the
round and of the conversation (providers and tools have time limits, a thread goes on),
of the extension's loop (it polls), and of the worker's join of a thread. `Desktop!Fairness` has
weak fairness of Tk's event loop and of the threads. `Promotion`,
`Verification`, `Specification`, `Retarget`, `Steps` and `Extension` check safety only: a
provider may ask for repairs for as long as the limits allow, a developer need not
decide, and an editor need not save.

## What is proved

For every value of the constants, under the `ASSUME` of the module (types of the
constants, and that cases, tracked paths, or resume kinds come from the sets they
should):

| Theorem | Statement |
|---|---|
| `JobLoopProofs!TypeCorrect` | types |
| `JobLoopProofs!RunsOnce` | a task is executed to at most one run |
| `JobLoopProofs!ReviewsOnce` | a task is sent to review at most once |
| `JobLoopProofs!RunsAgree` | reviewed and completed tasks have a run; tasks with a run are no longer active |
| `JobLoopProofs!NoTaskLost` | an acknowledged activation was taken up |
| `JobLoopProofs!TasksMoveForward` | no task moves back |
| `JobLoopProofs!LimitsKept` | both limits on tasks, across redelivery, resumes and crashes |
| `OperatorProofs!TypeCorrect` | types of `Watcher` |
| `OperatorProofs!AppliesOnce` | outside clashes, a reply is applied at most once, whoever is killed while applying it |
| `OperatorProofs!OneIsLeft` | outside clashes, a job that may go on has a watcher, or a resume that will launch one |
| `OperatorProofs!PromotionTypeCorrect` | types of `Promotion` |
| `OperatorProofs!EditsAreKept` | no step of the controller changes an uncommitted edit |
| `OperatorProofs!FailuresLeaveNothing` | between promotions untouched paths are as HEAD has them |
| `OperatorProofs!DonePromotes` | done means promoted |
| `VerificationProofs!TypeCorrect` | types |
| `VerificationProofs!BudgetIsKept` | attempts and stagnation of a blocking case stay within their limits |
| `VerificationProofs!EscalatedRest` | an escalated case is not executed again |
| `VerificationProofs!DoneVerified` | done means verified by the accepted run |
| `SpecificationProofs!TypeCorrect` | types |
| `SpecificationProofs!ArtifactsAreKept` | a version keeps its artifact; others belong to a writer or to a dead one |
| `SpecificationProofs!VersionsAreConsecutive` | neither gaps nor duplicates |
| `SpecificationProofs!ApprovalsAreReviewed` | approved means complete, submitted and decided |
| `SpecificationProofs!WritersAreAlone` | no two editors hold the artifact of one version |
| `SpecificationProofs!VersionsStay` | a version never changes, an approval is never withdrawn |
| `IcodaProofs!TypeCorrect` | types |
| `IcodaProofs!ReviewKept` | what is in review is on disk |
| `IcodaProofs!AlwaysDecidable` | what refuses new work can be reviewed, recovered or decided |
| `IcodaProofs!ApprovedByGates` | the loop approves only what has passed its gates and is untouched |
| `IcodaProofs!WindowTypes` | types of the desktop window |
| `IcodaProofs!PanelOwnedAlways` | nobody releases a panel another one holds, nobody leaves it claimed |
| `IcodaProofs!OwnCandidateAlways` | the proposal shown was made in the project shown |
| `IcodaProofs!AttendedAlways` | the safety part of `Served`: an analysis, a failure set aside and a save have each somebody who comes for them |
| `JobLoopProofs!StatusMatches` | undisturbed, the status stored is the one its tasks derive |
| `JobLoopProofs!NeverStalls` | undisturbed, a job that is not settled has something that drives it |
| `StepsProofs!TypeCorrect` | types |
| `StepsProofs!ApproachFitsAlways` | an approved approach is for the function implemented next |
| `StepsProofs!ReviewedAlways` | an approval commits the candidate that passed its gates and was shown |
| `StepsProofs!RestoresAlways` | an approval that fails leaves sources, log, state and index as they were |
| `StepsProofs!LogMatchesAlways` | files, step log and commits in effect agree |
| `StepsProofs!ImplementsHistory` | the engine implements `ProjectHistory` |
| `ExtensionProofs!TypeCorrect` | types |
| `ExtensionProofs!RequestsConserved` | a request waited for is in one place, no other anywhere |
| `ExtensionProofs!AgreementAlways` | holding the service's identity means showing its model |
| `ExtensionProofs!FreshIsCurrentAlways` | shown as fresh means of the sources on disk, the known ways to lose a save excepted |
| `ExtensionProofs!CacheKeptAlways` | between requests the cache is the model held |
| `RetargetProofs!TypeCorrect` | types |
| `RetargetProofs!PinHolds` | the pin is the active manifest's, whose artifacts are there |
| `RetargetProofs!PassingHolds` | passing means passed as the pinned version states it |
| `RetargetProofs!DoneHolds` | done means passed as pinned, all in one run |
| `RetargetProofs!ArtifactsAlone` | no two operations hold the same artifact |

**JobLoop.** `Inv` is `TypeInv /\ WorkerInv /\ RunInv /\ ReviewInv /\ QueuedNeverSettled`.
That tasks run once is not inductive by itself: what prevents a second run is
that a redelivered activation is ignored unless its task is queued, so `RunInv`
adds that a task with a run is not active, and `WorkerInv` says which status the
task has at each point of the worker (`loaded`: queued, `ran`: completed, with a
run and not yet reviewed). The last clause is what makes the plain XADD of the
REVIEW safe: a worker that crashes before or after it leaves a task that is not
queued, so no other worker comes to that point with it. `LimitsKept` needs the numbering
of tasks by position only: the controller compares `Len(tasks)` with the limit in
the transaction that appends.

The second half, `DriveInv`, is about a job nothing happens to (`Undisturbed`: no fault,
no resume, no GUI refresh or stop, the hypothesis of the two theorems and the constants
of the run `JobLoop_undisturbed`). It says that one thing at a time drives the job: a request not
yet delivered, the controller that answers it, an activation not yet delivered, the worker
that runs its task, or its result on the way back; everything else rests. Each of these
says what the job's status is, and a step hands over to the next. With a fault or a
late write of the GUI neither property holds, as the runs with them show.

**Watcher.** `Inv` is `TypeOK /\ ScriptInv /\ CursorInv /\ (~clash => Quiet)`, since nothing
is promised once resumes have run into each other. Neither property is inductive. That a
watcher is present depends on who may kill it and on why it may leave: `Alone` says that
one resume runs at a time, `LiveInv` that the live watcher is the one in the pid file or
has begun the resume that replaces it, `KillInv` that between a resume's kill and its
launch there is no watcher and no loop that could settle the job, and `EventInv` that a
watcher which has read, or will read, that its job ended or asks is told the truth,
unless a kill is due; otherwise it would leave a job that goes on. That a reply is applied
once depends on what a watcher knows: `ReplyInv` says that what it has fetched and not
begun is not handled, `AddedInv` that a reply once added is handled and that one whose
resume has not marked yet is not added, `ChildInv` that such a resume finds the job as
the reply has left it. Watchers, scripts and snapshots grow with every launch; the step
lemmas `MoveInv` (one watcher moves) and those of the scripts' steps carry this.

**Promotion.** `PromotionInv` is `TypeInv /\ OwnInv /\ HeadInv /\ CleanInv`. `OwnInv`
says why an own edit survives: while nothing has raced, a path with an own edit
differs from HEAD and is therefore found by the scan, is not among the paths at
risk, and does not match what was copied when a rollback comes to it. `CleanInv`
accounts for every path between promotions: those `Touched` by the one under way
may differ from HEAD, those it is `Holding` have the worktree's content, all
others are as HEAD has them or edited.

**Verification.** `Inv` is `TypeInv /\ RunInv /\ BudgetInv /\ GateInv`. The
statuses do not help: any refresh may overwrite them. `BudgetInv` therefore
rests on counters no refresh writes: an escalated case has no attempt or no
stagnation left, `WkrBegin` refuses it for that reason whatever its status says,
and the case being executed had budget when its attempt began. `RunInv` says that
a run being verified is later than any that waits for review or has been
accepted, so that a repetition cannot spoil what the gate has seen of an earlier
one, and `GateInv` carries the freshness of the summary from `CtlSummarize` to
the decision.

**Specification.** `Inv` is `TypeOK /\ StoreInv /\ EditorInv /\ OpInv /\ Alone`. What
serialises the writers is not the database but the exclusive creation of the artifact:
`Alone` says that no two editors hold the artifact of one version, and `Knows` that a
writer about to commit writes the next version. From both follow consecutive
versions, and that the artifact which is unlinked is never another's. `Approves` is what
an operation has learnt between `approve`'s checks and its write, and what no other
editor's write can take away: that the version is complete, has been in review, and that
no choice before it is open, whatever the row says by now.

**Steps.** `Inv` holds whatever fails: `OpInv` says how far an operation has come (the
writes it has left are a tail of its list), `ReviewInv` that a candidate exists where it is
decided, `ApproveInv` what an approval has promoted, and that the worktree is still what
was checked and shown, `FitsInv` that every approach anywhere, in a commit or in what
an operation would restore, is for the next target. `RestoresAlways` needs that neither the
copy nor the commit itself fails (`Faults`), for then the code takes back less.
`HistoryInv` is under `"undo" \notin Fragile`: an undo that dies between its writes leaves
log and files out of step, and nothing in the code notices. `HeadInv` relates HEAD to
`effect` and says the same of the parent an undo would go back to; `ApproveLog`,
`ManualLog` and `UndoLog` say what the log is after each write; `NumberInv` that the
candidate's number is new. The bounds on logs come from well-founded induction over the
naturals, for a fixed set. The refinement follows from the same invariant: the only step
that changes `effect` is the commit.

**Extension.** `Inv` is `TypeInv /\ WireInv /\ MatchInv /\ ClockInv /\ CacheInv /\ ModelInv`,
for any targets, commands and decisions and any bounds that allow a first state. `WireInv`
counts: queue, worker and pipe hold each id once, and just those that are waited for; `MatchInv`
adds that what the service has still to do is what the extension has asked. `ClockInv` orders
the identities: no ticket, no answer on its way and no identity held by the extension is
newer than the service's, and two that have the same session and revision are equal. That
is what makes the comparison of revisions (`validTransition`, `require_project`) sufficient.
The two properties about models need to look ahead: between the service's publication and the
extension's acceptance the identities differ, and what is said then is about the answer
on its way (`Expected`: it brings something, and its ticket is still current). `ShownInv` says of
the answers that carry no model (a phase, a target, a refresh: `Quiet`) that what is shown is
already that of the new revision; `ComingInv` that what the others bring is of the
sources on disk or excused; `ReadInv` the same of an analysis under way. `WouldBeFresh` is
needed because a refused analysis puts back what was shown before it, and `CleanInv` because
a decision without a model of its own is made over committed sources: there a model that is not
stale is theirs, unless a save was lost. Every step of the service is one of seven kinds
(`NextFacts`), of which only one that moves the project can make an answer expected that was
not (`Still`, `Answering`).

**Workflow.** `Inv` is `Shape /\ KeptInv /\ PendingInv /\ StateInv /\ CountInv`; the
theorem is for a queue of any length and for any of the developer's activities. `KeptInv`
adds to `ReviewIsKept` that a round which has left its checkpoint is retained: otherwise
its value could come to a project that has nothing on disk. `PendingInv` says the same
of the session's flag, so that what refuses new work is something a recovery, or a
decision, finds. `StateInv` is what automatic approval rests on: a thread that has ended
has told its state, so that the loop, which asks only for a result, meets no running job
and `MustStop` has looked at its gates. `CountInv` says that what was approved has left
the queue. `Steady`, of each step but `LoopApprove`, says that it approves nothing by itself.

**Desktop.** `WindowInv` is said of a window, and each handler, an operator from windows
to windows, has a lemma that keeps it; an action is one of them or a few in a row, so
nothing is said of primed states until the end. The panel needs `AtMostOne`: live
threads and callbacks of steps and recoveries, and the analysis that took the panel,
exclude each other (`PanelInv`), so that the callback which releases it is the one it was
claimed for; a callback taken from the queue leaves a window that has nobody, which is
why `ReleaseSound` and `RecoveryEndsSound` speak of both steps at once. `RecoveryInv`
holds whatever has been crossed: one recovery at most, and `recovering` exactly while it
is under way, so that `Reset` can make it stale and a failure set aside has an end to
wait for (`FailureInv`). The proposal needs `Rooted`, that everything live was begun in
the project shown, and that `subject` is that project or none: it is how `SetProject`
knows that there is a recovery to silence.

**Retarget.** `Inv` joins the three properties with `BaseInv`, `OpInv`, `AloneInv`,
`UseInv`, `KnownInv` and `RepInv`. The pin needs the first half: artifacts are created
exclusively, so `AloneInv` lets a client that fails unlink its own only, and `OpInv` says
that a revision about to be committed follows the active manifest unless its number is
taken, in which case the transaction fails. The other two need the second half, all of it
under `~raced`, the flag of a retarget that came while a run was going on: worker and
controller hold the active manifest (`UseInv`), what they know across their look at the
worktree still has its evidence (`KnownInv`), and an attempt after the offset was made as
the active manifest states the case (`RepInv`). A retarget establishes `RepInv` anew: a
case whose statement changes gets its present attempts as offset, and of the others the
evidence is for the same statement.

Each proof has a lemma that the initial states satisfy the invariant, a step
lemma per conjunct with one step per action, and a closing temporal step.

**Only model-checked.** Liveness (`JobEnds`, `ResumeCompletes`, `RefreshReconciles`,
`ReplyHandled`, `LoopEnds`, `Served`): reasoning with `ENABLED` and fairness is out of the prover's
reach. `ReplyHandled` is checked, `WatcherPresent` and `AppliedOnce` proved as well. Every
invariant and action property of the runs is proved. No module declares a RECURSIVE
operator, which the prover could not handle, and where a proof needs the least or
the last element of a finite set of positions, well-founded induction supplies it.

## Where program and documents disagree

The models show these; most were met while a definition was translated, and the
properties state what holds all the same.

**AI-Loop, the loop**

- A crash strands a task. `WORKER_SYSTEMS.md:57` says that a crash between read and
  acknowledgment no longer strands one. The worker marks the task running first
  (`worker.py:471`) and ignores what is not queued (`:463`), so the reclaimed
  activation is acknowledged unseen. A resume gets the job moving (`ResumeCompletes`) but
  the task remains running.
- An escalation may leave no valid decision. `IMPLEMENTATION_STATUS.md:227` says that an
  escalated blocking case forces HUMAN_NEEDED. If another blocking case may still be
  retried, the correction validator accepts a REPAIR only and the completion
  validator HUMAN_NEEDED only (`controller.py:408-470`); the job ends dead.
- A watcher may outlive its job. `README.md:223` says that it exits when the job is done
  or dead. Its cursors stay `$` until an entry was read (`watcher.py:25`), so an event
  published between two reads is never returned (`from` in `Watcher`).
- A rollback may delete a tracked file. `controller.py:1623-1629` says that tracked
  paths are restored. A `git checkout` that fails for another reason than an unknown
  path is followed by an unlink, and counts as rolled back (`Promotion`).
- Passing uses up the correction budget. `IMPLEMENTATION_STATUS.md:308` says that a case
  is refused once it has been escalated. The worker compares the number of the
  attempt, which passes increase too (`verification_orchestrator.py:3415`,
  `Exhausted` in `Verification`).
- An emailed constraint can be lost: resume and watcher read the constraints
  and write the whole column back (`resume_job.py:261-289`,
  `email_commands.py:50`, `:98`; `snapshot` in `Watcher`), while `README.md:213`
  calls the constraint durable.
- The recovery of a failed promotion of a formal job always ends dead: its task is
  validated as that of a job without a manifest (`controller.py:2126-2142`) and
  names no case, which `select_task_verification_cases` rejects
  (`verification_orchestrator.py:2408-2411`; `WkrUnnamed`).
- A refresh may take back `escalated` or `passing` (`Persist`), while
  `IMPLEMENTATION_STATUS.md:171` says these survive one. `BudgetKept`,
  `EscalatedNeverRuns` and `DoneIsVerified` show that nothing depends on it.
- A promotion that conflicts asks for a recovery, as `README.md:474` says;
  `WORKER_SYSTEMS.md:367` says HUMAN_NEEDED.

**AI-Loop, specifications and retargeting**

- `approve` acts on the version that is current when it writes, not on the one shown or
  assessed, although the editor has a message for that case (`specification_gui.py:2447`, "The
  review version differs from the editor"). The row may say approved while a newer draft is current. What is
  approved has been in review and complete all the same (`ApprovedIsReviewed`).
- Save of a version in review returns it to draft first. If the revision then fails, every
  later Save fails until the editor is reread, which discards its text.
- A stale editor's Save overwrites another editor's newer revision without a question; text
  typed while an operation runs is overwritten by its result; of two editors that
  resolve one decision the second wins; `latest.json` may be older than the row.
- An artifact whose writer died blocks that version number (or manifest) for ever: its
  exclusive creation fails, and nothing removes it.
- A retarget in the windows `raced` marks lets evidence of the old contract count for the
  new one, up to a job that is done with it; `IMPLEMENTATION_STATUS.md:359-360` says that
  passing evidence of affected cases is invalidated. A refresh that began earlier may write "passing" over a
  newer failed attempt.
- A retarget while the agent runs, or a queued retarget task whose cases were retired
  meanwhile, ends the job dead (`AgentDone`).

**ICODA, the step engine**

- A failed approval may leave its files behind. `git.py:176` says that the rollback
  restores each path from HEAD. It calls `git checkout --` (`git.py:181`), which restores from
  the index, and `commit_all` has filled the index before its commit failed
  (`git.py:195`); the index is reset only afterwards (`steps.py:1121`). The test
  `test_approval_metadata_or_commit_failure_restores_the_entire_project` replaces
  `commit_all` and so stages nothing. `ApprovalRestores` is checked for the other faults.
- An undone number hides the step that takes it next. `next_number` counts what is in the
  log, and an undo removes the record of its step from it, so the next approval has
  the same number; `approved()` (`steplog.py:121`, "Approved steps that are still in
  effect") leaves out every step whose number some record undoes. The new step
  gives its functions no status and cannot be undone.
- While a proposal or an approach is retained, manual edits cannot be committed (`service.py:1096`), and
  while there are manual edits it can neither be decided nor discarded
  (`service.py:1093`, `recovery.py:301`); the message (`steps.py:693`) advises to commit
  the edits in ICODA.
- An undo may lose pending records, which its docstring says are kept (`steps.py:1154`):
  if the next approach has been approved meanwhile, `git revert` refuses to overwrite
  `state.json` after the log has been taken back (`RevertRefused`). A write that fails or a
  death in the middle of an undo has the same effect, and leaves the revert uncommitted
  to be taken for manual edits; `Fragile` excludes undos for this reason.
- `HANDBOOK.md` calls the log append-only; an undo removes the undone step's record
  and everything committed with it, the rejections before the step included.
- A file whose copy fails half-way is not among those that `promote_worktree` takes back
  ("roll everything back on failure", `git.py:145`): the fault `copy` in `Steps`.
- A manual commit whose `git commit` fails leaves its record in the log (`OtherFails`).
- The desktop application calls the step engine without the service's guards
  `Based` and `Seen`; the mutant of `Based` shows what may then be committed.

**ICODA, the service's threads and the queue**

- `queue.continue` refuses "Cancelled. Decide any retained candidate" (`service.py:766-768`)
  whenever the flag of the workflow it remembers is set, also that of an older or a
  background job. `VSCODE_MIGRATION.md:4101-4105` says that after other stops the queue is run
  again, and goes on.
- A cancellation that comes after the approval has been committed is answered "cancelled";
  the client keeps the old revision, and its requests are stale until it reopens.
- Purpose comments whose round has died block the project for ever (`service.py:514-517`,
  `:961`; the last disjunct of `Decidable`).
- "completed" is visible before the thread has ended: `proposal.get` may be refused as
  busy, and the continuation stays running; an analysis between two rounds leaves
  it running or ready without a loop, and `purpose.status` says "Wait until ICODA is
  idle" for ever.
- A `remove_worktree` that fails after the commit leaves a decided candidate
  in review (`steps.py:1125`).

**ICODA, service and extension**

- Saves that get lost (`known` in `Extension`): a selection within the debounce drops the
  report (`sourceEditor.ts:87`); a save while `spec.save` analyses is overwritten by its
  answer (`specificationModel.ts`, `projectSession.ts:178`), which
  `VSCODE_MIGRATION.md:991-993` excludes for an analysis that was running; a save while a project is opened is not watched;
  one during an automatic analysis that fails is dropped.
- An undo marks the model stale in memory only (`service.py:1173-1186`): reopened, it is fresh.
- A `phase.transition` during an analysis leaves "analysing" shown.
- The second check for cancellation comes after the handler has published
  (`service.py:2687`): what has changed is answered "cancelled", while
  `VSCODE_MIGRATION.md:3029-3030` says that a cancelled analysis publishes no revision.
- By reading: the SIGTERM handler takes a lock that is not reentrant in the thread that
  may hold it (`service.py:2709-2712`).

**ICODA, the desktop application**

- The Project menu and Ctrl+Return call `steps.action` whether or not the panel is busy
  (`icoda.py:602-611`, `:635`), so a second worker starts on the runner of the first. If an
  analysis holds the panel, its end releases the buttons while the step runs (`crossed`);
  the docstring of `_set_analysing` (`icoda.py:997-999`) says that they come back only when
  the step ends.
- `open_project` refuses while a recovery or a program runs, not while a step does. The
  step's end then shows its proposal in the other project (`moved`), and `approve` would
  promote that worktree there, with that project's runner.
- `show` takes over the project of whatever analysis ends last (`icoda.py:1308`): an older
  one switches the window back, with the proposal and the save that is due of the other.
- A rephrasing whose project or proposal has changed meanwhile returns without releasing
  the panel (`icoda_gui/step_controller.py:171-172`; `stuck`).
- After a failed analysis of a newly opened project `opened` is still the old one's, and
  `show_after_step` shows that one again (`icoda.py:1482-1493`).
- By reading: a failure handled while a step runs calls `runner.begin`, which forgets a
  cancellation that is pending (`icoda_gui/troubleshooting.py:209-211`).

## Not modelled, and why

- *Loss of Redis or SQLite*, or of entries in them: nothing in the code recovers
  from it, and the documents promise nothing.
- *A crash of the watcher*: the reply being applied is lost, by design of
  `email_command_received` (`email_commands.py:84`); nothing restarts a watcher.
- *Contents of prompts, replies, reports, evidence and metrics*: outcomes chosen
  arbitrarily. The classification of metrics enters as `how` in `Failed`.
- *Provider processes, sandbox, report relocation, git plumbing of worktrees*:
  pure I/O whose outcomes the loop sees.
- *Automatic recovery* (`recovery.py`), off by default: it lets an agent edit the
  program.
- *Notifications and status mails*: timing and wording of mails nobody waits for.
- *Project analysis, editors, charts, layouts, slides*: sequential computations on
  private data, or widgets.
- *Manual verification cases*: never executed and never blocking; a person's entry.
- *Source analysis, layouts and text generation of ICODA*: pure functions of
  sources, whose inputs (C++ and Python programs) have no small model; `Steps` and
  `Service` see which version of the sources a model was derived from.
- *Processes of ICODA*: start, time limit and end of a child, seen as outcomes. By
  reading, a cancellation between `Popen` and its registration misses the child
  (`icoda_core/process.py:184-197`).
- *Scope, override, grouping and reordering of the implementation queue*: they
  choose the next functions from a call graph; the queue's order is a parameter here.
- *Purpose comments of the desktop*, with their own thread and cancellation: what they
  do to the project is in `Workflow`, for the service.

Two hazards without a property. A worker ignores a redelivered task that is already
running (`worker.py:463`): it stays running until a resume, by design. Manual edits made
while a proposal waits leave both undecidable until they are taken back in git
(`steps.py:693`).

## Plan

Done, in the order of the weight of what can go wrong: `ConsumerGroup`, `JobStatus`,
`JobLoop`, `Watcher`, `Promotion`, `Verification`, `Specification`, `Retarget` with their
proofs; `Steps` with the abstract `ProjectHistory` and its refinement; `Service` and
`Extension`, `Workflow` and `Desktop`, with their proofs.

Left:

1. `ImplementationQueue`: order, cursor and batches over small call graphs, against a
   reference definition.
