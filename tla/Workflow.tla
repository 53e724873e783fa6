------------------------------ MODULE Workflow ------------------------------
(***************************************************************************)
(* The rounds with an AI provider behind ICODA's service (service.py,      *)
(* documentation.py, recovery.py) and the extension's loop over the        *)
(* implementation queue (workflowModel.ts, proposalModel.ts).  A round, or *)
(* a conversation, is a thread beside the service's worker; the worker     *)
(* handles one request at a time.  What a round leaves waits, in memory    *)
(* and on disk, until it is decided; with automatic approval the loop      *)
(* decides on the code whose gates pass, and starts the next round.        *)
(*                                                                         *)
(* The project is in its implementation phase.  Its session, revision and  *)
(* target are known here by what they are compared for: whether a job, or  *)
(* the client, still belongs to the present ones.  How an approval changes *)
(* the project's history is in Steps.                                      *)
(***************************************************************************)
EXTENDS Integers

CONSTANTS
  QueueLength,  \* bound: targets left in the implementation queue
  Activities    \* what the developer does besides the rounds: some of "edit",
                \* "commit", "talk", "command line", "revise", "analyse",
                \* "select", "open", "settings", "undo", "purpose", "crash"

ASSUME WorkflowAssumption == QueueLength \in Nat

VARIABLES
  job,        \* Service.workflow
  talk,       \* Service.interaction: a conversation, or a rephrasing
  disk,       \* the project's directory and its .icoda
  pending,    \* ProjectSession.pending_proposal
  reviewed,   \* Service.reviewed is a token of the present evidence
  cont,       \* Service.continuation and automatic_remaining
  joining,    \* the request in which stop_workflow waits for the threads
  client      \* the extension: its loop and its review

vars == <<job, talk, disk, pending, reviewed, cont, joining, client>>

None == "none"
NoBudget == -1

NoJob == [kind |-> None, pc |-> "over", state |-> "running", cancel |-> FALSE,
          current |-> FALSE, cand |-> None, ok |-> FALSE, signatures |-> FALSE,
          fresh |-> FALSE, based |-> FALSE, recovered |-> FALSE, purpose |-> FALSE]
NewJob(kind) ==
  [NoJob EXCEPT !.kind = kind, !.current = TRUE, !.based = TRUE,
                !.pc = IF kind = "queue" THEN "begin" ELSE "work"]

NoTalk == [kind |-> None, pc |-> "over", cancel |-> FALSE]

(* The loop of continueQueue: `seen' is what its status says of the job,   *)
(* `id' whether it knows the job there is, `token' and `shown' whether the *)
(* evidence the loop and the review hold is the present one.  `count' of   *)
(* the client is history: what has been approved automatically since the   *)
(* last loop began.                                                        *)
NoLoop == [pc |-> "off", seen |-> None, id |-> None, token |-> FALSE,
           cancelled |-> FALSE]

Init ==
  /\ job = NoJob /\ talk = NoTalk
  /\ disk = [retained |-> FALSE, purpose |-> FALSE, dirty |-> FALSE,
             auto |-> FALSE, approved |-> FALSE, left |-> QueueLength]
  /\ pending = FALSE /\ reviewed = FALSE
  /\ cont = [run |-> FALSE, ready |-> FALSE, budget |-> NoBudget]
  /\ joining = None
  /\ client = [synced |-> TRUE, shown |-> FALSE, loop |-> NoLoop, count |-> 0]

(* A definition X_how is X with one plausible mistake in it: it is used     *)
(* nowhere, and a run that checks a property tells it from X.              *)

-----------------------------------------------------------------------------
(* Guards of the requests.                                                 *)

Alive == job.pc # "over" \/ talk.pc # "over"

(* workflow_pending *)
Pending == pending \/ disk.retained \/ disk.purpose

JobHere   == job.kind # None /\ job.current
ReviewJob == JobHere /\ job.cand # None

(* A request of the client: the worker is free, and the request is not for *)
(* an older revision.                                                      *)
Asked == joining = None /\ client.synced

(* guard_workflow *)
Guard == Asked /\ ~Alive

LoopOff == client.loop.pc = "off"

-----------------------------------------------------------------------------
(* Evidence: review_fingerprint is made of the context, the workspace, the *)
(* job, the candidate and the unsaved documents.                           *)

Outdated(c) == [c EXCEPT !.shown = FALSE, !.loop.token = FALSE]
NewEvidence == reviewed' = FALSE /\ client' = Outdated(client)

(* A job of an older revision can neither be reviewed nor decided. *)
Elsewhere(j) == [NoJob EXCEPT !.kind = j.kind, !.cancel = j.cancel]

-----------------------------------------------------------------------------
(* queue_payload.                                                          *)

Stopped == [run |-> FALSE, ready |-> FALSE, budget |-> NoBudget]

(* auto_approve.derive, in the implementation phase *)
Permitted(j) == j.cand = "code" /\ j.ok /\ ~j.signatures

Working == JobHere /\ job.state = "running"
Failed  == JobHere /\ job.state \in {"failed", "cancelled"}

MustStop_recovered(budget) ==
  \/ ~disk.auto
  \/ JobHere /\ job.cancel
  \/ ReviewJob /\ ~Working /\ (~Permitted(job) \/ Failed)
  \/ ~ReviewJob /\ ~Working /\ (Failed \/ disk.left = 0 \/ budget = 0)
MustStop(budget) ==
  \/ ~disk.auto
  \/ JobHere /\ job.cancel
  \/ ReviewJob /\ ~Working /\ (job.recovered \/ ~Permitted(job) \/ Failed)
  \/ ~ReviewJob /\ ~Working /\ (Failed \/ disk.left = 0 \/ budget = 0)

Payload(c) ==
  IF ~c.run THEN c
  ELSE IF MustStop(c.budget) THEN Stopped
  ELSE [c EXCEPT !.ready = ~Working]

Running(budget) == [run |-> TRUE, ready |-> TRUE, budget |-> budget]

-----------------------------------------------------------------------------
(* The thread of a round: WorkflowJob.run.                                 *)

Thread == <<disk, pending, reviewed, client, talk, cont, joining>>

(* The runner checkpoints its request before the provider is called; code  *)
(* gets a worktree.                                                        *)
Retained_worktree(d) == [d EXCEPT !.retained = d.approved]
Retained(d) == [d EXCEPT !.retained = TRUE]

Checkpoint ==
  /\ job.pc = "begin"
  /\ job' = [job EXCEPT !.pc = "work"] /\ disk' = Retained(disk)
  /\ UNCHANGED <<talk, pending, reviewed, cont, joining, client>>

Value ==
  IF job.kind = "queue" THEN IF disk.approved THEN "code" ELSE "approach" ELSE job.cand

(* The round's value comes, and no cancellation has: the candidate with    *)
(* its gates is stored for the review, or the edits of the comments.  The  *)
(* base of code is the commit of its worktree, of an approach the present  *)
(* one.                                                                    *)
WorkDone ==
  /\ job.pc = "work" /\ ~job.cancel
  /\ IF job.kind = "purpose"
     THEN /\ job' = [job EXCEPT !.pc = "store", !.purpose = TRUE, !.ok = TRUE]
          /\ disk' = [disk EXCEPT !.purpose = TRUE]
          /\ UNCHANGED <<reviewed, client>>
     ELSE /\ \E ok, signatures \in BOOLEAN :
               job' = [job EXCEPT !.pc = "store", !.cand = Value, !.ok = ok, !.fresh = TRUE,
                                  !.signatures = signatures /\ Value = "code",
                                  !.based = @ \/ Value = "approach"]
          /\ NewEvidence /\ UNCHANGED disk
  /\ pending' = TRUE
  /\ UNCHANGED <<talk, cont, joining>>

(* The provider, or a step, fails; or the cancellation is seen.  A         *)
(* revision may have changed its worktree by then.                         *)
FailedState_silent == "running"
FailedState == IF job.cancel THEN "cancelled" ELSE "failed"

WorkFailed ==
  /\ job.pc \in {"begin", "work"}
  /\ \E fresh \in IF job.cand # None THEN {FALSE, job.fresh} ELSE {job.fresh} :
       job' = [job EXCEPT !.pc = "notify", !.fresh = fresh, !.state = FailedState]
  /\ IF job.cand # None THEN NewEvidence ELSE UNCHANGED <<reviewed, client>>
  /\ UNCHANGED <<disk, pending, talk, cont, joining>>

(* A candidate whose gates fail is stored and reported as a failure. *)
Publish ==
  /\ job.pc = "store"
  /\ job' = [job EXCEPT !.pc = "notify", !.state = IF job.ok THEN "completed" ELSE "failed"]
  /\ UNCHANGED Thread

Finish ==
  /\ job.pc = "notify"
  /\ job' = [job EXCEPT !.pc = "over"]
  /\ UNCHANGED Thread

-----------------------------------------------------------------------------
(* The thread of a conversation or a rephrasing: interaction_request.      *)

(* A conversation edits the candidate's worktree, or else the project, and *)
(* whatever becomes of it the edits are there.  A rephrasing changes the   *)
(* candidate's description: its evidence, not its gates.                   *)
Speak ==
  /\ talk.pc = "work"
  /\ talk' = [talk EXCEPT !.pc = "notify"]
  /\ \/ UNCHANGED <<job, disk, reviewed, client>>
     \/ /\ talk.kind = "send"
        /\ IF ReviewJob /\ job.cand = "code"
           THEN job' = [job EXCEPT !.fresh = FALSE] /\ UNCHANGED disk
           ELSE disk' = [disk EXCEPT !.dirty = TRUE] /\ UNCHANGED job
        /\ NewEvidence
     \/ /\ talk.kind = "rephrase" /\ ~talk.cancel
        /\ NewEvidence
        /\ UNCHANGED <<job, disk>>
  /\ UNCHANGED <<pending, cont, joining>>

Spoken ==
  /\ talk.pc = "notify"
  /\ talk' = NoTalk
  /\ UNCHANGED <<job, disk, pending, reviewed, cont, joining, client>>

-----------------------------------------------------------------------------
(* Starting rounds.                                                        *)

(* WorkflowModel.active: one command of the extension at a time. *)
ModelFree ==
  /\ LoopOff /\ talk.pc # "work"
  /\ ~(job.kind \in {"queue", "purpose"} /\ job.pc \in {"begin", "work", "store"})

(* start_workflow; the documents are saved, and a provider is there. *)
Start(kind) ==
  /\ Guard /\ ModelFree /\ ~Pending
  /\ job' = NewJob(kind)
  /\ UNCHANGED <<talk, disk, pending, reviewed, cont, joining>>
  /\ client' = Outdated(client)

(* conversation.send, prompt.rephrase: only what is in review may be       *)
(* waiting.                                                                *)
Talk(kind) ==
  /\ "talk" \in Activities
  /\ Guard /\ ModelFree
  /\ IF kind = "send" THEN Pending => ReviewJob ELSE ReviewJob
  /\ talk' = [kind |-> kind, pc |-> "work", cancel |-> FALSE]
  /\ cont' = Stopped
  /\ UNCHANGED <<job, disk, pending, reviewed, joining, client>>

(* cli.command *)
OpenCommandLine ==
  /\ "command line" \in Activities
  /\ Guard /\ ModelFree /\ (Pending => ReviewJob)
  /\ cont' = Stopped
  /\ UNCHANGED <<job, talk, disk, pending, reviewed, joining, client>>

(* workflow.cancel of a known job; an interaction is cancelled alone. *)
Cancel ==
  /\ Asked
  /\ \/ JobHere /\ job.state = "running" /\ job' = [job EXCEPT !.cancel = TRUE]
        /\ cont' = Stopped /\ UNCHANGED talk
     \/ talk.pc # "over" /\ talk' = [talk EXCEPT !.cancel = TRUE]
        /\ UNCHANGED <<job, cont>>
  /\ UNCHANGED <<disk, pending, reviewed, joining, client>>

-----------------------------------------------------------------------------
(* The review: review_request, decide_proposal, revise_proposal.           *)

(* proposal.get: nothing is in review unless the job has a candidate. *)
ProposalGet ==
  /\ Guard
  /\ reviewed' = TRUE /\ client' = [client EXCEPT !.shown = TRUE]
  /\ UNCHANGED <<job, talk, disk, pending, cont, joining>>

(* require_review_evidence and _require_clean *)
Evident == reviewed /\ ~disk.dirty

(* The client accepts the revision that a decision publishes; a loop over  *)
(* the older one ends.                                                     *)
NewRevision(c) == [c EXCEPT !.shown = FALSE, !.loop = NoLoop, !.count = 0]

(* finish_review, after the worktree and the journal are removed *)
Reviewed_waiting == UNCHANGED pending /\ reviewed' = FALSE /\ job' = NoJob
Reviewed == pending' = FALSE /\ reviewed' = FALSE /\ job' = NoJob

Left(d) == [d EXCEPT !.retained = FALSE]

(* approve_reviewed: an approved approach is kept, approved code advances  *)
(* the cursor past its batch.                                              *)
Approvable(confirmed) ==
  /\ job.fresh /\ job.based /\ job.ok
  /\ job.signatures => confirmed

Approved ==
  IF job.cand = "approach" THEN {[disk EXCEPT !.approved = TRUE]}
  ELSE {[disk EXCEPT !.approved = FALSE, !.left = n] : n \in 0 .. disk.left - 1}

Approve(confirmed) ==
  /\ Guard /\ client.shown /\ Evident /\ ReviewJob /\ Approvable(confirmed)
  /\ \E d \in Approved : disk' = Left(d)
  /\ Reviewed
  /\ cont' = IF disk.auto /\ (job.cand = "approach" \/ confirmed)
             THEN Running(cont.budget) ELSE cont
  /\ client' = NewRevision(client)
  /\ UNCHANGED <<talk, joining>>

(* The worktree cannot be removed: the step is committed, and its          *)
(* candidate stays in review, on an older base.                            *)
ApproveLeft ==
  /\ Guard /\ client.shown /\ Evident /\ ReviewJob /\ Approvable(FALSE)
  /\ job.cand = "code" /\ disk' \in Approved
  /\ job' = [job EXCEPT !.based = FALSE]
  /\ NewEvidence
  /\ UNCHANGED <<talk, pending, cont, joining>>

(* A rejection is an uncommitted record in the step log. *)
Reject ==
  /\ Guard /\ client.shown /\ Evident /\ ReviewJob
  /\ disk' = Left(disk)
  /\ Reviewed
  /\ cont' = Stopped /\ client' = NewRevision(client)
  /\ UNCHANGED <<talk, joining>>

(* Adapt and rebuild: a new job over the old candidate. *)
Revise(method) ==
  /\ "revise" \in Activities
  /\ Guard /\ client.shown /\ Evident /\ ReviewJob /\ job.based
  /\ IF method = "adapt" THEN job.fresh ELSE job.cand = "code"
  /\ job' = [job EXCEPT !.kind = "revise", !.pc = "work", !.state = "running", !.cancel = FALSE]
  /\ reviewed' = FALSE
  /\ client' = [Outdated(client) EXCEPT !.loop.id = IF @ = "same" THEN "other" ELSE @]
  /\ UNCHANGED <<talk, disk, pending, cont, joining>>

(* purpose.apply, purpose.reject: the edits go to the sources. *)
DecidePurpose(apply) ==
  /\ Guard /\ ModelFree /\ JobHere /\ job.purpose
  /\ disk' = [disk EXCEPT !.purpose = FALSE, !.dirty = @ \/ apply]
  /\ Reviewed
  /\ client' = NewRevision(client)
  /\ UNCHANGED <<talk, cont, joining>>

-----------------------------------------------------------------------------
(* Recovery of what is retained: recovery_request.                         *)

Recoverable == disk.retained /\ ~ReviewJob

(* Only the base, the phase and the worktree are checked, not the gates;   *)
(* a gate may be gone bad, or the candidate be unreadable.                 *)
Resume ==
  /\ Guard /\ Recoverable /\ ~disk.dirty
  /\ \E cand \in {"code", "approach"} :
       /\ cand = "code" => disk.approved
       /\ job' = [NewJob("recovery") EXCEPT !.cand = cand, !.recovered = TRUE]
  /\ pending' = TRUE /\ reviewed' = FALSE
  /\ cont' = Stopped
  /\ client' = [Outdated(client) EXCEPT !.loop.id = IF @ = "same" THEN "other" ELSE @]
  /\ UNCHANGED <<talk, disk, joining>>

Discard ==
  /\ Guard /\ Recoverable /\ ~disk.dirty
  /\ disk' = Left(disk)
  /\ Reviewed
  /\ cont' = Stopped
  /\ client' = Outdated(client)
  /\ UNCHANGED <<talk, joining>>

-----------------------------------------------------------------------------
(* The loop: continueQueue, and queue.continue behind it.                  *)

Loop == client.loop
Ends(c) == [c EXCEPT !.loop = NoLoop, !.count = 0]

Seen ==
  IF ~JobHere THEN None
  ELSE IF job.state = "running" THEN "running"
  ELSE IF job.state = "completed" \/ (job.cand # None /\ ~job.ok) THEN "result"
  ELSE None

(* runQueue, with the status just loaded: by the command, after the        *)
(* developer's approval, or when automatic approval is turned on.          *)
LoopStart ==
  /\ Asked /\ ModelFree /\ disk.auto
  /\ cont' = Payload(cont)
  /\ client' = [client EXCEPT !.loop = [NoLoop EXCEPT !.pc = "turn", !.seen = Seen], !.count = 0]
  /\ UNCHANGED <<job, talk, disk, pending, reviewed, joining>>

Turn == Asked /\ Loop.pc = "turn" /\ ~Loop.cancelled

(* workflow.status: an id of another job is refused. *)
LoopPoll ==
  /\ Turn /\ Loop.seen = "running"
  /\ IF Loop.id = "other" \/ (Loop.id = "same" /\ ~JobHere)
     THEN client' = Ends(client) /\ UNCHANGED cont
     ELSE /\ cont' = Payload(cont)
          /\ client' = IF cont'.run
                       THEN [client EXCEPT !.loop.seen = Seen,
                                           !.loop.id = IF JobHere THEN "same" ELSE None]
                       ELSE Ends(client)
  /\ UNCHANGED <<job, talk, disk, pending, reviewed, joining>>

(* proposal.get for the evidence; a thread that is still alive is busy. *)
LoopReview ==
  /\ Turn /\ Loop.seen = "result"
  /\ IF Alive
     THEN client' = Ends(client) /\ UNCHANGED reviewed
     ELSE reviewed' = TRUE /\ client' = [client EXCEPT !.loop.pc = "go", !.loop.token = TRUE]
  /\ UNCHANGED <<job, talk, disk, pending, cont, joining>>

Go ==
  /\ Asked /\ ~Loop.cancelled
  /\ Loop.pc = "go" \/ (Loop.pc = "turn" /\ Loop.seen = None)

Budget == IF cont.budget = NoBudget THEN disk.left ELSE cont.budget

(* Why queue.continue may not go on with the candidate, or with a round. *)
Refuses ==
  \/ ~disk.auto
  \/ job.kind # None /\ job.cancel
  \/ MustStop(Budget) \/ disk.left = 0 \/ Budget = 0

(* The request stops the continuation, by its answer or with an error:     *)
(* unsaved documents, changed evidence, failed gates, a pending candidate. *)
LoopStopped ==
  /\ Go
  /\ IF Alive THEN UNCHANGED cont
     ELSE cont' = IF ReviewJob /\ ~Working /\ Loop.pc = "turn" /\ ~Refuses
                  THEN Running(Budget) ELSE Stopped
  /\ client' = Ends(client)
  /\ UNCHANGED <<job, talk, disk, pending, reviewed, joining>>

(* The next turn of the loop; or its cancellation came while the request   *)
(* was handled, and the answer only says so (handle_line).                 *)
Answered(loop, n) ==
  \/ client' = [Outdated(client) EXCEPT !.loop = loop, !.count = @ + n]
  \/ client' = [Outdated(client) EXCEPT !.loop.cancelled = TRUE, !.count = @ + n,
                                        !.synced = (n = 0)]

EvidenceHolds == Evident /\ Loop.token

LoopApprove ==
  /\ Go /\ ~Alive /\ ~Refuses
  /\ ReviewJob /\ EvidenceHolds /\ Approvable(FALSE)
  /\ \E d \in Approved : disk' = Left(d)
  /\ Reviewed
  /\ cont' = IF disk'.left = 0 \/ Budget = 1 THEN Stopped ELSE Running(Budget - 1)
  /\ Answered(IF cont'.run THEN [NoLoop EXCEPT !.pc = "turn"] ELSE NoLoop, 1)
  /\ UNCHANGED <<talk, joining>>

LoopRound ==
  /\ Go /\ ~Alive /\ ~Refuses /\ ~ReviewJob /\ ~Pending
  /\ job' = NewJob("queue")
  /\ cont' = [Running(Budget) EXCEPT !.ready = FALSE]
  /\ Answered([Loop EXCEPT !.pc = "turn", !.seen = "running", !.id = "same", !.token = FALSE], 0)
  /\ UNCHANGED <<talk, disk, pending, reviewed, joining>>

LoopCancel ==
  /\ Loop.pc # "off" /\ ~Loop.cancelled
  /\ client' = [client EXCEPT !.loop.cancelled = TRUE]
  /\ UNCHANGED <<job, talk, disk, pending, reviewed, cont, joining>>

(* WorkflowModel.cancel: workflow.cancel with the id, if there is one. *)
LoopCancelled ==
  /\ joining = None /\ Loop.pc # "off" /\ Loop.cancelled
  /\ client' = Ends(client)
  /\ IF client.synced /\ Loop.id # "other" /\ (Loop.id = "same" => JobHere)
     THEN /\ cont' = Stopped
          /\ job' = IF JobHere THEN [job EXCEPT !.cancel = TRUE] ELSE job
     ELSE UNCHANGED <<job, cont>>
  /\ UNCHANGED <<talk, disk, pending, reviewed, joining>>

LoopStep == LoopPoll \/ LoopReview \/ LoopStopped \/ LoopApprove \/ LoopRound \/ LoopCancelled

-----------------------------------------------------------------------------
(* What else the developer asks for.                                       *)

(* queue.settings.set: automatic approval alone may resume, with the       *)
(* candidate in review.                                                    *)
SetAuto(auto) ==
  /\ Guard /\ ModelFree
  /\ disk' = [disk EXCEPT !.auto = auto]
  /\ cont' = IF auto /\ ReviewJob /\ ~job.cancel /\ ~job.recovered /\ Permitted(job) /\ ~Failed
             THEN Running(NoBudget) ELSE Stopped
  /\ UNCHANGED <<job, talk, pending, reviewed, joining, client>>

(* Batch size, scope or grouping: another approach is needed. *)
SetQueue ==
  /\ "settings" \in Activities
  /\ Guard /\ ModelFree
  /\ disk' = [disk EXCEPT !.approved = FALSE]
  /\ cont' = Stopped
  /\ UNCHANGED <<job, talk, pending, reviewed, joining, client>>

(* An analysis, a refresh of the targets, a saved specification: an        *)
(* analysis by hand is not refused while a candidate waits.                *)
Analyse ==
  /\ "analyse" \in Activities
  /\ Guard
  /\ job' = Elsewhere(job)
  /\ reviewed' = FALSE /\ client' = NewRevision(client)
  /\ UNCHANGED <<talk, disk, pending, cont, joining>>

(* Undo and commitManual need everything decided. *)
Undo ==
  /\ "undo" \in Activities
  /\ Guard /\ client.shown /\ Evident /\ ~Pending
  /\ \E n \in disk.left .. QueueLength, approved \in BOOLEAN :
       disk' = [disk EXCEPT !.left = n, !.approved = approved]
  /\ Reviewed
  /\ client' = NewRevision(client)
  /\ UNCHANGED <<talk, cont, joining>>

CommitManual ==
  /\ "undo" \in Activities
  /\ Guard /\ client.shown /\ reviewed /\ ~Pending
  /\ disk' = [disk EXCEPT !.dirty = FALSE]
  /\ Reviewed
  /\ client' = NewRevision(client)
  /\ UNCHANGED <<talk, cont, joining>>

(* target.select, project.open: stop_workflow signals the threads and      *)
(* waits for them.                                                         *)
Leave(request) ==
  /\ request \in Activities
  /\ IF request = "open" THEN joining = None ELSE Asked
  /\ joining' = request
  /\ cont' = Stopped
  /\ job' = [job EXCEPT !.cancel = (job.kind # None)]
  /\ talk' = [talk EXCEPT !.cancel = (talk.kind # None)]
  /\ UNCHANGED <<disk, pending, reviewed, client>>

Joined ==
  /\ joining # None /\ ~Alive
  /\ joining' = None /\ talk' = NoTalk
  /\ IF joining = "open"
     THEN job' = NoJob /\ pending' = FALSE
     ELSE job' = Elsewhere(job) /\ UNCHANGED pending
  /\ reviewed' = FALSE
  /\ client' = [NewRevision(client) EXCEPT !.synced = TRUE]
  /\ UNCHANGED <<disk, cont>>

(* The service dies; the extension starts another and opens the project. *)
Crash ==
  /\ "crash" \in Activities
  /\ job' = NoJob /\ talk' = NoTalk /\ pending' = FALSE /\ reviewed' = FALSE
  /\ joining' = None
  /\ cont' = Stopped
  /\ client' = [NewRevision(client) EXCEPT !.synced = TRUE]
  /\ UNCHANGED disk

-----------------------------------------------------------------------------
(* The developer's editor and shell, at any time.                          *)

EditProject ==
  /\ "edit" \in Activities
  /\ disk' = [disk EXCEPT !.dirty = TRUE]
  /\ NewEvidence
  /\ UNCHANGED <<job, talk, pending, cont, joining>>

EditWorktree ==
  /\ "edit" \in Activities /\ job.cand = "code"
  /\ job' = [job EXCEPT !.fresh = FALSE]
  /\ NewEvidence
  /\ UNCHANGED <<talk, disk, pending, cont, joining>>

(* A commit by hand, or the edits are taken back. *)
Commit ==
  /\ "commit" \in Activities
  /\ disk' = [disk EXCEPT !.dirty = FALSE]
  /\ job' \in {job, [job EXCEPT !.based = FALSE]}
  /\ NewEvidence
  /\ UNCHANGED <<talk, pending, cont, joining>>

-----------------------------------------------------------------------------
RoundStep == Checkpoint \/ WorkDone \/ WorkFailed \/ Publish \/ Finish
TalkStep  == Speak \/ Spoken

Next ==
  \/ RoundStep \/ TalkStep \/ LoopStep \/ Joined
  \/ \E kind \in {"queue"} \cup ({"purpose"} \cap Activities) : Start(kind)
  \/ \E kind \in {"send", "rephrase"} : Talk(kind)
  \/ OpenCommandLine \/ Cancel \/ ProposalGet
  \/ \E confirmed \in BOOLEAN : Approve(confirmed)
  \/ ApproveLeft \/ Reject
  \/ \E method \in {"adapt", "rebuild"} : Revise(method)
  \/ \E apply \in BOOLEAN : DecidePurpose(apply)
  \/ Resume \/ Discard
  \/ LoopStart \/ LoopCancel
  \/ \E auto \in BOOLEAN : SetAuto(auto)
  \/ SetQueue \/ Analyse \/ Undo \/ CommitManual
  \/ \E request \in {"select", "open"} : Leave(request)
  \/ Crash \/ EditProject \/ EditWorktree \/ Commit

(* The provider and the tools a round calls have time limits, the worker   *)
(* serves its queue, and the loop polls.                                   *)
Fairness == WF_vars(RoundStep) /\ WF_vars(TalkStep) /\ WF_vars(LoopStep) /\ WF_vars(Joined)

Spec == Init /\ [][Next]_vars /\ Fairness

-----------------------------------------------------------------------------
TypeOK ==
  /\ job.kind \in {None, "queue", "purpose", "revise", "recovery"}
  /\ job.pc \in {"begin", "work", "store", "notify", "over"}
  /\ job.state \in {"running", "completed", "failed", "cancelled"}
  /\ job.cand \in {None, "approach", "code"}
  /\ talk.kind \in {None, "send", "rephrase"} /\ talk.pc \in {"work", "notify", "over"}
  /\ disk.left \in 0 .. QueueLength
  /\ cont.budget \in NoBudget .. QueueLength
  /\ joining \in {None, "select", "open"}
  /\ Loop.pc \in {"off", "turn", "go"} /\ Loop.seen \in {None, "running", "result"}
  /\ Loop.id \in {None, "same", "other"}
  /\ client.count \in 0 .. QueueLength

(* What is in review is also on disk, so that a crash, or another revision, *)
(* leaves it to be recovered.                                              *)
ReviewIsKept == job.cand # None => disk.retained

(* A project that refuses new work because something waits has it in       *)
(* review, or to recover, or comments to decide; the one exception are     *)
(* comments whose round is gone (service.py:514).                          *)
Decidable ==
  Pending /\ ~Alive =>
    \/ ReviewJob \/ Recoverable
    \/ JobHere /\ job.purpose
    \/ disk.purpose /\ ~(JobHere /\ job.purpose)

(* What the loop approves has passed its gates, changes no signature, was  *)
(* made by a round that is neither recovered nor cancelled, on the present *)
(* commit, and nobody has touched it, or the project, since.               *)
AutomaticApproval ==
  [][client.count' > client.count
      => /\ job.cand = "code" /\ job.ok /\ job.state = "completed"
         /\ ~job.signatures /\ ~job.recovered /\ ~job.cancel
         /\ job.fresh /\ job.based /\ disk.auto /\ ~disk.dirty]_vars

(* The loop ends: approved, refused, cancelled or out of work. *)
LoopEnds == (Loop.pc # "off") ~> (Loop.pc = "off")
=============================================================================
