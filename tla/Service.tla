------------------------------- MODULE Service -------------------------------
(***************************************************************************)
(* The headless service behind the VS Code extension                       *)
(* (icoda_core/service.py): a reader that routes frames and signals        *)
(* cancellation, one worker that handles the requests in order, and the    *)
(* project it holds: an identity (session, revision, target), the derived  *)
(* model and its cache on disk.  A model is known by the version of the    *)
(* sources it was derived from.  The rounds with an AI provider are in     *)
(* Workflow; here a decision about a proposal is one request.              *)
(***************************************************************************)
EXTENDS Naturals, Sequences, FiniteSets

CONSTANTS
  Ids,            \* ids of the client's requests
  Targets,        \* executables and libraries that can be selected
  MaxSessions,    \* bound: how often a project is opened
  MaxRevision,    \* bound: revisions of one session
  MaxSource       \* bound: versions of the sources

ASSUME ServiceAssumption ==
  /\ "whole" \notin Targets
  /\ MaxSessions \in Nat /\ MaxRevision \in Nat \ {0} /\ MaxSource \in Nat \ {0}

VARIABLES
  queue,          \* frames submitted to the worker
  worker,         \* the request it handles, how far it is, and with what outcome
  ops,            \* cancellable requests by id: the event is there, is set
  toClient,       \* frames on the way to the client
  project,        \* Service.project, or NoProject
  cache,          \* the model in the project's .icoda directory
  src,            \* version of the sources on disk
  head,           \* the version last committed
  sessions,       \* sessions opened so far
  life            \* "up", or "ended": the input is

wire == <<queue, worker, ops, toClient>>
disk == <<cache, src, head>>
service == <<wire, project, disk, sessions, life>>

Selections == Targets \cup {"whole"}

NoContext == [session |-> 0, rev |-> 0, target |-> "whole"]
NoProject == [session |-> 0, rev |-> 0, target |-> "whole", of |-> 0, stale |-> TRUE]

ContextOf(p) == [session |-> p.session, rev |-> p.rev, target |-> p.target]
Context == ContextOf(project)

(* CANCELLABLE: "view" is view.get and trace.load, "operate" the builds,   *)
(* runs and tests, "save" a spec.save with postSave.                       *)
Cancellable == {"view", "operate", "refresh", "analyse", "automatic", "save"}

(* What guard_workflow and workflow_pending refuse while an AI round runs  *)
(* or its candidate waits.                                                 *)
Guarded == {"operate", "refresh", "analyse", "automatic", "save", "phase",
            "approve", "accept", "reject", "undo", "manual"}

NoRequest == [id |-> "none", op |-> "none", ctx |-> NoContext, arg |-> "whole"]
IdleWorker == [r |-> NoRequest, pc |-> "idle", kind |-> "ok", of |-> 0]

InitService ==
  /\ queue = <<>> /\ toClient = <<>>
  /\ worker = IdleWorker
  /\ ops = [i \in Ids |-> "none"]
  /\ project = NoProject /\ sessions = 0 /\ life = "up"
  /\ cache = [of |-> 0, stale |-> TRUE] /\ src = 1 /\ head = 1

(* A definition X_how is X with one plausible mistake in it: it is used     *)
(* nowhere, and a run that checks a property tells it from X.              *)

-----------------------------------------------------------------------------
(* The reader.                                                             *)

Cancelled(id) == ops[id] = "cancelled"

Signalled(ids) == [i \in Ids |-> IF i \in ids /\ ops[i] = "live" THEN "cancelled" ELSE ops[i]]

(* require_project *)
Current(r) == project # NoProject /\ r.ctx = Context

(* supersede: older work is cancelled at once, unless the selection is for *)
(* another project or revision than the present one.                       *)
Supersedes(r) == r.op = "open" \/ (r.op = "select" /\ Current(r))

AnswerTo(id, kind, p) ==
  [id |-> id, kind |-> kind, ctx |-> ContextOf(p), of |-> p.of, stale |-> p.stale]

(* route_frame, when the frame r arrives: the id of a cancellable request  *)
(* is reserved before it is submitted, so that it can be cancelled from    *)
(* then on.                                                                *)
Reserved(r, events) == IF r.op \in Cancellable THEN [events EXCEPT ![r.id] = "live"] ELSE events

Queued_alone(r) == IF Supersedes(r) THEN <<r>> ELSE Append(queue, r)
Queued(r) == Append(queue, r)

Route(r) ==
  /\ ops' = Reserved(r, IF Supersedes(r) THEN Signalled(Ids) ELSE ops)
  /\ queue' = Queued(r)
  /\ UNCHANGED <<worker, toClient, project, disk, sessions, life>>

(* operation.cancel names a request.  The reader answers it itself, and    *)
(* nothing waits for that answer.                                          *)
RouteCancel(id) ==
  /\ ops' = Signalled({id})
  /\ UNCHANGED <<queue, worker, toClient, project, disk, sessions, life>>

-----------------------------------------------------------------------------
(* The worker: handle_line and dispatch.                                   *)

Request == Head(queue)

Begin(methods) ==
  /\ worker.pc = "idle" /\ queue # <<>> /\ Request.op \in methods
  /\ queue' = Tail(queue)
  /\ UNCHANGED life

Handle(methods) ==
  /\ Begin(methods)
  /\ ~Cancelled(Request.id)
  /\ Request.op # "open" => Current(Request)

(* The frame is written, and the event of the request taken away: nobody   *)
(* asks for an id that has been answered.                                  *)
Write(id, kind) ==
  /\ toClient' = Append(toClient, AnswerTo(id, kind, project'))
  /\ ops' = [ops EXCEPT ![id] = "none"]

Answers(kind) == Write(Request.id, kind) /\ UNCHANGED worker

(* check_cancelled, before and after a view is made *)
RefuseCancelled ==
  /\ Begin(Cancellable) /\ Cancelled(Request.id)
  /\ UNCHANGED <<project, disk, sessions>>
  /\ Answers("cancelled")

(* stale_revision, stale_target, invalid_session, project_not_open *)
RefuseStale ==
  /\ queue # <<>> /\ Request.op # "open" /\ ~Current(Request) /\ ~Cancelled(Request.id)
  /\ Begin({Request.op})
  /\ UNCHANGED <<project, disk, sessions>>
  /\ Answers("stale")

(* workflow_busy, proposal_pending, unsaved_documents, dirty_tree, ... and *)
(* whatever a handler refuses before it has changed anything.              *)
RefuseGuarded ==
  /\ Handle(Guarded \cup {"open", "select"})
  /\ UNCHANGED <<project, disk, sessions>>
  /\ Answers("error")

-----------------------------------------------------------------------------
(* Handlers that finish at once.                                           *)

(* install_project: the cached model is stale if a source it was derived   *)
(* from has changed; the target is the one remembered, if it is there.     *)
Open(target) ==
  /\ Handle({"open"}) /\ sessions < MaxSessions
  /\ sessions' = sessions + 1
  /\ project' = [session |-> sessions + 1, rev |-> 1, target |-> target,
                 of |-> cache.of, stale |-> cache.stale \/ cache.of # src]
  /\ UNCHANGED disk
  /\ Answers("ok")

(* Views, lists, reports: the model is only read. *)
Read ==
  /\ Handle({"read", "view"})
  /\ UNCHANGED <<project, disk, sessions>>
  /\ \E kind \in {"ok", "error"} : Answers(kind)

Advanced(p) == [p EXCEPT !.rev = @ + 1]

(* The target is persisted first; selecting the present one changes nothing. *)
Select ==
  /\ Handle({"select"}) /\ project.rev < MaxRevision
  /\ project' = IF Request.arg = project.target THEN project
                ELSE [Advanced(project) EXCEPT !.target = Request.arg]
  /\ UNCHANGED <<disk, sessions>>
  /\ Answers("ok")

(* review_request: nothing but a commit of the developer's edits is done   *)
(* over such edits (_require_clean).                                       *)
Clean == src = head

(* finish_review: whatever has been decided, the project has another       *)
(* revision; the model is read from the cache again, unless it was a       *)
(* rejection.                                                              *)
Reviewed_silently(of, stale) == [project EXCEPT !.of = of, !.stale = stale]
Reviewed(of, stale) == [Advanced(project) EXCEPT !.of = of, !.stale = stale]

(* An approved step comes with the model of its worktree. *)
ApproveStep ==
  /\ Handle({"approve"}) /\ Clean /\ project.rev < MaxRevision /\ src < MaxSource
  /\ src' = src + 1 /\ head' = src' /\ cache' = [of |-> src', stale |-> FALSE]
  /\ project' = Reviewed(src', FALSE)
  /\ UNCHANGED sessions
  /\ Answers("ok")

AcceptApproach ==
  /\ Handle({"accept"}) /\ Clean /\ project.rev < MaxRevision
  /\ project' = Reviewed(cache.of, cache.stale)
  /\ UNCHANGED <<disk, sessions>>
  /\ Answers("ok")

(* The phase, or the rejection, is written to the project's files. *)
Advance ==
  /\ Handle({"phase", "reject"}) /\ project.rev < MaxRevision
  /\ Request.op = "reject" => Clean
  /\ project' = Advanced(project)
  /\ UNCHANGED <<disk, sessions>>
  /\ Answers("ok")

(* The revert changes sources; the cache is left as it is. *)
Undo ==
  /\ Handle({"undo"}) /\ Clean /\ project.rev < MaxRevision /\ src < MaxSource
  /\ src' = src + 1 /\ head' = src'
  /\ project' = Reviewed(cache.of, TRUE)
  /\ UNCHANGED <<cache, sessions>>
  /\ Answers("ok")

(* commit_manual_edits parses the sources again, if there are any edits. *)
CommitManual ==
  /\ Handle({"manual"}) /\ project.rev < MaxRevision
  /\ IF Clean THEN UNCHANGED cache /\ project' = Reviewed(cache.of, cache.stale)
              ELSE cache' = [of |-> src, stale |-> FALSE] /\ project' = Reviewed(src, TRUE)
  /\ head' = src
  /\ UNCHANGED <<src, sessions>>
  /\ Answers("ok")

-----------------------------------------------------------------------------
(* Handlers with a child process.                                          *)

BeginChild ==
  /\ Handle({"operate", "refresh", "analyse", "automatic", "save"})
  /\ project.rev < MaxRevision
  /\ worker' = [r |-> Request, pc |-> "child", kind |-> "ok", of |-> 0]
  /\ UNCHANGED <<ops, toClient, project, disk, sessions>>

Outcome(r, kind) == worker' = [r |-> r, pc |-> "reply", kind |-> kind, of |-> 0]

AtChild(methods) == worker.pc = "child" /\ worker.r.op \in methods
Stopped == Cancelled(worker.r.id)

(* operate: a build, a run or a test leaves the project as it is; a        *)
(* refresh of the targets publishes another revision.                      *)
Operated ==
  /\ AtChild({"operate", "refresh"})
  /\ \E kind \in IF Stopped THEN {"cancelled"} ELSE {"ok", "error"} :
       /\ Outcome(worker.r, kind)
       /\ IF kind = "ok" /\ worker.r.op = "refresh"
          THEN \E target \in {project.target, "whole"} :
                 project' = [Advanced(project) EXCEPT !.target = target]
          ELSE UNCHANGED project
  /\ UNCHANGED <<queue, ops, toClient, disk, sessions, life>>

Analyses == {"analyse", "automatic", "save"}

(* The analysis child reads the sources and writes its model to the cache. *)
ReadSources ==
  /\ AtChild(Analyses) /\ worker.of = 0
  /\ \/ /\ worker' = [worker EXCEPT !.of = src]
        /\ cache' = [of |-> src, stale |-> FALSE]
     \/ /\ worker' = [worker EXCEPT !.pc = "failed"]
        /\ cache' \in {cache, [of |-> src, stale |-> FALSE]}
  /\ UNCHANGED <<queue, ops, toClient, project, src, head, sessions, life>>

Saved(p) == cache' = [of |-> p.of, stale |-> p.stale]

RestoredCache_left(p) == cache
RestoredCache(p) == [of |-> p.of, stale |-> p.stale]

(* The check after the child: the retained model goes back to the cache. A *)
(* specification that has been saved is not taken back, and has its        *)
(* revision; the answer says so.                                           *)
AnalysisCancelled ==
  /\ AtChild(Analyses) \/ (worker.pc = "failed" /\ worker.r.op \in Analyses)
  /\ Stopped
  /\ IF worker.r.op = "save"
     THEN /\ project' = [Advanced(project) EXCEPT !.stale = TRUE]
          /\ Saved(project') /\ Outcome(worker.r, "saved")
     ELSE /\ UNCHANGED project
          /\ cache' = RestoredCache(project) /\ Outcome(worker.r, "cancelled")
  /\ UNCHANGED <<queue, ops, toClient, src, head, sessions, life>>

(* An automatic analysis compares the sources before and after. *)
ChangedMeanwhile == worker.r.op = "automatic" /\ worker.of # src

AnalysisPublished ==
  /\ AtChild(Analyses) /\ worker.of # 0 /\ ~Stopped
  /\ \E target \in {project.target, "whole"} :
       project' = [Advanced(project) EXCEPT !.target = target, !.of = worker.of,
                                            !.stale = ChangedMeanwhile]
  /\ Saved(project') /\ Outcome(worker.r, "ok")
  /\ UNCHANGED <<queue, ops, toClient, src, head, sessions, life>>

(* The last published model is retained, as a stale one, under a new       *)
(* revision.  After a save this is part of the answer.                     *)
AnalysisFailed ==
  /\ worker.pc = "failed" /\ worker.r.op \in Analyses /\ ~Stopped
  /\ project' = [Advanced(project) EXCEPT !.stale = TRUE]
  /\ Saved(project')
  /\ Outcome(worker.r, IF worker.r.op = "save" THEN "ok" ELSE "failed")
  /\ UNCHANGED <<queue, ops, toClient, src, head, sessions, life>>

(* The second check_cancelled: by now the handler has done its work. *)
LateCheck(kind, id) == IF kind = "ok" /\ Cancelled(id) THEN "cancelled" ELSE kind

Reply ==
  /\ worker.pc = "reply"
  /\ worker' = IdleWorker
  /\ UNCHANGED <<queue, project, disk, sessions, life>>
  /\ Write(worker.r.id, LateCheck(worker.kind, worker.r.id))

-----------------------------------------------------------------------------
(* serve: at the end of input everything is cancelled; the worker answers  *)
(* what has been submitted, and the process leaves.                        *)

EndOfInput ==
  /\ life' = "ended"
  /\ ops' = Signalled(Ids)
  /\ toClient' = <<>>
  /\ UNCHANGED <<queue, worker, project, disk, sessions>>

Gone ==
  /\ queue' = <<>> /\ toClient' = <<>>
  /\ worker' = IdleWorker /\ ops' = [i \in Ids |-> "none"]
  /\ project' = NoProject /\ life' = "up"

Exit ==
  /\ life = "ended" /\ queue = <<>> /\ worker.pc = "idle"
  /\ Gone
  /\ UNCHANGED <<disk, sessions>>

-----------------------------------------------------------------------------
Worker ==
  \/ RefuseCancelled \/ RefuseStale \/ RefuseGuarded \/ Reply
  \/ (\E target \in Selections : Open(target))
  \/ Read \/ Select \/ Advance
  \/ ApproveStep \/ AcceptApproach \/ Undo \/ CommitManual
  \/ BeginChild \/ Operated
  \/ ReadSources \/ AnalysisCancelled \/ AnalysisPublished \/ AnalysisFailed
=============================================================================
