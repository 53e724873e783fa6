------------------------------ MODULE Extension ------------------------------
(***************************************************************************)
(* The VS Code extension and its backend: the service of Service, and the  *)
(* session the extension shows of it (backendClient.ts, sessionState.ts,   *)
(* projectSession.ts, sourceChanges.ts, extension.ts).  A request is known *)
(* by the part of the extension that waits for its answer: the command     *)
(* under way, a command that supersedes it, or a view.  The pipe to the    *)
(* service is its reader: a frame is routed when it is sent.               *)
(***************************************************************************)
EXTENDS Service

CONSTANTS
  Commands,     \* the commands used, of "analyse", "operate", "refresh", "save"
  Decisions     \* what the views ask for that publishes a revision

VARIABLES
  ctx,          \* SessionState.current
  pend,         \* pending requests with the ticket each has captured
  shown,        \* ProjectData.modelState, and the model shown
  unreported,   \* a source has been saved, within the debounce
  refresh,      \* AutomaticAnalysis.pending is set, and current
  known         \* history: one of the known ways to show a wrong state was taken

client == <<ctx, pend, shown, unreported, refresh, known>>
vars == <<service, client>>

Slots == {"cmd", "sel", "view"}
ASSUME ExtensionAssumption ==
  /\ Ids = Slots
  /\ Commands \subseteq {"analyse", "operate", "refresh", "save"}
  /\ Decisions \subseteq {"phase", "approve", "accept", "reject", "undo", "manual"}

NoTicket  == [live |-> FALSE, ctx |-> NoContext]
NoPending == [op |-> "none", arg |-> "whole", ticket |-> NoTicket, before |-> "none",
              saved |-> FALSE, aborted |-> FALSE]
NoModel   == [state |-> "none", of |-> 0]

Init ==
  /\ InitService
  /\ ctx = NoContext /\ shown = NoModel
  /\ pend = [i \in Slots |-> NoPending]
  /\ unreported = FALSE /\ refresh = FALSE /\ known = FALSE

Of(i) == pend[i]
Waiting(i) == Of(i) # NoPending
Busy     == Waiting("cmd") \/ Waiting("sel")
Changing == Waiting("sel")

(* SessionState.isCurrent: no selection has invalidated the ticket since,  *)
(* and it is for the present revision.                                     *)
IsCurrent(ticket) == ticket.live /\ ticket.ctx = ctx
Capture == [live |-> TRUE, ctx |-> ctx]

Obsolete(p) == [i \in Slots |-> [p[i] EXCEPT !.ticket.live = FALSE]]

Frame(i, op, arg, c) == [id |-> i, op |-> op, ctx |-> c, arg |-> arg]
Pending(op, arg, ticket, before) ==
  [NoPending EXCEPT !.op = op, !.arg = arg, !.ticket = ticket, !.before = before]

Up == life = "up"

-----------------------------------------------------------------------------
(* Requests.                                                               *)

Ask(i, p) ==
  /\ Up /\ ~Waiting(i)
  /\ Route(Frame(i, p.op, p.arg, p.ticket.ctx))
  /\ UNCHANGED known

Opened == ctx # NoContext

(* run: one command at a time. *)
Command(op) ==
  /\ ~Busy /\ Opened
  /\ Ask("cmd", Pending(op, "whole", Capture, IF op = "analyse" THEN shown.state ELSE "none"))
  /\ pend' = [pend EXCEPT !["cmd"] = Pending(op, "whole", Capture, IF op = "analyse" THEN shown.state ELSE "none")]
  /\ shown' = IF op = "analyse" THEN [shown EXCEPT !.state = "analysing"] ELSE shown
  /\ UNCHANGED <<ctx, unreported, refresh>>

(* AutomaticAnalysis.flush: a command under way is waited for. *)
Flush ==
  /\ refresh /\ Opened /\ ~Busy
  /\ Ask("cmd", Pending("automatic", "whole", Capture, shown.state))
  /\ pend' = [pend EXCEPT !["cmd"] = Pending("automatic", "whole", Capture, shown.state)]
  /\ shown' = [shown EXCEPT !.state = "analysing"]
  /\ refresh' = FALSE
  /\ UNCHANGED <<ctx, unreported>>

(* Opening and selecting supersede the command under way: its answer will  *)
(* find its ticket obsolete.                                               *)
OpenProject ==
  /\ ~Changing
  /\ Ask("sel", Pending("open", "whole", [live |-> TRUE, ctx |-> NoContext], "none"))
  /\ ctx' = NoContext /\ shown' = NoModel
  /\ pend' = [Obsolete(pend) EXCEPT !["sel"] =
                Pending("open", "whole", [live |-> TRUE, ctx |-> NoContext], "none")]
  /\ unreported' = FALSE /\ refresh' = FALSE

(* ProjectSession.select: the analysis under way will not be heard of. *)
Superseded(m) == IF m.state = "analysing" THEN [m EXCEPT !.state = "stale"] ELSE m

(* The ticket of a save within its debounce is obsolete by a selection: it *)
(* will not be reported.                                                   *)
SelectTarget(target) ==
  /\ ~Changing /\ Opened
  /\ Up /\ Route(Frame("sel", "select", target, ctx))
  /\ pend' = [Obsolete(pend) EXCEPT !["sel"] = Pending("select", target, Capture, "none")]
  /\ shown' = Superseded(shown)
  /\ known' = (known \/ unreported)
  /\ unreported' = FALSE /\ refresh' = FALSE
  /\ UNCHANGED ctx

ViewRequest(op) ==
  /\ Opened
  /\ Ask("view", Pending(op, "whole", Capture, "none"))
  /\ pend' = [pend EXCEPT !["view"] = Pending(op, "whole", Capture, "none")]
  /\ UNCHANGED <<ctx, shown, unreported, refresh>>

(* The abort listener of a request that was given a signal. *)
Abort ==
  /\ pend["cmd"].op \in {"analyse", "automatic", "operate", "refresh"} /\ ~pend["cmd"].aborted
  /\ Up
  /\ RouteCancel("cmd")
  /\ pend' = [pend EXCEPT !["cmd"].aborted = TRUE]
  /\ UNCHANGED <<ctx, shown, unreported, refresh, known>>

-----------------------------------------------------------------------------
(* Answers.                                                                *)

Answer == Head(toClient)

Receives(i) ==
  /\ toClient # <<>> /\ Answer.id = i
  /\ toClient' = Tail(toClient)
  /\ UNCHANGED <<queue, worker, ops, project, disk, sessions, life>>

Done(i) == pend' = [pend EXCEPT ![i] = NoPending]

(* validTransition *)
Valid(op, arg, c) ==
  CASE op = "open"   -> c.rev = 1
    [] op = "select" -> /\ c.session = ctx.session /\ c.target = arg
                        /\ c.rev = ctx.rev + (IF arg = ctx.target THEN 0 ELSE 1)
    [] op \in Analyses \cup {"refresh"} -> c.session = ctx.session /\ c.rev = ctx.rev + 1
    [] op \in Decisions -> c.session = ctx.session /\ c.rev = ctx.rev + 1 /\ c.target = ctx.target
    [] OTHER -> c = ctx

Accepted(i) ==
  /\ IsCurrent(Of(i).ticket)
  /\ Valid(Of(i).op, Of(i).arg, Answer.ctx)

Carries(op, kind) == kind = "ok" \/ (op \in {"analyse", "automatic"} /\ kind = "failed")
                                 \/ (op = "save" /\ kind = "saved")

StateOf(m) == IF m.of = 0 THEN "none" ELSE IF m.stale THEN "stale" ELSE "fresh"
Summary(m) == [state |-> StateOf(m), of |-> m.of]

(* acceptAnalysis: a save since the request keeps the model stale. *)
AnalysisState_fresh(m, saved) == Summary(m)
AnalysisState(m, saved) == IF saved THEN [state |-> "stale", of |-> m.of] ELSE Summary(m)

Shown(i) ==
  CASE Of(i).op = "open" -> Summary(Answer)
    [] Of(i).op \in {"analyse", "automatic"} -> AnalysisState(Answer, Of(i).saved)
    [] Of(i).op \in {"save", "approve", "accept", "reject", "undo", "manual"} -> Summary(Answer)
    [] OTHER -> shown

(* A save while a specification is saved or a proposal decided is          *)
(* forgotten, as is what an undo has left stale once an approach is        *)
(* accepted; and a phase transition leaves an analysis obsolete that       *)
(* waits, so that nothing puts back what was shown before it.              *)
GoesWrong(i) ==
  \/ Of(i).op \in {"save"} \cup Decisions /\ Of(i).saved
  \/ Of(i).op \in {"accept", "manual"} /\ shown.state # "fresh"
  \/ Of(i).op = "phase" /\ shown.state = "analysing"

(* The ticket is of the revision before; but a save during an automatic    *)
(* analysis needs one more, of the revision this one has published.        *)
Refreshed(i) ==
  refresh /\ (Answer.ctx = ctx \/ (Of(i).op = "automatic" /\ Answer.kind = "ok"))

Accept(i) ==
  /\ Receives(i)
  /\ Carries(Of(i).op, Answer.kind) /\ Accepted(i)
  /\ ctx' = Answer.ctx
  /\ shown' = Shown(i)
  /\ refresh' = Refreshed(i)
  /\ known' = (known \/ GoesWrong(i))
  /\ Done(i)
  /\ UNCHANGED unreported

(* Errors, and answers that are obsolete: an analysis under way puts back  *)
(* what was shown before, unless that is not its business any more; an     *)
(* automatic one that was refused is tried again.                          *)
Drop(i) ==
  /\ Receives(i)
  /\ ~Carries(Of(i).op, Answer.kind) \/ ~Accepted(i)
  /\ Done(i)
  /\ shown' = IF /\ Of(i).op \in {"analyse", "automatic"}
                 /\ IsCurrent(Of(i).ticket) /\ ~Of(i).saved
              THEN [shown EXCEPT !.state = Of(i).before] ELSE shown
  /\ refresh' = (refresh \/ (/\ Of(i).op = "automatic" /\ Answer.kind = "error"
                             /\ IsCurrent(Of(i).ticket)))
  /\ UNCHANGED <<ctx, unreported, known>>

-----------------------------------------------------------------------------
(* Saves, restarts and crashes.                                            *)

(* A source of the project is saved; the report waits for its debounce. A  *)
(* project that is just being opened is not watched yet.                   *)
SaveSource ==
  /\ src < MaxSource /\ src' = src + 1
  /\ unreported' = (unreported \/ Opened)
  /\ known' = (known \/ pend["sel"].op = "open")
  /\ UNCHANGED <<wire, project, cache, head, sessions, life, ctx, pend, shown, refresh>>

ReportSave ==
  /\ unreported /\ unreported' = FALSE
  /\ shown' = IF shown.state = "none" THEN shown ELSE [shown EXCEPT !.state = "stale"]
  /\ pend' = [i \in Slots |-> IF Of(i).op \in Analyses \cup Decisions
                               THEN [pend[i] EXCEPT !.saved = TRUE] ELSE pend[i]]
  /\ refresh' \in {refresh, TRUE}             \* autoAnalyse may be off
  /\ UNCHANGED <<service, ctx, known>>

Reset ==
  /\ ctx' = NoContext /\ shown' = NoModel
  /\ pend' = [i \in Slots |-> NoPending]
  /\ unreported' = FALSE /\ refresh' = FALSE
  /\ UNCHANGED known

(* restartBackend: stdin is closed, everything pending rejected. *)
Restart ==
  /\ Up /\ ~Changing
  /\ EndOfInput
  /\ Reset

(* The service dies, or is killed seven seconds after its input was closed. *)
Killed ==
  /\ project # NoProject \/ life # "up"
  /\ Gone /\ Reset
  /\ UNCHANGED <<disk, sessions>>

ServiceStep == (Worker \/ Exit) /\ UNCHANGED client

Next ==
  \/ \E op \in Commands : Command(op)
  \/ Flush
  \/ OpenProject \/ \E target \in Selections : SelectTarget(target)
  \/ \E op \in {"view"} \cup Decisions : ViewRequest(op)
  \/ Abort
  \/ \E i \in Slots : Accept(i) \/ Drop(i)
  \/ SaveSource \/ ReportSave
  \/ Restart \/ Killed
  \/ ServiceStep

Spec == Init /\ [][Next]_vars

-----------------------------------------------------------------------------
Contexts == [session : 0 .. MaxSessions, rev : 0 .. MaxRevision, target : Selections]
Kinds == {"ok", "error", "stale", "cancelled", "failed", "saved"}

TypeOK ==
  /\ ctx \in Contexts
  /\ ContextOf(project) \in Contexts
  /\ worker.pc \in {"idle", "child", "failed", "reply"} /\ worker.kind \in Kinds
  /\ ops \in [Ids -> {"none", "live", "cancelled"}]
  /\ shown \in [state : {"none", "fresh", "stale", "analysing"}, of : 0 .. MaxSource]
  /\ \A k \in DOMAIN toClient : toClient[k].kind \in Kinds
  /\ life \in {"up", "ended"}
  /\ unreported \in BOOLEAN /\ refresh \in BOOLEAN /\ known \in BOOLEAN

(* Where a request waits, or its answer. *)
Places(i) ==
  Cardinality({k \in DOMAIN queue : queue[k].id = i})
  + (IF worker.r.id = i THEN 1 ELSE 0)
  + Cardinality({k \in DOMAIN toClient : toClient[k].id = i})

(* A request of the extension is on its way, queued, handled or answered,  *)
(* in one place at a time, whatever cancels it: it neither gets lost nor   *)
(* is answered twice.                                                      *)
Conserved == Up => \A i \in Slots : Places(i) = IF Waiting(i) THEN 1 ELSE 0

InStep == Opened /\ ctx = Context

(* As long as the extension holds the identity the service has, it shows   *)
(* the model the service has, and shows it as fresh only if that is not    *)
(* known to be stale: no handler changes the model without a new revision. *)
Agreement ==
  InStep => /\ shown.of = project.of
            /\ shown.state = "fresh" => ~project.stale

(* A model shown as fresh is that of the sources on disk, unless a save    *)
(* is still within its debounce (the ways in which the code loses a save   *)
(* excepted).                                                              *)
FreshIsCurrent ==
  InStep /\ shown.state = "fresh" /\ ~known => project.of = src \/ unreported

(* Between requests the cache on disk is the model the service holds,      *)
(* whichever analysis has been cancelled or has failed over it.            *)
CacheKept == project # NoProject /\ worker.pc \in {"idle", "reply"} => cache.of = project.of
=============================================================================
