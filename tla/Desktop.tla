------------------------------- MODULE Desktop -------------------------------
(***************************************************************************)
(* The window of the ICODA desktop application (icoda.py,                  *)
(* icoda_gui/step_controller.py, troubleshooting.py, tasks.py): one Tk     *)
(* thread runs the callbacks of steps, analyses and recoveries that work   *)
(* on threads of their own, while the developer presses buttons, saves     *)
(* files and opens other projects.                                         *)
(* A callback runs to its end before the next one begins, and calls other  *)
(* handlers on its way: an operator on the window stands for each of them. *)
(* Cancelling is an outcome of a job, and so are uncommitted edits, with   *)
(* the question whether to commit them; the work inside a step is Steps'.  *)
(***************************************************************************)
EXTENDS Naturals, Sequences, SequencesExt

CONSTANTS
  Projects,     \* what the developer opens
  Nil,
  MaxCalls,     \* bound: how often the developer does something
  MaxErrors     \* bound: steps, analyses and callbacks that fail

ASSUME DesktopAssumption == Nil \notin Projects /\ MaxCalls \in Nat /\ MaxErrors \in Nat

VARIABLES
  win,          \* what the Tk thread keeps, and the threads it has started
  calls, errors \* the bounded counters

windowVars == <<win, calls, errors>>

NoProposal == [nr |-> 0, of |-> Nil, ok |-> FALSE]

DesktopInit ==
  /\ win = [project |-> Nil, opened |-> Nil,     \* shown in the title; last analysed
            proposal |-> NoProposal, made |-> 0,
            busy |-> FALSE, byAnalysis |-> FALSE,  \* the step panel's, and whose it is
            recovering |-> FALSE, subject |-> Nil, failures |-> <<>>, drains |-> 0,
            jobs |-> <<>>, inbox |-> <<>>,         \* threads; the queue of their callbacks
            analysing |-> [p \in Projects |-> 0], results |-> <<>>, pending |-> 0, polls |-> 0,
            refresh |-> Nil, timers |-> 0,        \* of the editor's saves
            \* history: two activities have claimed the panel at once; the project
            \* was changed under a step; a step has ended without a word
            crossed |-> FALSE, moved |-> FALSE, stuck |-> FALSE]
  /\ calls = 0 /\ errors = 0

(* A definition X_how is X with one plausible mistake in it: it is used     *)
(* nowhere, and a run that checks a property tells it from X.              *)

(* "propose" stands for what ends with another proposal: rebuilding and     *)
(* adapting too.                                                           *)
StepKinds == {"propose", "approve", "undo", "build", "rephrase"}
Recovery  == {"recover", "talk"}

UnderWay(w, kinds) ==
  \/ \E i \in DOMAIN w.jobs : w.jobs[i].kind \in kinds /\ ~w.jobs[i].stale
  \/ \E i \in DOMAIN w.inbox : w.inbox[i].job.kind \in kinds /\ ~w.inbox[i].job.stale

-----------------------------------------------------------------------------
(* The handlers.                                                           *)

Claim(w)   == [w EXCEPT !.busy = TRUE, !.crossed = @ \/ w.busy]
Release(w) == [w EXCEPT !.busy = FALSE]

Job(w, kind) ==
  [kind |-> kind, root |-> w.project, cand |-> w.proposal.nr, repaired |-> Nil, stale |-> FALSE]
RunAsync(w, job) == [w EXCEPT !.jobs = Append(@, job)]

Deaf_never(job) == job
Deaf(job) == [job EXCEPT !.stale = @ \/ job.kind \in Recovery]
DeafCallback(r) == [r EXCEPT !.job = Deaf(r.job)]

(* Troubleshooting.reset: no recovery under way is heard any more. *)
Reset(w) ==
  [w EXCEPT !.jobs = [i \in DOMAIN @ |-> Deaf(@[i])],
            !.inbox = [i \in DOMAIN @ |-> DeafCallback(@[i])],
            !.failures = <<>>, !.recovering = FALSE, !.subject = Nil,
            !.busy = @ /\ ~w.recovering]

SetProject(w, p) == IF w.subject = p THEN w ELSE [Reset(w) EXCEPT !.subject = p]

(* What belongs to the project shown. *)
Attached(w) ==
  UnderWay(w, StepKinds) \/ w.proposal # NoProposal \/ w.refresh # Nil

(* A late analysis switches the window to its own project. *)
Show(w, p) ==
  SetProject([w EXCEPT !.opened = p, !.project = p,
                       !.moved = @ \/ (w.project # p /\ Attached(w))], p)

SetAnalysing_always(w) == [Claim(w) EXCEPT !.byAnalysis = TRUE, !.crossed = w.crossed]
SetAnalysing(w) == IF w.busy THEN w ELSE [Claim(w) EXCEPT !.byAnalysis = TRUE]
EndAnalysing(w) == IF w.byAnalysis THEN [Release(w) EXCEPT !.byAnalysis = FALSE] ELSE w

(* One poll loop serves every analysis in flight. *)
BeginAnalysis(w, p) ==
  [w EXCEPT !.analysing[p] = @ + 1, !.pending = @ + 1,
            !.polls = IF w.pending = 0 THEN @ + 1 ELSE @]

Close(w, p) ==
  IF w.project = p THEN w
  ELSE [Reset(w) EXCEPT !.proposal = NoProposal, !.refresh = Nil, !.project = p,
                        !.moved = @ \/ UnderWay(w, StepKinds)]

OpenProject(w, p) ==
  IF w.recovering THEN w ELSE BeginAnalysis(SetAnalysing(SetProject(Close(w, p), p)), p)

Reload(w) == IF w.project = Nil \/ w.busy THEN w ELSE OpenProject(w, w.project)

ShowAfterStep(w) == IF w.opened = Nil THEN Reload(w) ELSE Show(w, w.opened)

(* A failure is recovered from once, and then presented; one that comes    *)
(* while another is dealt with waits for it.                               *)
Failure(repaired) == [repaired |-> repaired, of |-> Nil, attempted |-> FALSE]
Presented == [Failure(Nil) EXCEPT !.attempted = TRUE]

Recover(w, f) ==
  IF f.attempted THEN w
  ELSE RunAsync([Claim(w) EXCEPT !.recovering = TRUE],
                [Job(w, "recover") EXCEPT !.repaired = f.repaired])

HandleFailure(w, f) ==
  IF w.recovering THEN [w EXCEPT !.failures = Append(@, [f EXCEPT !.of = w.project])]
  ELSE Recover(SetProject(w, w.project), f)

RecoveryEnds(w) ==
  [Release(w) EXCEPT !.recovering = FALSE, !.drains = IF w.failures = <<>> THEN @ ELSE @ + 1]

(* A save in the editor, or by a conversation, takes the checks of the     *)
(* proposal back; one in the project starts an analysis a little later.    *)
SourceChanged(w, where) ==
  LET v == [w EXCEPT !.proposal.ok = FALSE]
  IN  IF where = "candidate" THEN v
      ELSE [v EXCEPT !.refresh = w.project, !.timers = @ + 1]

-----------------------------------------------------------------------------
(* The ends of the jobs, on the Tk thread.                                 *)

Shown(w, r) ==
  [w EXCEPT !.made = @ + 1,
            !.proposal = [nr |-> w.made + 1, of |-> r.job.root, ok |-> r.outcome = "ok"]]

ShowProposal(w, r) ==
  IF r.outcome = "ok" THEN Shown(w, r) ELSE HandleFailure(Shown(w, r), Failure("proposal"))

Done(w, r) ==
  CASE r.job.kind = "propose" -> ShowProposal(w, r)
    [] r.job.kind = "approve" -> ShowAfterStep([w EXCEPT !.proposal = NoProposal])
    [] r.job.kind = "undo"    -> Reload(w)
    [] r.job.kind = "build"   -> OpenProject(w, r.job.root)

Finished(w, r) ==
  LET v == Release(w)
  IN  CASE r.outcome = "cancelled" -> v
        [] r.outcome = "failed"    -> HandleFailure(v, Failure(Nil))
        [] r.outcome = "provider"  -> HandleFailure(v, Presented)
        [] r.outcome = "gate"      -> HandleFailure(v, Failure("proposal"))
        [] OTHER                   -> Done(v, r)

(* A description of what is not shown any more is dropped, and with it the *)
(* release of the panel.                                                   *)
Rephrased(w, job) ==
  IF w.project # job.root \/ w.proposal.nr # job.cand THEN [w EXCEPT !.stuck = TRUE]
  ELSE Release(w)

Recovered(w, r) ==
  LET v == RecoveryEnds(w)
  IN  CASE r.outcome = "ok" /\ r.job.repaired = "proposal"  -> Shown(v, r)
        [] r.outcome = "ok" /\ r.job.repaired = "show"      -> Show(v, r.job.root)
        [] r.outcome = "bad"       -> Shown(v, r)
        [] r.outcome = "project"   -> SourceChanged(v, "project")
        [] r.outcome = "candidate" /\ v.proposal.nr = r.job.cand -> SourceChanged(v, "candidate")
        [] OTHER -> v

Callback(w, r) ==
  IF r.job.stale THEN w
  ELSE IF r.job.kind \in Recovery THEN Recovered(w, r)
  ELSE IF r.job.kind = "rephrase" THEN Rephrased(w, r.job)
  ELSE Finished(w, r)

-----------------------------------------------------------------------------
(* The developer.                                                          *)

Call == calls < MaxCalls /\ calls' = calls + 1
Trouble == errors < MaxErrors /\ errors' = errors + 1

Open(p) ==
  /\ Call /\ ~win.recovering
  /\ win' = OpenProject(win, p)
  /\ UNCHANGED errors

(* The buttons follow the panel; the menu's entries and Ctrl+Return do not. *)
Enabled(kind) ==
  /\ win.project # Nil
  /\ win.busy => kind \in {"propose", "undo"}
  /\ kind = "rephrase" => win.proposal # NoProposal
  /\ kind = "approve" => win.proposal.ok

Begin(kind) ==
  /\ Call /\ Enabled(kind)
  /\ win' = RunAsync(Claim(win), Job(win, kind))
  /\ UNCHANGED errors

Send ==
  /\ Call /\ ~win.recovering /\ ~win.busy /\ win.subject # Nil
  /\ win' = RunAsync([Claim(win) EXCEPT !.recovering = TRUE], Job(win, "talk"))
  /\ UNCHANGED errors

Save(where) ==
  /\ Call /\ win.project # Nil /\ (where = "candidate" => win.proposal # NoProposal)
  /\ win' = SourceChanged(win, where)
  /\ UNCHANGED errors

-----------------------------------------------------------------------------
(* The threads.                                                            *)

Good(job) ==
  CASE job.kind \in {"propose", "build"} -> {"ok", "cancelled"}
    [] job.kind = "recover" -> {"ok", "none"}
    [] job.kind = "talk"    -> {"none", "project"} \cup (IF job.cand # 0 THEN {"candidate"} ELSE {})
    [] OTHER -> {"ok"}

Bad(job) ==
  CASE job.kind = "propose" -> {"bad", "failed", "provider", "gate"}
    [] job.kind = "build"   -> {"failed", "gate"}
    [] job.kind = "approve" -> {"failed", "gate"}
    [] job.kind = "undo"    -> {"failed"}
    [] job.kind = "recover" -> IF job.repaired = "proposal" THEN {"bad"} ELSE {}
    [] OTHER -> {}

(* _recover_analysis reads the project when it runs. *)
WorkEnds(i) ==
  LET job == [win.jobs[i] EXCEPT !.root = IF win.jobs[i].repaired = "show" THEN win.project ELSE @]
  IN  \E outcome \in Good(job) \cup Bad(job) :
        /\ IF outcome \in Bad(job) THEN Trouble ELSE UNCHANGED errors
        /\ win' = [win EXCEPT !.jobs = RemoveAt(@, i),
                              !.inbox = Append(@, [job |-> job, outcome |-> outcome])]
        /\ UNCHANGED calls

AnalysisEnds(p) ==
  /\ win.analysing[p] > 0
  /\ \E outcome \in {"ok", "failed", "torn"} :
       /\ IF outcome = "ok" THEN UNCHANGED errors ELSE Trouble
       /\ win' = [win EXCEPT !.analysing[p] = @ - 1,
                             !.results = Append(@, [of |-> p, outcome |-> outcome])]
  /\ UNCHANGED calls

-----------------------------------------------------------------------------
(* The Tk thread.                                                          *)

(* UiTasks.drain *)
Drain ==
  /\ win.inbox # <<>>
  /\ win' = Callback([win EXCEPT !.inbox = Tail(@)], Head(win.inbox))
  /\ UNCHANGED <<calls, errors>>

PollAgain_once(w) == FALSE
PollAgain(w) == w.pending > 0

Poll ==
  /\ win.polls > 0 /\ win.results # <<>>
  /\ LET r == Head(win.results)
         v == [win EXCEPT !.results = Tail(@), !.pending = IF @ = 0 THEN 0 ELSE @ - 1]
         o == IF PollAgain(v) THEN v ELSE EndAnalysing([v EXCEPT !.polls = @ - 1])
     IN  win' = CASE r.outcome = "ok"     -> Show(o, r.of)
                  [] r.outcome = "failed" -> HandleFailure(o, Failure("show"))
                  [] r.outcome = "torn"   -> HandleFailure(Show(o, r.of), Failure("show"))
  /\ UNCHANGED <<calls, errors>>

(* _drain_pending: a failure of a project that is not shown is dropped.    *)
DrainPending ==
  /\ win.drains > 0
  /\ LET v == [win EXCEPT !.drains = @ - 1]
         f == Head(v.failures)
         u == [v EXCEPT !.failures = Tail(@)]
         o == IF f.of = u.project THEN HandleFailure(u, f) ELSE u
     IN  win' = IF v.recovering \/ v.failures = <<>> THEN v
                ELSE IF o.recovering \/ o.failures = <<>> THEN o
                ELSE [o EXCEPT !.drains = @ + 1]
  /\ UNCHANGED <<calls, errors>>

(* _refresh_editor_save: it waits for the panel. *)
RefreshEditorSave ==
  /\ win.timers > 0
  /\ LET v == [win EXCEPT !.timers = @ - 1]
     IN  \/ (win.refresh # win.project \/ win.refresh = Nil) /\ win' = v
         \/ /\ win.refresh = win.project /\ win.refresh # Nil /\ ~win.busy
            /\ win' = Reload([v EXCEPT !.refresh = Nil])
  /\ UNCHANGED <<calls, errors>>

(* A callback that raises enters recovery. *)
CallbackError ==
  /\ Trouble
  /\ win' = HandleFailure(win, Failure(Nil))
  /\ UNCHANGED calls

Threads ==
  \/ \E i \in DOMAIN win.jobs : WorkEnds(i)
  \/ \E p \in Projects : AnalysisEnds(p)

Tk == Drain \/ Poll \/ DrainPending \/ RefreshEditorSave

DesktopNext ==
  \/ \E p \in Projects : Open(p)
  \/ \E kind \in StepKinds : Begin(kind)
  \/ Send
  \/ \E where \in {"project", "candidate"} : Save(where)
  \/ Threads \/ Tk \/ CallbackError

(* The Tk thread goes on, a job ends sooner or later; the developer need   *)
(* not do anything.                                                        *)
DesktopFairness == WF_windowVars(Tk) /\ WF_windowVars(Threads)

DesktopSpec == DesktopInit /\ [][DesktopNext]_windowVars
FairSpec    == DesktopSpec /\ DesktopFairness

-----------------------------------------------------------------------------
(* The panel is busy exactly as long as a step, a recovery or an analysis  *)
(* that found it free is under way: nobody releases what another one has   *)
(* claimed (_set_analysing: "its buttons come back only when the step      *)
(* ends"), and nobody leaves it claimed.                                   *)
PanelOwned ==
  ~win.crossed /\ ~win.stuck =>
    (win.busy <=> \/ UnderWay(win, StepKinds \cup Recovery)
                  \/ win.byAnalysis /\ win.pending > 0)

(* The proposal shown, which Approve would promote into the open project,  *)
(* was made in it: the recoveries of a project that is left are not heard, *)
(* and only a step it is left under can bring another's.                   *)
OwnCandidate ==
  ~win.moved /\ win.proposal # NoProposal => win.proposal.of = win.project

(* Every analysis begun is shown or reported, every failure set aside is   *)
(* dealt with, and a save leads to an analysis unless a step has left the  *)
(* panel busy: one chain of callbacks is there for each.                   *)
Served ==
  /\ win.pending > 0 ~> win.pending = 0
  /\ win.failures # <<>> ~> win.failures = <<>>
  /\ win.refresh # Nil ~> win.refresh = Nil \/ win.stuck \/ win.moved
=============================================================================
