-------------------------------- MODULE Steps --------------------------------
(***************************************************************************)
(* ICODA's step engine (icoda_core/steps.py, steplog.py, phases.py,        *)
(* implementation_queue.py, git.py, recovery.py) as its service drives it  *)
(* (service.py).  A provider's proposal is applied, built and tested in a  *)
(* worktree; the developer reviews it; an approval copies it into the      *)
(* project, builds and tests again, logs and commits.  Every write of an   *)
(* operation is one step, may fail, and the service may die before it.     *)
(*                                                                         *)
(* The content of a file is a version number, 0 if there is no such file.  *)
(* A file stands for the functions in it, and for their USRs.              *)
(***************************************************************************)
EXTENDS Naturals, Sequences, FiniteSets, SequencesExt, FiniteSetsExt

CONSTANTS
  N,           \* the source files are 1 .. N, callees before callers
  Missing,     \* those that do not exist at first
  Faults,      \* the writes that may fail; "copy": and leave half a file
  MaxVersion,  \* bound: versions of files
  MaxCommits,  \* bound: commits
  MaxLog,      \* bound: records in the step log
  Fragile,     \* the transactions that may be cut short
  MaxTroubles  \* bound: writes that fail and deaths of the service

ASSUME StepsAssumption ==
  /\ N \in Nat /\ Missing \subseteq 1 .. N
  /\ Faults \subseteq {"promote", "copy", "gates", "state", "log", "stage", "commit"}
  /\ MaxVersion \in Nat \ {0}
  /\ MaxCommits \in Nat /\ MaxLog \in Nat
  /\ MaxTroubles \in Nat

VARIABLES
  commits,    \* the git history: kind, number and tree of each commit
  effect,     \* history: the commits in effect, without what was undone
  code,       \* the project's files: the version of each source file
  log,        \* .icoda/steps.jsonl
  state,      \* .icoda/state.json: phase, queue, cursor, approved approach
  index,      \* the git index: a tree
  worktree,   \* .icoda/worktree: its base commit (0: none) and its files
  journal,    \* interrupted-proposal.json: round "none" if there is none
  job,        \* the service's workflow job and its candidate
  reviewed,   \* the evidence shown by the last proposal.get
  op,         \* the transaction under way: what it has still to do
  version, faults, crashes   \* the bounded counters

git    == <<commits, effect>>
disk   == <<code, log, state, index, git>>
review == <<worktree, journal, job, reviewed>>
bounds == <<version, faults, crashes>>
vars   == <<disk, review, op, bounds>>

Files == 1 .. N
None == "none"

Rounds == {"code", "approach"}
Phases == {"architecture", "implementation"}

Tree == [code |-> code, log |-> log, state |-> state]
HEAD == commits[Len(commits)]
Committed == HEAD.tree

-----------------------------------------------------------------------------
(* The step log                                                            *)

Entry(number, phase, decision, round, touched) ==
  [number |-> number, phase |-> phase, decision |-> decision, round |-> round,
   touched |-> touched]

(* Only code that was committed takes a number. *)
NextNumber_steps(records) ==
  Cardinality({i \in DOMAIN records :
    records[i].round = "code" /\ records[i].decision = "approved"})

NextNumber(records) ==
  LET numbers == {records[i].number : i \in {j \in DOMAIN records :
        records[j].round = "code" /\ records[j].decision \in {"approved", "manual"}}}
  IN  IF numbers = {} THEN 0 ELSE Max(numbers) + 1

Undone(records) ==
  {records[i].number : i \in {j \in DOMAIN records : records[j].decision = "undone"}}

Approved(records) == {i \in DOMAIN records :
  /\ records[i].round = "code" /\ records[i].decision = "approved"
  /\ records[i].number \notin Undone(records)}

StatusRecords(records) ==
  Approved(records) \cup
    {i \in DOMAIN records : records[i].round = "code" /\ records[i].decision = "manual"}

-----------------------------------------------------------------------------
(* The queue of functions to implement; 0 is no function                   *)

(* A function is a stub if an architecture step was the last to touch it.  *)
Pending(f) ==
  LET touching == {i \in StatusRecords(log) : f \in log[i].touched}
  IN  /\ code[f] # 0
      /\ touching # {}
      /\ log[Max(touching)].decision = "approved" /\ log[Max(touching)].phase = "architecture"

Queue[n \in 0 .. N] ==
  IF n = 0 THEN <<>>
  ELSE IF Pending(n) THEN Append(Queue[n - 1], n) ELSE Queue[n - 1]

Ensured(s) ==
  IF s.phase = "implementation" /\ s.queue = <<>> /\ s.cursor = 0
  THEN [s EXCEPT !.queue = Queue[N]] ELSE s

Target(s) ==
  IF s.phase = "implementation" /\ s.cursor < Len(s.queue)
  THEN s.queue[s.cursor + 1] ELSE 0

-----------------------------------------------------------------------------
(* Nothing is under way at first: step 0 is committed (prepare).           *)

NoJob == [state |-> None, round |-> None, number |-> 0, phase |-> None, target |-> 0,
          ok |-> FALSE, base |-> 0, checked |-> <<>>, kind |-> None]
NoJournal == [round |-> None, number |-> 0, phase |-> None, base |-> 0,
              target |-> 0, reply |-> FALSE]
NoWorktree == [base |-> 0, code |-> <<>>]
Unseen == [head |-> 0, tree |-> <<>>, index |-> <<>>, code |-> <<>>]
Idle == [name |-> None, todo |-> <<>>, entry |-> <<>>, state |-> <<>>,
         before |-> <<>>, pending |-> <<>>, shown |-> <<>>]

Architecture == [phase |-> "architecture", queue |-> <<>>, cursor |-> 0, approach |-> 0]

Init ==
  /\ code = [f \in Files |-> IF f \in Missing THEN 0 ELSE 1]
  /\ log = <<Entry(0, "architecture", "approved", "code", Files \ Missing)>>
  /\ state = Architecture
  /\ index = Tree
  /\ commits = <<[kind |-> "step", number |-> 0, tree |-> Tree]>>
  /\ effect = <<[kind |-> "step", number |-> 0, code |-> code]>>
  /\ worktree = NoWorktree /\ journal = NoJournal /\ job = NoJob /\ reviewed = Unseen
  /\ op = Idle
  /\ version = 1 /\ faults = 0 /\ crashes = 0

Free == op = Idle /\ job.state # "running"             \* guard_workflow
Clean == code = Committed.code /\ index.code = code    \* _require_clean
Waiting == worktree.base # 0 \/ journal.round # None   \* workflow_pending
Candidate == job.round # None                          \* review_job

Changed(old, new) == {f \in Files : old[f] # new[f]}

-----------------------------------------------------------------------------
(* The developer, with an editor and with git, while ICODA does nothing    *)
(* that writes to the project.                                             *)

Edit(f) ==
  /\ op = Idle /\ version < MaxVersion /\ version' = version + 1
  /\ code' = [code EXCEPT ![f] = version + 1]
  /\ UNCHANGED <<log, state, index, git, review, op, faults, crashes>>

EditWorktree(f) ==
  /\ op = Idle /\ worktree.base # 0
  /\ version < MaxVersion /\ version' = version + 1
  /\ worktree' = [worktree EXCEPT !.code[f] = version + 1]
  /\ UNCHANGED <<disk, journal, job, reviewed, op, faults, crashes>>

(* A commit takes effect; an undo takes the one before it away.            *)
Committing(kind, number, tree) ==
  /\ commits' = Append(commits, [kind |-> kind, number |-> number, tree |-> tree])
  /\ effect' = IF kind = "undo" THEN Front(effect)
               ELSE Append(effect, [kind |-> kind, number |-> number, code |-> tree.code])

(* git add -A; git commit. *)
CommitByHand ==
  /\ op = Idle /\ Tree # Committed /\ Len(commits) < MaxCommits
  /\ Committing("external", 0, Tree)
  /\ index' = Tree
  /\ UNCHANGED <<code, log, state, review, op, bounds>>

-----------------------------------------------------------------------------
(* workflow.start, and the thread it starts (propose, propose_approach)    *)

Checkpoint(round, reply) ==
  [round |-> round, number |-> NextNumber(log), phase |-> state.phase,
   base |-> Len(commits), target |-> Target(Ensured(state)), reply |-> reply]

Asking(round, candidate) ==
  [candidate EXCEPT !.state = "running", !.kind = round]

(* run_workflow's guards: prepare, _targeted_request and, for code, an     *)
(* approved approach; for an approach, none.                               *)
MayAsk(round) ==
  /\ Clean
  /\ round = "approach" => state.phase = "implementation"
  /\ state.phase = "implementation" =>
       /\ Target(Ensured(state)) # 0
       /\ (state.approach # 0) <=> (round = "code")

Ask(round, candidate) ==
  /\ MayAsk(round)
  /\ state' = Ensured(state)
  /\ worktree' = IF round = "code" THEN [base |-> Len(commits), code |-> Committed.code]
                 ELSE worktree
  /\ journal' = Checkpoint(round, FALSE)
  /\ job' = Asking(round, candidate)
  /\ UNCHANGED <<code, log, index, git, op, bounds>>

Propose(round) == Free /\ ~Waiting /\ Ask(round, NoJob) /\ reviewed' = Unseen

(* A reply: the worktree is reset to HEAD, the files are applied, built and *)
(* tested.  Of up to three attempts only the last leaves a trace; one that *)
(* cannot be read is taken for one that fails its gates.                   *)
CodeProposed(changes, ok) ==
  /\ job.state = "running" /\ job.kind = "code" /\ changes # {}
  /\ version < MaxVersion /\ version' = version + 1
  /\ LET written == [f \in Files |-> IF f \in changes THEN version + 1 ELSE Committed.code[f]]
     IN  /\ worktree' = [base |-> Len(commits), code |-> written]
         /\ job' = [NoJob EXCEPT !.state = "completed", !.round = "code",
                      !.number = journal.number, !.phase = journal.phase,
                      !.target = journal.target, !.ok = ok, !.base = Len(commits),
                      !.checked = written]
  /\ journal' = [journal EXCEPT !.base = Len(commits), !.reply = TRUE]
  /\ UNCHANGED <<disk, reviewed, op, faults, crashes>>

ApproachProposed(ok) ==
  /\ job.state = "running" /\ job.kind = "approach"
  /\ job' = [NoJob EXCEPT !.state = "completed", !.round = "approach",
               !.number = journal.number, !.phase = journal.phase,
               !.target = journal.target, !.ok = ok, !.base = Len(commits)]
  /\ journal' = IF ok THEN [journal EXCEPT !.base = Len(commits), !.reply = TRUE] ELSE journal
  /\ UNCHANGED <<disk, worktree, reviewed, op, bounds>>

(* The provider fails, or the developer cancels: a candidate the job was   *)
(* to adapt or rebuild stays, and so do journal and worktree.              *)
WorkFails ==
  /\ job.state = "running"
  /\ job' = [job EXCEPT !.state = "failed", !.kind = None]
  /\ UNCHANGED <<disk, worktree, journal, reviewed, op, bounds>>

-----------------------------------------------------------------------------
(* The review (review_request): every decision wants clean sources and the *)
(* evidence as the developer saw it.  The evidence names its job, so that  *)
(* no evidence is current once there is another job: Unseen.               *)

Evidence ==
  [head |-> Len(commits), tree |-> Tree, index |-> index, code |-> worktree.code]

View ==
  /\ Free /\ reviewed # Evidence
  /\ reviewed' = Evidence
  /\ UNCHANGED <<disk, worktree, journal, job, op, bounds>>

Seen == reviewed = Evidence

Deciding == Free /\ Candidate /\ Clean /\ Seen /\ Len(log) < MaxLog

Based == job.base = Len(commits)     \* decide_proposal, revise_proposal
Checked_always == TRUE
Checked == job.round = "code" => job.checked = worktree.code

Begin(name, todo, entry, after) ==
  op' = [name |-> name, todo |-> todo, entry |-> entry, state |-> after,
         before |-> [code |-> code, log |-> log, state |-> Ensured(state)],
         pending |-> <<>>, shown |-> reviewed.code]

Advanced_kept(s) == [s EXCEPT !.cursor = @ + 1]
Advanced(s) == [s EXCEPT !.cursor = @ + 1, !.approach = 0]

Approve ==
  /\ Deciding /\ job.round = "code" /\ Checked /\ Based /\ job.ok
  /\ job.phase = state.phase
  /\ job.target = Target(Ensured(state))
  /\ Len(commits) < MaxCommits
  /\ state' = Ensured(state)
  /\ LET touched == Changed(commits[worktree.base].tree.code, worktree.code)
         entry == Entry(job.number, job.phase, "approved", "code", touched)
     IN  IF state.phase = "implementation"
         THEN Begin("approve", <<"promote", "gates", "log", "state", "stage", "commit", "clear", "finish">>,
                    entry, Advanced(Ensured(state)))
         ELSE Begin("approve", <<"promote", "gates", "log", "stage", "commit", "clear", "finish">>,
                    entry, state)
  /\ UNCHANGED <<code, log, index, git, review, bounds>>

ApproveApproach ==
  /\ Deciding /\ job.round = "approach" /\ Based /\ job.ok
  /\ state.phase = "implementation" /\ job.target = Target(Ensured(state))
  /\ state.approach = 0
  /\ state' = Ensured(state)
  /\ Begin("approach", <<"state", "log", "clear", "finish">>,
           Entry(job.number, "implementation", "approved", "approach", {}),
           [Ensured(state) EXCEPT !.approach = job.target])
  /\ UNCHANGED <<code, log, index, git, review, bounds>>

Reject ==
  /\ Deciding
  /\ Begin("reject", <<"log", "clear", "finish">>,
           Entry(job.number, job.phase, "rejected", job.round, {}), state)
  /\ UNCHANGED <<disk, review, bounds>>

Rebuild ==
  /\ Deciding /\ job.round = "code" /\ Based
  /\ job' = Asking("rebuild", job) /\ reviewed' = Unseen
  /\ UNCHANGED <<disk, worktree, journal, op, bounds>>

Rebuilt(ok) ==
  /\ job.state = "running" /\ job.kind = "rebuild"
  /\ job' = [job EXCEPT !.state = "completed", !.kind = None, !.ok = ok,
               !.base = worktree.base, !.checked = worktree.code]
  /\ UNCHANGED <<disk, worktree, journal, reviewed, op, bounds>>

Adapt ==
  /\ Deciding /\ Checked /\ Based /\ (job.round = "code" => job.ok)
  /\ Ask(job.round, job) /\ reviewed' = Unseen

-----------------------------------------------------------------------------
(* Undo, manual edits, phases                                              *)

PendingLog_whole == log
PendingLog == IF IsPrefix(Committed.log, log)
              THEN SubSeq(log, Len(Committed.log) + 1, Len(log)) ELSE <<>>

(* The subject of HEAD must name the step; those of manual and undo commits *)
(* name a step as well.                                                    *)
HeadIs(number) == HEAD.number = number

Undo ==
  /\ Free /\ Clean /\ Seen /\ ~Waiting
  /\ Len(commits) < MaxCommits
  /\ index = Committed            \* bound: nothing was left staged
  /\ Approved(log) # {}
  /\ LET step == log[Max(Approved(log))]
     IN  /\ step.number # 0 /\ HeadIs(step.number)
         /\ op' = [name |-> "undo",
                   todo |-> <<"checkout", "revert", "append", "log", "stage", "commit", "finish">>,
                   entry |-> Entry(step.number, step.phase, "undone", "code", {}),
                   state |-> state, before |-> [code |-> code, log |-> log, state |-> state],
                   pending |-> PendingLog, shown |-> <<>>]
  /\ UNCHANGED <<disk, review, bounds>>

CommitManual ==
  /\ Free /\ Seen /\ ~Waiting
  /\ ~Clean \/ state # Committed.state
  /\ Len(commits) < MaxCommits /\ Len(log) < MaxLog
  /\ Begin("manual", <<"log", "stage", "commit", "finish">>,
           Entry(NextNumber(log), "manual", "manual", "code", Changed(Committed.code, code)), state)
  /\ UNCHANGED <<disk, review, bounds>>

Transition(phase) ==
  /\ Free /\ ~Waiting /\ phase # state.phase /\ Len(log) < MaxLog
  /\ Begin("phase", <<"state", "log", "queue">>,
           Entry(NextNumber(log), phase, "phase_transition", "code", {}),
           [Architecture EXCEPT !.phase = phase])
  /\ UNCHANGED <<disk, review, bounds>>

-----------------------------------------------------------------------------
(* The transaction under way, write by write                               *)

At(step) == op.todo # <<>> /\ Head(op.todo) = step
Done(step) == At(step) /\ op' = [op EXCEPT !.todo = Tail(@)]

(* promote_worktree: the worktree's changes are copied over the project.   *)
Promote ==
  /\ Done("promote")
  /\ code' = [f \in Files |-> IF f \in op.entry.touched THEN worktree.code[f] ELSE code[f]]
  /\ UNCHANGED <<log, state, index, git, review, bounds>>

(* The promoted project is built and tested. *)
Gates ==
  /\ Done("gates")
  /\ UNCHANGED <<disk, review, bounds>>

AppendLog ==
  /\ Done("log")
  /\ log' = Append(log, op.entry)
  /\ UNCHANGED <<code, state, index, git, review, bounds>>

SaveState ==
  /\ Done("state")
  /\ state' = op.state
  /\ UNCHANGED <<code, log, index, git, review, bounds>>

EnsureQueue ==
  /\ At("queue") /\ op' = Idle
  /\ state' = Ensured(state)
  /\ UNCHANGED <<code, log, index, git, review, bounds>>

(* commit_all: git add -A, then git commit. *)
Stage ==
  /\ Done("stage")
  /\ index' = Tree
  /\ UNCHANGED <<code, log, state, git, review, bounds>>

Commit ==
  /\ Done("commit")
  /\ Committing(CASE op.name = "approve" -> "step" [] op.name = "manual" -> "manual"
                  [] OTHER -> "undo", op.entry.number, index)
  /\ UNCHANGED <<code, log, state, index, review, bounds>>

(* decide_proposal removes the worktree, then the journal; finish_review   *)
(* forgets the job.                                                        *)
Clear ==
  /\ Done("clear")
  /\ worktree' = NoWorktree
  /\ UNCHANGED <<disk, journal, job, reviewed, bounds>>

Finish ==
  /\ At("finish") /\ op' = Idle
  /\ journal' = NoJournal /\ job' = NoJob /\ reviewed' = Unseen
  /\ UNCHANGED <<disk, worktree, bounds>>

(* git checkout -- .icoda/steps.jsonl *)
Checkout ==
  /\ Done("checkout")
  /\ log' = index.log
  /\ UNCHANGED <<code, state, index, git, review, bounds>>

(* git revert --no-commit HEAD refuses to overwrite a changed state.json;  *)
(* the error ends the undo.                                                *)
Parent == commits[Len(commits) - 1].tree
Overwrites == state # Committed.state /\ Parent.state # Committed.state

Reverted == Parent.code

Revert ==
  /\ Done("revert") /\ ~Overwrites
  /\ code' = Reverted /\ log' = Parent.log
  /\ state' = IF Parent.state # Committed.state THEN Parent.state ELSE state
  /\ index' = Parent
  /\ UNCHANGED <<git, review, bounds>>

RevertRefused ==
  /\ At("revert") /\ Overwrites
  /\ op' = Idle
  /\ UNCHANGED <<disk, review, bounds>>

(* The pending records are written back. *)
AppendPending == log \o op.pending

WriteBack ==
  /\ Done("append")
  /\ log' = AppendPending
  /\ UNCHANGED <<code, state, index, git, review, bounds>>

-----------------------------------------------------------------------------
(* A write fails.  What the operation takes back depends on the operation. *)

Fails(step) ==
  /\ At(step) /\ step \in Faults /\ op.name \in Fragile
  /\ faults + crashes < MaxTroubles /\ faults' = faults + 1
  /\ op' = Idle

(* promote_worktree takes back what it has copied, but not the file whose  *)
(* copy failed half-way.                                                   *)
PromoteFails == Fails("promote") /\ \E f \in op.entry.touched, torn \in BOOLEAN :
  /\ torn => "copy" \in Faults /\ version < MaxVersion
  /\ version' = IF torn THEN version + 1 ELSE version
  /\ code' = IF torn THEN [code EXCEPT ![f] = version + 1] ELSE code
  /\ index' = Committed
  /\ UNCHANGED <<log, state, git, review, crashes>>

(* rollback_promotion: git checkout -- takes a file from the index; a file *)
(* HEAD does not have is deleted.                                          *)
RolledBack_kept == code
RolledBack == [f \in Files |->
  IF f \notin op.entry.touched THEN code[f]
  ELSE IF Committed.code[f] = 0 THEN 0
  ELSE IF index.code[f] # 0 THEN index.code[f] ELSE code[f]]

Restored_log == op.before.log
Restored_state == op.before.state

ApproveFails ==
  /\ op.name = "approve"
  /\ \E step \in {"gates", "log", "state", "stage", "commit"} : Fails(step)
  /\ code' = RolledBack
  /\ log' = Restored_log /\ state' = Restored_state
  /\ index' = Committed
  /\ UNCHANGED <<git, review, version, crashes>>

(* approve_approach and transition: the state is saved, and taken back if  *)
(* the record cannot be appended.                                          *)
DecisionFails ==
  /\ op.name \in {"approach", "phase"}
  /\ \/ Fails("state") /\ UNCHANGED state
     \/ Fails("log") /\ state' = Restored_state
  /\ UNCHANGED <<code, log, index, git, review, version, crashes>>

(* Nothing is taken back. *)
OtherFails ==
  /\ op.name \in {"reject", "undo", "manual"}
  /\ \E step \in {"log", "stage", "commit"} : Fails(step)
  /\ UNCHANGED <<disk, review, version, crashes>>

(* The service dies: what is on disk stays. *)
Crash ==
  /\ faults + crashes < MaxTroubles /\ crashes' = crashes + 1
  /\ job # NoJob \/ op # Idle
  /\ op # Idle => op.name \in Fragile
  /\ op' = Idle /\ job' = NoJob /\ reviewed' = Unseen
  /\ UNCHANGED <<disk, worktree, journal, version, faults>>

-----------------------------------------------------------------------------
(* recovery.resolve: a proposal without its job                            *)

Recovering == Free /\ ~Candidate /\ Waiting /\ Clean

(* _saved_request, _restore_proposal, _restore_code *)
Restorable ==
  /\ journal.base = Len(commits)
  /\ journal.phase = state.phase /\ journal.number = NextNumber(log)
  /\ journal.round = "code" =>
       /\ worktree.base = Len(commits)
       /\ state.phase = "implementation" => state.approach # 0

(* A reply, or else files in the worktree, make a candidate to be checked. *)
HasContent == journal.reply \/ worktree.code # Committed.code

Resumed == [NoJob EXCEPT !.round = journal.round, !.number = journal.number,
              !.phase = journal.phase, !.target = journal.target, !.base = Len(commits)]

Resume ==
  /\ Recovering /\ journal.round # None /\ Restorable
  /\ job' = IF journal.round = "code" /\ HasContent THEN Asking("rebuild", Resumed)
            ELSE [Resumed EXCEPT !.state = "completed", !.checked = worktree.code,
                    !.ok = journal.round = "approach" /\ journal.reply]
  /\ reviewed' = Unseen
  /\ UNCHANGED <<disk, worktree, journal, op, bounds>>

Discard ==
  /\ Recovering
  /\ worktree' = NoWorktree /\ journal' = NoJournal
  /\ job' = NoJob /\ reviewed' = Unseen
  /\ UNCHANGED <<disk, op, bounds>>

-----------------------------------------------------------------------------

Developer ==
  \/ \E f \in Files : Edit(f) \/ EditWorktree(f)
  \/ CommitByHand

Working ==
  \/ \E round \in Rounds : Propose(round)
  \/ \E changes \in SUBSET Files, ok \in BOOLEAN : CodeProposed(changes, ok)
  \/ \E ok \in BOOLEAN : ApproachProposed(ok) \/ Rebuilt(ok)
  \/ WorkFails
  \/ Resume \/ Discard

Decisions ==
  \/ View \/ Approve \/ ApproveApproach \/ Reject \/ Rebuild \/ Adapt
  \/ Undo \/ CommitManual
  \/ \E phase \in Phases : Transition(phase)

Writing ==
  \/ Promote \/ Gates \/ AppendLog \/ SaveState \/ EnsureQueue \/ Stage \/ Commit
  \/ Clear \/ Finish
  \/ Checkout \/ Revert \/ RevertRefused \/ WriteBack

Failing == PromoteFails \/ ApproveFails \/ DecisionFails \/ OtherFails \/ Crash

Next == Developer \/ Working \/ Decisions \/ Writing \/ Failing

Spec == Init /\ [][Next]_vars

-----------------------------------------------------------------------------
(* Properties                                                              *)

Contents == [Files -> Nat]
Records == [number : Nat, phase : Phases \cup {"manual"},
            decision : {"approved", "rejected", "manual", "undone", "phase_transition"},
            round : Rounds, touched : SUBSET Files]
States  == [phase : Phases, queue : Seq(Files), cursor : Nat, approach : 0 .. N]
Trees   == [code : Contents, log : Seq(Records), state : States]
Kinds   == {"step", "manual", "external", "undo"}
Commits == [kind : Kinds, number : Nat, tree : Trees]
Effects == [kind : Kinds \ {"undo"}, number : Nat, code : Contents]

Unset   == {<<>>}
Writes  == {"promote", "gates", "log", "state", "stage", "commit", "clear", "finish",
            "checkout", "revert", "append", "queue"}
Jobs ==
  [state : {None, "running", "completed", "failed"}, round : Rounds \cup {None}, number : Nat,
   phase : Phases \cup {None}, target : 0 .. N, ok : BOOLEAN, base : Nat,
   checked : Contents \cup Unset, kind : Rounds \cup {"rebuild", None}]
Journals ==
  [round : Rounds \cup {None}, number : Nat, phase : Phases \cup {None}, base : Nat,
   target : 0 .. N, reply : BOOLEAN]
Ops ==
  [name : {None, "approve", "approach", "reject", "undo", "manual", "phase"},
   todo : Seq(Writes), entry : Records \cup Unset, state : States \cup Unset,
   before : Trees \cup Unset, pending : Seq(Records), shown : Contents \cup Unset]

(* The types of the variables. *)
TypeOK ==
  /\ Tree \in Trees /\ index \in Trees
  /\ commits \in Seq(Commits) /\ commits # <<>> /\ effect \in Seq(Effects)
  /\ worktree \in [base : 0 .. Len(commits), code : Contents \cup Unset]
  /\ worktree.base # 0 => worktree.code \in Contents
  /\ journal \in Journals /\ job \in Jobs /\ op \in Ops
  /\ reviewed.code \in Contents \cup Unset
  /\ version \in Nat /\ faults \in Nat /\ crashes \in Nat

(* The git history of the project is a history of steps: approvals and     *)
(* manual commits take growing numbers, an undo takes away the last step   *)
(* only (HANDBOOK.md, "Undo").                                             *)
History == INSTANCE ProjectHistory WITH history <- effect
IsHistory == History!Spec

(* Files, step log and commits agree.  The files at HEAD are those of the  *)
(* last step in effect: an undo has brought back exactly what was there    *)
(* before the step it names, and a second undo does not bring back what    *)
(* the first took away.  Every step in effect has its record in the        *)
(* committed log, whose numbers grow, and if the service never died, the   *)
(* log has no other approved steps.                                        *)
LogMatchesCommits ==
  LET logged == {i \in DOMAIN Committed.log :
                  Committed.log[i].round = "code" /\ Committed.log[i].decision = "approved"}
      numbers == {Committed.log[i].number : i \in logged}
      made == {effect[i].number : i \in {j \in DOMAIN effect : effect[j].kind = "step"}}
  IN  /\ Last(effect).code = Committed.code
      /\ \A i, j \in logged : i < j => Committed.log[i].number < Committed.log[j].number
      /\ made \subseteq numbers
      /\ crashes = 0 => made = numbers

(* An approval commits the candidate that passed its gates and that the    *)
(* developer was shown, whatever was edited, committed, rebuilt, adapted   *)
(* or recovered since it was proposed.                                     *)
CommitsWhatWasReviewed == [][
  commits' # commits /\ op.name = "approve" =>
    /\ job.ok
    /\ commits'[Len(commits')].tree.code = job.checked
    /\ commits'[Len(commits')].tree.code = op.shown]_vars

(* An approval that fails takes everything back: sources, log and state    *)
(* are what they were before it (test_step_results.py,                     *)
(* test_approval_metadata_or_commit_failure_restores_the_entire_project).  *)
ApprovalRestores == [][
  op.name = "approve" /\ ~At("finish") /\ op' = Idle /\ crashes' = crashes =>
    /\ code' = op.before.code /\ log' = op.before.log /\ state' = op.before.state
    /\ index' = Committed /\ commits' = commits]_vars

(* An approved approach is for the function that is implemented next: no   *)
(* approval, undo, phase or recovery leaves the plan for another one.      *)
ApproachFits ==
  op = Idle /\ state.approach # 0 => state.approach = Target(state)
=============================================================================
