------------------------------ MODULE Retarget ------------------------------
(***************************************************************************)
(* A job and the approved versions of its specification                    *)
(* (specification_compiler.py, specification_workflow.py): the job is made *)
(* formal with one version, which compiles to its manifest, and retargeted *)
(* to newer ones.  A retarget resets the verification of the cases whose   *)
(* contract has changed and queues a task for them.  Worker and controller *)
(* go on meanwhile; what they do beyond the manifest is in Verification.   *)
(*                                                                         *)
(* A status is what it is compared for here: "open" is that of a case that  *)
(* has not passed, realized or not.  All cases block.                      *)
(*                                                                         *)
(* As in Specification, what db.transaction brackets begins with its first *)
(* write: operations are divided at their queries, artifacts and commits.  *)
(* A version is known by the contract of each of its cases; a case that a  *)
(* changed requirement, risk or decision affects has another contract.     *)
(***************************************************************************)
EXTENDS Naturals, Sequences, FiniteSets, TLC

CONSTANTS
  Clients,      \* the programs that attach and retarget
  Cases,        \* verification cases
  Texts,        \* contracts a case can have
  Stable,       \* bound: cases that all versions state alike
  MaxVersion,   \* bound: approved versions
  MaxRuns,      \* bound: worker runs
  MaxDeaths     \* bound: artifacts left by clients killed while they write

ASSUME RetargetAssumption ==
  /\ Stable \subseteq Cases /\ MaxVersion \in Nat \ {0}
  /\ MaxRuns \in Nat /\ MaxDeaths \in Nat

VARIABLES
  contract,   \* per version that is or will be approved: its cases' contracts
  job,        \* jobs: status and pinned version, 0 of a Quick Goal job
  base,       \* verification_manifests: the version of the job's row, or 0
  revisions,  \* verification_manifest_revisions: versions, in order
  files,      \* artifacts: of the manifest, its revisions and the impacts
  state,      \* job_verification_states
  rep,        \* verification_repetitions: the last one of each case
  tasks,      \* the worker's stream: the cases each task selects
  op,         \* what each client does
  wkr,        \* the worker
  ctl,        \* the controller
  runs,       \* bound
  lost,       \* history: artifacts whose writer died before its commit
  passes,     \* history: the case, contract and run of every repetition passed
  raced       \* history: a retarget has come between the worker's or the
              \* controller's look at the manifest and its last use of it

manifest == <<job, base, revisions>>
loop     == <<tasks, wkr, ctl, runs>>
history  == <<lost, passes, raced>>
vars == <<contract, manifest, files, state, rep, op, loop, history>>

None == "none"
Same == "same"   \* the contract of a stable case
Approved == 1 .. MaxVersion

(* active_verification_manifest_row *)
Active == IF revisions = <<>> THEN base ELSE revisions[Len(revisions)]

Of(v) == {c \in Cases : contract[v][c] # None}

Idle    == [name |-> None, at |-> "end", v |-> 0, from |-> 0, revision |-> 0]
Resting == [at |-> "idle", v |-> 0, known |-> {}, todo |-> {}, case |-> None,
            attempt |-> 0, run |-> 0]
Waiting == [at |-> "idle", v |-> 0, known |-> {}, run |-> 0]

Contracts == [Cases -> Texts \cup {Same, None}]

(* A job is a Quick Goal job, or an old formal one that has no manifest yet. *)
Init ==
  /\ contract \in [Approved -> Contracts]
  /\ \A v \in Approved : Of(v) # {}
  /\ \A v \in Approved, c \in Cases : contract[v][c] = Same <=> c \in Stable
  /\ job \in {[status |-> "active", pin |-> 0], [status |-> "active", pin |-> 1]}
  /\ base = 0 /\ revisions = <<>> /\ files = {}
  /\ state = [c \in Cases |-> [status |-> None, offset |-> 0]]
  /\ rep = [c \in Cases |-> [attempt |-> 0, passed |-> FALSE, run |-> 0]]
  /\ tasks = <<>>
  /\ op = [p \in Clients |-> Idle]
  /\ wkr = Resting /\ ctl = Waiting /\ runs = 0
  /\ lost = {} /\ passes = {} /\ raced = FALSE

(* A definition X_how is X with one plausible mistake in it: it is used     *)
(* nowhere, and a run that checks a property tells it from X.              *)

Step(p, place) == op' = [op EXCEPT ![p].at = place]
End(p) == op' = [op EXCEPT ![p] = Idle]
Artifact(kind, v, from) == [kind |-> kind, v |-> v, from |-> from]
Manifest == Artifact("manifest", 0, 0)

-----------------------------------------------------------------------------
(* attach_approved_specification, and _backfill of a pinned job            *)

Attach(p) ==
  /\ op[p] = Idle /\ base = 0
  /\ \E v \in Approved :
       /\ job.pin \in {0, v}
       /\ op' = [op EXCEPT ![p] = [Idle EXCEPT !.name = "attach", !.v = v, !.at = "manifest"]]
  /\ UNCHANGED <<contract, manifest, files, state, rep, loop, history>>

WriteManifest(p) ==
  /\ op[p].at = "manifest"
  /\ IF Manifest \in files THEN End(p) /\ UNCHANGED files
     ELSE Step(p, "attach") /\ files' = files \cup {Manifest}
  /\ UNCHANGED <<contract, manifest, state, rep, loop, history>>

(* The cases of a new manifest have not been realized; the first task of    *)
(* the job, which its controller now plans, selects all of them.           *)
Attached(p) ==
  /\ job' = [job EXCEPT !.pin = op[p].v] /\ base' = op[p].v
  /\ state' = [c \in Cases |->
       [status |-> IF c \in Of(op[p].v) THEN "open" ELSE None, offset |-> 0]]
  /\ tasks' = <<Of(op[p].v)>>
  /\ UNCHANGED <<revisions, files>>

CommitAttach(p) ==
  /\ op[p].at = "attach" /\ End(p)
  /\ IF job.pin \in {0, op[p].v} /\ base = 0 THEN Attached(p)
     ELSE files' = files \ {Manifest} /\ UNCHANGED <<manifest, state, tasks>>
  /\ UNCHANGED <<contract, rep, wkr, ctl, runs, history>>

-----------------------------------------------------------------------------
(* retarget_approved_revision                                              *)

(* A retarget while the worker's agent is at work is noticed.              *)
MidUse == wkr.at \in {"load", "verify", "execute", "record"} \/ ctl # Waiting

(* The present manifest and the newer version are loaded and compared.     *)
Retarget(p) ==
  /\ op[p] = Idle /\ base # 0
  /\ \E v \in Approved :
       /\ v > Active
       /\ op' = [op EXCEPT ![p] = [name |-> "retarget", at |-> "revision", v |-> v,
                                   from |-> Active, revision |-> Len(revisions) + 1]]
  /\ UNCHANGED <<contract, manifest, files, state, rep, loop, history>>

Affected_since_attached(v, w) == {c \in Of(w) : contract[base][c] # contract[w][c]}

(* affected_verification_ids *)
Affected(v, w) == {c \in Of(w) : contract[v][c] # contract[w][c]}

Revision(p) == Artifact("revision", op[p].v, 0)
Impact(p)   == Artifact("impact", op[p].v, op[p].from)

WriteRevision(p) ==
  /\ op[p].at = "revision"
  /\ IF Revision(p) \in files THEN End(p) /\ UNCHANGED files
     ELSE Step(p, "impact") /\ files' = files \cup {Revision(p)}
  /\ UNCHANGED <<contract, manifest, state, rep, loop, history>>

WriteImpact(p) ==
  /\ op[p].at = "impact"
  /\ IF Impact(p) \in files THEN End(p) /\ files' = files \ {Revision(p)}
     ELSE Step(p, "check") /\ files' = files \cup {Impact(p)}
  /\ UNCHANGED <<contract, manifest, state, rep, loop, history>>

Unlinked_revision(p) == End(p) /\ files' = files \ {Revision(p)}

Unlinked(p) == End(p) /\ files' = files \ {Revision(p), Impact(p)}

(* The pin must still be the one the impact was computed from.             *)
CheckPin(p) ==
  /\ op[p].at = "check"
  /\ IF job.pin = op[p].from /\ Active = op[p].from
     THEN Step(p, "commit") /\ UNCHANGED files ELSE Unlinked(p)
  /\ UNCHANGED <<contract, manifest, state, rep, loop, history>>

(* _retarget_verification_states *)
Retargeted(c, v, affected) ==
  IF c \notin Of(v)
  THEN IF state[c].status = None THEN state[c] ELSE [state[c] EXCEPT !.status = "retired"]
  ELSE IF c \in affected \/ state[c].status = None
       THEN [status |-> "open", offset |-> rep[c].attempt]
       ELSE state[c]

(* The primary key of the revisions refuses a number, and their unique      *)
(* version a second row, that another retarget has taken.                  *)
Revised(p) ==
  /\ op[p].revision = Len(revisions) + 1
  /\ \A i \in 1 .. Len(revisions) : revisions[i] # op[p].v

CommitRetarget(p) ==
  LET v == op[p].v
      affected == Affected(op[p].from, v)
  IN
  /\ op[p].at = "commit" /\ Revised(p)
  /\ revisions' = Append(revisions, v)
  /\ job' = [pin |-> v, status |-> IF affected = {} THEN job.status ELSE "active"]
  /\ state' = [c \in Cases |-> Retargeted(c, v, affected)]
  /\ IF affected = {} THEN End(p) ELSE Step(p, "publish")
  /\ raced' = (raced \/ MidUse)
  /\ UNCHANGED <<contract, base, files, rep, loop, lost, passes>>

RefuseRetarget(p) ==
  /\ op[p].at = "commit" /\ ~Revised(p) /\ Unlinked(p)
  /\ UNCHANGED <<contract, manifest, state, rep, loop, history>>

(* A publication that fails is repeated with publish_task: it is late.     *)
Publish(p) ==
  /\ op[p].at = "publish" /\ End(p)
  /\ tasks' = Append(tasks, Affected(op[p].from, op[p].v))
  /\ UNCHANGED <<contract, manifest, files, state, rep, wkr, ctl, runs, history>>

Written(p) ==
  IF op[p].at = "attach" THEN {Manifest}
  ELSE IF op[p].at = "impact" THEN {Revision(p)}
  ELSE IF op[p].at \in {"check", "commit"} THEN {Revision(p), Impact(p)}
  ELSE {}

Die(p) ==
  /\ Written(p) # {} /\ Cardinality(lost) < MaxDeaths /\ End(p)
  /\ lost' = lost \cup Written(p)
  /\ UNCHANGED <<contract, manifest, files, state, rep, loop, passes, raced>>

-----------------------------------------------------------------------------
(* The worker and the controller load the manifest and the statuses of its  *)
(* cases, and write these again after a look at the worktree.  What runs a  *)
(* case that has passed is still there.                                    *)

Passing(v) == {c \in Of(v) : state[c].status = "passing"}

Refreshed(v, known) ==
  state' = [c \in Cases |->
    IF c \in Of(v) THEN [state[c] EXCEPT !.status = IF c \in known THEN "passing" ELSE "open"]
    ELSE state[c]]

-----------------------------------------------------------------------------
(* The worker: its agent works, the manifest is compared once, and then the *)
(* task's cases are verified, each with one repetition.                    *)

Take ==
  /\ wkr = Resting /\ tasks # <<>> /\ job.status = "active" /\ runs < MaxRuns
  /\ runs' = runs + 1 /\ tasks' = Tail(tasks)
  /\ wkr' = [Resting EXCEPT !.at = "load", !.v = Active, !.known = Passing(Active),
                            !.todo = Head(tasks), !.run = runs + 1]
  /\ UNCHANGED <<contract, manifest, files, state, rep, op, ctl, history>>

Load ==
  /\ wkr.at = "load" /\ wkr' = [wkr EXCEPT !.at = "agent", !.known = {}]
  /\ Refreshed(wkr.v, wkr.known)
  /\ UNCHANGED <<contract, manifest, files, rep, tasks, op, ctl, runs, history>>

(* A manifest that has changed meanwhile, or a task with a case it does not *)
(* have, is an error that ends the job.                                    *)
AgentDone ==
  /\ wkr.at = "agent"
  /\ IF wkr.v = Active /\ wkr.todo \subseteq Of(Active)
     THEN wkr' = [wkr EXCEPT !.at = "verify"] /\ UNCHANGED job
     ELSE wkr' = Resting /\ job' = [job EXCEPT !.status = "dead"]
  /\ UNCHANGED <<contract, base, revisions, files, state, rep, tasks, op, ctl, runs, history>>

Begin ==   \* in the manifest's order
  /\ wkr.at = "verify" /\ wkr.todo # {}
  /\ LET c == CHOOSE c \in wkr.todo : TRUE IN
       wkr' = [wkr EXCEPT !.at = "execute", !.case = c, !.attempt = rep[c].attempt + 1,
                         !.todo = @ \ {c}]
  /\ UNCHANGED <<contract, manifest, files, state, rep, tasks, op, ctl, runs, history>>

Executed ==   \* under the contract of the manifest the worker holds
  /\ wkr.at = "execute" /\ wkr' = [wkr EXCEPT !.at = "record"]
  /\ \E passed \in BOOLEAN :
       /\ rep' = [rep EXCEPT ![wkr.case] =
            [attempt |-> wkr.attempt, passed |-> passed, run |-> wkr.run]]
       /\ passes' = passes \cup IF passed
            THEN {<<wkr.case, contract[wkr.v][wkr.case], wkr.run>>} ELSE {}
  /\ UNCHANGED <<contract, manifest, files, state, tasks, op, ctl, runs, lost, raced>>

Recorded ==
  /\ wkr.at = "record" /\ wkr' = [wkr EXCEPT !.at = "verify", !.case = None, !.attempt = 0]
  /\ state' = [state EXCEPT ![wkr.case].status =
       IF rep[wkr.case].passed THEN "passing" ELSE "open"]
  /\ UNCHANGED <<contract, manifest, files, rep, tasks, op, ctl, runs, history>>

Finish ==   \* and the review is requested
  /\ wkr.at = "verify" /\ wkr.todo = {} /\ ctl = Waiting
  /\ wkr' = Resting /\ ctl' = [Waiting EXCEPT !.at = "read", !.run = wkr.run]
  /\ UNCHANGED <<contract, manifest, files, state, rep, tasks, op, runs, history>>

-----------------------------------------------------------------------------
(* The controller's review: the statuses are refreshed, then summarized,   *)
(* and the answer applied.                                                 *)

ReadStates ==
  /\ ctl.at = "read"
  /\ ctl' = [ctl EXCEPT !.at = "write", !.v = Active, !.known = Passing(Active)]
  /\ UNCHANGED <<contract, manifest, files, state, rep, tasks, op, wkr, runs, history>>

WriteStates ==
  /\ ctl.at = "write" /\ ctl' = [ctl EXCEPT !.at = "summarize"]
  /\ Refreshed(ctl.v, ctl.known)
  /\ UNCHANGED <<contract, manifest, files, rep, tasks, op, wkr, runs, history>>

Fresh_of_any_run(c) ==
  state[c].status = "passing" /\ rep[c].attempt > state[c].offset /\ rep[c].passed

(* evidence_freshness: only attempts after the offset count.               *)
Fresh(c) ==
  /\ state[c].status = "passing"
  /\ rep[c].attempt > state[c].offset /\ rep[c].passed /\ rep[c].run = ctl.run

Summarize ==
  /\ ctl.at = "summarize"
  /\ ctl' = [ctl EXCEPT !.at = "decide", !.known = {c \in Of(ctl.v) : Fresh(c)}]
  /\ UNCHANGED <<contract, manifest, files, state, rep, tasks, op, wkr, runs, history>>

(* The completion gate, for cases that all block.                          *)
Done ==
  /\ ctl.at = "decide" /\ Of(ctl.v) \subseteq ctl.known
  /\ job' = [job EXCEPT !.status = "done"] /\ ctl' = Waiting
  /\ UNCHANGED <<contract, base, revisions, files, state, rep, tasks, op, wkr, runs, history>>

Continue ==
  /\ ctl.at = "decide" /\ ctl' = Waiting
  /\ \E cases \in SUBSET Of(ctl.v) \ {{}} : tasks' = Append(tasks, cases)
  /\ UNCHANGED <<contract, manifest, files, state, rep, op, wkr, runs, history>>

-----------------------------------------------------------------------------
Attaching(p)   == Attach(p) \/ WriteManifest(p) \/ CommitAttach(p)
Retargeting(p) ==
  \/ Retarget(p) \/ WriteRevision(p) \/ WriteImpact(p) \/ CheckPin(p)
  \/ CommitRetarget(p) \/ RefuseRetarget(p) \/ Publish(p)
Worker     == Take \/ Load \/ AgentDone \/ Begin \/ Executed \/ Recorded \/ Finish
Controller == ReadStates \/ WriteStates \/ Summarize \/ Done \/ Continue

Next ==
  \/ \E p \in Clients : Attaching(p) \/ Retargeting(p) \/ Die(p)
  \/ Worker \/ Controller

Spec == Init /\ [][Next]_vars

Symmetry == Permutations(Clients) \cup Permutations(Texts)

-----------------------------------------------------------------------------
(* The pinned version is always the active manifest's, as it was approved;  *)
(* every manifest a row names has its artifact, and no artifact is without  *)
(* a row but those of an operation under way or of one that died.          *)
PinIsManifest ==
  /\ base # 0 => job.pin = Active /\ Active \in Approved /\ Manifest \in files
  /\ \A v \in Approved :
       (\E i \in 1 .. Len(revisions) : revisions[i] = v) => Artifact("revision", v, 0) \in files
  /\ \A f \in files :
       \/ f = Manifest /\ base # 0
       \/ \E i \in 1 .. Len(revisions) :
            /\ f.v = revisions[i]
            /\ f.kind = "impact" => f.from = IF i = 1 THEN base ELSE revisions[i - 1]
       \/ f \in lost \/ \E p \in Clients : f \in Written(p)

(* A case of the pinned version that is passing has passed under the        *)
(* contract the pinned version states: what a retarget keeps is what it did *)
(* not change, and what it resets stays so until it has passed again.      *)
PassingIsCurrent ==
  base # 0 /\ ~raced => \A c \in Passing(Active) :
    \E run \in 1 .. MaxRuns : <<c, contract[Active][c], run>> \in passes

(* A job that is done has passed, in one run, every case of the version it  *)
(* is pinned to, as that version states it.                                *)
DoneIsVerified ==
  job.status = "done" /\ ~raced => \E run \in 1 .. MaxRuns :
    \A c \in Of(Active) : <<c, contract[Active][c], run>> \in passes

=============================================================================
