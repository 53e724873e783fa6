------------------------------ MODULE Promotion ------------------------------
(***************************************************************************)
(* The promotion of a finished job (controller.py: finish_done_job,        *)
(* promote_successful_worktree, validate_promoted_checkout,                *)
(* rollback_promoted_checkout): the paths the job changed in its worktree  *)
(* are copied into the operator's checkout, which is validated and, if     *)
(* that fails, rolled back for a repair of the job.  The operator may edit *)
(* and commit in the checkout all the time; the controller may die at any  *)
(* step, and its request is delivered again.                               *)
(*                                                                         *)
(* A path's content is what HEAD had ("base"), what a run of the worker    *)
(* has written, the operator's, nothing ("absent"), or half of a copy.     *)
(***************************************************************************)
EXTENDS Naturals, FiniteSets

CONSTANTS
  N,           \* the paths are 1 .. N, in the order git lists them
  Tracked,     \* those HEAD contains
  Versions,    \* what worker runs write
  MaxRuns,     \* bound: worker runs
  MaxEdits,    \* bound: the operator's edits and commits
  MaxCrashes,  \* bound: deaths of the controller during a promotion
  Failures     \* whether file operations may fail

Special == {"base", "absent", "user", "partial"}

ASSUME PromotionAssumption ==
  /\ N \in Nat /\ Tracked \subseteq 1 .. N
  /\ Versions \cap Special = {}
  /\ MaxRuns \in Nat /\ MaxEdits \in Nat /\ MaxCrashes \in Nat
  /\ Failures \in BOOLEAN

VARIABLES
  worktree,   \* the job's worktree: the content of each path
  target,     \* the operator's checkout: the content of each path
  head,       \* its HEAD commit: the content of each path
  pc,         \* the job: where the controller is, or "work", or "done"
  todo,       \* the paths the loop under way has still to visit
  present,    \* already_present: changed paths the checkout has already
  conflict,   \* locally_changed, and in the end those of them that conflict
  applied,    \* the paths copied or removed by this promotion
  failures,   \* those it could not take back
  runs, edits, crashes,   \* the bounded counters
  edited,     \* history: paths the operator has edited
  own,        \* history: paths with an uncommitted edit of the operator's own
  raced,      \* history: the operator edited a path about to be written
  broken      \* history: a promotion died or failed with a path in between

repo == <<worktree, target, head>>
locals == <<todo, present, conflict, applied, failures>>
past == <<edited, own, raced, broken>>
bounds == <<runs, edits, crashes>>
promotionVars == <<repo, pc, locals, bounds, past>>

Paths    == 1 .. N
Base     == [p \in Paths |-> IF p \in Tracked THEN "base" ELSE "absent"]
Contents == Versions \cup Special

(* What a run may leave: a version, or the path as it was, or removed.     *)
Results(p) == Versions \cup {Base[p], "absent"}

PromotionInit ==
  /\ worktree = Base /\ target = Base /\ head = Base
  /\ pc = "work"
  /\ todo = {} /\ present = {} /\ conflict = {} /\ applied = {} /\ failures = {}
  /\ runs = 0 /\ edits = 0 /\ crashes = 0
  /\ edited = {} /\ own = {} /\ raced = FALSE /\ broken = FALSE

(* A definition X_how is X with one plausible mistake in it: it is used     *)
(* nowhere, and a run that checks a property tells it from X.              *)

Changed_tracked == {p \in Tracked : worktree[p] # Base[p]}
Changed == {p \in Paths : worktree[p] # Base[p]}   \* status_paths
Dirty(p) == target[p] # head[p]                    \* repo_has_local_change
Matches_always(p) == TRUE
Matches(p) == target[p] = worktree[p]              \* promotion_path_matches

First(S) == CHOOSE p \in S : \A q \in S : p <= q

-----------------------------------------------------------------------------
(* The worker's run, and the review of it.                                 *)

WorkerRun(result) ==
  /\ pc = "work" /\ runs < MaxRuns /\ runs' = runs + 1
  /\ worktree' = result
  /\ pc' = "asked"
  /\ UNCHANGED <<target, head, locals, edits, crashes, past>>

(* The review wants more work, or says DONE. *)
Continue ==
  /\ pc = "asked" /\ pc' = "work"
  /\ UNCHANGED <<repo, locals, bounds, past>>

BeginPromotion ==
  /\ pc = "asked" /\ Changed # {}
  /\ pc' = "scan" /\ todo' = Changed
  /\ present' = {} /\ conflict' = {} /\ applied' = {} /\ failures' = {}
  /\ UNCHANGED <<repo, bounds, past>>

NothingToPromote ==
  /\ pc = "asked" /\ Changed = {}
  /\ pc' = "done"
  /\ UNCHANGED <<repo, locals, bounds, past>>

-----------------------------------------------------------------------------
(* promote_successful_worktree                                             *)

(* First all paths are asked for local changes, ...                        *)
Scan ==
  /\ pc = "scan" /\ todo # {}
  /\ LET p == First(todo)
     IN  /\ todo' = todo \ {p}
         /\ conflict' = conflict \cup {q \in {p} : Dirty(q)}
  /\ UNCHANGED <<repo, pc, present, applied, failures, bounds, past>>

Scanned ==
  /\ pc = "scan" /\ todo = {}
  /\ pc' = "compare" /\ todo' = conflict
  /\ UNCHANGED <<repo, present, conflict, applied, failures, bounds, past>>

(* ... then those that have some are compared with the worktree.           *)
Compare ==
  /\ pc = "compare" /\ todo # {}
  /\ LET same == {q \in {First(todo)} : Matches(q)}
     IN  present' = present \cup same /\ conflict' = conflict \ same
  /\ todo' = todo \ {First(todo)}
  /\ UNCHANGED <<repo, pc, applied, failures, bounds, past>>

(* PromotionError: the controller is asked for a repair. *)
Refuse ==
  /\ pc = "compare" /\ todo = {} /\ conflict # {}
  /\ pc' = "work"
  /\ UNCHANGED <<repo, locals, bounds, past>>

Skipped == present

(* promotion_started is recorded, then the paths are copied one by one. *)
BeginCopy ==
  /\ pc = "compare" /\ todo = {} /\ conflict = {}
  /\ pc' = "copy" /\ todo' = Changed \ Skipped
  /\ UNCHANGED <<repo, present, conflict, applied, failures, bounds, past>>

Put(p, content) == target' = [target EXCEPT ![p] = content]

Remove ==
  /\ pc = "copy" /\ todo # {} /\ worktree[First(todo)] = "absent"
  /\ Put(First(todo), "absent")
  /\ todo' = todo \ {First(todo)} /\ applied' = applied \cup {First(todo)}
  /\ UNCHANGED <<worktree, head, pc, present, conflict, failures, bounds, past>>

BeginWrite ==
  /\ pc = "copy" /\ todo # {} /\ worktree[First(todo)] # "absent"
  /\ Put(First(todo), "partial")
  /\ pc' = "writing"
  /\ UNCHANGED <<worktree, head, locals, bounds, past>>

FinishWrite ==
  /\ pc = "writing"
  /\ Put(First(todo), worktree[First(todo)])
  /\ pc' = "copy"
  /\ todo' = todo \ {First(todo)} /\ applied' = applied \cup {First(todo)}
  /\ UNCHANGED <<worktree, head, present, conflict, failures, bounds, past>>

(* The applied paths are taken back; the one in flight is not among them.  *)
CopyFails ==
  /\ Failures /\ pc \in {"copy", "writing"} /\ todo # {}
  /\ pc' = "undo" /\ todo' = applied
  /\ broken' = (broken \/ pc = "writing")
  /\ UNCHANGED <<repo, present, conflict, applied, failures, bounds, edited, own, raced>>

(* git checkout of a tracked path; a path HEAD has not is removed. *)
Original(p) == head[p]

Undo ==
  /\ pc = "undo" /\ todo # {}
  /\ Put(First(todo), Original(First(todo)))
  /\ todo' = todo \ {First(todo)}
  /\ UNCHANGED <<worktree, head, pc, present, conflict, applied, failures, bounds, past>>

(* git fails (its index is locked, say): the path is removed, which undoes *)
(* a copy of a new path only; or not even that can be done.                *)
UndoFails ==
  /\ Failures /\ pc = "undo" /\ todo # {}
  /\ LET p == First(todo)
     IN  /\ \/ Put(p, "absent") /\ UNCHANGED failures
            \/ failures' = failures \cup {p} /\ UNCHANGED target
         /\ todo' = todo \ {p}
  /\ broken' = TRUE
  /\ UNCHANGED <<worktree, head, pc, present, conflict, applied, bounds, edited, own, raced>>

Undone ==
  /\ pc = "undo" /\ todo = {}
  /\ pc' = "work"
  /\ UNCHANGED <<repo, locals, bounds, past>>

Copied ==
  /\ pc = "copy" /\ todo = {}
  /\ pc' = "validate"
  /\ UNCHANGED <<repo, locals, bounds, past>>

-----------------------------------------------------------------------------
(* validate_promoted_checkout, rollback_promoted_checkout                  *)

ValidationPasses ==
  /\ pc = "validate" /\ pc' = "done"
  /\ UNCHANGED <<repo, locals, bounds, past>>

ToRollBack_copied == {p \in applied : worktree[p] # "absent"}
ToRollBack == applied

ValidationFails ==
  /\ pc = "validate" /\ pc' = "rollback"
  /\ todo' = ToRollBack
  /\ UNCHANGED <<repo, present, conflict, applied, failures, bounds, past>>

(* A path that is not as it was copied is left for the recovery. *)
Match ==
  /\ pc = "rollback" /\ todo # {}
  /\ LET p == First(todo)
     IN  IF Matches(p)
         THEN pc' = "restore" /\ UNCHANGED <<todo, failures>>
         ELSE todo' = todo \ {p} /\ failures' = failures \cup {p} /\ UNCHANGED pc
  /\ UNCHANGED <<repo, present, conflict, applied, bounds, past>>

Restore ==
  /\ pc = "restore"
  /\ Put(First(todo), Original(First(todo)))
  /\ pc' = "rollback" /\ todo' = todo \ {First(todo)}
  /\ UNCHANGED <<worktree, head, present, conflict, applied, failures, bounds, past>>

(* git fails: a copied path is removed, or else the path has failed.       *)
RestoreFails ==
  /\ Failures /\ pc = "restore"
  /\ LET p == First(todo)
     IN  /\ \/ worktree[p] # "absent" /\ Put(p, "absent") /\ UNCHANGED failures
            \/ failures' = failures \cup {p} /\ UNCHANGED target
         /\ todo' = todo \ {p}
  /\ pc' = "rollback" /\ broken' = TRUE
  /\ UNCHANGED <<worktree, head, present, conflict, applied, bounds, edited, own, raced>>

(* git cannot be run at all: no path that is left is taken back. *)
RollbackFails ==
  /\ Failures /\ pc \in {"rollback", "restore"} /\ todo # {}
  /\ failures' = applied
  /\ pc' = "work" /\ todo' = {}
  /\ broken' = TRUE
  /\ UNCHANGED <<repo, present, conflict, applied, bounds, edited, own, raced>>

RolledBack ==
  /\ pc = "rollback" /\ todo = {}
  /\ pc' = "work"
  /\ UNCHANGED <<repo, locals, bounds, past>>

(* The controller dies: the request is delivered again, and answered anew. *)
Changing == {"copy", "writing", "undo", "validate", "rollback", "restore"}

Crash ==
  /\ pc \in Changing \cup {"scan", "compare"}
  /\ crashes < MaxCrashes /\ crashes' = crashes + 1
  /\ pc' = "asked"
  /\ todo' = {} /\ present' = {} /\ conflict' = {} /\ applied' = {} /\ failures' = {}
  /\ broken' = (broken \/ pc \in Changing)
  /\ UNCHANGED <<repo, runs, edits, edited, own, raced>>

Controller ==
  \/ Continue \/ BeginPromotion \/ NothingToPromote
  \/ Scan \/ Scanned \/ Compare \/ Refuse
  \/ BeginCopy \/ Remove \/ BeginWrite \/ FinishWrite \/ Copied
  \/ CopyFails \/ Undo \/ UndoFails \/ Undone
  \/ ValidationPasses \/ ValidationFails
  \/ Match \/ Restore \/ RestoreFails \/ RolledBack \/ RollbackFails

-----------------------------------------------------------------------------
(* The operator, who works in the checkout.                                *)

(* Paths the controller has looked at and will write without looking again.*)
AtRisk ==
  CASE pc = "scan" -> Changed \ (todo \cup conflict)
    [] pc = "compare" -> Changed \ (conflict \cup present)
    [] pc \in {"copy", "writing", "undo"} -> todo \cup applied
    [] pc = "restore" -> {First(todo)}
    [] OTHER -> {}

(* An edit of the operator's own, one that has what the job has, or back to *)
(* HEAD.  To write what the promotion has just written is not an own edit. *)
Edit(p, content) ==
  /\ edits < MaxEdits /\ edits' = edits + 1
  /\ content # target[p]
  /\ Put(p, content)
  /\ edited' = edited \cup {p}
  /\ own' = IF content = head[p] \/ (p \in applied /\ content = worktree[p])
            THEN own \ {p} ELSE own \cup {p}
  /\ raced' = (raced \/ p \in AtRisk)
  /\ UNCHANGED <<worktree, head, pc, locals, runs, crashes, broken>>

Commit ==
  /\ edits < MaxEdits /\ edits' = edits + 1
  /\ target # head
  /\ head' = target
  /\ edited' = edited \cup {p \in Paths : Dirty(p)} /\ own' = {}
  /\ UNCHANGED <<worktree, target, pc, locals, runs, crashes, raced, broken>>

Operator ==
  \/ \E p \in Paths : \E content \in {"user", worktree[p], head[p]} : Edit(p, content)
  \/ Commit

(* The job is done, or waits for ever for a run the bound forbids.         *)
PromotionOver ==
  /\ pc \in {"done", "work"}
  /\ UNCHANGED promotionVars

PromotionNext ==
  \/ \E result \in [Paths -> Contents] :
       (\A p \in Paths : result[p] \in Results(p)) /\ WorkerRun(result)
  \/ Controller \/ Crash \/ Operator \/ PromotionOver

PromotionSpec == PromotionInit /\ [][PromotionNext]_promotionVars

-----------------------------------------------------------------------------
PromotionTypeOK ==
  /\ worktree \in [Paths -> Contents]
  /\ target \in [Paths -> Contents]
  /\ head \in [Paths -> Contents]
  /\ pc \in Changing \cup {"work", "asked", "scan", "compare", "done"}
  /\ todo \subseteq Paths /\ present \subseteq Paths
  /\ conflict \subseteq Paths /\ failures \subseteq applied
  /\ applied \subseteq Paths \ present
  /\ runs \in 0 .. MaxRuns /\ edits \in 0 .. MaxEdits /\ crashes \in 0 .. MaxCrashes
  /\ edited \subseteq Paths /\ own \subseteq edited
  /\ raced \in BOOLEAN /\ broken \in BOOLEAN

(* README.md:474, WORKER_SYSTEMS.md:21: an uncommitted edit of the         *)
(* operator's survives the scan, the copying, the validation, the rollback *)
(* and every later promotion, also if it happens to be what the job would  *)
(* write, unless it is made just between a check of its path and the write *)
(* the check allowed.                                                      *)
EditsKept ==
  [][\A p \in own : ~raced /\ edits' = edits => target'[p] = target[p]]_promotionVars

(* README.md:491: a promotion that fails leaves nothing of its own behind, *)
(* so that the repaired worktree can be promoted cleanly: between two      *)
(* promotions every path the operator has not touched is as HEAD has it    *)
(* (file operations that fail half-way, and crashes, excepted).            *)
NothingLeft ==
  pc \in {"work", "asked", "scan", "compare"} /\ ~raced /\ ~broken
    => \A p \in Paths \ edited : target[p] = head[p]

(* When the job is done the checkout has the worktree's content on every   *)
(* path the operator has not touched, whatever was promoted and rolled     *)
(* back before.                                                            *)
DoneIsPromoted ==
  pc = "done" /\ ~raced /\ ~broken
    => \A p \in Paths \ edited : target[p] = worktree[p]
=============================================================================
