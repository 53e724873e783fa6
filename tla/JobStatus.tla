------------------------------ MODULE JobStatus ------------------------------
(***************************************************************************)
(* The status vocabulary of jobs and tasks, and the derivation of a job's  *)
(* status from its tasks (ai_loop/job_status.py).  A task is a record of   *)
(* its status and of who created it; its iteration is its position.        *)
(***************************************************************************)
EXTENDS Naturals, Sequences

ActiveStatuses   == {"planning", "queued", "implementing", "fixing", "waiting_tokens"}
TerminalStatuses == {"done", "human_needed", "dead"}
JobStatuses      == ActiveStatuses \cup TerminalStatuses

ActiveTaskStatuses == {"queued", "running", "waiting_tokens"}
TaskStatuses       == ActiveTaskStatuses \cup {"completed", "human_needed", "dead"}

Creators == {"plan", "review", "repair", "recovery"}
Tasks    == [status : TaskStatuses, creator : Creators]

ActiveTasks(ts) == {t \in DOMAIN ts : ts[t].status \in ActiveTaskStatuses}

(* The newest of a non-empty set of tasks. *)
Newest(T) == CHOOSE t \in T : \A u \in T : u <= t

(* active_job_status; "none" is its None.  Running work hides token waits, *)
(* which hide queued work; only the newest queued task decides "fixing".   *)
ActiveJobStatus(ts) ==
  LET active   == ActiveTasks(ts)
      Some(st) == \E t \in active : ts[t].status = st
  IN  IF Some("running") THEN "implementing"
      ELSE IF Some("waiting_tokens") THEN "waiting_tokens"
      ELSE IF active = {} THEN "none"
      ELSE IF ts[Newest(active)].creator = "repair" THEN "fixing" ELSE "queued"
=============================================================================
