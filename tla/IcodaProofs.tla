---------------------------- MODULE IcodaProofs ----------------------------
(***************************************************************************)
(* Theorems about the two ways the developer works with ICODA's proposals. *)
(* Workflow, for any queue and whatever the developer does: what waits is  *)
(* on disk and can be decided, and automatic approval approves nothing its *)
(* gates have not seen.  Desktop, for any projects and however often       *)
(* anything is done or fails: who holds the panel, whose proposal is       *)
(* shown, and who comes for what waits.                                    *)
(***************************************************************************)
EXTENDS Workflow, Desktop, SequenceTheorems, TLAPS

(***************************************************************************)
(* Workflow.                                                               *)
(***************************************************************************)

Jobs ==
  [kind : {None, "queue", "purpose", "revise", "recovery"},
   pc : {"begin", "work", "store", "notify", "over"},
   state : {"running", "completed", "failed", "cancelled"},
   cancel : BOOLEAN, current : BOOLEAN, cand : {None, "approach", "code"},
   ok : BOOLEAN, signatures : BOOLEAN, fresh : BOOLEAN, based : BOOLEAN,
   recovered : BOOLEAN, purpose : BOOLEAN]

Talks == [kind : {None, "send", "rephrase"}, pc : {"work", "notify", "over"}, cancel : BOOLEAN]

Disks == [retained : BOOLEAN, purpose : BOOLEAN, dirty : BOOLEAN, auto : BOOLEAN,
          approved : BOOLEAN, left : 0 .. QueueLength]

Conts == [run : BOOLEAN, ready : BOOLEAN, budget : NoBudget .. QueueLength]

Loops == [pc : {"off", "turn", "go"}, seen : {None, "running", "result"},
          id : {None, "same", "other"}, token : BOOLEAN, cancelled : BOOLEAN]

Clients == [synced : BOOLEAN, shown : BOOLEAN, loop : Loops, count : 0 .. QueueLength]

Shape ==
  /\ job \in Jobs /\ talk \in Talks /\ disk \in Disks /\ cont \in Conts /\ client \in Clients
  /\ pending \in BOOLEAN /\ reviewed \in BOOLEAN /\ joining \in {None, "select", "open"}

(* A round past its checkpoint, and whatever it leaves, is on disk.        *)
KeptInv ==
  /\ job.cand # None => disk.retained = TRUE
  /\ job.pc \in {"work", "store"} /\ job.kind # "purpose" => disk.retained = TRUE

(* The session's flag is about something on disk.                          *)
PendingInv == pending = TRUE => disk.retained = TRUE \/ disk.purpose = TRUE

(* A round whose thread is ending has told its state.                      *)
StateInv ==
  job.pc \in {"notify", "over"} /\ job.kind # None /\ job.current = TRUE => job.state # "running"

(* What has been approved automatically has left the queue.                *)
CountInv == client.count + disk.left =< QueueLength

Inv == Shape /\ KeptInv /\ PendingInv /\ StateInv /\ CountInv

-----------------------------------------------------------------------------
(* The values the actions are built from.                                  *)

LEMMA JobValues ==
  /\ NoJob \in Jobs
  /\ NoJob.kind = None /\ NoJob.pc = "over" /\ NoJob.cand = None /\ NoJob.current = FALSE
BY DEF NoJob, Jobs, None

LEMMA NewJobs ==
  ASSUME NEW kind \in {"queue", "purpose", "recovery"}
  PROVE  /\ NewJob(kind) \in Jobs
         /\ NewJob(kind).kind = kind /\ NewJob(kind).cand = None
         /\ NewJob(kind).pc = IF kind = "queue" THEN "begin" ELSE "work"
         /\ NewJob(kind).state = "running"
BY DEF NewJob, NoJob, Jobs, None

LEMMA ElsewhereJob ==
  ASSUME NEW j \in Jobs
  PROVE  /\ Elsewhere(j) \in Jobs
         /\ Elsewhere(j).cand = None /\ Elsewhere(j).pc = "over" /\ Elsewhere(j).current = FALSE
BY DEF Elsewhere, NoJob, Jobs, None

LEMMA LoopValue == NoLoop \in Loops
BY DEF NoLoop, Loops, None

LEMMA ClientValues ==
  ASSUME NEW c \in Clients
  PROVE  /\ Outdated(c) \in Clients /\ Outdated(c).count = c.count
         /\ NewRevision(c) \in Clients /\ NewRevision(c).count = 0
         /\ Ends(c) \in Clients /\ Ends(c).count = 0
<1>1. Outdated(c) \in Clients /\ Outdated(c).count = c.count
  BY DEF Outdated, Clients, Loops
<1>2. 0 \in 0 .. QueueLength
  BY WorkflowAssumption
<1>3. NewRevision(c) \in Clients /\ NewRevision(c).count = 0
  BY <1>2, LoopValue DEF NewRevision, Clients
<1>4. Ends(c) \in Clients /\ Ends(c).count = 0
  BY <1>2, LoopValue DEF Ends, Clients
<1> QED BY <1>1, <1>3, <1>4

LEMMA ContValues ==
  /\ Stopped \in Conts
  /\ \A b \in NoBudget .. QueueLength : Running(b) \in Conts
  /\ \A c \in Conts : Payload(c) \in Conts
<1>1. Stopped \in Conts
  BY WorkflowAssumption DEF Stopped, Conts, NoBudget
<1>2. \A b \in NoBudget .. QueueLength : Running(b) \in Conts
  BY DEF Running, Conts
<1>3. \A c \in Conts : [c EXCEPT !.ready = ~Working] \in Conts
  BY DEF Conts, Working
<1> QED BY <1>1, <1>2, <1>3 DEF Payload

LEMMA InitInv == Init => Inv
<1> SUFFICES ASSUME Init PROVE Inv OBVIOUS
<1>1. job \in Jobs /\ KeptInv /\ StateInv
  BY JobValues DEF Init, KeptInv, StateInv, None
<1>2. /\ talk \in Talks /\ joining \in {None, "select", "open"}
      /\ pending \in BOOLEAN /\ reviewed \in BOOLEAN
  BY DEF Init, NoTalk, Talks, None
<1>3. disk \in Disks /\ disk.left = QueueLength
  BY WorkflowAssumption DEF Init, Disks
<1>4. cont \in Conts
  BY WorkflowAssumption DEF Init, Conts, NoBudget
<1>5. client \in Clients /\ client.count = 0
  BY LoopValue, WorkflowAssumption DEF Init, Clients
<1> QED
  BY <1>1, <1>2, <1>3, <1>4, <1>5, WorkflowAssumption DEF Inv, Shape, PendingInv, CountInv, Init

-----------------------------------------------------------------------------
(* The thread of a round.                                                  *)

(* A step of a thread, or of the worker, that decides nothing: it keeps    *)
(* what is on disk and the session's flag.                                 *)
(* The count of automatic approvals grows by no other step than LoopApprove. *)
Steady == client'.count \in {0, client.count}

LEMMA KeepsDisk ==
  ASSUME Inv, Shape', KeptInv', StateInv',
         disk'.retained = disk.retained, disk'.purpose = disk.purpose, disk'.left = disk.left,
         pending' = pending, client'.count \in {0, client.count}
  PROVE  Inv' /\ Steady
<1>1. PendingInv'
  BY DEF Inv, PendingInv
<1>2. disk.left \in 0 .. QueueLength
  BY DEF Inv, Shape, Disks
<1>3. CountInv'
  BY <1>2 DEF Inv, CountInv
<1> QED BY <1>1, <1>3 DEF Steady, Inv

LEMMA CheckpointInv == Inv /\ Checkpoint => Inv' /\ Steady
<1> SUFFICES ASSUME Inv, Checkpoint PROVE  Inv' /\ Steady
  OBVIOUS
<1>1. /\ job \in Jobs /\ disk \in Disks
      /\ job' = [job EXCEPT !.pc = "work"] /\ disk' = [disk EXCEPT !.retained = TRUE]
  BY DEF Inv, Shape, Checkpoint, Retained
<1>2. job' \in Jobs /\ job'.pc = "work"
  BY <1>1 DEF Jobs
<1>3. disk' \in Disks /\ disk'.retained = TRUE /\ disk'.left = disk.left
  BY <1>1 DEF Disks
<1>7. client' = client
  BY DEF Checkpoint
<1>4. Shape'
  BY <1>2, <1>3 DEF Inv, Shape, Checkpoint
<1>5. KeptInv' /\ PendingInv' /\ StateInv'
  BY <1>2, <1>3 DEF KeptInv, PendingInv, StateInv
<1>6. CountInv'
  BY <1>3 DEF Inv, CountInv, Checkpoint
<1> QED BY <1>4, <1>5, <1>6, <1>7 DEF Steady, Inv

LEMMA WorkDoneInv == Inv /\ WorkDone => Inv' /\ Steady
<1> SUFFICES ASSUME Inv, WorkDone PROVE  Inv' /\ Steady
  OBVIOUS
<1>0. job \in Jobs /\ disk \in Disks /\ client \in Clients
  BY DEF Inv, Shape
<1>1. CASE job.kind = "purpose"
  <2>1. /\ job' = [job EXCEPT !.pc = "store", !.purpose = TRUE, !.ok = TRUE]
        /\ disk' = [disk EXCEPT !.purpose = TRUE]
        /\ client' = client /\ reviewed' = reviewed /\ pending' = TRUE
        /\ UNCHANGED <<talk, cont, joining>>
    BY <1>1 DEF WorkDone
  <2>2. job' \in Jobs /\ job'.pc = "store" /\ job'.kind = "purpose" /\ job'.cand = job.cand
    BY <1>0, <1>1, <2>1 DEF Jobs
  <2>3. /\ disk' \in Disks /\ disk'.purpose = TRUE /\ disk'.retained = disk.retained
        /\ disk'.left = disk.left
    BY <1>0, <2>1 DEF Disks
  <2>4. Shape'
    BY <2>1, <2>2, <2>3 DEF Inv, Shape
  <2>5. KeptInv' /\ PendingInv' /\ StateInv'
    BY <2>2, <2>3 DEF Inv, KeptInv, PendingInv, StateInv
  <2>6. CountInv'
    BY <2>1, <2>3 DEF Inv, CountInv
  <2> QED BY <2>1, <2>4, <2>5, <2>6 DEF Inv, Steady
<1>2. CASE job.kind # "purpose"
  <2>1. PICK ok \in BOOLEAN, signatures \in BOOLEAN :
          job' = [job EXCEPT !.pc = "store", !.cand = Value, !.ok = ok, !.fresh = TRUE,
                             !.signatures = signatures /\ Value = "code",
                             !.based = @ \/ Value = "approach"]
    BY <1>2 DEF WorkDone
  <2>2. /\ reviewed' = FALSE /\ client' = Outdated(client) /\ disk' = disk /\ pending' = TRUE
        /\ UNCHANGED <<talk, cont, joining>>
    BY <1>2 DEF WorkDone, NewEvidence
  <2>3. Value \in {None, "approach", "code"}
    BY <1>0 DEF Value, Jobs
  <2>4. job' \in Jobs /\ job'.pc = "store"
    <3> DEFINE S == signatures /\ Value = "code"
    <3> DEFINE B == job.based \/ Value = "approach"
    <3>1. S \in BOOLEAN /\ B \in BOOLEAN
      OBVIOUS
    <3> DEFINE first == [job EXCEPT !.pc = "store", !.cand = Value, !.ok = ok]
    <3> DEFINE second == [first EXCEPT !.fresh = TRUE, !.signatures = S]
    <3>2. job' = [second EXCEPT !.based = B]
      BY <2>1
    <3> HIDE DEF S, B
    <3>3. first \in Jobs /\ first.pc = "store"
      BY <1>0, <2>3 DEF Jobs
    <3> HIDE DEF first
    <3>4. second \in Jobs
      BY <3>1, <3>3 DEF Jobs
    <3>5. second.pc = "store"
      BY <3>3 DEF Jobs
    <3> HIDE DEF second
    <3>6. job' \in Jobs
      BY <3>1, <3>2, <3>4 DEF Jobs
    <3>7. job'.pc = "store"
      BY <3>2, <3>4, <3>5 DEF Jobs
    <3> QED BY <3>6, <3>7
  <2>5. client' \in Clients /\ client'.count = client.count
    BY <1>0, <2>2, ClientValues
  <2>6. disk.retained = TRUE
    BY <1>2 DEF Inv, KeptInv, WorkDone
  <2>7. Shape'
    BY <2>2, <2>4, <2>5 DEF Inv, Shape
  <2>8. KeptInv' /\ PendingInv' /\ StateInv'
    BY <2>2, <2>4, <2>6 DEF KeptInv, PendingInv, StateInv
  <2>9. CountInv'
    BY <2>2, <2>5 DEF Inv, CountInv
  <2> QED BY <2>5, <2>7, <2>8, <2>9 DEF Inv, Steady
<1> QED BY <1>1, <1>2

LEMMA WorkFailedInv == Inv /\ WorkFailed => Inv' /\ Steady
<1> SUFFICES ASSUME Inv, WorkFailed PROVE  Inv' /\ Steady
  OBVIOUS
<1>0. job \in Jobs /\ client \in Clients
  BY DEF Inv, Shape
<1>1. PICK fresh \in IF job.cand # None THEN {FALSE, job.fresh} ELSE {job.fresh} :
        job' = [job EXCEPT !.pc = "notify", !.fresh = fresh, !.state = FailedState]
  BY DEF WorkFailed
<1>2. fresh \in BOOLEAN
  BY <1>0, <1>1 DEF Jobs
<1>3. FailedState \in {"failed", "cancelled"}
  BY DEF FailedState
<1>4. /\ job' \in Jobs /\ job'.pc = "notify" /\ job'.cand = job.cand
      /\ job'.state # "running"
  BY <1>0, <1>1, <1>2, <1>3 DEF Jobs
<1>5. client' \in Clients /\ client'.count = client.count /\ reviewed' \in BOOLEAN
  BY <1>0, ClientValues DEF WorkFailed, NewEvidence, Inv, Shape
<1>6. UNCHANGED <<disk, pending, talk, cont, joining>>
  BY DEF WorkFailed
<1>7. Shape'
  BY <1>4, <1>5, <1>6 DEF Inv, Shape
<1>8. KeptInv' /\ StateInv'
  BY <1>4, <1>6 DEF Inv, KeptInv, StateInv
<1> QED BY <1>5, <1>6, <1>7, <1>8, KeepsDisk

LEMMA PublishInv == Inv /\ (Publish \/ Finish) => Inv' /\ Steady
<1> SUFFICES ASSUME Inv, Publish \/ Finish PROVE  Inv' /\ Steady
  OBVIOUS
<1>0. job \in Jobs
  BY DEF Inv, Shape
<1>1. UNCHANGED <<disk, pending, reviewed, client, talk, cont, joining>>
  BY DEF Publish, Finish, Thread
<1>2. /\ job' \in Jobs /\ job'.pc \in {"notify", "over"}
      /\ job'.cand = job.cand /\ job'.kind = job.kind /\ job'.current = job.current
  BY <1>0 DEF Publish, Finish, Jobs
<1>3. \/ job'.state # "running"
      \/ job.pc = "notify" /\ job'.state = job.state
  BY <1>0 DEF Publish, Finish, Jobs
<1>4. Shape'
  BY <1>1, <1>2 DEF Inv, Shape
<1>5. KeptInv'
  BY <1>1, <1>2 DEF Inv, KeptInv
<1>6. StateInv'
  BY <1>2, <1>3 DEF Inv, StateInv
<1> QED BY <1>1, <1>4, <1>5, <1>6, KeepsDisk

-----------------------------------------------------------------------------
(* Steps that keep the job as it is, but for its cancellation and for what *)
(* they say of its candidate.                                              *)

SameJob ==
  /\ job' \in Jobs
  /\ job'.pc = job.pc /\ job'.cand = job.cand /\ job'.kind = job.kind
  /\ job'.state = job.state /\ job'.current = job.current

SameDisk ==
  /\ disk' \in Disks
  /\ disk'.retained = disk.retained /\ disk'.purpose = disk.purpose /\ disk'.left = disk.left

LEMMA KeepsJob ==
  ASSUME Inv, SameJob, SameDisk, pending' = pending,
         client' \in Clients, client'.count \in {0, client.count},
         talk' \in Talks, cont' \in Conts, reviewed' \in BOOLEAN,
         joining' \in {None, "select", "open"}
  PROVE  Inv' /\ Steady
<1>1. Shape'
  BY DEF Inv, Shape, SameJob, SameDisk
<1>2. KeptInv' /\ StateInv'
  BY DEF Inv, KeptInv, StateInv, SameJob, SameDisk
<1> QED BY <1>1, <1>2, KeepsDisk DEF SameDisk

LEMMA Unchanged ==
  ASSUME Inv
  PROVE  /\ job' = job => SameJob
         /\ disk' = disk => SameDisk
         /\ talk' = talk => talk' \in Talks
         /\ cont' = cont => cont' \in Conts
         /\ client' = client => client' \in Clients /\ client'.count \in {0, client.count}
         /\ reviewed' = reviewed => reviewed' \in BOOLEAN
         /\ joining' = joining => joining' \in {None, "select", "open"}
BY DEF Inv, Shape, SameJob, SameDisk

LEMMA Evidence ==
  ASSUME Inv, NewEvidence
  PROVE  /\ reviewed' \in BOOLEAN
         /\ client' \in Clients /\ client'.count \in {0, client.count}
BY ClientValues DEF Inv, Shape, NewEvidence

LEMMA Marked ==
  ASSUME Inv,
         \/ job' = [job EXCEPT !.fresh = FALSE] \/ job' = [job EXCEPT !.based = FALSE]
         \/ job' = [job EXCEPT !.cancel = TRUE] \/ job' = [job EXCEPT !.cancel = FALSE]
  PROVE  SameJob
<1>1. job \in Jobs
  BY DEF Inv, Shape
<1> QED BY <1>1 DEF Jobs, SameJob

LEMMA Touched ==
  ASSUME Inv,
         \/ disk' = [disk EXCEPT !.dirty = TRUE] \/ disk' = [disk EXCEPT !.dirty = FALSE]
         \/ disk' = [disk EXCEPT !.approved = FALSE]
         \/ disk' = [disk EXCEPT !.auto = TRUE] \/ disk' = [disk EXCEPT !.auto = FALSE]
  PROVE  SameDisk
<1>1. disk \in Disks
  BY DEF Inv, Shape
<1> QED BY <1>1 DEF Disks, SameDisk

LEMMA TalkValues ==
  /\ NoTalk \in Talks
  /\ \A kind \in {"send", "rephrase"} : [kind |-> kind, pc |-> "work", cancel |-> FALSE] \in Talks
BY DEF NoTalk, Talks, None

LEMMA TalkInv == Inv /\ TalkStep => Inv' /\ Steady
<1> SUFFICES ASSUME Inv, TalkStep PROVE  Inv' /\ Steady
  OBVIOUS
<1>0. talk \in Talks
  BY DEF Inv, Shape
<1>1. CASE Speak
  <2>1. talk' \in Talks
    BY <1>0, <1>1 DEF Speak, Talks
  <2>2. UNCHANGED <<pending, cont, joining>>
    BY <1>1 DEF Speak
  <2>3. \/ UNCHANGED <<job, disk, reviewed, client>>
        \/ job' = [job EXCEPT !.fresh = FALSE] /\ disk' = disk /\ NewEvidence
        \/ disk' = [disk EXCEPT !.dirty = TRUE] /\ job' = job /\ NewEvidence
        \/ job' = job /\ disk' = disk /\ NewEvidence
    BY <1>1 DEF Speak
  <2>4. SameJob /\ SameDisk
    BY <2>3, Unchanged, Marked, Touched
  <2>5. /\ client' \in Clients /\ client'.count \in {0, client.count}
        /\ reviewed' \in BOOLEAN
    BY <2>3, Unchanged, Evidence
  <2> QED BY <2>1, <2>2, <2>4, <2>5, Unchanged, KeepsJob
<1>2. CASE Spoken
  BY <1>2, TalkValues, Unchanged, KeepsJob DEF Spoken
<1> QED BY <1>1, <1>2 DEF TalkStep

LEMMA CancelInv == Inv /\ Cancel => Inv' /\ Steady
<1> SUFFICES ASSUME Inv, Cancel PROVE  Inv' /\ Steady
  OBVIOUS
<1>1. UNCHANGED <<disk, pending, reviewed, joining, client>>
  BY DEF Cancel
<1>2. CASE job' = [job EXCEPT !.cancel = TRUE] /\ cont' = Stopped /\ UNCHANGED talk
  BY <1>1, <1>2, Marked, ContValues, Unchanged, KeepsJob
<1>3. CASE talk' = [talk EXCEPT !.cancel = TRUE] /\ UNCHANGED <<job, cont>>
  <2>1. talk' \in Talks
    BY <1>3 DEF Inv, Shape, Talks
  <2> QED BY <1>1, <1>3, <2>1, Unchanged, KeepsJob
<1> QED BY <1>2, <1>3 DEF Cancel

LEMMA RequestInv ==
  Inv /\ (OpenCommandLine \/ ProposalGet \/ \E kind \in {"send", "rephrase"} : Talk(kind))
    => Inv' /\ Steady
<1> SUFFICES ASSUME Inv,
                    OpenCommandLine \/ ProposalGet \/ \E kind \in {"send", "rephrase"} : Talk(kind)
             PROVE  Inv' /\ Steady
  OBVIOUS
<1>1. CASE OpenCommandLine
  BY <1>1, ContValues, Unchanged, KeepsJob DEF OpenCommandLine
<1>2. CASE ProposalGet
  <2>1. client' \in Clients /\ client'.count = client.count
    BY <1>2 DEF ProposalGet, Inv, Shape, Clients
  <2> QED BY <1>2, <2>1, Unchanged, KeepsJob DEF ProposalGet
<1>3. CASE \E kind \in {"send", "rephrase"} : Talk(kind)
  <2>1. PICK kind \in {"send", "rephrase"} : Talk(kind)
    BY <1>3
  <2> QED BY <2>1, TalkValues, ContValues, Unchanged, KeepsJob DEF Talk
<1> QED BY <1>1, <1>2, <1>3

LEMMA SettingsInv ==
  Inv /\ (SetQueue \/ \E auto \in BOOLEAN : SetAuto(auto)) => Inv' /\ Steady
<1> SUFFICES ASSUME Inv, SetQueue \/ \E auto \in BOOLEAN : SetAuto(auto)
             PROVE  Inv' /\ Steady
  OBVIOUS
<1>1. CASE SetQueue
  BY <1>1, Touched, ContValues, Unchanged, KeepsJob DEF SetQueue
<1>2. CASE \E auto \in BOOLEAN : SetAuto(auto)
  <2>1. PICK auto \in BOOLEAN : SetAuto(auto)
    BY <1>2
  <2>2. NoBudget \in NoBudget .. QueueLength
    BY WorkflowAssumption DEF NoBudget
  <2>3. cont' \in Conts
    BY <2>1, <2>2, ContValues DEF SetAuto
  <2>4. SameDisk
    BY <2>1, Touched DEF SetAuto
  <2> QED BY <2>1, <2>3, <2>4, Unchanged, KeepsJob DEF SetAuto
<1> QED BY <1>1, <1>2

LEMMA LeaveInv ==
  ASSUME NEW request \in {"select", "open"}
  PROVE  Inv /\ Leave(request) => Inv' /\ Steady
<1> SUFFICES ASSUME Inv, Leave(request) PROVE  Inv' /\ Steady
  OBVIOUS
<1>0. job \in Jobs /\ talk \in Talks
  BY DEF Inv, Shape
<1>1. SameJob
  <2>1. \/ job' = [job EXCEPT !.cancel = TRUE]
        \/ job' = [job EXCEPT !.cancel = FALSE]
    <3>1. CASE job.kind = None
      BY <3>1 DEF Leave
    <3>2. CASE job.kind # None
      BY <3>2 DEF Leave
    <3> QED BY <3>1, <3>2
  <2> QED BY <2>1, Marked
<1>2. talk' \in Talks
  <2>1. talk' = [talk EXCEPT !.cancel = TRUE] \/ talk' = [talk EXCEPT !.cancel = FALSE]
    <3>1. CASE talk.kind = None
      BY <3>1 DEF Leave
    <3>2. CASE talk.kind # None
      BY <3>2 DEF Leave
    <3> QED BY <3>1, <3>2
  <2> QED BY <1>0, <2>1 DEF Talks
<1> QED BY <1>1, <1>2, ContValues, Unchanged, KeepsJob DEF Leave

LEMMA EditInv == Inv /\ (EditProject \/ EditWorktree \/ Commit) => Inv' /\ Steady
<1> SUFFICES ASSUME Inv, EditProject \/ EditWorktree \/ Commit PROVE  Inv' /\ Steady
  OBVIOUS
<1>1. /\ NewEvidence
      /\ UNCHANGED <<talk, pending, cont, joining>>
  BY DEF EditProject, EditWorktree, Commit
<1>2. SameJob /\ SameDisk
  BY Marked, Touched, Unchanged DEF EditProject, EditWorktree, Commit
<1> QED BY <1>1, <1>2, Evidence, Unchanged, KeepsJob

-----------------------------------------------------------------------------
(* The loop of the extension.                                              *)

(* A client whose loop moves on keeps its count, or starts it anew.        *)
LEMMA LoopValues ==
  ASSUME NEW c \in Clients,
         NEW seen \in {None, "running", "result"}, NEW id \in {None, "same", "other"}
  PROVE  /\ [c EXCEPT !.loop.seen = seen, !.loop.id = id] \in Clients
         /\ [c EXCEPT !.loop.seen = seen, !.loop.id = id].count = c.count
         /\ [c EXCEPT !.loop.pc = "go", !.loop.token = TRUE] \in Clients
         /\ [c EXCEPT !.loop.pc = "go", !.loop.token = TRUE].count = c.count
         /\ [c EXCEPT !.loop.cancelled = TRUE] \in Clients
         /\ [c EXCEPT !.loop.cancelled = TRUE].count = c.count
<1>1. /\ [c EXCEPT !.loop.seen = seen, !.loop.id = id] \in Clients
      /\ [c EXCEPT !.loop.seen = seen, !.loop.id = id].count = c.count
  BY DEF Clients, Loops
<1>2. /\ [c EXCEPT !.loop.pc = "go", !.loop.token = TRUE] \in Clients
      /\ [c EXCEPT !.loop.pc = "go", !.loop.token = TRUE].count = c.count
  BY DEF Clients, Loops
<1>3. /\ [c EXCEPT !.loop.cancelled = TRUE] \in Clients
      /\ [c EXCEPT !.loop.cancelled = TRUE].count = c.count
  BY DEF Clients, Loops
<1> QED BY <1>1, <1>2, <1>3

LEMMA SeenValue == Seen \in {None, "running", "result"}
BY DEF Seen

LEMMA BudgetValue == Inv => Budget \in 0 .. QueueLength
BY WorkflowAssumption DEF Inv, Shape, Conts, Disks, Budget, NoBudget

LEMMA LoopStartInv == Inv /\ (LoopStart \/ LoopCancel) => Inv' /\ Steady
<1> SUFFICES ASSUME Inv, LoopStart \/ LoopCancel PROVE  Inv' /\ Steady
  OBVIOUS
<1>0. client \in Clients /\ cont \in Conts
  BY DEF Inv, Shape
<1>1. CASE LoopStart
  <2> DEFINE loop == [NoLoop EXCEPT !.pc = "turn", !.seen = Seen]
  <2>1. loop \in Loops
    BY LoopValue, SeenValue DEF Loops
  <2>2. 0 \in 0 .. QueueLength
    BY WorkflowAssumption
  <2>3. client' = [client EXCEPT !.loop = loop, !.count = 0] /\ cont' = Payload(cont)
    BY <1>1 DEF LoopStart
  <2> HIDE DEF loop
  <2>4. client' \in Clients /\ client'.count = 0
    BY <1>0, <2>1, <2>2, <2>3 DEF Clients
  <2> QED BY <1>0, <1>1, <2>3, <2>4, ContValues, Unchanged, KeepsJob DEF LoopStart
<1>2. CASE LoopCancel
  <2>1. client' \in Clients /\ client'.count = client.count
    BY <1>0, <1>2, LoopValues DEF LoopCancel
  <2> QED BY <1>2, <2>1, Unchanged, KeepsJob DEF LoopCancel
<1> QED BY <1>1, <1>2

LEMMA LoopPollInv == Inv /\ (LoopPoll \/ LoopReview) => Inv' /\ Steady
<1> SUFFICES ASSUME Inv, LoopPoll \/ LoopReview PROVE  Inv' /\ Steady
  OBVIOUS
<1>0. client \in Clients /\ cont \in Conts
  BY DEF Inv, Shape
<1>1. CASE LoopPoll
  <2> DEFINE id == IF JobHere THEN "same" ELSE None
  <2>1. id \in {None, "same", "other"}
    OBVIOUS
  <2>2. \/ client' = Ends(client)
        \/ client' = [client EXCEPT !.loop.seen = Seen, !.loop.id = id]
    BY <1>1 DEF LoopPoll
  <2> HIDE DEF id
  <2>3. client' \in Clients /\ client'.count \in {0, client.count}
    <3>1. CASE client' = Ends(client)
      BY <1>0, <3>1, ClientValues
    <3>2. CASE client' = [client EXCEPT !.loop.seen = Seen, !.loop.id = id]
      <4>1. \A seen \in {None, "running", "result"}, i \in {None, "same", "other"} :
              /\ [client EXCEPT !.loop.seen = seen, !.loop.id = i] \in Clients
              /\ [client EXCEPT !.loop.seen = seen, !.loop.id = i].count = client.count
        BY <1>0, LoopValues
      <4>2. /\ [client EXCEPT !.loop.seen = Seen, !.loop.id = id] \in Clients
            /\ [client EXCEPT !.loop.seen = Seen, !.loop.id = id].count = client.count
        BY <2>1, <4>1, SeenValue
      <4> QED BY <3>2, <4>2
    <3> QED BY <2>2, <3>1, <3>2
  <2>4. cont' \in Conts
    BY <1>0, <1>1, ContValues DEF LoopPoll
  <2> QED BY <1>1, <2>3, <2>4, Unchanged, KeepsJob DEF LoopPoll
<1>2. CASE LoopReview
  <2>1. client' \in Clients /\ client'.count \in {0, client.count}
    BY <1>0, <1>2, LoopValues, ClientValues DEF LoopReview
  <2>2. reviewed' \in BOOLEAN
    BY <1>2, Unchanged DEF LoopReview
  <2> QED BY <1>2, <2>1, <2>2, Unchanged, KeepsJob DEF LoopReview
<1> QED BY <1>1, <1>2

LEMMA LoopStoppedInv == Inv /\ (LoopStopped \/ LoopCancelled) => Inv' /\ Steady
<1> SUFFICES ASSUME Inv, LoopStopped \/ LoopCancelled PROVE  Inv' /\ Steady
  OBVIOUS
<1>0. client \in Clients /\ cont \in Conts
  BY DEF Inv, Shape
<1>1. client' \in Clients /\ client'.count = 0
  BY <1>0, ClientValues DEF LoopStopped, LoopCancelled
<1>2. CASE LoopStopped
  <2>1. Budget \in NoBudget .. QueueLength
    BY BudgetValue, WorkflowAssumption DEF NoBudget
  <2>2. cont' \in Conts
    BY <1>2, <2>1, ContValues, Unchanged DEF LoopStopped
  <2> QED BY <1>1, <1>2, <2>2, Unchanged, KeepsJob DEF LoopStopped
<1>3. CASE LoopCancelled
  <2>1. SameJob
    BY <1>3, Marked, Unchanged DEF LoopCancelled
  <2>2. cont' \in Conts
    BY <1>3, ContValues, Unchanged DEF LoopCancelled
  <2> QED BY <1>1, <1>3, <2>1, <2>2, Unchanged, KeepsJob DEF LoopCancelled
<1> QED BY <1>2, <1>3

-----------------------------------------------------------------------------
(* Steps that take what is in review out of it.                            *)

LEMMA Decides ==
  ASSUME Inv, job' = NoJob, pending' = FALSE,
         disk' \in Disks, client' \in Clients, client'.count + disk'.left =< QueueLength,
         talk' \in Talks, cont' \in Conts, reviewed' \in BOOLEAN,
         joining' \in {None, "select", "open"}
  PROVE  Inv'
<1>1. Shape'
  BY JobValues DEF Inv, Shape
<1>2. KeptInv' /\ PendingInv' /\ StateInv'
  BY JobValues DEF KeptInv, PendingInv, StateInv
<1> QED BY <1>1, <1>2 DEF Inv, CountInv

(* What an approval, or a rejection, leaves on disk.                       *)
LEMMA LeftOnDisk ==
  ASSUME Inv
  PROVE  /\ \A d \in Disks : Left(d) \in Disks /\ Left(d).left = d.left
         /\ \A d \in Approved : /\ d \in Disks /\ d.left =< disk.left
                                /\ d.retained = disk.retained /\ d.purpose = disk.purpose
                                /\ job.cand # "approach" => d.left < disk.left
<1>0. disk \in Disks
  BY DEF Inv, Shape
<1>1. \A d \in Disks : Left(d) \in Disks /\ Left(d).left = d.left
  BY DEF Left, Disks
<1>2. ASSUME NEW d \in Approved
      PROVE  /\ d \in Disks /\ d.left =< disk.left
             /\ d.retained = disk.retained /\ d.purpose = disk.purpose
             /\ job.cand # "approach" => d.left < disk.left
  <2>1. CASE job.cand = "approach"
    <3>1. d = [disk EXCEPT !.approved = TRUE]
      BY <1>2, <2>1 DEF Approved
    <3>2. d \in Disks /\ d.left = disk.left
      BY <1>0, <3>1 DEF Disks
    <3>3. d.retained = disk.retained /\ d.purpose = disk.purpose
      BY <1>0, <3>1 DEF Disks
    <3>4. disk.left \in 0 .. QueueLength
      BY <1>0 DEF Disks
    <3>5. d.left =< disk.left
      BY <3>2, <3>4, WorkflowAssumption
    <3> QED BY <2>1, <3>2, <3>3, <3>5
  <2>2. CASE job.cand # "approach"
    <3>1. PICK n \in 0 .. disk.left - 1 : d = [disk EXCEPT !.approved = FALSE, !.left = n]
      BY <1>2, <2>2 DEF Approved
    <3>2. disk.left \in 0 .. QueueLength
      BY <1>0 DEF Disks
    <3>3. n \in 0 .. QueueLength /\ n < disk.left
      BY <3>1, <3>2, WorkflowAssumption
    <3>4. d \in Disks /\ d.left = n
      BY <1>0, <3>1, <3>3 DEF Disks
    <3>5. d.retained = disk.retained /\ d.purpose = disk.purpose
      BY <1>0, <3>1 DEF Disks
    <3>6. d.left =< disk.left /\ d.left < disk.left
      BY <3>2, <3>3, <3>4
    <3> QED BY <3>4, <3>5, <3>6
  <2> QED BY <2>1, <2>2
<1> QED BY <1>1, <1>2

LEMMA FreshCount ==
  ASSUME NEW d \in Disks PROVE 0 + d.left =< QueueLength
BY WorkflowAssumption DEF Disks

LEMMA ApproveInv ==
  ASSUME NEW confirmed \in BOOLEAN
  PROVE  Inv /\ Approve(confirmed) => Inv' /\ Steady
<1> SUFFICES ASSUME Inv, Approve(confirmed) PROVE  Inv' /\ Steady
  OBVIOUS
<1>0. client \in Clients /\ cont \in Conts
  BY DEF Inv, Shape
<1>1. PICK d \in Approved : disk' = Left(d)
  BY DEF Approve
<1>2. disk' \in Disks /\ job' = NoJob /\ pending' = FALSE /\ reviewed' = FALSE
  BY <1>1, LeftOnDisk DEF Approve, Reviewed
<1>3. client' \in Clients /\ client'.count = 0
  BY <1>0, ClientValues DEF Approve
<1>4. client'.count + disk'.left =< QueueLength
  BY <1>2, <1>3, FreshCount
<1>5. cont' \in Conts
  <2>1. cont.budget \in NoBudget .. QueueLength
    BY <1>0 DEF Conts
  <2> QED BY <1>0, <2>1, ContValues DEF Approve
<1>6. talk' = talk /\ joining' = joining
  BY DEF Approve
<1> QED BY <1>2, <1>3, <1>4, <1>5, <1>6, Unchanged, Decides DEF Steady

LEMMA DecideInv ==
  Inv /\ (Reject \/ Discard \/ Undo \/ CommitManual \/ \E apply \in BOOLEAN : DecidePurpose(apply))
    => Inv' /\ Steady
<1> SUFFICES ASSUME Inv, Reject \/ Discard \/ Undo \/ CommitManual
                           \/ \E apply \in BOOLEAN : DecidePurpose(apply)
             PROVE  Inv' /\ Steady
  OBVIOUS
<1>0. client \in Clients /\ disk \in Disks
  BY DEF Inv, Shape
<1>1. job' = NoJob /\ pending' = FALSE /\ reviewed' = FALSE /\ talk' = talk /\ joining' = joining
  BY DEF Reject, Discard, Undo, CommitManual, DecidePurpose, Reviewed
<1>2. cont' \in Conts
  BY ContValues, Unchanged DEF Reject, Discard, Undo, CommitManual, DecidePurpose
<1>3. /\ disk' \in Disks /\ client' \in Clients /\ client'.count + disk'.left =< QueueLength
      /\ client'.count \in {0, client.count}
  <2>1. CASE Reject
    <3>1. disk' \in Disks /\ client' \in Clients /\ client'.count = 0
      BY <1>0, <2>1, LeftOnDisk, ClientValues DEF Reject
    <3> QED BY <3>1, FreshCount
  <2>2. CASE Discard
    <3>1. disk' \in Disks /\ disk'.left = disk.left
      BY <1>0, <2>2, LeftOnDisk DEF Discard
    <3>2. client' \in Clients /\ client'.count = client.count
      BY <1>0, <2>2, ClientValues DEF Discard
    <3> QED BY <3>1, <3>2 DEF Inv, CountInv
  <2>3. CASE Undo
    <3>1. PICK n \in disk.left .. QueueLength, approved \in BOOLEAN :
            disk' = [disk EXCEPT !.left = n, !.approved = approved]
      BY <2>3 DEF Undo
    <3>2. n \in 0 .. QueueLength
      BY <1>0, WorkflowAssumption DEF Disks
    <3>3. disk' \in Disks
      BY <1>0, <3>1, <3>2 DEF Disks
    <3>4. client' \in Clients /\ client'.count = 0
      BY <1>0, <2>3, ClientValues DEF Undo
    <3> QED BY <3>3, <3>4, FreshCount
  <2>4. CASE CommitManual
    <3>1. disk' \in Disks
      BY <2>4, Touched DEF CommitManual, SameDisk
    <3>2. client' \in Clients /\ client'.count = 0
      BY <1>0, <2>4, ClientValues DEF CommitManual
    <3> QED BY <3>1, <3>2, FreshCount
  <2>5. CASE \E apply \in BOOLEAN : DecidePurpose(apply)
    <3>1. PICK apply \in BOOLEAN : DecidePurpose(apply)
      BY <2>5
    <3> DEFINE dirty == disk.dirty \/ apply
    <3>2. dirty \in BOOLEAN
      OBVIOUS
    <3>3. disk' = [disk EXCEPT !.purpose = FALSE, !.dirty = dirty]
      BY <3>1 DEF DecidePurpose
    <3> HIDE DEF dirty
    <3>4. disk' \in Disks
      BY <1>0, <3>2, <3>3 DEF Disks
    <3>5. client' \in Clients /\ client'.count = 0
      BY <1>0, <3>1, ClientValues DEF DecidePurpose
    <3> QED BY <3>4, <3>5, FreshCount
  <2> QED BY <2>1, <2>2, <2>3, <2>4, <2>5
<1> QED BY <1>1, <1>2, <1>3, Unchanged, Decides DEF Steady

(* The loop approves code, and so at least one target leaves the queue.    *)
LEMMA LoopApproves ==
  Inv /\ LoopApprove => ~Working /\ Permitted(job) /\ ~Failed /\ job.recovered # TRUE
BY DEF Inv, StateInv, Shape, Jobs, LoopApprove, Refuses, MustStop, Alive, Working, JobHere,
       ReviewJob

LEMMA LoopApproveInv == Inv /\ LoopApprove => Inv'
<1> SUFFICES ASSUME Inv, LoopApprove PROVE  Inv'
  OBVIOUS
<1>0. client \in Clients /\ cont \in Conts /\ disk \in Disks
  BY DEF Inv, Shape
<1>1. job.cand = "code"
  BY LoopApproves DEF Permitted
<1>2. PICK d \in Approved : disk' = Left(d)
  BY DEF LoopApprove
<1>3. disk' \in Disks /\ disk'.left < disk.left
  BY <1>1, <1>2, LeftOnDisk
<1>4. /\ job' = NoJob /\ pending' = FALSE /\ reviewed' = FALSE
      /\ talk' = talk /\ joining' = joining
  BY DEF LoopApprove, Reviewed
<1>5. cont' \in Conts
  <2>1. Budget \in 0 .. QueueLength /\ Budget # 0
    BY BudgetValue DEF LoopApprove, Refuses
  <2>2. Budget - 1 \in NoBudget .. QueueLength
    BY <2>1, WorkflowAssumption DEF NoBudget
  <2>3. cont' = Stopped \/ cont' = Running(Budget - 1)
    BY DEF LoopApprove
  <2> QED BY <2>2, <2>3, ContValues
<1>6. /\ client.count \in 0 .. QueueLength /\ disk.left \in 0 .. QueueLength
      /\ disk'.left \in 0 .. QueueLength
  BY <1>0, <1>3 DEF Clients, Disks
<1>7. client.count + 1 + disk'.left =< QueueLength
  BY <1>3, <1>6, WorkflowAssumption DEF Inv, CountInv
<1>8. client.count + 1 \in 0 .. QueueLength
  BY <1>6, <1>7, WorkflowAssumption
<1>9. client' \in Clients /\ client'.count = client.count + 1
  <2> DEFINE loop == IF cont'.run THEN [NoLoop EXCEPT !.pc = "turn"] ELSE NoLoop
  <2>1. loop \in Loops
    BY LoopValue DEF Loops
  <2>2. Answered(loop, 1)
    BY DEF LoopApprove
  <2> HIDE DEF loop
  <2>3. Outdated(client) \in Clients /\ Outdated(client).count = client.count
    BY <1>0, ClientValues
  <2>4. CASE client' = [Outdated(client) EXCEPT !.loop = loop, !.count = @ + 1]
    BY <1>8, <2>1, <2>3, <2>4 DEF Clients
  <2>5. CASE client' = [Outdated(client) EXCEPT !.loop.cancelled = TRUE, !.count = @ + 1,
                                                !.synced = FALSE]
    BY <1>8, <2>3, <2>5 DEF Clients, Loops
  <2>6. (1 = 0) = FALSE
    OBVIOUS
  <2>7. \/ client' = [Outdated(client) EXCEPT !.loop = loop, !.count = @ + 1]
        \/ client' = [Outdated(client) EXCEPT !.loop.cancelled = TRUE, !.count = @ + 1,
                                              !.synced = (1 = 0)]
    BY <2>2 DEF Answered
  <2> QED BY <2>4, <2>5, <2>6, <2>7
<1> QED BY <1>3, <1>4, <1>5, <1>6, <1>7, <1>9, Unchanged, Decides

-----------------------------------------------------------------------------
(* Steps that start a round, or lose sight of one.                         *)

LEMMA Begins ==
  ASSUME Inv, NEW kind \in {"queue", "purpose"}, job' = NewJob(kind), disk' = disk,
         pending' = pending, client' \in Clients, client'.count = client.count,
         cont' \in Conts, talk' = talk, reviewed' = reviewed, joining' = joining
  PROVE  Inv' /\ Steady
<1>1. Shape'
  BY NewJobs DEF Inv, Shape
<1>2. KeptInv' /\ StateInv'
  BY NewJobs DEF KeptInv, StateInv, None
<1> QED BY <1>1, <1>2, KeepsDisk

LEMMA StartInv ==
  ASSUME NEW kind \in {"queue", "purpose"}
  PROVE  Inv /\ Start(kind) => Inv' /\ Steady
<1> SUFFICES ASSUME Inv, Start(kind) PROVE  Inv' /\ Steady
  OBVIOUS
<1>1. client' \in Clients /\ client'.count = client.count
  BY ClientValues DEF Start, Inv, Shape
<1> QED BY <1>1, Unchanged, Begins DEF Start

LEMMA LoopRoundInv == Inv /\ LoopRound => Inv' /\ Steady
<1> SUFFICES ASSUME Inv, LoopRound PROVE  Inv' /\ Steady
  OBVIOUS
<1>0. client \in Clients /\ client.count \in 0 .. QueueLength
  BY DEF Inv, Shape, Clients
<1>1. cont' \in Conts
  <2>1. Budget \in NoBudget .. QueueLength
    BY BudgetValue, WorkflowAssumption DEF NoBudget
  <2>2. Running(Budget) \in Conts
    BY <2>1, ContValues
  <2>3. cont' = [Running(Budget) EXCEPT !.ready = FALSE]
    BY DEF LoopRound
  <2> QED BY <2>2, <2>3 DEF Conts
<1>2. client' \in Clients /\ client'.count = client.count
  <2> DEFINE loop == [Loop EXCEPT !.pc = "turn", !.seen = "running", !.id = "same", !.token = FALSE]
  <2>1. loop \in Loops
    BY <1>0 DEF Loop, Clients, Loops
  <2>2. Answered(loop, 0)
    BY DEF LoopRound
  <2> HIDE DEF loop
  <2>3. Outdated(client) \in Clients /\ Outdated(client).count = client.count
    BY <1>0, ClientValues
  <2>4. client.count + 0 = client.count /\ (0 = 0) = TRUE
    BY <1>0
  <2>5. \/ client' = [Outdated(client) EXCEPT !.loop = loop, !.count = @ + 0]
        \/ client' = [Outdated(client) EXCEPT !.loop.cancelled = TRUE, !.count = @ + 0,
                                              !.synced = (0 = 0)]
    BY <2>2 DEF Answered
  <2>6. \/ client' = [Outdated(client) EXCEPT !.loop = loop, !.count = client.count]
        \/ client' = [Outdated(client) EXCEPT !.loop.cancelled = TRUE, !.count = client.count,
                                              !.synced = TRUE]
    BY <2>3, <2>4, <2>5
  <2>7. CASE client' = [Outdated(client) EXCEPT !.loop = loop, !.count = client.count]
    BY <1>0, <2>1, <2>3, <2>7 DEF Clients
  <2>8. CASE client' = [Outdated(client) EXCEPT !.loop.cancelled = TRUE, !.count = client.count,
                                                !.synced = TRUE]
    BY <1>0, <2>3, <2>8 DEF Clients, Loops
  <2> QED BY <2>6, <2>7, <2>8
<1> QED BY <1>1, <1>2, Unchanged, Begins DEF LoopRound

(* The extension takes the job it knows for another one.                   *)
LEMMA Renamed ==
  ASSUME NEW c \in Clients
  PROVE  LET new == [Outdated(c) EXCEPT !.loop.id = IF @ = "same" THEN "other" ELSE @]
         IN  new \in Clients /\ new.count = c.count
<1> DEFINE id == IF Outdated(c).loop.id = "same" THEN "other" ELSE Outdated(c).loop.id
<1>1. Outdated(c) \in Clients /\ Outdated(c).count = c.count
  BY ClientValues
<1>2. id \in {None, "same", "other"}
  BY <1>1 DEF Clients, Loops
<1>3. [Outdated(c) EXCEPT !.loop.id = IF @ = "same" THEN "other" ELSE @]
        = [Outdated(c) EXCEPT !.loop.id = id]
  OBVIOUS
<1> HIDE DEF id
<1>4. /\ [Outdated(c) EXCEPT !.loop.id = id] \in Clients
      /\ [Outdated(c) EXCEPT !.loop.id = id].count = c.count
  BY <1>1, <1>2 DEF Clients, Loops
<1> QED BY <1>3, <1>4

LEMMA ReviseInv ==
  ASSUME NEW method \in {"adapt", "rebuild"}
  PROVE  Inv /\ Revise(method) => Inv' /\ Steady
<1> SUFFICES ASSUME Inv, Revise(method) PROVE  Inv' /\ Steady
  OBVIOUS
<1>0. job \in Jobs /\ client \in Clients
  BY DEF Inv, Shape
<1>1. job' = [job EXCEPT !.kind = "revise", !.pc = "work", !.state = "running", !.cancel = FALSE]
  BY DEF Revise
<1>2. job' \in Jobs /\ job'.pc = "work" /\ job'.cand = job.cand /\ job.cand # None
  <2>1. job' \in Jobs /\ job'.pc = "work"
    BY <1>0, <1>1 DEF Jobs
  <2>2. job'.cand = job.cand
    BY <1>0, <1>1 DEF Jobs
  <2> QED BY <2>1, <2>2 DEF Revise, ReviewJob
<1>3. client' \in Clients /\ client'.count = client.count
  <2>1. client' = [Outdated(client) EXCEPT !.loop.id = IF @ = "same" THEN "other" ELSE @]
    BY DEF Revise
  <2> QED BY <1>0, <2>1, Renamed
<1>4. Shape'
  BY <1>2, <1>3 DEF Inv, Shape, Revise
<1>5. KeptInv' /\ StateInv'
  BY <1>2 DEF Inv, KeptInv, StateInv, Revise
<1> QED BY <1>3, <1>4, <1>5, KeepsDisk DEF Revise

LEMMA ResumeInv == Inv /\ Resume => Inv' /\ Steady
<1> SUFFICES ASSUME Inv, Resume PROVE  Inv' /\ Steady
  OBVIOUS
<1>0. client \in Clients /\ disk.retained = TRUE
  BY DEF Inv, Shape, Disks, Resume, Recoverable
<1>1. PICK cand \in {"code", "approach"} :
        job' = [NewJob("recovery") EXCEPT !.cand = cand, !.recovered = TRUE]
  BY DEF Resume
<1>2. job' \in Jobs /\ job'.pc = "work"
  BY <1>1, NewJobs DEF Jobs
<1>3. client' \in Clients /\ client'.count = client.count
  <2>1. client' = [Outdated(client) EXCEPT !.loop.id = IF @ = "same" THEN "other" ELSE @]
    BY DEF Resume
  <2> QED BY <1>0, <2>1, Renamed
<1>4. Shape'
  BY <1>2, <1>3, ContValues DEF Inv, Shape, Resume
<1>5. KeptInv' /\ PendingInv' /\ StateInv'
  BY <1>0, <1>2 DEF KeptInv, PendingInv, StateInv, Resume
<1>6. CountInv'
  BY <1>3 DEF Inv, CountInv, Resume
<1> QED BY <1>3, <1>4, <1>5, <1>6 DEF Steady, Inv

LEMMA ApproveLeftInv == Inv /\ ApproveLeft => Inv' /\ Steady
<1> SUFFICES ASSUME Inv, ApproveLeft PROVE  Inv' /\ Steady
  OBVIOUS
<1>1. SameJob
  BY Marked DEF ApproveLeft
<1>2. /\ disk' \in Disks /\ disk'.left =< disk.left
      /\ disk'.retained = disk.retained /\ disk'.purpose = disk.purpose
  BY LeftOnDisk DEF ApproveLeft
<1>3. reviewed' \in BOOLEAN /\ client' \in Clients /\ client'.count = client.count
  BY ClientValues DEF ApproveLeft, NewEvidence, Inv, Shape
<1>4. Shape'
  BY <1>1, <1>2, <1>3 DEF Inv, Shape, SameJob, ApproveLeft
<1>5. KeptInv' /\ PendingInv' /\ StateInv'
  BY <1>1, <1>2 DEF Inv, KeptInv, PendingInv, StateInv, SameJob, ApproveLeft
<1>6. /\ client.count \in 0 .. QueueLength /\ disk.left \in 0 .. QueueLength
      /\ disk'.left \in 0 .. QueueLength
  BY <1>2 DEF Inv, Shape, Clients, Disks
<1>7. CountInv'
  BY <1>2, <1>3, <1>6, WorkflowAssumption DEF Inv, CountInv
<1> QED BY <1>3, <1>4, <1>5, <1>7 DEF Steady, Inv

LEMMA AnalyseInv == Inv /\ Analyse => Inv' /\ Steady
<1> SUFFICES ASSUME Inv, Analyse PROVE  Inv' /\ Steady
  OBVIOUS
<1>1. /\ job' \in Jobs /\ job'.cand = None /\ job'.pc = "over" /\ job'.current = FALSE
  BY ElsewhereJob DEF Analyse, Inv, Shape
<1>2. client' \in Clients /\ client'.count = 0
  BY ClientValues DEF Analyse, Inv, Shape
<1>3. Shape'
  BY <1>1, <1>2 DEF Inv, Shape, Analyse
<1>4. KeptInv' /\ StateInv'
  BY <1>1 DEF KeptInv, StateInv
<1> QED BY <1>2, <1>3, <1>4, KeepsDisk DEF Analyse

(* The client of a session that has been opened, or of another target.     *)
LEMMA Synced ==
  ASSUME NEW c \in Clients
  PROVE  /\ [NewRevision(c) EXCEPT !.synced = TRUE] \in Clients
         /\ [NewRevision(c) EXCEPT !.synced = TRUE].count = 0
<1>1. NewRevision(c) \in Clients /\ NewRevision(c).count = 0
  BY ClientValues
<1> QED BY <1>1 DEF Clients

LEMMA JoinedInv == Inv /\ (Joined \/ Crash) => Inv' /\ Steady
<1> SUFFICES ASSUME Inv, Joined \/ Crash PROVE  Inv' /\ Steady
  OBVIOUS
<1>0. job \in Jobs /\ client \in Clients /\ disk \in Disks /\ pending \in BOOLEAN /\ cont \in Conts
  BY DEF Inv, Shape
<1>1. /\ client' \in Clients /\ client'.count = 0
      /\ disk' = disk /\ reviewed' = FALSE /\ joining' = None
      /\ talk' = NoTalk
  BY <1>0, Synced DEF Joined, Crash
<1>2. cont' \in Conts
  BY <1>0, ContValues DEF Joined, Crash
<1>3. CASE job' = NoJob /\ pending' = FALSE
  <2>1. client'.count + disk'.left =< QueueLength
    BY <1>0, <1>1, FreshCount
  <2> QED BY <1>0, <1>1, <1>2, <1>3, <2>1, TalkValues, Decides DEF Steady
<1>4. CASE job' = Elsewhere(job) /\ pending' = pending
  <2>1. /\ job' \in Jobs /\ job'.cand = None /\ job'.pc = "over" /\ job'.current = FALSE
    BY <1>0, <1>4, ElsewhereJob
  <2>2. Shape'
    BY <1>0, <1>1, <1>2, <1>4, <2>1, TalkValues DEF Shape
  <2>3. KeptInv' /\ StateInv'
    BY <2>1 DEF KeptInv, StateInv
  <2> QED BY <1>1, <1>4, <2>2, <2>3, KeepsDisk
<1> QED BY <1>3, <1>4 DEF Joined, Crash

-----------------------------------------------------------------------------
(* Every step keeps the invariant, and every step but the approval by the  *)
(* loop keeps the count of automatic approvals, or begins it anew.         *)
LEMMA NextInv == Inv /\ [Next]_vars => Inv' /\ (Steady \/ LoopApprove)
<1> SUFFICES ASSUME Inv, [Next]_vars PROVE Inv' /\ (Steady \/ LoopApprove) OBVIOUS
<1>1. CASE RoundStep
  BY <1>1, CheckpointInv, WorkDoneInv, WorkFailedInv, PublishInv DEF RoundStep
<1>2. CASE TalkStep \/ Joined \/ Crash
  BY <1>2, TalkInv, JoinedInv
<1>3. CASE LoopStep \/ LoopStart \/ LoopCancel
  BY <1>3, LoopStartInv, LoopPollInv, LoopStoppedInv, LoopApproveInv, LoopRoundInv DEF LoopStep
<1>4. CASE \E kind \in {"queue"} \cup ({"purpose"} \cap Activities) : Start(kind)
  BY <1>4, StartInv
<1>5. CASE Cancel \/ OpenCommandLine \/ ProposalGet \/ \E kind \in {"send", "rephrase"} : Talk(kind)
  BY <1>5, CancelInv, RequestInv
<1>6. CASE ApproveLeft \/ \E confirmed \in BOOLEAN : Approve(confirmed)
  BY <1>6, ApproveLeftInv, ApproveInv
<1>7. CASE Reject \/ Discard \/ Undo \/ CommitManual \/ \E apply \in BOOLEAN : DecidePurpose(apply)
  BY <1>7, DecideInv
<1>8. CASE Resume \/ Analyse \/ \E method \in {"adapt", "rebuild"} : Revise(method)
  BY <1>8, ResumeInv, AnalyseInv, ReviseInv
<1>9. CASE SetQueue \/ \E auto \in BOOLEAN : SetAuto(auto)
  BY <1>9, SettingsInv
<1>10. CASE \E request \in {"select", "open"} : Leave(request)
  BY <1>10, LeaveInv
<1>11. CASE EditProject \/ EditWorktree \/ Commit
  BY <1>11, EditInv
<1>12. CASE UNCHANGED vars
  BY <1>12 DEF vars, Steady, Inv, Shape, KeptInv, PendingInv, StateInv, CountInv
<1> QED
  BY <1>1, <1>2, <1>3, <1>4, <1>5, <1>6, <1>7, <1>8, <1>9, <1>10, <1>11, <1>12 DEF Next

(* The invariant holds in every state of every behaviour.                 *)
THEOREM Inductive == Spec => []Inv
<1>1. Init => Inv
  BY InitInv
<1>2. Inv /\ [Next]_vars => Inv'
  BY NextInv
<1> QED BY <1>1, <1>2, PTL DEF Spec

(* Every variable keeps its type: a budget is that of a queue or none, and *)
(* what has been approved automatically is never more than there was.      *)
THEOREM TypeCorrect == Spec => []TypeOK
<1>1. Inv => TypeOK
  BY DEF Inv, Shape, Jobs, Talks, Disks, Conts, Clients, Loops, Loop, TypeOK
<1> QED BY <1>1, Inductive, PTL

(* Whatever the developer, the provider or a crash does to a round, what   *)
(* is in review is on disk (WorkflowRunner's checkpoint).                  *)
THEOREM ReviewKept == Spec => []ReviewIsKept
<1>1. Inv => ReviewIsKept
  BY DEF Inv, KeptInv, ReviewIsKept
<1> QED BY <1>1, Inductive, PTL

(* A project never refuses work over something that cannot be decided.     *)
THEOREM AlwaysDecidable == Spec => []Decidable
<1>1. Inv => Decidable
  BY DEF Inv, Shape, Disks, PendingInv, Pending, Recoverable, Decidable
<1> QED BY <1>1, Inductive, PTL

(* What the loop approves has passed its gates, is signed off by no human  *)
(* because none is needed, and is untouched: every other step keeps the    *)
(* count of automatic approvals or starts it anew.                         *)
THEOREM ApprovedByGates == Spec => AutomaticApproval
<1> DEFINE A == /\ job.cand = "code" /\ job.ok /\ job.state = "completed"
                /\ ~job.signatures /\ ~job.recovered /\ ~job.cancel
                /\ job.fresh /\ job.based /\ disk.auto /\ ~disk.dirty
<1>1. Inv /\ LoopApprove => A
  <2> SUFFICES ASSUME Inv, LoopApprove PROVE A OBVIOUS
  <2>1. ~Working /\ Permitted(job) /\ ~Failed /\ job.recovered # TRUE
    BY LoopApproves
  <2>2. job \in Jobs /\ JobHere /\ job.kind # None
    BY DEF Inv, Shape, LoopApprove, ReviewJob, JobHere
  <2>3. job.state = "completed"
    BY <2>1, <2>2 DEF Working, Failed, Jobs
  <2>4. ~job.recovered
    BY <2>1, <2>2 DEF Jobs
  <2>5. ~job.cancel /\ disk.auto
    BY <2>2 DEF LoopApprove, Refuses
  <2>6. job.fresh /\ job.based /\ job.ok /\ ~disk.dirty
    BY DEF LoopApprove, Approvable, EvidenceHolds, Evident
  <2> QED BY <2>1, <2>3, <2>4, <2>5, <2>6 DEF Permitted
<1>2. Inv /\ [Next]_vars => [client.count' > client.count => A]_vars
  <2> SUFFICES ASSUME Inv, [Next]_vars, client'.count > client.count PROVE A OBVIOUS
  <2>1. client.count \in 0 .. QueueLength
    BY DEF Inv, Shape, Clients
  <2>2. ~Steady
    BY <2>1, WorkflowAssumption DEF Steady
  <2> QED BY <1>1, <2>2, NextInv
<1> QED BY <1>2, Inductive, PTL DEF Spec, AutomaticApproval

-----------------------------------------------------------------------------
(***************************************************************************)
(* Desktop.  The window is one record, and a handler an operator on it:    *)
(* each is shown to keep what is said of a window, and an action of the    *)
(* specification is one of them, or a few in a row.                        *)
(***************************************************************************)

Names == Projects \cup {Nil}
Repairs == {Nil, "proposal", "show"}

WindowJobs ==
  [kind : StepKinds \cup Recovery, root : Names, cand : Nat, repaired : Repairs,
   stale : BOOLEAN]

Outcomes ==
  {"ok", "none", "bad", "failed", "provider", "gate", "cancelled", "project", "candidate"}
Calls    == [job : WindowJobs, outcome : Outcomes]
Troubles == [repaired : Repairs, of : Names, attempted : BOOLEAN]
Models   == [of : Projects, outcome : {"ok", "failed", "torn"}]

Proposals == [nr : Nat, of : Names, ok : BOOLEAN]

Windows ==
  [project : Names, opened : Names, proposal : Proposals, made : Nat,
   busy : BOOLEAN, byAnalysis : BOOLEAN,
   recovering : BOOLEAN, subject : Names, failures : Seq(Troubles), drains : Nat,
   jobs : Seq(WindowJobs), inbox : Seq(Calls),
   analysing : [Projects -> Nat], results : Seq(Models), pending : Nat, polls : Nat,
   refresh : Names, timers : Nat,
   crossed : BOOLEAN, moved : BOOLEAN, stuck : BOOLEAN]

AllKinds == StepKinds \cup Recovery

(* The live threads and callbacks of some kinds, and what they are for.    *)
LiveJobs(w, kinds) == {i \in DOMAIN w.jobs : w.jobs[i].kind \in kinds /\ ~w.jobs[i].stale}
LiveCalls(w, kinds) ==
  {i \in DOMAIN w.inbox : w.inbox[i].job.kind \in kinds /\ ~w.inbox[i].job.stale}

AtMostOne(w, kinds) ==
  /\ \A i, j \in LiveJobs(w, kinds) : i = j
  /\ \A i, j \in LiveCalls(w, kinds) : i = j
  /\ LiveJobs(w, kinds) = {} \/ LiveCalls(w, kinds) = {}

Rooted(w) ==
  /\ \A i \in LiveJobs(w, AllKinds) : w.jobs[i].root = w.project
  /\ \A i \in LiveCalls(w, AllKinds) : w.inbox[i].job.root = w.project

(* One recovery at most is under way, and the window knows it.             *)
RecoveryInv(w) ==
  /\ AtMostOne(w, Recovery)
  /\ w.recovering <=> UnderWay(w, Recovery)

(* Steps, recoveries and an analysis exclude each other, and the panel is  *)
(* busy for the one there is.                                              *)
PanelInv(w) ==
  ~w.crossed /\ ~w.stuck =>
    /\ AtMostOne(w, AllKinds)
    /\ w.byAnalysis => w.pending > 0 /\ ~UnderWay(w, AllKinds)
    /\ w.busy <=> UnderWay(w, AllKinds) \/ w.byAnalysis

(* What is under way, or shown, is of the project shown.                   *)
OwnInv(w) ==
  ~w.moved =>
    /\ Rooted(w)
    /\ w.proposal # NoProposal => w.proposal.of = w.project
    /\ w.subject \in {Nil, w.project}
    /\ w.refresh \in {Nil, w.project}

(* Somebody comes for what waits.                                          *)
PollInv(w) == w.polls = IF w.pending = 0 THEN 0 ELSE 1
TimerInv(w) == w.refresh # Nil /\ ~w.moved => w.timers > 0
FailureInv(w) == w.failures # <<>> => w.recovering \/ w.drains > 0

-----------------------------------------------------------------------------
(* Leaving a project: its recoveries are not heard any more.               *)

LEMMA DeafJobs ==
  ASSUME NEW j \in WindowJobs
  PROVE  /\ Deaf(j) \in WindowJobs /\ Deaf(j).kind = j.kind /\ Deaf(j).root = j.root
         /\ Deaf(j).stale = (j.stale \/ j.kind \in Recovery)
BY DEF Deaf, WindowJobs

LEMMA ResetTypes ==
  ASSUME NEW w \in Windows
  PROVE  Reset(w) \in Windows
<1> DEFINE js == [i \in DOMAIN w.jobs |-> Deaf(w.jobs[i])]
           cs == [i \in DOMAIN w.inbox |-> DeafCallback(w.inbox[i])]
<1>1. w.jobs \in Seq(WindowJobs) /\ w.inbox \in Seq(Calls)
  BY DEF Windows
<1>2. js \in Seq(WindowJobs)
  <2>1. \A i \in 1 .. Len(w.jobs) : w.jobs[i] \in WindowJobs
    BY <1>1, ElementOfSeq
  <2>2. \A i \in 1 .. Len(w.jobs) : Deaf(w.jobs[i]) \in WindowJobs
    BY <2>1, DeafJobs
  <2>3. DOMAIN w.jobs = 1 .. Len(w.jobs) /\ Len(w.jobs) \in Nat
    BY <1>1, LenProperties
  <2>4. QED BY <2>2, <2>3, IsASeq
<1>3. cs \in Seq(Calls)
  <2>1. \A i \in 1 .. Len(w.inbox) : w.inbox[i] \in Calls
    BY <1>1, ElementOfSeq
  <2>2. \A i \in 1 .. Len(w.inbox) : DeafCallback(w.inbox[i]) \in Calls
    BY <2>1, DeafJobs DEF Calls, DeafCallback
  <2>3. DOMAIN w.inbox = 1 .. Len(w.inbox) /\ Len(w.inbox) \in Nat
    BY <1>1, LenProperties
  <2>4. QED BY <2>2, <2>3, IsASeq
<1>4. Reset(w) = [w EXCEPT !.jobs = js, !.inbox = cs, !.failures = <<>>, !.recovering = FALSE,
                           !.subject = Nil, !.busy = w.busy /\ ~w.recovering]
  BY DEF Reset
<1> HIDE DEF js, cs
<1>5. <<>> \in Seq(Troubles)
  BY EmptySeq
<1>6. QED BY <1>2, <1>3, <1>4, <1>5 DEF Windows, Names

LEMMA ResetFields ==
  ASSUME NEW w \in Windows
  PROVE  /\ Reset(w).project = w.project /\ Reset(w).proposal = w.proposal
         /\ Reset(w).busy = (w.busy /\ ~w.recovering) /\ Reset(w).byAnalysis = w.byAnalysis
         /\ Reset(w).recovering = FALSE /\ Reset(w).subject = Nil
         /\ Reset(w).failures = <<>> /\ Reset(w).pending = w.pending
         /\ Reset(w).polls = w.polls /\ Reset(w).refresh = w.refresh
         /\ Reset(w).timers = w.timers /\ Reset(w).crossed = w.crossed
         /\ Reset(w).moved = w.moved /\ Reset(w).stuck = w.stuck
         /\ Reset(w).opened = w.opened /\ Reset(w).made = w.made
BY DEF Reset, Windows

-----------------------------------------------------------------------------
(* Who is under way.                                                       *)

LEMMA Unders ==
  ASSUME NEW w, NEW kinds
  PROVE  UnderWay(w, kinds) <=> LiveJobs(w, kinds) # {} \/ LiveCalls(w, kinds) # {}
BY DEF UnderWay, LiveJobs, LiveCalls

LEMMA UnderSplit ==
  ASSUME NEW w
  PROVE  UnderWay(w, AllKinds) <=> UnderWay(w, StepKinds) \/ UnderWay(w, Recovery)
BY DEF UnderWay, AllKinds

LEMMA Exclusive ==
  ASSUME NEW w, AtMostOne(w, AllKinds)
  PROVE  /\ AtMostOne(w, Recovery)
         /\ UnderWay(w, Recovery) => ~UnderWay(w, StepKinds)
BY DEF UnderWay, AllKinds, AtMostOne, LiveJobs, LiveCalls, Recovery, StepKinds

SameThreads(v, w) == v.jobs = w.jobs /\ v.inbox = w.inbox

LEMMA Same ==
  ASSUME NEW v, NEW w, SameThreads(v, w), NEW kinds
  PROVE  /\ LiveJobs(v, kinds) = LiveJobs(w, kinds) /\ LiveCalls(v, kinds) = LiveCalls(w, kinds)
         /\ UnderWay(v, kinds) <=> UnderWay(w, kinds)
         /\ AtMostOne(v, kinds) <=> AtMostOne(w, kinds)
BY DEF SameThreads, UnderWay, AtMostOne, LiveJobs, LiveCalls

LEMMA SameRoots ==
  ASSUME NEW v, NEW w, SameThreads(v, w), v.project = w.project
  PROVE  Rooted(v) <=> Rooted(w)
BY DEF SameThreads, Rooted, LiveJobs, LiveCalls

LEMMA ResetLive ==
  ASSUME NEW w \in Windows, NEW kinds
  PROVE  /\ LiveJobs(Reset(w), kinds) = LiveJobs(w, kinds \ Recovery)
         /\ LiveCalls(Reset(w), kinds) = LiveCalls(w, kinds \ Recovery)
         /\ \A i \in DOMAIN w.jobs : Reset(w).jobs[i].root = w.jobs[i].root
         /\ \A i \in DOMAIN w.inbox : Reset(w).inbox[i].job.root = w.inbox[i].job.root
<1>1. Reset(w).jobs = [i \in DOMAIN w.jobs |-> Deaf(w.jobs[i])]
  BY DEF Reset, Windows
<1>2. Reset(w).inbox = [i \in DOMAIN w.inbox |-> DeafCallback(w.inbox[i])]
  BY DEF Reset, Windows
<1>3. \A i \in DOMAIN w.jobs : w.jobs[i] \in WindowJobs
  BY ElementOfSeq, LenProperties DEF Windows
<1>4. \A i \in DOMAIN w.inbox : w.inbox[i] \in Calls
  BY ElementOfSeq, LenProperties DEF Windows
<1>5. \A i \in DOMAIN w.inbox :
        /\ w.inbox[i].job \in WindowJobs
        /\ DeafCallback(w.inbox[i]).job = Deaf(w.inbox[i].job)
  BY <1>4 DEF Calls, DeafCallback
<1>6. \A i \in DOMAIN w.jobs :
        /\ Reset(w).jobs[i].kind = w.jobs[i].kind /\ Reset(w).jobs[i].root = w.jobs[i].root
        /\ Reset(w).jobs[i].stale = (w.jobs[i].stale \/ w.jobs[i].kind \in Recovery)
  BY <1>1, <1>3, DeafJobs
<1>7. \A i \in DOMAIN w.inbox :
        /\ Reset(w).inbox[i].job.kind = w.inbox[i].job.kind
        /\ Reset(w).inbox[i].job.root = w.inbox[i].job.root
        /\ Reset(w).inbox[i].job.stale = (w.inbox[i].job.stale \/ w.inbox[i].job.kind \in Recovery)
  BY <1>2, <1>5, DeafJobs
<1>8. DOMAIN Reset(w).jobs = DOMAIN w.jobs /\ DOMAIN Reset(w).inbox = DOMAIN w.inbox
  BY <1>1, <1>2
<1>9. LiveJobs(Reset(w), kinds) = LiveJobs(w, kinds \ Recovery)
  BY <1>6, <1>8 DEF LiveJobs
<1>10. LiveCalls(Reset(w), kinds) = LiveCalls(w, kinds \ Recovery)
  BY <1>7, <1>8 DEF LiveCalls
<1>11. QED BY <1>6, <1>7, <1>9, <1>10

(* What is left of w in v.                                                 *)
Within(v, w) ==
  /\ \A i \in LiveJobs(v, AllKinds) :
       i \in LiveJobs(w, AllKinds) /\ v.jobs[i].root = w.jobs[i].root
  /\ \A i \in LiveCalls(v, AllKinds) :
       i \in LiveCalls(w, AllKinds) /\ v.inbox[i].job.root = w.inbox[i].job.root

LEMMA WithinRoots ==
  ASSUME NEW v, NEW w, Within(v, w), v.project = w.project, Rooted(w)
  PROVE  Rooted(v)
BY DEF Within, Rooted

LEMMA ResetUnder ==
  ASSUME NEW w \in Windows
  PROVE  /\ ~UnderWay(Reset(w), Recovery) /\ AtMostOne(Reset(w), Recovery)
         /\ UnderWay(Reset(w), StepKinds) <=> UnderWay(w, StepKinds)
         /\ UnderWay(Reset(w), AllKinds) <=> UnderWay(w, StepKinds)
         /\ AtMostOne(w, AllKinds) => AtMostOne(Reset(w), AllKinds)
         /\ Within(Reset(w), w)
<1>1. /\ Recovery \ Recovery = {} /\ StepKinds \ Recovery = StepKinds
      /\ AllKinds \ Recovery = StepKinds
  BY DEF AllKinds, StepKinds, Recovery
<1>2. LiveJobs(Reset(w), Recovery) = {} /\ LiveCalls(Reset(w), Recovery) = {}
  <2>1. LiveJobs(w, {}) = {} /\ LiveCalls(w, {}) = {}
    BY DEF LiveJobs, LiveCalls
  <2>2. QED BY <1>1, <2>1, ResetLive
<1>3. /\ LiveJobs(Reset(w), StepKinds) = LiveJobs(w, StepKinds)
      /\ LiveCalls(Reset(w), StepKinds) = LiveCalls(w, StepKinds)
      /\ LiveJobs(Reset(w), AllKinds) = LiveJobs(w, StepKinds)
      /\ LiveCalls(Reset(w), AllKinds) = LiveCalls(w, StepKinds)
  BY <1>1, ResetLive
<1>4. /\ LiveJobs(w, StepKinds) \subseteq LiveJobs(w, AllKinds)
      /\ LiveCalls(w, StepKinds) \subseteq LiveCalls(w, AllKinds)
  BY DEF LiveJobs, LiveCalls, AllKinds
<1>5. /\ LiveJobs(w, AllKinds) \subseteq DOMAIN w.jobs
      /\ LiveCalls(w, AllKinds) \subseteq DOMAIN w.inbox
  BY DEF LiveJobs, LiveCalls
<1>6. Within(Reset(w), w)
  BY <1>3, <1>4, <1>5, ResetLive DEF Within
<1>7. AtMostOne(w, AllKinds) => AtMostOne(Reset(w), AllKinds)
  BY <1>3, <1>4 DEF AtMostOne
<1>8. AtMostOne(Reset(w), Recovery) /\ ~UnderWay(Reset(w), Recovery)
  BY <1>2, Unders DEF AtMostOne
<1>9. QED BY <1>3, <1>6, <1>7, <1>8, Unders

-----------------------------------------------------------------------------
(* The handlers that do no more than change who holds what.                *)

(* What every handler keeps, wherever the project is.                      *)
Core(w) ==
  w \in Windows /\ RecoveryInv(w) /\ PanelInv(w) /\ PollInv(w) /\ TimerInv(w)

LEMMA ResetCore ==
  ASSUME NEW w, Core(w)
  PROVE  Core(Reset(w)) /\ FailureInv(Reset(w))
<1>1. w \in Windows /\ Reset(w) \in Windows
  BY ResetTypes DEF Core
<1>2. RecoveryInv(Reset(w))
  BY <1>1, ResetUnder, ResetFields DEF RecoveryInv
<1>3. PanelInv(Reset(w))
  <2>1. SUFFICES ASSUME ~w.crossed, ~w.stuck
                 PROVE  /\ AtMostOne(Reset(w), AllKinds)
                        /\ w.byAnalysis => w.pending > 0 /\ ~UnderWay(w, StepKinds)
                        /\ (w.busy /\ ~w.recovering) <=> (UnderWay(w, StepKinds) \/ w.byAnalysis)
    BY <1>1, ResetUnder, ResetFields DEF PanelInv
  <2>2. /\ AtMostOne(w, AllKinds)
        /\ w.byAnalysis => w.pending > 0 /\ ~UnderWay(w, AllKinds)
        /\ w.busy <=> UnderWay(w, AllKinds) \/ w.byAnalysis
    BY <2>1 DEF Core, PanelInv
  <2>3. w.recovering <=> UnderWay(w, Recovery)
    BY DEF Core, RecoveryInv
  <2>4. AtMostOne(Reset(w), AllKinds)
    BY <1>1, <2>2, ResetUnder
  <2>5. QED BY <2>2, <2>3, <2>4, Exclusive, UnderSplit
<1>4. PollInv(Reset(w)) /\ TimerInv(Reset(w)) /\ FailureInv(Reset(w))
  BY <1>1, ResetFields DEF Core, PollInv, TimerInv, FailureInv
<1>5. QED BY <1>1, <1>2, <1>3, <1>4 DEF Core

(* What is said of the project shown as well.                              *)
Sound(w) == Core(w) /\ OwnInv(w)

LEMMA CoreSame ==
  ASSUME NEW v \in Windows, NEW w, Core(w), SameThreads(v, w), TimerInv(v),
         v.busy = w.busy, v.byAnalysis = w.byAnalysis, v.recovering = w.recovering,
         v.crossed = w.crossed, v.stuck = w.stuck, v.pending = w.pending, v.polls = w.polls
  PROVE  Core(v)
<1>1. RecoveryInv(v)
  BY Same DEF Core, RecoveryInv
<1>2. PanelInv(v)
  BY Same DEF Core, PanelInv
<1>3. PollInv(v)
  BY DEF Core, PollInv
<1>4. QED BY <1>1, <1>2, <1>3 DEF Core

LEMMA SetProjectFacts ==
  ASSUME NEW w \in Windows, NEW p \in Names
  PROVE  LET v == SetProject(w, p)
         IN  /\ v \in Windows
             /\ v.subject = p /\ v.project = w.project /\ v.opened = w.opened
             /\ v.proposal = w.proposal /\ v.made = w.made
             /\ v.refresh = w.refresh /\ v.moved = w.moved
             /\ UnderWay(v, StepKinds) <=> UnderWay(w, StepKinds)
             /\ w.subject # p => ~UnderWay(v, Recovery)
             /\ Within(v, w)
<1>1. CASE w.subject = p
  <2>1. SetProject(w, p) = w
    BY <1>1 DEF SetProject
  <2>2. QED BY <1>1, <2>1 DEF Within
<1>2. CASE w.subject # p
  <2>1. SetProject(w, p) = [Reset(w) EXCEPT !.subject = p]
    BY <1>2 DEF SetProject
  <2>2. Reset(w) \in Windows
    BY ResetTypes
  <2>3. /\ SetProject(w, p) \in Windows /\ SameThreads(SetProject(w, p), Reset(w))
        /\ SetProject(w, p).subject = p
        /\ SetProject(w, p).project = Reset(w).project /\ SetProject(w, p).opened = Reset(w).opened
        /\ SetProject(w, p).proposal = Reset(w).proposal /\ SetProject(w, p).made = Reset(w).made
        /\ SetProject(w, p).refresh = Reset(w).refresh /\ SetProject(w, p).moved = Reset(w).moved
    BY <2>1, <2>2 DEF Windows, SameThreads
  <2>4. /\ UnderWay(SetProject(w, p), StepKinds) <=> UnderWay(w, StepKinds)
        /\ ~UnderWay(SetProject(w, p), Recovery)
    BY <2>3, Same, ResetUnder
  <2>5. Within(SetProject(w, p), w)
    BY <2>3, Same, ResetUnder DEF Within, SameThreads
  <2>6. QED BY <2>3, <2>4, <2>5, ResetFields
<1>3. QED BY <1>1, <1>2

LEMMA SetProjectCore ==
  ASSUME NEW w, NEW p \in Names, Core(w)
  PROVE  /\ Core(SetProject(w, p))
         /\ FailureInv(w) => FailureInv(SetProject(w, p))
<1>1. CASE w.subject = p
  BY <1>1 DEF SetProject
<1>2. CASE w.subject # p
  <2>1. SetProject(w, p) = [Reset(w) EXCEPT !.subject = p]
    BY <1>2 DEF SetProject
  <2>2. Core(Reset(w)) /\ FailureInv(Reset(w)) /\ Reset(w) \in Windows
    BY ResetCore, ResetTypes DEF Core
  <2> HIDE DEF Reset
  <2>3. /\ SetProject(w, p) \in Windows /\ SameThreads(SetProject(w, p), Reset(w))
        /\ SetProject(w, p).busy = Reset(w).busy
        /\ SetProject(w, p).byAnalysis = Reset(w).byAnalysis
        /\ SetProject(w, p).recovering = Reset(w).recovering
        /\ SetProject(w, p).crossed = Reset(w).crossed /\ SetProject(w, p).stuck = Reset(w).stuck
        /\ SetProject(w, p).pending = Reset(w).pending /\ SetProject(w, p).polls = Reset(w).polls
        /\ SetProject(w, p).failures = Reset(w).failures
        /\ SetProject(w, p).drains = Reset(w).drains
        /\ SetProject(w, p).refresh = Reset(w).refresh /\ SetProject(w, p).moved = Reset(w).moved
        /\ SetProject(w, p).timers = Reset(w).timers
    BY <2>1, <2>2 DEF Windows, SameThreads
  <2>4. TimerInv(SetProject(w, p)) /\ FailureInv(SetProject(w, p))
    BY <2>2, <2>3 DEF Core, TimerInv, FailureInv
  <2>5. QED BY <2>2, <2>3, <2>4, CoreSame
<1>3. QED BY <1>1, <1>2

LEMMA SetProjectSound ==
  ASSUME NEW w, NEW p \in Names, Sound(w), p = w.project
  PROVE  Sound(SetProject(w, p))
<1>1. Core(SetProject(w, p)) /\ w \in Windows
  BY SetProjectCore DEF Sound, Core
<1>2. OwnInv(SetProject(w, p))
  BY <1>1, SetProjectFacts, WithinRoots DEF Sound, OwnInv
<1>3. QED BY <1>1, <1>2 DEF Sound

LEMMA Unrooted ==
  ASSUME NEW w, ~UnderWay(w, AllKinds)
  PROVE  Rooted(w)
BY Unders DEF Rooted

LEMMA ShowSound ==
  ASSUME NEW w, NEW p \in Names, Sound(w), p \in Projects \/ p = w.project \/ w.moved
  PROVE  /\ Sound(Show(w, p))
         /\ FailureInv(w) => FailureInv(Show(w, p))
<1> DEFINE v == [w EXCEPT !.opened = p, !.project = p,
                          !.moved = @ \/ (w.project # p /\ Attached(w))]
<1>1. Show(w, p) = SetProject(v, p)
  BY DEF Show
<1>2. w \in Windows
  BY DEF Sound, Core
<1>3. /\ v \in Windows /\ SameThreads(v, w)
      /\ v.busy = w.busy /\ v.byAnalysis = w.byAnalysis /\ v.recovering = w.recovering
      /\ v.crossed = w.crossed /\ v.stuck = w.stuck /\ v.pending = w.pending /\ v.polls = w.polls
      /\ v.failures = w.failures /\ v.drains = w.drains /\ v.refresh = w.refresh
      /\ v.timers = w.timers /\ v.project = p /\ v.proposal = w.proposal /\ v.subject = w.subject
      /\ v.moved = (w.moved \/ (w.project # p /\ Attached(w)))
  BY <1>2 DEF Windows, SameThreads
<1> HIDE DEF v
<1>4. TimerInv(v) /\ (FailureInv(w) => FailureInv(v))
  BY <1>3 DEF Sound, Core, TimerInv, FailureInv
<1>5. Core(v)
  BY <1>3, <1>4, CoreSame DEF Sound
<1>6. Core(Show(w, p)) /\ (FailureInv(w) => FailureInv(Show(w, p)))
  BY <1>1, <1>4, <1>5, SetProjectCore
<1>7. OwnInv(Show(w, p))
  <2> DEFINE u == Show(w, p)
  <2>1. /\ u.subject = p /\ u.project = p /\ u.proposal = w.proposal /\ u.refresh = w.refresh
        /\ u.moved = v.moved
        /\ UnderWay(u, StepKinds) <=> UnderWay(w, StepKinds)
        /\ w.subject # p => ~UnderWay(u, Recovery)
        /\ Within(u, v)
    BY <1>1, <1>3, SetProjectFacts, Same
  <2> HIDE DEF u
  <2>2. SUFFICES ASSUME ~u.moved
                 PROVE  /\ Rooted(u)
                        /\ w.proposal # NoProposal => w.proposal.of = p
                        /\ w.refresh \in {Nil, p}
    BY <2>1 DEF OwnInv, u
  <2>3. /\ Rooted(w)
        /\ w.proposal # NoProposal => w.proposal.of = w.project
        /\ w.subject \in {Nil, w.project} /\ w.refresh \in {Nil, w.project} /\ ~w.moved
    BY <1>3, <2>1, <2>2 DEF Sound, OwnInv
  <2>4. CASE w.project = p
    <3>1. Rooted(v)
      BY <1>3, <2>3, <2>4, SameRoots
    <3>2. QED BY <1>3, <2>1, <2>3, <2>4, <3>1, WithinRoots
  <2>5. CASE w.project # p
    <3>1. ~UnderWay(w, StepKinds) /\ w.proposal = NoProposal /\ w.refresh = Nil
      BY <1>3, <2>1, <2>2, <2>5 DEF Attached
    <3>2. w.subject # p
      BY <2>3, <2>5, DesktopAssumption
    <3>3. ~UnderWay(u, AllKinds)
      BY <2>1, <3>1, <3>2, UnderSplit
    <3>4. QED BY <3>1, <3>3, Unrooted
  <2>6. QED BY <2>4, <2>5
<1>8. QED BY <1>6, <1>7 DEF Sound

LEMMA CloseSound ==
  ASSUME NEW w, NEW p \in Names, Sound(w)
  PROVE  /\ Sound(Close(w, p)) /\ Close(w, p).project = p
         /\ FailureInv(w) => FailureInv(Close(w, p))
<1>1. CASE w.project = p
  BY <1>1 DEF Close
<1>2. CASE w.project # p
  <2> DEFINE r == Reset(w)
             v == Close(w, p)
  <2>1. v = [r EXCEPT !.proposal = NoProposal, !.refresh = Nil, !.project = p,
                      !.moved = r.moved \/ UnderWay(w, StepKinds)]
    BY <1>2 DEF Close
  <2>2. Core(r) /\ FailureInv(r) /\ r \in Windows /\ w \in Windows
    BY ResetCore, ResetTypes DEF Sound, Core
  <2>3. /\ r.moved = w.moved /\ r.subject = Nil
        /\ ~UnderWay(r, Recovery)
        /\ UnderWay(r, StepKinds) <=> UnderWay(w, StepKinds)
    BY <2>2, ResetFields, ResetUnder
  <2> HIDE DEF r, v
  <2>4. NoProposal \in Proposals
    BY DEF NoProposal, Proposals, Names
  <2>5. /\ v \in Windows /\ SameThreads(v, r)
        /\ v.busy = r.busy /\ v.byAnalysis = r.byAnalysis /\ v.recovering = r.recovering
        /\ v.crossed = r.crossed /\ v.stuck = r.stuck /\ v.pending = r.pending /\ v.polls = r.polls
        /\ v.failures = r.failures /\ v.drains = r.drains /\ v.refresh = Nil
        /\ v.project = p /\ v.proposal = NoProposal /\ v.subject = r.subject
        /\ v.moved = (r.moved \/ UnderWay(w, StepKinds))
    <3>1. UnderWay(w, StepKinds) \in BOOLEAN
      BY DEF UnderWay
    <3>2. r.moved \in BOOLEAN /\ Nil \in Names
      BY <2>2 DEF Windows, Names
    <3>3. (r.moved \/ UnderWay(w, StepKinds)) \in BOOLEAN
      BY <3>1, <3>2
    <3>4. v \in Windows
      BY <2>1, <2>2, <2>4, <3>2, <3>3 DEF Windows
    <3>5. QED BY <2>1, <2>2, <3>4 DEF Windows, SameThreads
  <2>6. TimerInv(v) /\ FailureInv(v)
    BY <2>2, <2>5 DEF TimerInv, FailureInv
  <2>7. Core(v)
    BY <2>2, <2>5, <2>6, CoreSame
  <2>8. OwnInv(v)
    <3>1. SUFFICES ASSUME ~v.moved PROVE Rooted(v)
      BY <2>3, <2>5 DEF OwnInv
    <3>2. ~UnderWay(v, AllKinds)
      BY <2>3, <2>5, <3>1, Same, UnderSplit
    <3>3. QED BY <3>2, Unrooted
  <2>9. QED BY <2>5, <2>6, <2>7, <2>8 DEF Sound, v
<1>3. QED BY <1>1, <1>2

(* The panel is taken for an analysis where it is free, and the analysis   *)
(* is counted.                                                             *)
LEMMA AnalysisSound ==
  ASSUME NEW w, NEW p \in Names, Sound(w)
  PROVE  LET v == BeginAnalysis(SetAnalysing(w), p)
         IN  /\ Sound(v) /\ v.project = w.project
             /\ FailureInv(w) => FailureInv(v)
<1> DEFINE u == SetAnalysing(w)
           v == BeginAnalysis(u, p)
<1>1. w \in Windows
  BY DEF Sound, Core
<1>2. /\ u \in Windows /\ SameThreads(u, w)
      /\ u.busy = TRUE /\ u.byAnalysis = (w.byAnalysis \/ ~w.busy)
      /\ u.recovering = w.recovering /\ u.crossed = w.crossed /\ u.stuck = w.stuck
      /\ u.pending = w.pending /\ u.polls = w.polls
      /\ u.failures = w.failures /\ u.drains = w.drains
      /\ u.refresh = w.refresh /\ u.timers = w.timers /\ u.moved = w.moved
      /\ u.project = w.project /\ u.proposal = w.proposal /\ u.subject = w.subject
  BY <1>1 DEF SetAnalysing, Claim, Windows, SameThreads
<1> HIDE DEF u
<1>3. /\ v \in Windows /\ SameThreads(v, u)
      /\ v.busy = u.busy /\ v.byAnalysis = u.byAnalysis
      /\ v.recovering = u.recovering /\ v.crossed = u.crossed /\ v.stuck = u.stuck
      /\ v.pending = u.pending + 1 /\ v.polls = (IF u.pending = 0 THEN u.polls + 1 ELSE u.polls)
      /\ v.failures = u.failures /\ v.drains = u.drains
      /\ v.refresh = u.refresh /\ v.timers = u.timers /\ v.moved = u.moved
      /\ v.project = u.project /\ v.proposal = u.proposal /\ v.subject = u.subject
  <2>1. [u.analysing EXCEPT ![p] = @ + 1] \in [Projects -> Nat]
    <3>1. u.analysing \in [Projects -> Nat]
      BY <1>2 DEF Windows
    <3>2. CASE p \in Projects
      BY <3>1, <3>2
    <3>3. CASE p \notin Projects
      BY <3>1, <3>3
    <3>4. QED BY <3>2, <3>3
  <2>2. v = [u EXCEPT !.analysing = [u.analysing EXCEPT ![p] = @ + 1], !.pending = u.pending + 1,
                      !.polls = IF u.pending = 0 THEN u.polls + 1 ELSE u.polls]
    BY DEF BeginAnalysis
  <2> HIDE DEF v
  <2>3. /\ u.pending + 1 \in Nat
        /\ (IF u.pending = 0 THEN u.polls + 1 ELSE u.polls) \in Nat
    BY <1>2 DEF Windows
  <2>4. v \in Windows
    BY <1>2, <2>1, <2>2, <2>3 DEF Windows
  <2>5. QED BY <1>2, <2>2, <2>4 DEF Windows, SameThreads
<1> HIDE DEF v
<1>4. SameThreads(v, w)
  BY <1>2, <1>3 DEF SameThreads
<1>5. RecoveryInv(v)
  BY <1>2, <1>3, <1>4, Same DEF Sound, Core, RecoveryInv
<1>6. w.pending \in Nat
  BY <1>1 DEF Windows
<1>7. PanelInv(v)
  <2>1. SUFFICES ASSUME ~w.crossed, ~w.stuck
                 PROVE  /\ AtMostOne(w, AllKinds)
                        /\ w.byAnalysis \/ ~w.busy => ~UnderWay(w, AllKinds)
                        /\ UnderWay(w, AllKinds) \/ w.byAnalysis \/ ~w.busy
    <3>1. /\ AtMostOne(v, AllKinds) <=> AtMostOne(w, AllKinds)
          /\ UnderWay(v, AllKinds) <=> UnderWay(w, AllKinds)
      BY <1>4, Same
    <3>2. v.pending > 0
      BY <1>2, <1>3, <1>6
    <3>3. QED BY <1>2, <1>3, <2>1, <3>1, <3>2 DEF PanelInv
  <2>2. QED BY <2>1 DEF Sound, Core, PanelInv
<1>8. PollInv(v) /\ TimerInv(v) /\ (FailureInv(w) => FailureInv(v))
  BY <1>2, <1>3, <1>6 DEF Sound, Core, PollInv, TimerInv, FailureInv
<1>9. OwnInv(v)
  BY <1>2, <1>3, <1>4, SameRoots DEF Sound, OwnInv
<1>10. QED BY <1>2, <1>3, <1>5, <1>7, <1>8, <1>9 DEF Sound, Core, u, v

LEMMA OpenProjectSound ==
  ASSUME NEW w, NEW p \in Names, Sound(w)
  PROVE  /\ Sound(OpenProject(w, p))
         /\ FailureInv(w) => FailureInv(OpenProject(w, p))
<1>1. CASE w.recovering
  BY <1>1 DEF OpenProject
<1>2. CASE ~w.recovering
  <2> DEFINE v == Close(w, p)
             u == SetProject(v, p)
  <2>1. Sound(v) /\ v.project = p /\ (FailureInv(w) => FailureInv(v))
    BY CloseSound
  <2>2. Sound(u) /\ (FailureInv(w) => FailureInv(u))
    <3> HIDE DEF v
    <3>1. QED BY <2>1, SetProjectSound, SetProjectCore DEF Sound
  <2>3. OpenProject(w, p) = BeginAnalysis(SetAnalysing(u), p)
    BY <1>2 DEF OpenProject
  <2> HIDE DEF v, u
  <2>4. QED BY <2>2, <2>3, AnalysisSound
<1>3. QED BY <1>1, <1>2

LEMMA ReloadSound ==
  ASSUME NEW w, Sound(w)
  PROVE  Sound(Reload(w)) /\ (FailureInv(w) => FailureInv(Reload(w)))
<1>1. w.project \in Names
  BY DEF Sound, Core, Windows
<1>2. QED BY <1>1, OpenProjectSound DEF Reload

LEMMA ShowAfterStepSound ==
  ASSUME NEW w, Sound(w)
  PROVE  Sound(ShowAfterStep(w)) /\ (FailureInv(w) => FailureInv(ShowAfterStep(w)))
<1>1. w.opened \in Names
  BY DEF Sound, Core, Windows
<1>2. w.opened # Nil => w.opened \in Projects
  BY <1>1 DEF Names
<1>3. QED BY <1>1, <1>2, ReloadSound, ShowSound DEF ShowAfterStep

-----------------------------------------------------------------------------
(* A thread is started, for the project shown.                             *)

LEMMA AppendLive ==
  ASSUME NEW w \in Windows, NEW v, NEW j \in WindowJobs, ~j.stale,
         v.jobs = Append(w.jobs, j), v.inbox = w.inbox, NEW kinds
  PROVE  /\ j.kind \in kinds => UnderWay(v, kinds)
         /\ j.kind \in kinds /\ ~UnderWay(w, kinds) => AtMostOne(v, kinds)
         /\ j.kind \notin kinds => (UnderWay(v, kinds) <=> UnderWay(w, kinds))
         /\ j.kind \notin kinds => (AtMostOne(v, kinds) <=> AtMostOne(w, kinds))
<1> DEFINE n == Len(w.jobs)
<1>1. w.jobs \in Seq(WindowJobs) /\ n \in Nat /\ DOMAIN w.jobs = 1 .. n
  BY LenProperties DEF Windows
<1>2. /\ DOMAIN v.jobs = 1 .. n + 1 /\ v.jobs[n + 1] = j
      /\ \A i \in 1 .. n : v.jobs[i] = w.jobs[i]
  <2>1. Len(v.jobs) = n + 1 /\ v.jobs \in Seq(WindowJobs)
    BY <1>1, AppendProperties
  <2>2. QED BY <1>1, <2>1, AppendProperties, LenProperties
<1> HIDE DEF n
<1>3. LiveJobs(v, kinds) = LiveJobs(w, kinds) \cup (IF j.kind \in kinds THEN {n + 1} ELSE {})
  BY <1>1, <1>2 DEF LiveJobs
<1>4. LiveCalls(v, kinds) = LiveCalls(w, kinds)
  BY DEF LiveCalls
<1>5. CASE j.kind \in kinds
  <2>1. n + 1 \in LiveJobs(v, kinds)
    BY <1>3, <1>5
  <2>2. UnderWay(v, kinds)
    BY <2>1, Unders
  <2>3. ~UnderWay(w, kinds) => AtMostOne(v, kinds)
    BY <1>3, <1>4, <1>5, Unders DEF AtMostOne
  <2>4. QED BY <1>5, <2>2, <2>3
<1>6. CASE j.kind \notin kinds
  BY <1>3, <1>4, <1>6, Unders DEF AtMostOne
<1>7. QED BY <1>5, <1>6

LEMMA AppendRoots ==
  ASSUME NEW w \in Windows, NEW v, NEW j \in WindowJobs, j.root = w.project,
         v.jobs = Append(w.jobs, j), v.inbox = w.inbox, v.project = w.project, Rooted(w)
  PROVE  Rooted(v)
<1>1. w.jobs \in Seq(WindowJobs) /\ Len(w.jobs) \in Nat /\ DOMAIN w.jobs = 1 .. Len(w.jobs)
  BY LenProperties DEF Windows
<1>2. v.jobs \in Seq(WindowJobs) /\ DOMAIN v.jobs = 1 .. Len(w.jobs) + 1
  BY <1>1, AppendProperties, LenProperties
<1>3. \A i \in DOMAIN v.jobs : (i \in DOMAIN w.jobs /\ v.jobs[i] = w.jobs[i]) \/ v.jobs[i] = j
  BY <1>1, <1>2, AppendProperties
<1>4. \A i \in LiveJobs(v, AllKinds) : v.jobs[i].root = v.project
  BY <1>3 DEF Rooted, LiveJobs
<1>5. \A i \in LiveCalls(v, AllKinds) : v.inbox[i].job.root = v.project
  BY DEF Rooted, LiveCalls
<1>6. QED BY <1>4, <1>5 DEF Rooted

(* The panel is claimed for it, which crosses whoever has it already.      *)
LEMMA LaunchSound ==
  ASSUME NEW w, NEW v \in Windows, NEW j \in WindowJobs, Sound(w),
         ~j.stale, j.root = w.project, j.kind \in Recovery => ~w.recovering,
         v.jobs = Append(w.jobs, j), v.inbox = w.inbox,
         v.busy = TRUE, v.crossed = (w.crossed \/ w.busy),
         v.recovering = (w.recovering \/ j.kind \in Recovery),
         v.project = w.project, v.proposal = w.proposal, v.subject = w.subject,
         v.byAnalysis = w.byAnalysis, v.stuck = w.stuck, v.moved = w.moved,
         v.pending = w.pending, v.polls = w.polls, v.refresh = w.refresh, v.timers = w.timers,
         v.failures = w.failures, v.drains = w.drains
  PROVE  Sound(v) /\ (FailureInv(w) => FailureInv(v))
<1>1. w \in Windows /\ w.recovering \in BOOLEAN /\ w.busy \in BOOLEAN
  BY DEF Sound, Core, Windows
<1>2. RecoveryInv(v)
  <2>1. RecoveryInv(w)
    BY DEF Sound, Core
  <2>2. CASE j.kind \in Recovery
    BY <1>1, <2>1, <2>2, AppendLive DEF RecoveryInv
  <2>3. CASE j.kind \notin Recovery
    BY <1>1, <2>1, <2>3, AppendLive DEF RecoveryInv
  <2>4. QED BY <2>2, <2>3
<1>3. PanelInv(v)
  <2>1. SUFFICES ASSUME ~w.crossed, ~w.busy, ~w.stuck
                 PROVE  AtMostOne(v, AllKinds) /\ UnderWay(v, AllKinds) /\ ~w.byAnalysis
    BY <1>1 DEF PanelInv
  <2>2. ~UnderWay(w, AllKinds) /\ ~w.byAnalysis
    BY <2>1 DEF Sound, Core, PanelInv
  <2>3. j.kind \in AllKinds
    BY DEF WindowJobs, AllKinds
  <2>4. QED BY <1>1, <2>2, <2>3, AppendLive
<1>4. OwnInv(v)
  BY <1>1, AppendRoots DEF Sound, OwnInv
<1>5. PollInv(v) /\ TimerInv(v) /\ (FailureInv(w) => FailureInv(v))
  BY <1>1 DEF Sound, Core, PollInv, TimerInv, FailureInv
<1>6. QED BY <1>2, <1>3, <1>4, <1>5 DEF Sound, Core

LEMMA JobTypes ==
  ASSUME NEW w \in Windows, NEW kind \in AllKinds, NEW repaired \in Repairs
  PROVE  LET j == [Job(w, kind) EXCEPT !.repaired = repaired]
         IN  /\ j \in WindowJobs /\ ~j.stale /\ j.root = w.project /\ j.kind = kind
             /\ Job(w, kind) \in WindowJobs /\ ~Job(w, kind).stale
             /\ Job(w, kind).root = w.project /\ Job(w, kind).kind = kind
<1>1. w.project \in Names /\ w.proposal.nr \in Nat
  BY DEF Windows, Proposals
<1>2. QED BY <1>1 DEF Job, WindowJobs, AllKinds, Repairs

LEMMA RecoverSound ==
  ASSUME NEW w, NEW f \in Troubles, Sound(w), ~w.recovering
  PROVE  Sound(Recover(w, f)) /\ (FailureInv(w) => FailureInv(Recover(w, f)))
<1>1. CASE f.attempted
  BY <1>1 DEF Recover
<1>2. CASE ~f.attempted
  <2> DEFINE j == [Job(w, "recover") EXCEPT !.repaired = f.repaired]
             v == Recover(w, f)
  <2>1. w \in Windows /\ f.repaired \in Repairs
    BY DEF Sound, Core, Troubles
  <2>2. j \in WindowJobs /\ ~j.stale /\ j.root = w.project /\ j.kind = "recover"
    BY <2>1, JobTypes DEF AllKinds, Recovery
  <2> HIDE DEF j
  <2>3. v = [w EXCEPT !.busy = TRUE, !.crossed = w.crossed \/ w.busy, !.recovering = TRUE,
                      !.jobs = Append(w.jobs, j)]
    BY <1>2, <2>1 DEF Recover, RunAsync, Claim, j, Windows
  <2>4. Append(w.jobs, j) \in Seq(WindowJobs)
    BY <2>1, <2>2, AppendProperties DEF Windows
  <2> HIDE DEF v
  <2>5. v \in Windows
    BY <2>1, <2>3, <2>4 DEF Windows
  <2>6. /\ v.jobs = Append(w.jobs, j) /\ v.inbox = w.inbox
        /\ v.busy = TRUE /\ v.crossed = (w.crossed \/ w.busy) /\ v.recovering = TRUE
        /\ v.project = w.project /\ v.proposal = w.proposal /\ v.subject = w.subject
        /\ v.byAnalysis = w.byAnalysis /\ v.stuck = w.stuck /\ v.moved = w.moved
        /\ v.pending = w.pending /\ v.polls = w.polls
        /\ v.refresh = w.refresh /\ v.timers = w.timers
        /\ v.failures = w.failures /\ v.drains = w.drains
    BY <2>1, <2>3 DEF Windows
  <2>7. Sound(v) /\ (FailureInv(w) => FailureInv(v))
    BY <2>2, <2>5, <2>6, LaunchSound DEF Recovery
  <2>8. QED BY <2>7 DEF v
<1>3. QED BY <1>1, <1>2

LEMMA HandleFailureSound ==
  ASSUME NEW w, NEW f \in Troubles, Sound(w)
  PROVE  Sound(HandleFailure(w, f)) /\ (FailureInv(w) => FailureInv(HandleFailure(w, f)))
<1>1. w \in Windows /\ w.project \in Names
  BY DEF Sound, Core, Windows
<1>2. CASE w.recovering
  <2> DEFINE g == [f EXCEPT !.of = w.project]
             v == HandleFailure(w, f)
  <2>1. v = [w EXCEPT !.failures = Append(w.failures, g)]
    BY <1>2 DEF HandleFailure
  <2>2. g \in Troubles
    BY <1>1 DEF Troubles
  <2>3. Append(w.failures, g) \in Seq(Troubles)
    BY <1>1, <2>2, AppendProperties DEF Windows
  <2> HIDE DEF g, v
  <2>4. v \in Windows
    BY <1>1, <2>1, <2>3 DEF Windows
  <2>5. /\ SameThreads(v, w)
        /\ v.busy = w.busy /\ v.byAnalysis = w.byAnalysis /\ v.recovering = w.recovering
        /\ v.crossed = w.crossed /\ v.stuck = w.stuck /\ v.pending = w.pending /\ v.polls = w.polls
        /\ v.project = w.project /\ v.proposal = w.proposal /\ v.subject = w.subject
        /\ v.moved = w.moved /\ v.refresh = w.refresh /\ v.timers = w.timers
    BY <1>1, <2>1 DEF Windows, SameThreads
  <2>6. TimerInv(v) /\ FailureInv(v)
    BY <1>2, <2>5 DEF Sound, Core, TimerInv, FailureInv
  <2>7. Core(v)
    BY <2>4, <2>5, <2>6, CoreSame DEF Sound
  <2>8. OwnInv(v)
    BY <2>5, SameRoots DEF Sound, OwnInv
  <2>9. QED BY <2>6, <2>7, <2>8 DEF Sound, v
<1>3. CASE ~w.recovering
  <2> DEFINE v == SetProject(w, w.project)
  <2>1. Sound(v) /\ (FailureInv(w) => FailureInv(v))
    BY <1>1, SetProjectSound, SetProjectCore DEF Sound
  <2>2. ~v.recovering
    <3> DEFINE u == Reset(w)
    <3>1. u \in Windows /\ u.recovering = FALSE
      BY <1>1, ResetTypes, ResetFields
    <3>2. v = w \/ v = [u EXCEPT !.subject = w.project]
      BY DEF SetProject
    <3> HIDE DEF u, v
    <3>3. QED BY <1>1, <1>3, <3>1, <3>2 DEF Windows
  <2>3. HandleFailure(w, f) = Recover(v, f)
    BY <1>3 DEF HandleFailure
  <2> HIDE DEF v
  <2>4. QED BY <2>1, <2>2, <2>3, RecoverSound
<1>4. QED BY <1>2, <1>3

-----------------------------------------------------------------------------
(* A callback is taken from the queue: w without its first one.            *)

Taken(w) == [w EXCEPT !.inbox = Tail(w.inbox)]

LEMMA TakenFields ==
  ASSUME NEW w \in Windows, w.inbox # <<>>
  PROVE  LET v == Taken(w)
         IN  /\ v \in Windows /\ Head(w.inbox) \in Calls
             /\ v.jobs = w.jobs /\ v.inbox = Tail(w.inbox)
             /\ v.busy = w.busy /\ v.byAnalysis = w.byAnalysis /\ v.recovering = w.recovering
             /\ v.crossed = w.crossed /\ v.stuck = w.stuck
             /\ v.pending = w.pending /\ v.polls = w.polls
             /\ v.project = w.project /\ v.proposal = w.proposal /\ v.subject = w.subject
             /\ v.moved = w.moved /\ v.refresh = w.refresh /\ v.timers = w.timers
             /\ v.failures = w.failures /\ v.drains = w.drains
<1>1. w.inbox \in Seq(Calls)
  BY DEF Windows
<1>2. Tail(w.inbox) \in Seq(Calls) /\ Head(w.inbox) \in Calls
  BY <1>1, HeadTailProperties
<1>3. QED BY <1>2 DEF Taken, Windows

Heard(r, kinds) == r.job.kind \in kinds /\ ~r.job.stale

LEMMA TakenLive ==
  ASSUME NEW w \in Windows, w.inbox # <<>>, NEW kinds
  PROVE  LET v == Taken(w)
             r == Head(w.inbox)
         IN  /\ UnderWay(w, kinds) <=> UnderWay(v, kinds) \/ Heard(r, kinds)
             /\ AtMostOne(w, kinds) => AtMostOne(v, kinds)
             /\ AtMostOne(w, kinds) /\ Heard(r, kinds) => ~UnderWay(v, kinds)
             /\ Rooted(w) => Rooted(v) /\ (Heard(r, AllKinds) => r.job.root = w.project)
<1> DEFINE v == Taken(w)
           r == Head(w.inbox)
           n == Len(w.inbox)
<1>1. w.inbox \in Seq(Calls) /\ n \in Nat /\ n > 0 /\ DOMAIN w.inbox = 1 .. n
  BY EmptySeq, LenProperties DEF Windows
<1>2. /\ DOMAIN v.inbox = 1 .. n - 1 /\ w.inbox[1] = r
      /\ \A i \in 1 .. n - 1 : v.inbox[i] = w.inbox[i + 1]
  <2>1. v.inbox = Tail(w.inbox)
    BY TakenFields
  <2>2. Len(Tail(w.inbox)) = n - 1 /\ Tail(w.inbox) \in Seq(Calls)
    BY <1>1, HeadTailProperties
  <2>3. \A i \in 1 .. n - 1 : Tail(w.inbox)[i] = w.inbox[i + 1]
    BY <1>1, <2>2, HeadTailProperties
  <2>4. QED BY <1>1, <2>1, <2>2, <2>3, LenProperties, HeadTailProperties
<1>3. v.jobs = w.jobs /\ v.project = w.project
  BY TakenFields
<1> HIDE DEF v, r, n
<1>4. ASSUME NEW ks
      PROVE  /\ \A i : i \in LiveCalls(v, ks) <=> i \in Nat /\ i + 1 \in LiveCalls(w, ks) /\ i # 0
             /\ 1 \in LiveCalls(w, ks) <=> Heard(r, ks)
             /\ LiveJobs(v, ks) = LiveJobs(w, ks)
             /\ LiveCalls(w, ks) \subseteq 1 .. n
  BY <1>1, <1>2, <1>3 DEF LiveCalls, LiveJobs, Heard
<1>5. LiveCalls(w, kinds) # {} <=> LiveCalls(v, kinds) # {} \/ Heard(r, kinds)
  <2>1. ASSUME NEW i \in LiveCalls(w, kinds), i # 1
        PROVE  i - 1 \in LiveCalls(v, kinds)
    BY <1>1, <1>4, <2>1
  <2>2. QED BY <1>4, <2>1
<1>6. UnderWay(w, kinds) <=> UnderWay(v, kinds) \/ Heard(r, kinds)
  BY <1>4, <1>5, Unders
<1>7. AtMostOne(w, kinds) => AtMostOne(v, kinds)
  <2>1. SUFFICES ASSUME AtMostOne(w, kinds) PROVE AtMostOne(v, kinds)
    OBVIOUS
  <2>2. ASSUME NEW i \in LiveCalls(v, kinds), NEW j \in LiveCalls(v, kinds)
        PROVE  i = j
    <3>1. i \in Nat /\ j \in Nat /\ i + 1 \in LiveCalls(w, kinds) /\ j + 1 \in LiveCalls(w, kinds)
      BY <1>4
    <3>2. i + 1 = j + 1
      BY <2>1, <3>1 DEF AtMostOne
    <3>3. QED BY <3>1, <3>2
  <2>3. LiveJobs(v, kinds) = {} \/ LiveCalls(v, kinds) = {}
    BY <1>4, <2>1 DEF AtMostOne
  <2>4. QED BY <1>4, <2>1, <2>2, <2>3 DEF AtMostOne
<1>8. AtMostOne(w, kinds) /\ Heard(r, kinds) => ~UnderWay(v, kinds)
  <2>1. SUFFICES ASSUME AtMostOne(w, kinds), Heard(r, kinds)
                 PROVE  LiveJobs(v, kinds) = {} /\ LiveCalls(v, kinds) = {}
    BY Unders
  <2>2. 1 \in LiveCalls(w, kinds)
    BY <1>4, <2>1
  <2>3. LiveJobs(v, kinds) = {}
    BY <1>4, <2>1, <2>2 DEF AtMostOne
  <2>4. ASSUME NEW i \in LiveCalls(v, kinds) PROVE FALSE
    <3>1. i \in Nat /\ i # 0 /\ i + 1 \in LiveCalls(w, kinds)
      BY <1>4
    <3>2. i + 1 = 1
      BY <2>1, <2>2, <3>1 DEF AtMostOne
    <3>3. QED BY <3>1, <3>2
  <2>5. QED BY <2>3, <2>4
<1>9. Rooted(w) => Rooted(v) /\ (Heard(r, AllKinds) => r.job.root = w.project)
  <2>1. SUFFICES ASSUME Rooted(w)
                 PROVE  Rooted(v) /\ (Heard(r, AllKinds) => r.job.root = w.project)
    OBVIOUS
  <2>2. ASSUME NEW i \in LiveJobs(v, AllKinds) PROVE v.jobs[i].root = v.project
    BY <1>3, <1>4, <2>1 DEF Rooted
  <2>3. ASSUME NEW i \in LiveCalls(v, AllKinds) PROVE v.inbox[i].job.root = v.project
    <3>1. i + 1 \in LiveCalls(w, AllKinds) /\ v.inbox[i] = w.inbox[i + 1]
      BY <1>1, <1>2, <1>4
    <3>2. QED BY <1>3, <2>1, <3>1 DEF Rooted
  <2>4. Heard(r, AllKinds) => r.job.root = w.project
    BY <1>2, <1>4, <2>1 DEF Rooted
  <2>5. QED BY <2>2, <2>3, <2>4 DEF Rooted
<1>10. QED BY <1>6, <1>7, <1>8, <1>9 DEF v, r

(* One that is not heard any more leaves no gap; one that is has held the  *)
(* panel, and its handler gives it back.                                   *)
LEMMA TakenSound ==
  ASSUME NEW w, Sound(w), w.inbox # <<>>, Head(w.inbox).job.stale
  PROVE  Sound(Taken(w)) /\ (FailureInv(w) => FailureInv(Taken(w)))
<1> DEFINE v == Taken(w)
<1>1. w \in Windows
  BY DEF Sound, Core
<1>2. /\ v \in Windows
      /\ v.busy = w.busy /\ v.byAnalysis = w.byAnalysis /\ v.recovering = w.recovering
      /\ v.crossed = w.crossed /\ v.stuck = w.stuck /\ v.pending = w.pending /\ v.polls = w.polls
      /\ v.project = w.project /\ v.proposal = w.proposal /\ v.subject = w.subject
      /\ v.moved = w.moved /\ v.refresh = w.refresh /\ v.timers = w.timers
      /\ v.failures = w.failures /\ v.drains = w.drains
  BY <1>1, TakenFields
<1>3. /\ UnderWay(v, AllKinds) <=> UnderWay(w, AllKinds)
      /\ UnderWay(v, Recovery) <=> UnderWay(w, Recovery)
      /\ AtMostOne(w, AllKinds) => AtMostOne(v, AllKinds)
      /\ AtMostOne(w, Recovery) => AtMostOne(v, Recovery)
      /\ Rooted(w) => Rooted(v)
  BY <1>1, TakenLive DEF Heard
<1> HIDE DEF v
<1>4. RecoveryInv(v)
  BY <1>2, <1>3 DEF Sound, Core, RecoveryInv
<1>5. PanelInv(v)
  BY <1>2, <1>3 DEF Sound, Core, PanelInv
<1>6. OwnInv(v)
  BY <1>2, <1>3 DEF Sound, OwnInv
<1>7. PollInv(v) /\ TimerInv(v) /\ (FailureInv(w) => FailureInv(v))
  BY <1>2 DEF Sound, Core, PollInv, TimerInv, FailureInv
<1>8. QED BY <1>2, <1>4, <1>5, <1>6, <1>7 DEF Sound, Core, v

LEMMA ReleaseSound ==
  ASSUME NEW w, Sound(w), w.inbox # <<>>, Heard(Head(w.inbox), StepKinds)
  PROVE  LET v == Release(Taken(w))
         IN  /\ Sound(v) /\ v.project = w.project /\ v.moved = w.moved
             /\ FailureInv(w) => FailureInv(v)
<1> DEFINE u == Taken(w)
           v == Release(u)
<1>1. w \in Windows
  BY DEF Sound, Core
<1>2. /\ u \in Windows
      /\ u.busy = w.busy /\ u.byAnalysis = w.byAnalysis /\ u.recovering = w.recovering
      /\ u.crossed = w.crossed /\ u.stuck = w.stuck /\ u.pending = w.pending /\ u.polls = w.polls
      /\ u.project = w.project /\ u.proposal = w.proposal /\ u.subject = w.subject
      /\ u.moved = w.moved /\ u.refresh = w.refresh /\ u.timers = w.timers
      /\ u.failures = w.failures /\ u.drains = w.drains
  BY <1>1, TakenFields
<1> HIDE DEF u
<1>3. /\ v \in Windows /\ SameThreads(v, u) /\ v.busy = FALSE
      /\ v.byAnalysis = w.byAnalysis /\ v.recovering = w.recovering
      /\ v.crossed = w.crossed /\ v.stuck = w.stuck /\ v.pending = w.pending /\ v.polls = w.polls
      /\ v.project = w.project /\ v.proposal = w.proposal /\ v.subject = w.subject
      /\ v.moved = w.moved /\ v.refresh = w.refresh /\ v.timers = w.timers
      /\ v.failures = w.failures /\ v.drains = w.drains
  BY <1>2 DEF Release, Windows, SameThreads
<1> HIDE DEF v
<1>4. Heard(Head(w.inbox), AllKinds) /\ ~Heard(Head(w.inbox), Recovery)
  BY DEF Heard, AllKinds, StepKinds, Recovery
<1>5. /\ UnderWay(v, Recovery) <=> UnderWay(w, Recovery)
      /\ AtMostOne(w, AllKinds) => ~UnderWay(v, AllKinds) /\ AtMostOne(v, AllKinds)
      /\ AtMostOne(w, Recovery) => AtMostOne(v, Recovery)
      /\ Rooted(w) => Rooted(v)
      /\ UnderWay(w, AllKinds)
  BY <1>1, <1>2, <1>3, <1>4, TakenLive, Same, SameRoots DEF u
<1>6. RecoveryInv(v)
  BY <1>3, <1>5 DEF Sound, Core, RecoveryInv
<1>7. PanelInv(v)
  BY <1>3, <1>5 DEF Sound, Core, PanelInv
<1>8. OwnInv(v)
  BY <1>3, <1>5 DEF Sound, OwnInv
<1>9. PollInv(v) /\ TimerInv(v) /\ (FailureInv(w) => FailureInv(v))
  BY <1>3 DEF Sound, Core, PollInv, TimerInv, FailureInv
<1>10. QED BY <1>3, <1>6, <1>7, <1>8, <1>9 DEF Sound, Core, u, v

LEMMA RecoveryEndsSound ==
  ASSUME NEW w, Sound(w), w.inbox # <<>>, Heard(Head(w.inbox), Recovery)
  PROVE  LET v == RecoveryEnds(Taken(w))
         IN  Sound(v) /\ FailureInv(v) /\ v.project = w.project /\ v.moved = w.moved
<1> DEFINE u == Taken(w)
           v == RecoveryEnds(u)
<1>1. w \in Windows
  BY DEF Sound, Core
<1>2. /\ u \in Windows
      /\ u.busy = w.busy /\ u.byAnalysis = w.byAnalysis /\ u.recovering = w.recovering
      /\ u.crossed = w.crossed /\ u.stuck = w.stuck /\ u.pending = w.pending /\ u.polls = w.polls
      /\ u.project = w.project /\ u.proposal = w.proposal /\ u.subject = w.subject
      /\ u.moved = w.moved /\ u.refresh = w.refresh /\ u.timers = w.timers
      /\ u.failures = w.failures /\ u.drains = w.drains
  BY <1>1, TakenFields
<1> HIDE DEF u
<1>3. /\ v \in Windows /\ SameThreads(v, u) /\ v.busy = FALSE
      /\ v.byAnalysis = w.byAnalysis /\ v.recovering = FALSE
      /\ v.crossed = w.crossed /\ v.stuck = w.stuck /\ v.pending = w.pending /\ v.polls = w.polls
      /\ v.project = w.project /\ v.proposal = w.proposal /\ v.subject = w.subject
      /\ v.moved = w.moved /\ v.refresh = w.refresh /\ v.timers = w.timers
      /\ v.failures = w.failures
      /\ v.drains = (IF w.failures = <<>> THEN w.drains ELSE w.drains + 1)
  <2> DEFINE d == IF u.failures = <<>> THEN u.drains ELSE u.drains + 1
  <2>1. d \in Nat
    BY <1>2 DEF Windows
  <2>2. v = [[u EXCEPT !.busy = FALSE] EXCEPT !.recovering = FALSE, !.drains = d]
    BY <1>2 DEF RecoveryEnds, Release, Windows
  <2>3. d = (IF w.failures = <<>> THEN w.drains ELSE w.drains + 1)
    BY <1>2
  <2> HIDE DEF d, v
  <2>4. v \in Windows
    BY <1>2, <2>1, <2>2 DEF Windows
  <2>5. QED BY <1>2, <2>2, <2>3, <2>4 DEF Windows, SameThreads
<1> HIDE DEF v
<1>4. Heard(Head(w.inbox), AllKinds)
  BY DEF Heard, AllKinds
<1>5. /\ AtMostOne(w, Recovery) => ~UnderWay(v, Recovery) /\ AtMostOne(v, Recovery)
      /\ AtMostOne(w, AllKinds) => ~UnderWay(v, AllKinds) /\ AtMostOne(v, AllKinds)
      /\ Rooted(w) => Rooted(v)
      /\ UnderWay(w, AllKinds)
  BY <1>1, <1>2, <1>3, <1>4, TakenLive, Same, SameRoots DEF u
<1>6. RecoveryInv(v)
  BY <1>3, <1>5 DEF Sound, Core, RecoveryInv
<1>7. PanelInv(v)
  BY <1>3, <1>5 DEF Sound, Core, PanelInv
<1>8. OwnInv(v)
  BY <1>3, <1>5 DEF Sound, OwnInv
<1>9. PollInv(v) /\ TimerInv(v) /\ FailureInv(v)
  <2>1. w.drains \in Nat
    BY <1>1 DEF Windows
  <2>2. QED BY <1>3, <2>1 DEF Sound, Core, PollInv, TimerInv, FailureInv
<1>10. QED BY <1>3, <1>6, <1>7, <1>8, <1>9 DEF Sound, Core, u, v

-----------------------------------------------------------------------------
(* The ends of the jobs.                                                   *)

LEMMA ShownSound ==
  ASSUME NEW w, NEW r \in Calls, Sound(w), w.moved \/ r.job.root = w.project
  PROVE  LET v == Shown(w, r)
         IN  /\ Sound(v) /\ (FailureInv(w) => FailureInv(v))
             /\ v.project = w.project /\ v.moved = w.moved
<1> DEFINE p == [nr |-> w.made + 1, of |-> r.job.root, ok |-> r.outcome = "ok"]
           v == Shown(w, r)
<1>1. w \in Windows /\ w.made + 1 \in Nat
  BY DEF Sound, Core, Windows
<1>2. p \in Proposals /\ p.of = r.job.root
  BY <1>1 DEF Proposals, Calls, WindowJobs
<1>3. v = [w EXCEPT !.made = w.made + 1, !.proposal = p]
  BY <1>1 DEF Shown, Windows
<1> HIDE DEF p, v
<1>4. /\ v \in Windows /\ SameThreads(v, w)
      /\ v.busy = w.busy /\ v.byAnalysis = w.byAnalysis /\ v.recovering = w.recovering
      /\ v.crossed = w.crossed /\ v.stuck = w.stuck /\ v.pending = w.pending /\ v.polls = w.polls
      /\ v.project = w.project /\ v.proposal = p /\ v.subject = w.subject
      /\ v.moved = w.moved /\ v.refresh = w.refresh /\ v.timers = w.timers
      /\ v.failures = w.failures /\ v.drains = w.drains
  BY <1>1, <1>2, <1>3 DEF Windows, SameThreads
<1>5. TimerInv(v) /\ (FailureInv(w) => FailureInv(v))
  BY <1>4 DEF Sound, Core, TimerInv, FailureInv
<1>6. Core(v)
  BY <1>4, <1>5, CoreSame DEF Sound
<1>7. OwnInv(v)
  BY <1>2, <1>4, SameRoots DEF Sound, OwnInv
<1>8. QED BY <1>4, <1>5, <1>6, <1>7 DEF Sound, v

LEMMA SourceChangedSound ==
  ASSUME NEW w, NEW where, Sound(w)
  PROVE  Sound(SourceChanged(w, where)) /\ (FailureInv(w) => FailureInv(SourceChanged(w, where)))
<1> DEFINE p == [w.proposal EXCEPT !.ok = FALSE]
           u == [w EXCEPT !.proposal = p]
           v == SourceChanged(w, where)
<1>1. w \in Windows /\ w.proposal \in Proposals
  BY DEF Sound, Core, Windows
<1>2. /\ p \in Proposals /\ p.of = w.proposal.of
      /\ w.proposal = NoProposal => p = NoProposal
  <2>1. p \in Proposals /\ p.of = w.proposal.of
    BY <1>1 DEF Proposals
  <2>2. ASSUME w.proposal = NoProposal PROVE p = NoProposal
    <3>1. p.nr = 0 /\ p.of = Nil /\ p.ok = FALSE
      BY <1>1, <2>2 DEF Proposals, NoProposal
    <3>2. p = [nr |-> p.nr, of |-> p.of, ok |-> p.ok]
      <4> HIDE DEF p
      <4>1. QED BY <2>1 DEF Proposals
    <3>3. QED BY <3>1, <3>2 DEF NoProposal
  <2>3. QED BY <2>1, <2>2
<1> HIDE DEF p
<1>3. /\ u \in Windows /\ SameThreads(u, w)
      /\ u.busy = w.busy /\ u.byAnalysis = w.byAnalysis /\ u.recovering = w.recovering
      /\ u.crossed = w.crossed /\ u.stuck = w.stuck /\ u.pending = w.pending /\ u.polls = w.polls
      /\ u.project = w.project /\ u.proposal = p /\ u.subject = w.subject
      /\ u.moved = w.moved /\ u.refresh = w.refresh /\ u.timers = w.timers
      /\ u.failures = w.failures /\ u.drains = w.drains
  BY <1>1, <1>2 DEF Windows, SameThreads
<1>4. v = u \/ v = [u EXCEPT !.refresh = u.project, !.timers = u.timers + 1]
  BY DEF SourceChanged, p
<1> HIDE DEF u, v
<1>5. u.timers \in Nat /\ u.project \in Names
  BY <1>3 DEF Windows
<1>6. /\ v \in Windows /\ SameThreads(v, w)
      /\ v.busy = w.busy /\ v.byAnalysis = w.byAnalysis /\ v.recovering = w.recovering
      /\ v.crossed = w.crossed /\ v.stuck = w.stuck /\ v.pending = w.pending /\ v.polls = w.polls
      /\ v.project = w.project /\ v.proposal = p /\ v.subject = w.subject
      /\ v.moved = w.moved /\ v.failures = w.failures /\ v.drains = w.drains
      /\ (v.refresh = w.refresh /\ v.timers = w.timers) \/ (v.refresh = w.project /\ v.timers > 0)
  <2>1. CASE v = u
    BY <1>3, <2>1 DEF SameThreads
  <2>2. CASE v = [u EXCEPT !.refresh = u.project, !.timers = u.timers + 1]
    <3>1. v \in Windows
      <4> DEFINE n == u.timers + 1
      <4>1. u \in Windows /\ n \in Nat
        BY <1>3, <1>5
      <4>2. v = [u EXCEPT !.refresh = u.project, !.timers = n]
        BY <2>2
      <4> HIDE DEF n
      <4>3. QED BY <1>5, <4>1, <4>2 DEF Windows
    <3>2. /\ SameThreads(v, u)
          /\ v.busy = u.busy /\ v.byAnalysis = u.byAnalysis /\ v.recovering = u.recovering
          /\ v.crossed = u.crossed /\ v.stuck = u.stuck /\ v.pending = u.pending
          /\ v.polls = u.polls /\ v.project = u.project /\ v.proposal = u.proposal
          /\ v.subject = u.subject /\ v.moved = u.moved /\ v.failures = u.failures
          /\ v.drains = u.drains /\ v.refresh = u.project /\ v.timers = u.timers + 1
      BY <1>3, <2>2, <3>1 DEF Windows, SameThreads
    <3>3. v.timers > 0
      BY <1>5, <3>2
    <3>4. QED BY <1>3, <3>1, <3>2, <3>3 DEF SameThreads
  <2>3. QED BY <1>4, <2>1, <2>2
<1>7. TimerInv(v) /\ (FailureInv(w) => FailureInv(v))
  BY <1>6 DEF Sound, Core, TimerInv, FailureInv
<1>8. Core(v)
  BY <1>6, <1>7, CoreSame DEF Sound
<1>9. OwnInv(v)
  BY <1>2, <1>6, SameRoots DEF Sound, OwnInv
<1>10. QED BY <1>7, <1>8, <1>9 DEF Sound, v

LEMMA Failures ==
  /\ Presented \in Troubles
  /\ \A repaired \in Repairs : Failure(repaired) \in Troubles
BY DEF Presented, Failure, Troubles, Repairs, Names

LEMMA ShowProposalSound ==
  ASSUME NEW w, NEW r \in Calls, Sound(w), w.moved \/ r.job.root = w.project
  PROVE  Sound(ShowProposal(w, r)) /\ (FailureInv(w) => FailureInv(ShowProposal(w, r)))
<1>1. Failure("proposal") \in Troubles
  BY Failures DEF Repairs
<1>2. Sound(Shown(w, r)) /\ (FailureInv(w) => FailureInv(Shown(w, r)))
  BY ShownSound
<1>3. QED BY <1>1, <1>2, HandleFailureSound DEF ShowProposal

LEMMA WithoutProposal ==
  ASSUME NEW w, Sound(w)
  PROVE  LET v == [w EXCEPT !.proposal = NoProposal]
         IN  Sound(v) /\ (FailureInv(w) => FailureInv(v))
<1> DEFINE v == [w EXCEPT !.proposal = NoProposal]
<1>1. w \in Windows /\ NoProposal \in Proposals
  BY DEF Sound, Core, NoProposal, Proposals, Names
<1>2. /\ v \in Windows /\ SameThreads(v, w)
      /\ v.busy = w.busy /\ v.byAnalysis = w.byAnalysis /\ v.recovering = w.recovering
      /\ v.crossed = w.crossed /\ v.stuck = w.stuck /\ v.pending = w.pending /\ v.polls = w.polls
      /\ v.project = w.project /\ v.proposal = NoProposal /\ v.subject = w.subject
      /\ v.moved = w.moved /\ v.refresh = w.refresh /\ v.timers = w.timers
      /\ v.failures = w.failures /\ v.drains = w.drains
  BY <1>1 DEF Windows, SameThreads
<1> HIDE DEF v
<1>3. TimerInv(v) /\ (FailureInv(w) => FailureInv(v))
  BY <1>2 DEF Sound, Core, TimerInv, FailureInv
<1>4. Core(v)
  BY <1>2, <1>3, CoreSame DEF Sound
<1>5. OwnInv(v)
  BY <1>2, SameRoots DEF Sound, OwnInv
<1>6. QED BY <1>3, <1>4, <1>5 DEF Sound, v

LEMMA DoneSound ==
  ASSUME NEW w, NEW r \in Calls, Sound(w), w.moved \/ r.job.root = w.project,
         r.job.kind \in StepKinds \ {"rephrase"}
  PROVE  Sound(Done(w, r)) /\ (FailureInv(w) => FailureInv(Done(w, r)))
<1>1. r.job.root \in Names
  BY DEF Calls, WindowJobs
<1>2. CASE r.job.kind = "propose"
  BY <1>2, ShowProposalSound DEF Done
<1>3. CASE r.job.kind = "approve"
  BY <1>3, WithoutProposal, ShowAfterStepSound DEF Done
<1>4. CASE r.job.kind = "undo"
  BY <1>4, ReloadSound DEF Done
<1>5. CASE r.job.kind = "build"
  BY <1>1, <1>5, OpenProjectSound DEF Done
<1>6. QED BY <1>2, <1>3, <1>4, <1>5 DEF StepKinds

LEMMA FinishedSound ==
  ASSUME NEW w, Sound(w), w.inbox # <<>>, Heard(Head(w.inbox), StepKinds \ {"rephrase"})
  PROVE  LET v == Finished(Taken(w), Head(w.inbox))
         IN  Sound(v) /\ (FailureInv(w) => FailureInv(v))
<1> DEFINE r == Head(w.inbox)
           u == Release(Taken(w))
           v == Finished(Taken(w), r)
<1>1. w \in Windows /\ r \in Calls
  BY TakenFields DEF Sound, Core
<1>2. Heard(r, StepKinds) /\ r.job.kind \in StepKinds \ {"rephrase"}
  BY DEF Heard
<1>3. Sound(u) /\ u.project = w.project /\ u.moved = w.moved /\ (FailureInv(w) => FailureInv(u))
  BY <1>2, ReleaseSound
<1>4. u.moved \/ r.job.root = u.project
  <2>1. Heard(r, AllKinds)
    BY <1>2 DEF Heard, AllKinds
  <2>2. Rooted(w) => r.job.root = w.project
    BY <1>1, <2>1, TakenLive
  <2>3. QED BY <1>3, <2>2 DEF Sound, OwnInv
<1>5. \/ v = u
      \/ \E f \in Troubles : v = HandleFailure(u, f)
      \/ v = Done(u, r)
  BY Failures DEF Finished, Repairs
<1> HIDE DEF r, u, v
<1>6. Sound(v) /\ (FailureInv(u) => FailureInv(v))
  BY <1>1, <1>2, <1>3, <1>4, <1>5, HandleFailureSound, DoneSound
<1>7. QED BY <1>3, <1>6 DEF r, v

LEMMA RephrasedSound ==
  ASSUME NEW w, Sound(w), w.inbox # <<>>, Heard(Head(w.inbox), {"rephrase"})
  PROVE  LET v == Rephrased(Taken(w), Head(w.inbox).job)
         IN  Sound(v) /\ (FailureInv(w) => FailureInv(v))
<1> DEFINE r == Head(w.inbox)
           u == Taken(w)
           v == Rephrased(u, r.job)
<1>1. w \in Windows
  BY DEF Sound, Core
<1>2. Heard(r, StepKinds) /\ ~Heard(r, Recovery)
  BY DEF Heard, StepKinds, Recovery
<1>3. v = Release(u) \/ v = [u EXCEPT !.stuck = TRUE]
  BY DEF Rephrased
<1>4. CASE v = Release(u)
  BY <1>2, <1>4, ReleaseSound
<1>5. CASE v = [u EXCEPT !.stuck = TRUE]
  <2>1. /\ u \in Windows
        /\ u.recovering = w.recovering /\ u.pending = w.pending /\ u.polls = w.polls
        /\ u.project = w.project /\ u.proposal = w.proposal /\ u.subject = w.subject
        /\ u.moved = w.moved /\ u.refresh = w.refresh /\ u.timers = w.timers
        /\ u.failures = w.failures /\ u.drains = w.drains
    BY <1>1, TakenFields
  <2>2. /\ UnderWay(u, Recovery) <=> UnderWay(w, Recovery)
        /\ AtMostOne(w, Recovery) => AtMostOne(u, Recovery)
        /\ Rooted(w) => Rooted(u)
    BY <1>1, <1>2, TakenLive
  <2> HIDE DEF u, v
  <2>3. /\ v \in Windows /\ SameThreads(v, u) /\ v.stuck = TRUE
        /\ v.recovering = w.recovering /\ v.pending = w.pending /\ v.polls = w.polls
        /\ v.project = w.project /\ v.proposal = w.proposal /\ v.subject = w.subject
        /\ v.moved = w.moved /\ v.refresh = w.refresh /\ v.timers = w.timers
        /\ v.failures = w.failures /\ v.drains = w.drains
    BY <1>5, <2>1 DEF Windows, SameThreads
  <2>4. /\ UnderWay(v, Recovery) <=> UnderWay(w, Recovery)
        /\ AtMostOne(w, Recovery) => AtMostOne(v, Recovery)
        /\ Rooted(w) => Rooted(v)
    BY <2>1, <2>2, <2>3, Same, SameRoots
  <2>5. RecoveryInv(v) /\ PanelInv(v)
    BY <2>3, <2>4 DEF Sound, Core, RecoveryInv, PanelInv
  <2>6. OwnInv(v)
    BY <2>3, <2>4 DEF Sound, OwnInv
  <2>7. PollInv(v) /\ TimerInv(v) /\ (FailureInv(w) => FailureInv(v))
    BY <2>3 DEF Sound, Core, PollInv, TimerInv, FailureInv
  <2>8. QED BY <2>3, <2>5, <2>6, <2>7 DEF Sound, Core, u, v
<1>6. QED BY <1>3, <1>4, <1>5

LEMMA RecoveredSound ==
  ASSUME NEW w, Sound(w), w.inbox # <<>>, Heard(Head(w.inbox), Recovery)
  PROVE  LET v == Recovered(Taken(w), Head(w.inbox))
         IN  Sound(v) /\ FailureInv(v)
<1> DEFINE r == Head(w.inbox)
           u == RecoveryEnds(Taken(w))
           v == Recovered(Taken(w), r)
<1>1. w \in Windows /\ r \in Calls
  BY TakenFields DEF Sound, Core
<1>2. Sound(u) /\ FailureInv(u) /\ u.project = w.project /\ u.moved = w.moved
  BY RecoveryEndsSound
<1>3. u.moved \/ r.job.root = u.project
  <2>1. Heard(r, AllKinds)
    BY DEF Heard, AllKinds
  <2>2. Rooted(w) => r.job.root = w.project
    BY <1>1, <2>1, TakenLive
  <2>3. QED BY <1>2, <2>2 DEF Sound, OwnInv
<1>4. r.job.root \in Names
  BY <1>1 DEF Calls, WindowJobs
<1>5. \/ v = u
      \/ v = Shown(u, r)
      \/ v = Show(u, r.job.root)
      \/ \E where \in {"project", "candidate"} : v = SourceChanged(u, where)
  BY DEF Recovered
<1> HIDE DEF r, u, v
<1>6. Sound(v) /\ FailureInv(v)
  <2>1. CASE v = u
    BY <1>2, <2>1
  <2>2. CASE v = Shown(u, r)
    BY <1>1, <1>2, <1>3, <2>2, ShownSound
  <2>3. CASE v = Show(u, r.job.root)
    BY <1>2, <1>3, <1>4, <2>3, ShowSound
  <2>4. CASE \E where \in {"project", "candidate"} : v = SourceChanged(u, where)
    BY <1>2, <2>4, SourceChangedSound
  <2>5. QED BY <1>5, <2>1, <2>2, <2>3, <2>4
<1>7. QED BY <1>6 DEF r, v

LEMMA CallbackSound ==
  ASSUME NEW w, Sound(w), w.inbox # <<>>
  PROVE  LET v == Callback(Taken(w), Head(w.inbox))
         IN  Sound(v) /\ (FailureInv(w) => FailureInv(v))
<1> DEFINE r == Head(w.inbox)
           v == Callback(Taken(w), r)
<1>1. r.job.kind \in AllKinds
  <2>1. r \in Calls
    BY TakenFields DEF Sound, Core
  <2>2. QED BY <2>1 DEF Calls, WindowJobs, AllKinds
<1>2. CASE r.job.stale
  BY <1>2, TakenSound DEF Callback
<1>3. CASE Heard(r, Recovery)
  BY <1>3, RecoveredSound DEF Callback, Heard
<1>4. CASE Heard(r, {"rephrase"})
  BY <1>4, RephrasedSound DEF Callback, Heard, Recovery
<1>5. CASE Heard(r, StepKinds \ {"rephrase"})
  <2>1. v = Finished(Taken(w), r)
    BY <1>5 DEF Callback, Heard, StepKinds, Recovery
  <2>2. QED BY <1>5, <2>1, FinishedSound
<1>6. QED BY <1>1, <1>2, <1>3, <1>4, <1>5 DEF Heard, AllKinds, StepKinds

-----------------------------------------------------------------------------
(* The Tk thread.                                                          *)

Polled(w) ==
  LET v == [w EXCEPT !.results = Tail(@), !.pending = IF @ = 0 THEN 0 ELSE @ - 1]
  IN  IF PollAgain(v) THEN v ELSE EndAnalysing([v EXCEPT !.polls = @ - 1])

LEMMA PolledSound ==
  ASSUME NEW w, Sound(w), w.polls > 0, w.results # <<>>
  PROVE  /\ Sound(Polled(w)) /\ (FailureInv(w) => FailureInv(Polled(w)))
         /\ Head(w.results) \in Models
<1> DEFINE n == IF w.pending = 0 THEN 0 ELSE w.pending - 1
           u == [w EXCEPT !.results = Tail(w.results), !.pending = n]
           v == Polled(w)
<1>1. w \in Windows /\ w.pending \in Nat /\ w.polls \in Nat /\ w.results \in Seq(Models)
  BY DEF Sound, Core, Windows
<1>2. Tail(w.results) \in Seq(Models) /\ Head(w.results) \in Models
  BY <1>1, HeadTailProperties
<1>3. w.pending > 0 /\ w.polls = 1 /\ n = w.pending - 1 /\ n \in Nat
  BY <1>1 DEF Sound, Core, PollInv
<1>4. v = IF u.pending > 0 THEN u ELSE EndAnalysing([u EXCEPT !.polls = u.polls - 1])
  BY DEF Polled, PollAgain
<1> HIDE DEF n
<1>5. /\ u \in Windows /\ SameThreads(u, w)
      /\ u.busy = w.busy /\ u.byAnalysis = w.byAnalysis /\ u.recovering = w.recovering
      /\ u.crossed = w.crossed /\ u.stuck = w.stuck /\ u.pending = n /\ u.polls = w.polls
      /\ u.project = w.project /\ u.proposal = w.proposal /\ u.subject = w.subject
      /\ u.moved = w.moved /\ u.refresh = w.refresh /\ u.timers = w.timers
      /\ u.failures = w.failures /\ u.drains = w.drains
  BY <1>1, <1>2, <1>3 DEF Windows, SameThreads
<1> HIDE DEF u, v
<1>6. /\ v \in Windows /\ SameThreads(v, w)
      /\ v.recovering = w.recovering /\ v.crossed = w.crossed /\ v.stuck = w.stuck
      /\ v.pending = n /\ v.polls = (IF n > 0 THEN 1 ELSE 0)
      /\ v.byAnalysis = (w.byAnalysis /\ n > 0) /\ v.busy = (w.busy /\ (w.byAnalysis => n > 0))
      /\ v.project = w.project /\ v.proposal = w.proposal /\ v.subject = w.subject
      /\ v.moved = w.moved /\ v.refresh = w.refresh /\ v.timers = w.timers
      /\ v.failures = w.failures /\ v.drains = w.drains
  <2>1. u.busy \in BOOLEAN /\ u.byAnalysis \in BOOLEAN
    BY <1>5 DEF Windows
  <2>2. CASE n > 0
    BY <1>3, <1>4, <1>5, <2>1, <2>2 DEF SameThreads
  <2>3. CASE ~(n > 0)
    <3> DEFINE t == [u EXCEPT !.polls = u.polls - 1]
    <3>1. /\ t \in Windows /\ SameThreads(t, w)
          /\ t.busy = w.busy /\ t.byAnalysis = w.byAnalysis /\ t.recovering = w.recovering
          /\ t.crossed = w.crossed /\ t.stuck = w.stuck /\ t.pending = n /\ t.polls = 0
          /\ t.project = w.project /\ t.proposal = w.proposal /\ t.subject = w.subject
          /\ t.moved = w.moved /\ t.refresh = w.refresh /\ t.timers = w.timers
          /\ t.failures = w.failures /\ t.drains = w.drains
      <4>1. u.polls - 1 = 0
        BY <1>3, <1>5
      <4>2. t = [u EXCEPT !.polls = 0]
        BY <4>1
      <4> HIDE DEF t
      <4>3. t \in Windows
        BY <1>5, <4>2 DEF Windows
      <4>4. QED BY <1>5, <4>2, <4>3 DEF Windows, SameThreads
    <3>2. v = EndAnalysing(t)
      BY <1>4, <1>5, <2>3
    <3> HIDE DEF t
    <3>3. CASE w.byAnalysis
      <4>1. v = [[t EXCEPT !.busy = FALSE] EXCEPT !.byAnalysis = FALSE]
        BY <3>1, <3>2, <3>3 DEF EndAnalysing, Release
      <4>2. v \in Windows
        BY <3>1, <4>1 DEF Windows
      <4>3. QED BY <2>3, <3>1, <3>3, <4>1, <4>2 DEF Windows, SameThreads
    <3>4. CASE ~w.byAnalysis
      <4>1. v = t
        BY <3>1, <3>2, <3>4 DEF EndAnalysing
      <4>2. QED BY <2>1, <1>5, <2>3, <3>1, <3>4, <4>1
    <3>5. QED BY <3>3, <3>4
  <2>4. QED BY <2>2, <2>3
<1>7. RecoveryInv(v)
  BY <1>6, Same DEF Sound, Core, RecoveryInv
<1>8. PanelInv(v)
  <2>1. SUFFICES ASSUME ~w.crossed, ~w.stuck
                 PROVE  /\ AtMostOne(w, AllKinds)
                        /\ w.byAnalysis => ~UnderWay(w, AllKinds)
                        /\ w.busy <=> UnderWay(w, AllKinds) \/ w.byAnalysis
    BY <1>6, Same DEF PanelInv
  <2>2. QED BY <2>1 DEF Sound, Core, PanelInv
<1>9. PollInv(v)
  <2>1. n \in Nat
    BY <1>3
  <2>2. v.pending = n /\ v.polls = (IF n > 0 THEN 1 ELSE 0)
    BY <1>6
  <2>3. QED BY <2>1, <2>2 DEF PollInv
<1>10. TimerInv(v) /\ (FailureInv(w) => FailureInv(v))
  BY <1>6 DEF Sound, Core, TimerInv, FailureInv
<1>11. OwnInv(v)
  BY <1>6, SameRoots DEF Sound, OwnInv
<1>12. QED BY <1>2, <1>6, <1>7, <1>8, <1>9, <1>10, <1>11 DEF Sound, Core, v

(* The inductive invariant.                                                *)
WindowInv == Sound(win) /\ FailureInv(win)

LEMMA PollInvariant ==
  ASSUME WindowInv, Poll
  PROVE  WindowInv'
<1> DEFINE r == Head(win.results)
           o == Polled(win)
<1>1. win.polls > 0 /\ win.results # <<>>
  BY DEF Poll
<1>2. Sound(o) /\ FailureInv(o) /\ r \in Models
  BY <1>1, PolledSound DEF WindowInv
<1>3. r.of \in Projects /\ r.of \in Names /\ r.outcome \in {"ok", "failed", "torn"}
  BY <1>2 DEF Models, Names
<1>4. win' = CASE r.outcome = "ok"     -> Show(o, r.of)
               [] r.outcome = "failed" -> HandleFailure(o, Failure("show"))
               [] r.outcome = "torn"   -> HandleFailure(Show(o, r.of), Failure("show"))
  BY DEF Poll, Polled
<1>5. Failure("show") \in Troubles
  BY Failures DEF Repairs
<1> HIDE DEF r, o
<1>6. Sound(Show(o, r.of)) /\ FailureInv(Show(o, r.of))
  BY <1>2, <1>3, ShowSound
<1>7. Sound(win') /\ FailureInv(win')
  BY <1>2, <1>3, <1>4, <1>5, <1>6, HandleFailureSound
<1>8. QED BY <1>7 DEF WindowInv

LEMMA DrainInvariant ==
  ASSUME WindowInv, Drain
  PROVE  WindowInv'
<1>1. win.inbox # <<>> /\ win' = Callback(Taken(win), Head(win.inbox))
  BY DEF Drain, Taken
<1>2. Sound(win') /\ FailureInv(win')
  BY <1>1, CallbackSound DEF WindowInv
<1>3. QED BY <1>2 DEF WindowInv

(* Sound says nothing of the failures set aside.                           *)
LEMMA SetAside ==
  ASSUME NEW w, Sound(w), NEW v \in Windows, SameThreads(v, w),
         v.busy = w.busy, v.byAnalysis = w.byAnalysis, v.recovering = w.recovering,
         v.crossed = w.crossed, v.stuck = w.stuck, v.pending = w.pending, v.polls = w.polls,
         v.project = w.project, v.proposal = w.proposal, v.subject = w.subject,
         v.moved = w.moved, v.refresh = w.refresh, v.timers = w.timers
  PROVE  Sound(v)
<1>1. TimerInv(v)
  BY DEF Sound, Core, TimerInv
<1>2. Core(v)
  BY <1>1, CoreSame DEF Sound
<1>3. OwnInv(v)
  BY SameRoots DEF Sound, OwnInv
<1>4. QED BY <1>2, <1>3 DEF Sound

LEMMA Drains ==
  ASSUME NEW w, Sound(w), NEW n \in Nat
  PROVE  LET v == [w EXCEPT !.drains = n]
         IN  /\ Sound(v) /\ v.drains = n
             /\ v.failures = w.failures /\ v.recovering = w.recovering
<1> DEFINE v == [w EXCEPT !.drains = n]
<1>1. w \in Windows
  BY DEF Sound, Core
<1>2. /\ v \in Windows /\ SameThreads(v, w)
      /\ v.busy = w.busy /\ v.byAnalysis = w.byAnalysis /\ v.recovering = w.recovering
      /\ v.crossed = w.crossed /\ v.stuck = w.stuck /\ v.pending = w.pending /\ v.polls = w.polls
      /\ v.project = w.project /\ v.proposal = w.proposal /\ v.subject = w.subject
      /\ v.moved = w.moved /\ v.refresh = w.refresh /\ v.timers = w.timers
      /\ v.failures = w.failures /\ v.drains = n
  BY <1>1 DEF Windows, SameThreads
<1> HIDE DEF v
<1>3. Sound(v)
  BY <1>2, SetAside
<1>4. QED BY <1>2, <1>3 DEF v

LEMMA DrainPendingInvariant ==
  ASSUME WindowInv, DrainPending
  PROVE  WindowInv'
<1> DEFINE n == win.drains - 1
           v == [win EXCEPT !.drains = n]
           f == Head(v.failures)
           u == [v EXCEPT !.failures = Tail(v.failures)]
           o == IF f.of = u.project THEN HandleFailure(u, f) ELSE u
           m == o.drains + 1
<1>1. win' = IF v.recovering \/ v.failures = <<>> THEN v
             ELSE IF o.recovering \/ o.failures = <<>> THEN o
             ELSE [o EXCEPT !.drains = m]
  BY DEF DrainPending
<1>2. n \in Nat
  <2>1. win.drains > 0 /\ win.drains \in Nat
    BY DEF DrainPending, WindowInv, Sound, Core, Windows
  <2>2. QED BY <2>1
<1> HIDE DEF n
<1>3. Sound(v)
  BY <1>2, Drains DEF WindowInv
<1> HIDE DEF v
<1>4. CASE v.recovering \/ v.failures = <<>>
  <2>1. Sound(win') /\ FailureInv(win')
    BY <1>1, <1>3, <1>4 DEF FailureInv
  <2>2. QED BY <2>1 DEF WindowInv
<1>5. CASE ~(v.recovering \/ v.failures = <<>>)
  <2>1. v \in Windows /\ v.failures \in Seq(Troubles)
    BY <1>3 DEF Sound, Core, Windows
  <2>2. f \in Troubles /\ Tail(v.failures) \in Seq(Troubles)
    BY <1>5, <2>1, HeadTailProperties
  <2>3. /\ u \in Windows /\ SameThreads(u, v)
        /\ u.busy = v.busy /\ u.byAnalysis = v.byAnalysis /\ u.recovering = v.recovering
        /\ u.crossed = v.crossed /\ u.stuck = v.stuck /\ u.pending = v.pending /\ u.polls = v.polls
        /\ u.project = v.project /\ u.proposal = v.proposal /\ u.subject = v.subject
        /\ u.moved = v.moved /\ u.refresh = v.refresh /\ u.timers = v.timers
    BY <2>1, <2>2 DEF Windows, SameThreads
  <2> HIDE DEF f, u
  <2>4. Sound(u)
    BY <1>3, <2>3, SetAside
  <2>5. Sound(o)
    BY <2>2, <2>4, HandleFailureSound
  <2> HIDE DEF o
  <2>6. m \in Nat /\ m > 0
    BY <2>5 DEF Sound, Core, Windows
  <2> HIDE DEF m
  <2>7. CASE o.recovering \/ o.failures = <<>>
    <3>1. Sound(win') /\ FailureInv(win')
      BY <1>1, <1>5, <2>5, <2>7 DEF FailureInv
    <3>2. QED BY <3>1 DEF WindowInv
  <2>8. CASE ~(o.recovering \/ o.failures = <<>>)
    <3>1. win' = [o EXCEPT !.drains = m]
      BY <1>1, <1>5, <2>8
    <3>2. Sound(win') /\ win'.drains > 0
      BY <2>5, <2>6, <3>1, Drains
    <3>3. Sound(win') /\ FailureInv(win')
      BY <3>2 DEF FailureInv
    <3>4. QED BY <3>3 DEF WindowInv
  <2>9. QED BY <2>7, <2>8
<1>6. QED BY <1>4, <1>5

LEMMA RefreshInvariant ==
  ASSUME WindowInv, RefreshEditorSave
  PROVE  WindowInv'
<1> DEFINE n == win.timers - 1
           v == [win EXCEPT !.timers = n]
           u == [v EXCEPT !.refresh = Nil]
<1>1. \/ (win.refresh # win.project \/ win.refresh = Nil) /\ win' = v
      \/ win' = Reload(u)
  BY DEF RefreshEditorSave
<1>2. n \in Nat
  <2>1. win.timers > 0 /\ win.timers \in Nat
    BY DEF RefreshEditorSave, WindowInv, Sound, Core, Windows
  <2>2. QED BY <2>1
<1>3. win \in Windows /\ Nil \in Names
  BY DEF WindowInv, Sound, Core, Names
<1> HIDE DEF n
<1>4. /\ v \in Windows /\ SameThreads(v, win)
      /\ v.busy = win.busy /\ v.byAnalysis = win.byAnalysis /\ v.recovering = win.recovering
      /\ v.crossed = win.crossed /\ v.stuck = win.stuck
      /\ v.pending = win.pending /\ v.polls = win.polls
      /\ v.project = win.project /\ v.proposal = win.proposal /\ v.subject = win.subject
      /\ v.moved = win.moved /\ v.refresh = win.refresh
      /\ v.failures = win.failures /\ v.drains = win.drains
  BY <1>2, <1>3 DEF Windows, SameThreads
<1> HIDE DEF v
<1>5. CASE (win.refresh # win.project \/ win.refresh = Nil) /\ win' = v
  <2>1. TimerInv(v) /\ FailureInv(v)
    <3>1. ~win.moved => win.refresh \in {Nil, win.project}
      BY DEF WindowInv, Sound, OwnInv
    <3>2. QED BY <1>4, <1>5, <3>1 DEF WindowInv, TimerInv, FailureInv
  <2>2. Core(v)
    BY <1>4, <2>1, CoreSame DEF WindowInv, Sound
  <2>3. OwnInv(v)
    BY <1>4, SameRoots DEF WindowInv, Sound, OwnInv
  <2>4. Sound(win') /\ FailureInv(win')
    BY <1>5, <2>1, <2>2, <2>3 DEF Sound
  <2>5. QED BY <2>4 DEF WindowInv
<1>6. CASE win' = Reload(u)
  <2>1. /\ u \in Windows /\ SameThreads(u, win)
        /\ u.busy = win.busy /\ u.byAnalysis = win.byAnalysis /\ u.recovering = win.recovering
        /\ u.crossed = win.crossed /\ u.stuck = win.stuck
        /\ u.pending = win.pending /\ u.polls = win.polls
        /\ u.project = win.project /\ u.proposal = win.proposal /\ u.subject = win.subject
        /\ u.moved = win.moved /\ u.refresh = Nil
        /\ u.failures = win.failures /\ u.drains = win.drains
    BY <1>3, <1>4 DEF Windows, SameThreads
  <2> HIDE DEF u
  <2>2. TimerInv(u) /\ FailureInv(u)
    BY <2>1 DEF WindowInv, TimerInv, FailureInv
  <2>3. Core(u)
    BY <2>1, <2>2, CoreSame DEF WindowInv, Sound
  <2>4. OwnInv(u)
    BY <2>1, SameRoots DEF WindowInv, Sound, OwnInv
  <2>5. Sound(win') /\ FailureInv(win')
    BY <1>6, <2>2, <2>3, <2>4, ReloadSound DEF Sound
  <2>6. QED BY <2>5 DEF WindowInv
<1>7. QED BY <1>1, <1>5, <1>6

-----------------------------------------------------------------------------
(* The threads.                                                            *)

LEMMA RemoveAtProperties ==
  ASSUME NEW S, NEW s \in Seq(S), NEW i \in 1 .. Len(s)
  PROVE  /\ RemoveAt(s, i) \in Seq(S) /\ Len(RemoveAt(s, i)) = Len(s) - 1
         /\ \A k \in 1 .. Len(s) - 1 : RemoveAt(s, i)[k] = IF k < i THEN s[k] ELSE s[k + 1]
<1> DEFINE n == Len(s)
           a == SubSeq(s, 1, i - 1)
           b == SubSeq(s, i + 1, n)
<1>1. n \in Nat /\ i \in Int /\ 1 \in Int /\ i - 1 \in Int /\ i + 1 \in Int /\ n \in Int
  BY LenProperties
<1>2. \A k \in 1 .. n : s[k] \in S
  BY ElementOfSeq
<1>3. \A k \in 1 .. i - 1 : s[k] \in S
  BY <1>1, <1>2
<1>4. \A k \in i + 1 .. n : s[k] \in S
  BY <1>1, <1>2
<1>5. /\ a \in Seq(S) /\ Len(a) = i - 1
      /\ \A k \in 1 .. i - 1 : a[k] = s[k]
  <2>1. /\ a \in Seq(S) /\ Len(a) = (IF 1 <= i - 1 THEN i - 1 - 1 + 1 ELSE 0)
        /\ \A k \in 1 .. i - 1 - 1 + 1 : a[k] = s[1 + k - 1]
    BY <1>1, <1>3, SubSeqProperties
  <2> HIDE DEF a
  <2>2. Len(a) = i - 1
    BY <1>1, <2>1
  <2>3. \A k \in 1 .. i - 1 : a[k] = s[k]
    BY <1>1, <2>1
  <2>4. QED BY <2>1, <2>2, <2>3
<1>6. /\ b \in Seq(S) /\ Len(b) = n - i
      /\ \A k \in 1 .. n - i : b[k] = s[i + k]
  <2>1. /\ b \in Seq(S) /\ Len(b) = (IF i + 1 <= n THEN n - (i + 1) + 1 ELSE 0)
        /\ \A k \in 1 .. n - (i + 1) + 1 : b[k] = s[i + 1 + k - 1]
    BY <1>1, <1>4, SubSeqProperties
  <2> HIDE DEF b
  <2>2. Len(b) = n - i
    BY <1>1, <2>1
  <2>3. \A k \in 1 .. n - i : b[k] = s[i + k]
    BY <1>1, <2>1
  <2>4. QED BY <2>1, <2>2, <2>3
<1>7. RemoveAt(s, i) = a \o b
  BY DEF RemoveAt
<1> HIDE DEF a, b
<1>8. /\ a \o b \in Seq(S) /\ Len(a \o b) = Len(a) + Len(b)
      /\ \A k \in 1 .. Len(a) + Len(b) : (a \o b)[k] = IF k <= Len(a) THEN a[k] ELSE b[k - Len(a)]
  BY <1>5, <1>6, ConcatProperties
<1>9. Len(a) + Len(b) = n - 1
  BY <1>1, <1>5, <1>6
<1>10. ASSUME NEW k \in 1 .. n - 1
       PROVE  (a \o b)[k] = IF k < i THEN s[k] ELSE s[k + 1]
  <2>1. k \in 1 .. Len(a) + Len(b) /\ k \in Int
    BY <1>1, <1>9
  <2>2. (a \o b)[k] = IF k <= Len(a) THEN a[k] ELSE b[k - Len(a)]
    BY <1>8, <2>1
  <2>3. CASE k < i
    <3>1. k <= Len(a) /\ k \in 1 .. i - 1
      BY <1>1, <1>5, <2>1, <2>3
    <3>2. QED BY <1>5, <2>2, <2>3, <3>1
  <2>4. CASE ~(k < i)
    <3>1. ~(k <= Len(a)) /\ k - Len(a) \in 1 .. n - i /\ i + (k - Len(a)) = k + 1
      BY <1>1, <1>5, <2>1, <2>4
    <3>2. b[k - Len(a)] = s[i + (k - Len(a))]
      BY <1>6, <3>1
    <3>3. QED BY <2>2, <2>4, <3>1, <3>2
  <2>5. QED BY <2>3, <2>4
<1>11. QED BY <1>7, <1>8, <1>9, <1>10

(* A thread that ends leaves its callback, which is as live as it was.     *)
LEMMA EndedLive ==
  ASSUME NEW w \in Windows, NEW v, NEW i \in DOMAIN w.jobs, NEW r \in Calls,
         r.job.kind = w.jobs[i].kind, r.job.stale = w.jobs[i].stale,
         v.jobs = RemoveAt(w.jobs, i), v.inbox = Append(w.inbox, r), NEW kinds
  PROVE  /\ UnderWay(v, kinds) <=> UnderWay(w, kinds)
         /\ AtMostOne(w, kinds) => AtMostOne(v, kinds)
         /\ Rooted(w) /\ v.project = w.project /\ r.job.root \in {w.jobs[i].root, w.project}
              => Rooted(v)
<1> DEFINE n == Len(w.jobs)
           m == Len(w.inbox)
           old(k) == IF k < i THEN k ELSE k + 1
<1>1. /\ w.jobs \in Seq(WindowJobs) /\ n \in Nat /\ DOMAIN w.jobs = 1 .. n
      /\ w.inbox \in Seq(Calls) /\ m \in Nat /\ DOMAIN w.inbox = 1 .. m
      /\ i \in 1 .. n
  BY LenProperties DEF Windows
<1>2. /\ DOMAIN v.jobs = 1 .. n - 1
      /\ \A k \in 1 .. n - 1 : v.jobs[k] = w.jobs[old(k)]
  <2>1. /\ v.jobs \in Seq(WindowJobs) /\ Len(v.jobs) = n - 1
        /\ \A k \in 1 .. n - 1 : v.jobs[k] = IF k < i THEN w.jobs[k] ELSE w.jobs[k + 1]
    BY <1>1, RemoveAtProperties
  <2>2. QED BY <2>1, LenProperties
<1>3. /\ DOMAIN v.inbox = 1 .. m + 1 /\ v.inbox[m + 1] = r
      /\ \A k \in 1 .. m : v.inbox[k] = w.inbox[k]
  <2>1. Len(v.inbox) = m + 1 /\ v.inbox \in Seq(Calls)
    BY <1>1, AppendProperties
  <2>2. QED BY <1>1, <2>1, AppendProperties, LenProperties
<1> HIDE DEF n, m
<1>4. \A k \in 1 .. n - 1 : old(k) \in 1 .. n /\ old(k) # i
  BY <1>1
<1>5. \A k \in 1 .. n : k # i => \E l \in 1 .. n - 1 : k = old(l)
  <2>1. ASSUME NEW k \in 1 .. n, k # i PROVE \E l \in 1 .. n - 1 : k = old(l)
    <3>1. CASE k < i
      <4>1. k \in 1 .. n - 1 /\ k = old(k)
        BY <1>1, <2>1, <3>1
      <4>2. QED BY <4>1
    <3>2. CASE ~(k < i)
      <4>1. k - 1 \in 1 .. n - 1 /\ k = old(k - 1)
        BY <1>1, <2>1, <3>2
      <4>2. QED BY <4>1
    <3>3. QED BY <3>1, <3>2
  <2>2. QED BY <2>1
<1>6. \A k, l \in 1 .. n - 1 : old(k) = old(l) => k = l
  BY <1>1
<1> HIDE DEF old
<1>7. ASSUME NEW ks
      PROVE  /\ \A k : k \in LiveJobs(v, ks) <=> k \in 1 .. n - 1 /\ old(k) \in LiveJobs(w, ks)
             /\ LiveCalls(v, ks)
                  = LiveCalls(w, ks) \cup (IF i \in LiveJobs(w, ks) THEN {m + 1} ELSE {})
             /\ LiveJobs(w, ks) \subseteq 1 .. n /\ LiveCalls(w, ks) \subseteq 1 .. m
  <2>1. \A k : k \in LiveJobs(v, ks) <=> k \in 1 .. n - 1 /\ old(k) \in LiveJobs(w, ks)
    BY <1>1, <1>2, <1>4 DEF LiveJobs
  <2>2. i \in LiveJobs(w, ks) <=> r.job.kind \in ks /\ ~r.job.stale
    BY DEF LiveJobs
  <2>3. LiveCalls(v, ks) = LiveCalls(w, ks) \cup (IF i \in LiveJobs(w, ks) THEN {m + 1} ELSE {})
    BY <1>1, <1>3, <2>2 DEF LiveCalls
  <2>4. QED BY <1>1, <2>1, <2>3 DEF LiveJobs, LiveCalls
<1>8. UnderWay(v, kinds) <=> UnderWay(w, kinds)
  <2>1. ASSUME NEW k \in LiveJobs(w, kinds), k # i PROVE LiveJobs(v, kinds) # {}
    <3>1. k \in 1 .. n
      BY <1>7
    <3>2. PICK l \in 1 .. n - 1 : k = old(l)
      BY <1>5, <2>1, <3>1
    <3>3. l \in LiveJobs(v, kinds)
      BY <1>7, <3>2
    <3>4. QED BY <3>3
  <2>2. LiveJobs(w, kinds) # {} => LiveJobs(v, kinds) # {} \/ LiveCalls(v, kinds) # {}
    BY <1>7, <2>1
  <2>3. LiveJobs(v, kinds) # {} => LiveJobs(w, kinds) # {}
    BY <1>7
  <2>4. QED BY <1>7, <2>2, <2>3, Unders
<1>9. ASSUME AtMostOne(w, kinds) PROVE AtMostOne(v, kinds)
  <2>1. ASSUME NEW k \in LiveJobs(v, kinds), NEW l \in LiveJobs(v, kinds) PROVE k = l
    <3>1. /\ k \in 1 .. n - 1 /\ l \in 1 .. n - 1
          /\ old(k) \in LiveJobs(w, kinds) /\ old(l) \in LiveJobs(w, kinds)
      BY <1>7
    <3>2. old(k) = old(l)
      BY <1>9, <3>1 DEF AtMostOne
    <3>3. QED BY <1>6, <3>1, <3>2
  <2>2. i \in LiveJobs(w, kinds) => LiveJobs(v, kinds) = {} /\ LiveCalls(w, kinds) = {}
    <3>1. SUFFICES ASSUME i \in LiveJobs(w, kinds)
                   PROVE  LiveJobs(v, kinds) = {} /\ LiveCalls(w, kinds) = {}
      OBVIOUS
    <3>2. ASSUME NEW k \in LiveJobs(v, kinds) PROVE FALSE
      <4>1. k \in 1 .. n - 1 /\ old(k) \in LiveJobs(w, kinds)
        BY <1>7
      <4>2. old(k) = i
        BY <1>9, <3>1, <4>1 DEF AtMostOne
      <4>3. QED BY <1>4, <4>1, <4>2
    <3>3. QED BY <1>9, <3>1, <3>2 DEF AtMostOne
  <2>3. \A k, l \in LiveCalls(v, kinds) : k = l
    <3>1. CASE i \in LiveJobs(w, kinds)
      BY <1>7, <2>2, <3>1
    <3>2. CASE i \notin LiveJobs(w, kinds)
      BY <1>7, <1>9, <3>2 DEF AtMostOne
    <3>3. QED BY <3>1, <3>2
  <2>4. LiveJobs(v, kinds) = {} \/ LiveCalls(v, kinds) = {}
    <3>1. CASE i \in LiveJobs(w, kinds)
      BY <2>2, <3>1
    <3>2. CASE i \notin LiveJobs(w, kinds)
      BY <1>7, <1>9, <3>2 DEF AtMostOne
    <3>3. QED BY <3>1, <3>2
  <2>5. QED BY <2>1, <2>3, <2>4 DEF AtMostOne
<1>10. ASSUME Rooted(w), v.project = w.project, r.job.root \in {w.jobs[i].root, w.project}
       PROVE  Rooted(v)
  <2>1. ASSUME NEW k \in LiveJobs(v, AllKinds) PROVE v.jobs[k].root = v.project
    <3>1. k \in 1 .. n - 1 /\ old(k) \in LiveJobs(w, AllKinds) /\ v.jobs[k] = w.jobs[old(k)]
      BY <1>2, <1>7
    <3>2. QED BY <1>10, <3>1 DEF Rooted
  <2>2. ASSUME NEW k \in LiveCalls(v, AllKinds) PROVE v.inbox[k].job.root = v.project
    <3>1. CASE k \in LiveCalls(w, AllKinds)
      <4>1. v.inbox[k] = w.inbox[k]
        BY <1>3, <1>7, <3>1
      <4>2. QED BY <1>10, <3>1, <4>1 DEF Rooted
    <3>2. CASE k \notin LiveCalls(w, AllKinds)
      <4>1. i \in LiveJobs(w, AllKinds) /\ k = m + 1
        BY <1>7, <2>2, <3>2
      <4>2. QED BY <1>3, <1>10, <4>1 DEF Rooted
    <3>3. QED BY <3>1, <3>2
  <2>3. QED BY <2>1, <2>2 DEF Rooted
<1>11. QED BY <1>8, <1>9, <1>10

LEMMA WorkEndsInvariant ==
  ASSUME WindowInv, NEW i \in DOMAIN win.jobs, WorkEnds(i)
  PROVE  WindowInv'
<1> DEFINE e == win.jobs[i]
           j == [e EXCEPT !.root = IF e.repaired = "show" THEN win.project ELSE e.root]
<1>1. PICK outcome \in Good(j) \cup Bad(j) :
        win' = [win EXCEPT !.jobs = RemoveAt(win.jobs, i),
                           !.inbox = Append(win.inbox, [job |-> j, outcome |-> outcome])]
  BY DEF WorkEnds
<1> DEFINE r == [job |-> j, outcome |-> outcome]
           js == RemoveAt(win.jobs, i)
           cs == Append(win.inbox, r)
<1>2. /\ win \in Windows /\ win.jobs \in Seq(WindowJobs) /\ win.inbox \in Seq(Calls)
      /\ win.project \in Names
  BY DEF WindowInv, Sound, Core, Windows
<1>3. e \in WindowJobs /\ i \in 1 .. Len(win.jobs)
  BY <1>2, ElementOfSeq, LenProperties
<1> HIDE DEF e
<1>4. /\ j \in WindowJobs /\ j.kind = e.kind /\ j.stale = e.stale
      /\ j.root \in {e.root, win.project}
  BY <1>2, <1>3 DEF WindowJobs
<1> HIDE DEF j
<1>5. outcome \in Outcomes
  BY <1>1 DEF Good, Bad, Outcomes
<1>6. /\ r \in Calls /\ r.job.kind = e.kind /\ r.job.stale = e.stale
      /\ r.job.root \in {e.root, win.project}
  BY <1>4, <1>5 DEF Calls
<1> HIDE DEF r
<1>7. js \in Seq(WindowJobs) /\ cs \in Seq(Calls)
  BY <1>2, <1>3, <1>6, RemoveAtProperties, AppendProperties
<1>8. win' = [win EXCEPT !.jobs = js, !.inbox = cs]
  BY <1>1 DEF r
<1> DEFINE v == [win EXCEPT !.jobs = js, !.inbox = cs]
<1>9. v.jobs = RemoveAt(win.jobs, i) /\ v.inbox = Append(win.inbox, r)
  BY <1>2 DEF Windows
<1> HIDE DEF js, cs
<1>10. /\ v \in Windows
       /\ v.busy = win.busy /\ v.byAnalysis = win.byAnalysis /\ v.recovering = win.recovering
       /\ v.crossed = win.crossed /\ v.stuck = win.stuck
       /\ v.pending = win.pending /\ v.polls = win.polls
       /\ v.project = win.project /\ v.proposal = win.proposal /\ v.subject = win.subject
       /\ v.moved = win.moved /\ v.refresh = win.refresh /\ v.timers = win.timers
       /\ v.failures = win.failures /\ v.drains = win.drains
  BY <1>2, <1>7 DEF Windows
<1> HIDE DEF v
<1>11. ASSUME NEW kinds
       PROVE  /\ UnderWay(v, kinds) <=> UnderWay(win, kinds)
              /\ AtMostOne(win, kinds) => AtMostOne(v, kinds)
  BY <1>2, <1>6, <1>9, EndedLive DEF e
<1>12. Rooted(win) => Rooted(v)
  BY <1>2, <1>6, <1>9, <1>10, EndedLive DEF e
<1>13. RecoveryInv(v)
  BY <1>10, <1>11 DEF WindowInv, Sound, Core, RecoveryInv
<1>14. PanelInv(v)
  BY <1>10, <1>11 DEF WindowInv, Sound, Core, PanelInv
<1>15. PollInv(v) /\ TimerInv(v) /\ FailureInv(v)
  BY <1>10 DEF WindowInv, Sound, Core, PollInv, TimerInv, FailureInv
<1>16. OwnInv(v)
  BY <1>10, <1>12 DEF WindowInv, Sound, OwnInv
<1>17. Sound(v) /\ FailureInv(v) /\ win' = v
  BY <1>8, <1>10, <1>13, <1>14, <1>15, <1>16 DEF Sound, Core, v
<1>18. Sound(win') /\ FailureInv(win')
  BY <1>17
<1>19. QED BY <1>18 DEF WindowInv

LEMMA AnalysisEndsInvariant ==
  ASSUME WindowInv, NEW p \in Projects, AnalysisEnds(p)
  PROVE  WindowInv'
<1>1. PICK outcome \in {"ok", "failed", "torn"} :
        win' = [win EXCEPT !.analysing[p] = @ - 1,
                           !.results = Append(@, [of |-> p, outcome |-> outcome])]
  BY DEF AnalysisEnds
<1> DEFINE a == [win.analysing EXCEPT ![p] = win.analysing[p] - 1]
           s == Append(win.results, [of |-> p, outcome |-> outcome])
           v == [win EXCEPT !.analysing = a, !.results = s]
<1>2. win \in Windows /\ win.analysing \in [Projects -> Nat] /\ win.results \in Seq(Models)
  BY DEF WindowInv, Sound, Core, Windows
<1>3. a \in [Projects -> Nat]
  <2>1. win.analysing[p] > 0
    BY DEF AnalysisEnds
  <2>2. win.analysing[p] - 1 \in Nat
    BY <1>2, <2>1
  <2>3. QED BY <1>2, <2>2
<1>4. s \in Seq(Models)
  <2>1. [of |-> p, outcome |-> outcome] \in Models
    BY DEF Models
  <2>2. QED BY <1>2, <2>1, AppendProperties
<1>5. win' = v
  BY <1>1
<1> HIDE DEF a, s
<1>6. /\ v \in Windows /\ SameThreads(v, win)
      /\ v.busy = win.busy /\ v.byAnalysis = win.byAnalysis /\ v.recovering = win.recovering
      /\ v.crossed = win.crossed /\ v.stuck = win.stuck
      /\ v.pending = win.pending /\ v.polls = win.polls
      /\ v.project = win.project /\ v.proposal = win.proposal /\ v.subject = win.subject
      /\ v.moved = win.moved /\ v.refresh = win.refresh /\ v.timers = win.timers
      /\ v.failures = win.failures /\ v.drains = win.drains
  BY <1>2, <1>3, <1>4 DEF Windows, SameThreads
<1> HIDE DEF v
<1>7. Sound(v) /\ FailureInv(v)
  BY <1>6, SetAside DEF WindowInv, FailureInv
<1>8. Sound(win') /\ FailureInv(win')
  BY <1>5, <1>7
<1>9. QED BY <1>8 DEF WindowInv

-----------------------------------------------------------------------------
(* The developer.                                                          *)

LEMMA BeginInvariant ==
  ASSUME WindowInv, NEW kind \in StepKinds, Begin(kind)
  PROVE  WindowInv'
<1> DEFINE j == Job(win, kind)
           v == RunAsync(Claim(win), j)
<1>1. win \in Windows
  BY DEF WindowInv, Sound, Core
<1>2. /\ j \in WindowJobs /\ ~j.stale /\ j.root = win.project
      /\ j.kind = kind /\ j.kind \notin Recovery
  <2>1. kind \in AllKinds /\ Nil \in Repairs /\ kind \notin Recovery
    BY DEF AllKinds, Repairs, StepKinds, Recovery
  <2>2. QED BY <1>1, <2>1, JobTypes
<1> HIDE DEF j
<1>3. v = [win EXCEPT !.busy = TRUE, !.crossed = win.crossed \/ win.busy,
                      !.jobs = Append(win.jobs, j)]
  BY <1>1 DEF RunAsync, Claim, Windows
<1>4. Append(win.jobs, j) \in Seq(WindowJobs)
  BY <1>1, <1>2, AppendProperties DEF Windows
<1>5. win' = v
  BY DEF Begin, j
<1> HIDE DEF v
<1>6. v \in Windows
  BY <1>1, <1>3, <1>4 DEF Windows
<1>7. /\ v.jobs = Append(win.jobs, j) /\ v.inbox = win.inbox
      /\ v.busy = TRUE /\ v.crossed = (win.crossed \/ win.busy)
      /\ v.recovering = win.recovering
      /\ v.project = win.project /\ v.proposal = win.proposal /\ v.subject = win.subject
      /\ v.byAnalysis = win.byAnalysis /\ v.stuck = win.stuck /\ v.moved = win.moved
      /\ v.pending = win.pending /\ v.polls = win.polls
      /\ v.refresh = win.refresh /\ v.timers = win.timers
      /\ v.failures = win.failures /\ v.drains = win.drains
  BY <1>1, <1>3 DEF Windows
<1>8. win.recovering \in BOOLEAN
  BY <1>1 DEF Windows
<1>9. Sound(v) /\ FailureInv(v)
  BY <1>2, <1>6, <1>7, <1>8, LaunchSound DEF WindowInv
<1>10. Sound(win') /\ FailureInv(win')
  BY <1>5, <1>9
<1>11. QED BY <1>10 DEF WindowInv

LEMMA SendInvariant ==
  ASSUME WindowInv, Send
  PROVE  WindowInv'
<1> DEFINE j == Job(win, "talk")
           v == RunAsync([Claim(win) EXCEPT !.recovering = TRUE], j)
<1>1. win \in Windows
  BY DEF WindowInv, Sound, Core
<1>2. /\ j \in WindowJobs /\ ~j.stale /\ j.root = win.project
      /\ j.kind = "talk" /\ j.kind \in Recovery
  <2>1. "talk" \in AllKinds /\ Nil \in Repairs /\ "talk" \in Recovery
    BY DEF AllKinds, Repairs, Recovery
  <2>2. QED BY <1>1, <2>1, JobTypes
<1> HIDE DEF j
<1>3. v = [win EXCEPT !.busy = TRUE, !.crossed = win.crossed \/ win.busy, !.recovering = TRUE,
                      !.jobs = Append(win.jobs, j)]
  BY <1>1 DEF RunAsync, Claim, Windows
<1>4. Append(win.jobs, j) \in Seq(WindowJobs)
  BY <1>1, <1>2, AppendProperties DEF Windows
<1>5. win' = v /\ ~win.recovering
  BY DEF Send, j
<1> HIDE DEF v
<1>6. v \in Windows
  BY <1>1, <1>3, <1>4 DEF Windows
<1>7. /\ v.jobs = Append(win.jobs, j) /\ v.inbox = win.inbox
      /\ v.busy = TRUE /\ v.crossed = (win.crossed \/ win.busy) /\ v.recovering = TRUE
      /\ v.project = win.project /\ v.proposal = win.proposal /\ v.subject = win.subject
      /\ v.byAnalysis = win.byAnalysis /\ v.stuck = win.stuck /\ v.moved = win.moved
      /\ v.pending = win.pending /\ v.polls = win.polls
      /\ v.refresh = win.refresh /\ v.timers = win.timers
      /\ v.failures = win.failures /\ v.drains = win.drains
  BY <1>1, <1>3 DEF Windows
<1>8. Sound(v) /\ FailureInv(v)
  BY <1>2, <1>5, <1>6, <1>7, LaunchSound DEF WindowInv
<1>9. Sound(win') /\ FailureInv(win')
  BY <1>5, <1>8
<1>10. QED BY <1>9 DEF WindowInv

-----------------------------------------------------------------------------
(* The invariant and what follows from it.                                 *)

LEMMA DesktopStarts ==
  ASSUME DesktopInit
  PROVE  WindowInv
<1>1. win.jobs = <<>> /\ win.inbox = <<>> /\ win.failures = <<>> /\ win.results = <<>>
  BY DEF DesktopInit
<1>2. win \in Windows
  <2>1. NoProposal \in Proposals
    BY DEF NoProposal, Proposals, Names
  <2>2. /\ <<>> \in Seq(Troubles) /\ <<>> \in Seq(WindowJobs) /\ <<>> \in Seq(Calls)
        /\ <<>> \in Seq(Models)
    BY EmptySeq
  <2>3. QED BY <2>1, <2>2 DEF DesktopInit, Windows, Names
<1>3. ASSUME NEW kinds
      PROVE  ~UnderWay(win, kinds) /\ AtMostOne(win, kinds)
  <2>1. DOMAIN <<>> = {}
    OBVIOUS
  <2>2. LiveJobs(win, kinds) = {} /\ LiveCalls(win, kinds) = {}
    BY <1>1, <2>1 DEF LiveJobs, LiveCalls
  <2>3. QED BY <2>2, Unders DEF AtMostOne
<1>4. Rooted(win)
  BY <1>3, Unrooted
<1>5. /\ win.recovering = FALSE /\ win.busy = FALSE /\ win.byAnalysis = FALSE
      /\ win.proposal = NoProposal /\ win.subject = Nil /\ win.refresh = Nil
      /\ win.polls = 0 /\ win.pending = 0
  BY DEF DesktopInit
<1>6. RecoveryInv(win) /\ PanelInv(win)
  BY <1>3, <1>5 DEF RecoveryInv, PanelInv
<1>7. OwnInv(win) /\ PollInv(win) /\ TimerInv(win) /\ FailureInv(win)
  BY <1>1, <1>4, <1>5 DEF OwnInv, PollInv, TimerInv, FailureInv
<1>8. QED BY <1>2, <1>6, <1>7 DEF WindowInv, Sound, Core

LEMMA DesktopSteps ==
  ASSUME WindowInv, [DesktopNext]_windowVars
  PROVE  WindowInv'
<1>1. ASSUME NEW p \in Projects, Open(p) PROVE WindowInv'
  <2>1. p \in Names /\ win' = OpenProject(win, p)
    BY <1>1 DEF Open, Names
  <2>2. Sound(win') /\ FailureInv(win')
    BY <2>1, OpenProjectSound DEF WindowInv
  <2>3. QED BY <2>2 DEF WindowInv
<1>2. ASSUME NEW where \in {"project", "candidate"}, Save(where) PROVE WindowInv'
  <2>1. win' = SourceChanged(win, where)
    BY <1>2 DEF Save
  <2>2. Sound(win') /\ FailureInv(win')
    BY <2>1, SourceChangedSound DEF WindowInv
  <2>3. QED BY <2>2 DEF WindowInv
<1>3. ASSUME CallbackError PROVE WindowInv'
  <2>1. win' = HandleFailure(win, Failure(Nil)) /\ Failure(Nil) \in Troubles
    BY <1>3, Failures DEF CallbackError, Repairs
  <2>2. Sound(win') /\ FailureInv(win')
    BY <2>1, HandleFailureSound DEF WindowInv
  <2>3. QED BY <2>2 DEF WindowInv
<1>4. CASE Threads
  BY <1>4, WorkEndsInvariant, AnalysisEndsInvariant DEF Threads
<1>5. CASE Tk
  BY <1>5, DrainInvariant, PollInvariant, DrainPendingInvariant, RefreshInvariant DEF Tk
<1>6. CASE UNCHANGED windowVars
  <2>1. win' = win
    BY <1>6 DEF windowVars
  <2>2. QED BY <2>1 DEF WindowInv
<1>7. QED
  BY <1>1, <1>2, <1>3, <1>4, <1>5, <1>6, BeginInvariant, SendInvariant DEF DesktopNext

LEMMA DesktopInvariance == DesktopSpec => []WindowInv
<1>1. DesktopInit => WindowInv
  BY DesktopStarts
<1>2. WindowInv /\ [DesktopNext]_windowVars => WindowInv'
  BY DesktopSteps
<1>3. QED BY <1>1, <1>2, PTL DEF DesktopSpec

(* What the window keeps, its threads and their callbacks have their types. *)
THEOREM WindowTypes == DesktopSpec => [](win \in Windows)
<1>1. WindowInv => win \in Windows
  BY DEF WindowInv, Sound, Core
<1>2. QED BY <1>1, DesktopInvariance, PTL

(* Nobody releases the panel another one has claimed, and nobody leaves it *)
(* claimed (App._set_analysing, Troubleshooting._set_busy).                *)
THEOREM PanelOwnedAlways == DesktopSpec => []PanelOwned
<1>1. WindowInv => PanelOwned
  BY DEF WindowInv, Sound, Core, PanelInv, PanelOwned, AllKinds
<1>2. QED BY <1>1, DesktopInvariance, PTL

(* The proposal shown was made in the project shown (App.open_project,     *)
(* Troubleshooting.reset), whatever comes late.                            *)
THEOREM OwnCandidateAlways == DesktopSpec => []OwnCandidate
<1>1. WindowInv => OwnCandidate
  BY DEF WindowInv, Sound, OwnInv, OwnCandidate
<1>2. QED BY <1>1, DesktopInvariance, PTL

(* The safety part of Served, from App._poll, Troubleshooting._set_busy and *)
(* App._source_changed: whatever waits has somebody who comes for it, and  *)
(* one only where two would get in each other's way.  The analyses in      *)
(* flight have one poll loop, a failure set aside has the recovery whose   *)
(* end asks for it or a callback that does, a save has its timer.          *)
Attended ==
  /\ win.polls = IF win.pending = 0 THEN 0 ELSE 1
  /\ win.failures # <<>> => UnderWay(win, Recovery) \/ win.drains > 0
  /\ win.refresh # Nil /\ ~win.moved => win.timers > 0

(* Nothing that waits on the window is without somebody who comes for it. *)
THEOREM AttendedAlways == DesktopSpec => []Attended
<1>1. WindowInv => Attended
  BY DEF WindowInv, Sound, Core, RecoveryInv, PollInv, TimerInv, FailureInv, Attended
<1>2. QED BY <1>1, DesktopInvariance, PTL
=============================================================================
