---------------------------- MODULE JobLoopProofs ----------------------------
(***************************************************************************)
(* Theorems about JobLoop, for every bound, iteration limit and set of     *)
(* resume kinds.  The last two, at the end, are about a job that nobody    *)
(* disturbs: Undisturbed.                                                  *)
(***************************************************************************)
EXTENDS JobLoop, FiniteSetTheorems, TLAPS

(* What the stream operations do to a group.                               *)
LEMMA XaddFacts ==
  ASSUME NEW Msg, NEW g \in Groups(Msg), NEW m \in Msg
  PROVE  /\ Xadd(g, m) \in Groups(Msg)
         /\ Xadd(g, m).log = Append(g.log, m)
         /\ Xadd(g, m).next = g.next
         /\ Xadd(g, m).pending = g.pending
<1> DEFINE longer == Append(g.log, m)
<1>1. longer \in Seq(Msg)
  BY DEF Groups
<1> HIDE DEF longer
<1>2. Xadd(g, m) = [g EXCEPT !.log = longer]
  BY DEF Xadd, longer
<1>3. [g EXCEPT !.log = longer] \in Groups(Msg)
  BY <1>1 DEF Groups
<1>4. QED BY <1>1, <1>2, <1>3 DEF Groups, longer

LEMMA AckFacts ==
  ASSUME NEW Msg, NEW g \in Groups(Msg), NEW i
  PROVE  /\ Ack(g, i) \in Groups(Msg)
         /\ Ack(g, i).log = g.log
         /\ Ack(g, i).next = g.next
         /\ Ack(g, i).pending = g.pending \ {i}
<1> DEFINE left == g.pending \ {i}
<1>1. left \in SUBSET (Nat \ {0})
  BY DEF Groups
<1> HIDE DEF left
<1>2. [g EXCEPT !.pending = left] \in Groups(Msg)
  BY <1>1 DEF Groups
<1>3. Ack(g, i) = [g EXCEPT !.pending = left]
  BY DEF Ack, left
<1>4. QED BY <1>1, <1>2, <1>3 DEF Groups, left

LEMMA ReadFacts ==
  ASSUME NEW Msg, NEW g \in Groups(Msg)
  PROVE  /\ ReadNew(g) \in Groups(Msg)
         /\ ReadNew(g).log = g.log
         /\ ReadNew(g).next = g.next + 1
         /\ ReadNew(g).pending = g.pending \cup {g.next}
<1> DEFINE taken == g.pending \cup {g.next}
           after == g.next + 1
<1>1. taken \in SUBSET (Nat \ {0}) /\ after \in Nat \ {0}
  BY DEF Groups
<1>2. ReadNew(g) = [g EXCEPT !.next = after, !.pending = taken]
  BY DEF ReadNew
<1> HIDE DEF taken, after
<1>3. [g EXCEPT !.next = after, !.pending = taken] \in Groups(Msg)
  BY <1>1 DEF Groups
<1>4. QED BY <1>1, <1>2, <1>3 DEF Groups, taken, after

(* A process that enters the handler of entry i. *)
LEMMA EnterFacts ==
  ASSUME NEW PCs, NEW p \in Process(PCs), NEW pc \in PCs, NEW i \in Nat, NEW g
  PROVE  /\ Enter(p, g, i, pc) \in Process(PCs)
         /\ Enter(p, g, i, pc).pc = pc
         /\ Enter(p, g, i, pc).msg = i
         /\ Enter(p, g, i, pc).event = p.event
<1> DEFINE b == p.boot /\ i # g.next
<1>1. b \in BOOLEAN
  OBVIOUS
<1>2. Enter(p, g, i, pc) = [p EXCEPT !.pc = pc, !.msg = i, !.boot = b]
  BY Zenon DEF Enter
<1> HIDE DEF b
<1>3. QED BY <1>1, <1>2 DEF Process

(* The entry i that a process takes up, and its group g afterwards. *)
LEMMA TakeFacts ==
  ASSUME NEW Msg, NEW g \in Groups(Msg), NEW p, NEW i \in Takeable(p, g)
  PROVE  /\ i \in Nat \ {0}
         /\ p.pc = "idle"
         /\ Take(g, i) \in Groups(Msg)
         /\ Take(g, i).log = g.log
         /\ Take(g, i).next = IF i = g.next THEN g.next + 1 ELSE g.next
         /\ Take(g, i).pending = g.pending \cup {i}
         /\ (\A j \in g.pending : j < g.next) =>
              i < Take(g, i).next /\ (i = g.next => g.next <= Len(g.log))
<1>1. /\ g.next \in Nat \ {0}
      /\ g.pending \in SUBSET (Nat \ {0})
  BY DEF Groups
<1>2. p.pc = "idle" /\ (i \in g.pending \/ (i = g.next /\ g.next <= Len(g.log)))
  BY DEF Takeable, HasNew, Idle
<1>3. i \in Nat \ {0}
  BY <1>1, <1>2
<1>4. CASE i = g.next
  <2>1. Take(g, i) = ReadNew(g)
    BY <1>4 DEF Take
  <2>2. /\ ReadNew(g) \in Groups(Msg)
        /\ ReadNew(g).log = g.log
        /\ ReadNew(g).next = g.next + 1
        /\ ReadNew(g).pending = g.pending \cup {i}
    BY <1>4, ReadFacts
  <2>3. QED BY <1>1, <1>2, <1>3, <1>4, <2>1, <2>2
<1>5. CASE i # g.next
  BY <1>1, <1>2, <1>3, <1>5 DEF Take
<1>6. QED BY <1>4, <1>5

(* What ties the worker's stream to the tasks and to the worker.           *)
Shape ==
  /\ \A i \in DOMAIN activations.log : activations.log[i] \in DOMAIN tasks
  /\ activations.next <= Len(activations.log) + 1
  /\ \A i \in activations.pending : i < activations.next
  /\ worker.pc \notin {"down", "idle"} => worker.msg \in 1 .. activations.next - 1
  /\ controller.pc = "publish" => Len(tasks) > 0

TypeInv == TypeOK /\ Shape

LEMMA TypeInit == Init => TypeInv
  BY ConstantsAssumption
  DEF Init, TypeInv, TypeOK, Shape, EmptyGroup, Groups, Process, Down, JobStatuses,
      ActiveStatuses, TerminalStatuses, ControllerPCs, WorkerPCs

(* Appending a queued task leaves the derived status an active one.        *)
LEMMA NewTaskStatus ==
  ASSUME TypeOK, NEW c \in Creators
  PROVE  LET ts == Append(tasks, [status |-> "queued", creator |-> c])
         IN  /\ ts \in Seq(Tasks)
             /\ ActiveJobStatus(ts) \in ActiveStatuses
<1> DEFINE ts == Append(tasks, [status |-> "queued", creator |-> c])
<1>1. [status |-> "queued", creator |-> c] \in Tasks
  BY DEF Tasks, TaskStatuses, ActiveTaskStatuses
<1>2. ts \in Seq(Tasks) /\ Len(ts) = Len(tasks) + 1 /\ ts[Len(ts)].status = "queued"
  BY <1>1 DEF TypeOK
<1>3. Len(ts) \in ActiveTasks(ts)
  BY <1>2 DEF ActiveTasks, ActiveTaskStatuses, TypeOK
<1>4. ActiveJobStatus(ts) \in ActiveStatuses
  BY <1>3 DEF ActiveJobStatus, ActiveStatuses
<1>5. QED BY <1>2, <1>4

(* A step of a process to another program counter, with what it records.   *)
LEMMA MoveFacts ==
  ASSUME NEW PCs, NEW p \in Process(PCs), NEW pc \in PCs
  PROVE  LET q == [p EXCEPT !.pc = pc]
         IN  q \in Process(PCs) /\ q.pc = pc /\ q.msg = p.msg
  BY DEF Process

LEMMA AnnounceFacts ==
  ASSUME NEW PCs, NEW p \in Process(PCs), "announce" \in PCs, NEW e \in TerminalStatuses
  PROVE  /\ Announcing(p, e) \in Process(PCs)
         /\ Announcing(p, e).pc = "announce"
         /\ Announcing(p, e).msg = p.msg
  BY DEF Process, Announcing

LEMMA DownFacts ==
  ASSUME NEW PCs, {"idle", "down"} \subseteq PCs
  PROVE  /\ Down \in Process(PCs)
         /\ Down.pc = "down"
         /\ Launched \in Process(PCs)
         /\ Launched.pc = "idle"
<1>1. Down \in Process(PCs) /\ Down.pc = "down"
  BY DEF Down, Process
<1>2. Launched \in Process(PCs) /\ Launched.pc = "idle"
  BY DEF Down, Launched, Process
<1>3. QED BY <1>1, <1>2

LEMMA LoopFacts ==
  ASSUME NEW PCs, {"idle", "down"} \subseteq PCs, NEW p \in Process(PCs)
  PROVE  /\ Loop(p) \in Process(PCs)
         /\ Loop(p).pc = "idle"
         /\ AfterAck(p) \in Process(PCs)
         /\ AfterAck(p).pc \in {"idle", "down"}
<1>1. Loop(p) \in Process(PCs) /\ Loop(p).pc = "idle"
  BY DEF Loop, Process
<1>2. QED BY <1>1, DownFacts DEF AfterAck

(* The statuses that the steps write. *)
LEMMA StatusFacts ==
  /\ {"planning", "implementing", "waiting_tokens", "done", "human_needed", "dead"}
       \subseteq JobStatuses
  /\ {"running", "waiting_tokens", "completed", "human_needed", "dead"} \subseteq TaskStatuses
  /\ TerminalStatuses \subseteq JobStatuses
  /\ ActiveStatuses \subseteq JobStatuses
  /\ {"human_needed", "done", "dead"} \subseteq TerminalStatuses
  /\ {"down", "idle", "deciding", "waiting", "decided", "publish", "recover", "announce", "ack"}
       \subseteq ControllerPCs
  /\ {"down", "idle", "loaded", "running", "waiting", "ran", "announce", "ack"}
       \subseteq WorkerPCs
  BY DEF JobStatuses, ActiveStatuses, TerminalStatuses, TaskStatuses, ActiveTaskStatuses,
         ControllerPCs, WorkerPCs

(* The worker's current task, and what setting its status does. *)
LEMMA SetTaskFacts ==
  ASSUME TypeInv, worker.pc \notin {"down", "idle"}, NEW st \in TaskStatuses
  PROVE  /\ Task \in DOMAIN tasks
         /\ Task \in Nat \ {0}
         /\ SetTask(Task, st) \in Seq(Tasks)
         /\ DOMAIN SetTask(Task, st) = DOMAIN tasks
         /\ Len(SetTask(Task, st)) = Len(tasks)
         /\ SetTask(Task, st)[Task].status = st
         /\ \A t \in DOMAIN tasks : t # Task => SetTask(Task, st)[t] = tasks[t]
         /\ \A t \in DOMAIN tasks : SetTask(Task, st)[t].creator = tasks[t].creator
<1>1. worker.msg \in DOMAIN activations.log
  BY DEF TypeInv, TypeOK, Shape, Groups
<1>2. Task \in DOMAIN tasks /\ tasks \in Seq(Tasks)
  BY <1>1 DEF Task, TypeInv, TypeOK, Shape
<1> DEFINE old == tasks[Task]
           row == [old EXCEPT !.status = st]
<1>3. old \in Tasks
  BY <1>2
<1>4. SetTask(Task, st) = [tasks EXCEPT ![Task] = row]
  BY DEF SetTask
<1> HIDE DEF old
<1>5. row \in Tasks /\ row.status = st /\ row.creator = old.creator
  BY <1>3 DEF Tasks
<1> HIDE DEF row
<1>6. [tasks EXCEPT ![Task] = row] \in Seq(Tasks)
  BY <1>2, <1>5
<1>7. QED BY <1>2, <1>4, <1>5, <1>6 DEF old



(* Steps that leave the tasks and the worker's stream alone. *)
LEMMA ControllerSide ==
  ASSUME TypeInv, UNCHANGED <<tasks, runs, activations, published, worker, operator, gui, resumes>>,
         jobStatus' \in JobStatuses, requests' \in Groups(Requests),
         controller' \in Process(ControllerPCs), controller'.pc # "publish",
         faults' \in 0 .. MaxFaults
  PROVE  TypeInv'
<1>1. TypeOK'
  BY DEF TypeInv, TypeOK
<1>2. Shape'
  BY DEF TypeInv, Shape
<1>3. QED BY <1>1, <1>2 DEF TypeInv

(* Steps that leave the tasks' number, the requests and the controller alone. *)
LEMMA WorkerSide ==
  ASSUME TypeInv, UNCHANGED <<requests, published, controller, operator, gui, resumes>>,
         jobStatus' \in JobStatuses, tasks' \in Seq(Tasks), Len(tasks') = Len(tasks),
         runs' \in Seq(Nat), activations' \in Groups(Nat),
         activations'.log = activations.log,
         activations'.next <= Len(activations.log) + 1,
         activations.next <= activations'.next,
         \A i \in activations'.pending : i < activations'.next,
         worker' \in Process(WorkerPCs),
         \/ worker'.pc \in {"down", "idle"}
         \/ worker'.msg = worker.msg /\ worker.pc \notin {"down", "idle"}
         \/ worker'.msg \in 1 .. activations'.next - 1,
         faults' \in 0 .. MaxFaults
  PROVE  TypeInv'
<1>1. TypeOK'
  BY DEF TypeInv, TypeOK
<1>2. activations.next \in Nat /\ activations'.next \in Nat
  BY DEF TypeInv, TypeOK, Groups
<1>3. worker'.pc \notin {"down", "idle"} => worker'.msg \in 1 .. activations'.next - 1
  BY <1>2 DEF TypeInv, Shape
<1>4. \A i \in DOMAIN activations'.log : activations'.log[i] \in DOMAIN tasks'
  BY DEF TypeInv, TypeOK, Shape
<1>5. Shape'
  BY <1>3, <1>4 DEF TypeInv, Shape
<1>6. QED BY <1>1, <1>5 DEF TypeInv

(* Steps of the operator and of the GUI. *)
LEMMA OperatorSide ==
  ASSUME TypeInv, UNCHANGED <<tasks, runs, activations, published, faults>>,
         jobStatus' \in JobStatuses, requests' \in Groups(Requests),
         \/ UNCHANGED <<controller, worker>>
         \/ controller' = Down /\ worker' = Down
         \/ controller' = Launched /\ worker' = Launched,
         operator' \in Seq({"mark", "kill", "launch", "plan"}),
         gui' \in [pc : {"idle", "job", "write"}, status : JobStatuses],
         resumes' \in 0 .. MaxResumes
  PROVE  TypeInv'
<1>1. /\ controller' \in Process(ControllerPCs)
      /\ worker' \in Process(WorkerPCs)
      /\ controller'.pc = "publish" => controller.pc = "publish"
      /\ worker'.pc \in {"down", "idle"} \/ worker' = worker
  BY DownFacts, StatusFacts DEF TypeInv, TypeOK
<1>2. TypeOK'
  BY <1>1 DEF TypeInv, TypeOK
<1>3. Shape'
  BY <1>1 DEF TypeInv, Shape
<1>4. QED BY <1>2, <1>3 DEF TypeInv

(* A step of a start or a resume leaves a list of steps. *)
LEMMA OperatorFacts ==
  ASSUME TypeInv
  PROVE  /\ operator # <<>> => Tail(operator) \in Seq({"mark", "kill", "launch", "plan"})
         /\ \A kind : Script(kind) \in Seq({"mark", "kill", "launch", "plan"})
<1>1. operator # <<>> => Tail(operator) \in Seq({"mark", "kill", "launch", "plan"})
  BY DEF TypeInv, TypeOK
<1>2. ASSUME NEW kind PROVE Script(kind) \in Seq({"mark", "kill", "launch", "plan"})
  <2>1. /\ <<"mark", "kill", "launch", "plan">> \in Seq({"mark", "kill", "launch", "plan"})
        /\ <<"kill", "mark", "plan", "launch">> \in Seq({"mark", "kill", "launch", "plan"})
    OBVIOUS
  <2>2. QED BY <2>1 DEF Script
<1>3. QED BY <1>1, <1>2

LEMMA TypeStep == TypeInv /\ [Next]_vars => TypeInv'
<1> SUFFICES ASSUME TypeInv, [Next]_vars PROVE TypeInv'
  OBVIOUS
<1> USE DEF db, redis, procs, env
<1>0. /\ controller \in Process(ControllerPCs)
      /\ requests \in Groups(Requests)
      /\ jobStatus \in JobStatuses
      /\ faults \in 0 .. MaxFaults
  BY DEF TypeInv, TypeOK
<1>1. ASSUME NEW i \in Takeable(controller, requests), CtlTake(i) PROVE TypeInv'
  <2>1. /\ requests' = Take(requests, i)
        /\ controller' = Enter(controller, requests, i, "deciding")
        /\ UNCHANGED <<db, activations, published, worker, env>>
    BY <1>1 DEF CtlTake
  <2>2. i \in Nat /\ requests' \in Groups(Requests)
    BY <1>0, <1>1, <2>1, TakeFacts
  <2>3. controller' \in Process(ControllerPCs) /\ controller'.pc = "deciding"
    BY <1>0, <2>1, <2>2, EnterFacts, StatusFacts
  <2>4. QED BY <1>0, <2>1, <2>2, <2>3, ControllerSide
<1>2. CASE CtlTokenWait
  BY <1>0, <1>2, MoveFacts, ControllerSide, StatusFacts DEF CtlTokenWait
<1>3. CASE CtlTokenResume
  BY <1>0, <1>3, MoveFacts, ControllerSide, StatusFacts DEF CtlTokenResume, AskAgain
<1>4. CASE CtlDecide
  <2>1. PICK a \in Answers : controller' = [controller EXCEPT !.pc = "decided", !.action = a]
    BY <1>4 DEF CtlDecide
  <2>2. a \in Actions
    BY DEF Answers, Actions
  <2>3. "decided" \in ControllerPCs
    BY StatusFacts
  <2>4. controller' \in Process(ControllerPCs) /\ controller'.pc = "decided"
    BY <1>0, <2>1, <2>2, <2>3 DEF Process
  <2>5. QED BY <1>0, <1>4, <2>4, ControllerSide DEF CtlDecide
<1>7. CASE CtlHumanNeeded
  <2>1. controller' \in Process(ControllerPCs) /\ controller'.pc = "announce"
    BY <1>0, <1>7, AnnounceFacts, StatusFacts DEF CtlHumanNeeded
  <2>2. QED BY <1>0, <1>7, <2>1, ControllerSide, StatusFacts, ConstantsAssumption
           DEF CtlHumanNeeded
<1>8. CASE CtlDone
  <2>1. controller' \in Process(ControllerPCs) /\ controller'.pc = "announce"
    BY <1>0, <1>8, AnnounceFacts, StatusFacts DEF CtlDone
  <2>2. QED BY <1>0, <1>8, <2>1, ControllerSide, StatusFacts, ConstantsAssumption
           DEF CtlDone
<1>9. CASE CtlPromotionFailed
  <2>1. [type |-> "PROMOTION_RECOVERY", task |-> 0] \in Requests
    BY DEF Requests
  <2>2. QED BY <1>0, <1>9, <2>1, MoveFacts, XaddFacts, ControllerSide, StatusFacts DEF CtlPromotionFailed
<1>10. CASE CtlRecoveryRequested
  BY <1>0, <1>10, MoveFacts, ControllerSide, StatusFacts DEF CtlRecoveryRequested
<1>11. CASE CtlAnnounce
  BY <1>0, <1>11, MoveFacts, ControllerSide, StatusFacts DEF CtlAnnounce
<1>12. CASE CtlAck
  BY <1>0, <1>12, AckFacts, LoopFacts, ControllerSide, StatusFacts DEF CtlAck
<1>13. CASE CtlIdleExit
  BY <1>0, <1>13, DownFacts, ControllerSide, StatusFacts DEF CtlIdleExit
<1>14. CASE CtlReject
  <2>1. controller' \in Process(ControllerPCs) /\ controller'.pc = "announce"
    BY <1>0, <1>14, AnnounceFacts, StatusFacts DEF CtlReject, CtlRecordDead
  <2>2. QED BY <1>0, <1>14, <2>1, ControllerSide, StatusFacts, ConstantsAssumption
           DEF CtlReject, CtlRecordDead
<1>15. CASE CtlFault
  <2>1. controller' \in Process(ControllerPCs) /\ controller'.pc = "announce"
    BY <1>0, <1>15, AnnounceFacts, StatusFacts DEF CtlFault, CtlRecordDead
  <2>2. QED BY <1>0, <1>15, <2>1, ControllerSide, StatusFacts, ConstantsAssumption
           DEF CtlFault, CtlRecordDead
<1>16. CASE CtlUnrecorded
  BY <1>0, <1>16, LoopFacts, ControllerSide, StatusFacts, ConstantsAssumption DEF CtlUnrecorded
<1>17. CASE CtlCrash
  BY <1>0, <1>17, DownFacts, ControllerSide, StatusFacts, ConstantsAssumption DEF CtlCrash
<1>18. CASE CtlCreateTask
  <2>1. Creator \in Creators
    BY DEF Creator, Creators
  <2> DEFINE t == [status |-> "queued", creator |-> Creator]
  <2>2. t \in Tasks
    BY <2>1, StatusFacts DEF Tasks, TaskStatuses, ActiveTaskStatuses
  <2>3. /\ tasks' = Append(tasks, t)
        /\ jobStatus' = ActiveJobStatus(tasks')
        /\ controller' = [controller EXCEPT !.pc = "publish"]
        /\ UNCHANGED <<runs, redis, worker, env>>
    BY <1>18 DEF CtlCreateTask
  <2>4. tasks' \in Seq(Tasks) /\ jobStatus' \in JobStatuses
    BY <2>1, <2>3, NewTaskStatus, StatusFacts DEF TypeInv
  <2>5. tasks \in Seq(Tasks)
    BY DEF TypeInv, TypeOK
  <2> HIDE DEF t
  <2>6. Len(tasks') = Len(tasks) + 1 /\ DOMAIN tasks \subseteq DOMAIN tasks'
    BY <2>2, <2>3, <2>5
  <2>7. controller' \in Process(ControllerPCs)
    BY <1>0, <2>3, MoveFacts, StatusFacts
  <2>8. TypeOK'
    BY <2>3, <2>4, <2>6, <2>7 DEF TypeInv, TypeOK
  <2>9. Shape'
    BY <2>3, <2>5, <2>6 DEF TypeInv, Shape
  <2>10. QED BY <2>8, <2>9 DEF TypeInv
<1>19. CASE CtlPublish
  <2>1. /\ NewTask \in DOMAIN tasks
        /\ NewTask \in Nat
        /\ activations \in Groups(Nat)
    BY <1>19 DEF CtlPublish, NewTask, TypeInv, TypeOK, Shape
  <2>2. controller' \in Process(ControllerPCs) /\ controller'.pc = "ack"
    BY <1>0, <1>19, MoveFacts, StatusFacts DEF CtlPublish
  <2>3. /\ activations' \in Groups(Nat)
        /\ activations'.next = activations.next
        /\ activations'.pending = activations.pending
        /\ activations'.log \in {activations.log, Append(activations.log, NewTask)}
    BY <1>19, <2>1, XaddFacts DEF CtlPublish
  <2>4. activations.log \in Seq(Nat) /\ activations.next \in Nat
    BY <2>1 DEF Groups
  <2>5. TypeOK'
    BY <1>19, <2>1, <2>2, <2>3 DEF CtlPublish, TypeInv, TypeOK
  <2>6. /\ Len(activations.log) <= Len(activations'.log)
        /\ \A i \in DOMAIN activations'.log :
             \/ i \in DOMAIN activations.log /\ activations'.log[i] = activations.log[i]
             \/ activations'.log[i] = NewTask
    <3>1. CASE activations'.log = activations.log
      BY <2>4, <3>1
    <3>2. CASE activations'.log = Append(activations.log, NewTask)
      BY <2>1, <2>4, <3>2
    <3>3. QED BY <2>3, <3>1, <3>2
  <2>7. \A i \in DOMAIN activations'.log : activations'.log[i] \in DOMAIN tasks
    BY <2>1, <2>6 DEF TypeInv, Shape
  <2>8. Len(activations.log) \in Nat /\ Len(activations'.log) \in Nat
    BY <2>1, <2>3, <2>4
  <2>9. Shape'
    BY <1>19, <2>2, <2>3, <2>4, <2>6, <2>7, <2>8 DEF CtlPublish, TypeInv, Shape
  <2>10. QED BY <2>5, <2>9 DEF TypeInv
<1>20. /\ worker \in Process(WorkerPCs)
       /\ tasks \in Seq(Tasks)
       /\ runs \in Seq(Nat)
       /\ activations \in Groups(Nat)
       /\ activations.next \in Nat
       /\ activations.next <= Len(activations.log) + 1
       /\ \A i \in activations.pending : i \in Nat /\ i < activations.next
  BY DEF TypeInv, TypeOK, Shape, Groups
<1>21. ASSUME NEW i \in Takeable(worker, activations), WkrTake(i) PROVE TypeInv'
  <2>1. PICK pc \in {"loaded", "ack"} : worker' = Enter(worker, activations, i, pc)
    BY <1>21 DEF WkrTake
  <2>2. worker' \in Process(WorkerPCs) /\ worker'.msg = i /\ i \in Nat \ {0}
    BY <1>20, <1>21, <2>1, TakeFacts, EnterFacts, StatusFacts
  <2>3. /\ activations' = Take(activations, i)
        /\ UNCHANGED <<db, requests, published, controller, env>>
    BY <1>21 DEF WkrTake
  <2>4. /\ activations' \in Groups(Nat)
        /\ activations'.log = activations.log
        /\ activations'.next = IF i = activations.next THEN activations.next + 1 ELSE activations.next
        /\ activations'.pending = activations.pending \cup {i}
        /\ i < activations'.next
        /\ i = activations.next => activations.next <= Len(activations.log)
    BY <1>20, <2>3, TakeFacts
  <2>5. QED BY <1>0, <1>20, <2>2, <2>3, <2>4, WorkerSide
<1>22. ASSUME NEW st \in TaskStatuses, worker.pc \notin {"down", "idle"},
              tasks' \in {tasks, SetTask(Task, st)},
              runs' \in {runs, Append(runs, Task)},
              jobStatus' \in JobStatuses,
              worker' \in Process(WorkerPCs),
              worker'.msg = worker.msg \/ worker'.pc = "idle",
              faults' \in 0 .. MaxFaults,
              UNCHANGED <<redis, controller, operator, gui, resumes>>
       PROVE  TypeInv'
  <2>1. tasks' \in Seq(Tasks) /\ Len(tasks') = Len(tasks) /\ Task \in Nat
    BY <1>20, <1>22, SetTaskFacts
  <2>2. runs \in Seq(Nat)
    BY <1>20
  <2>3. runs' \in Seq(Nat)
    <3>1. Task \in Nat
      BY <2>1
    <3>2. Append(runs, Task) \in Seq(Nat)
      BY <2>2, <3>1
    <3>3. QED BY <1>22, <2>2, <3>2
  <2>4. QED BY <1>20, <1>22, <2>1, <2>3, WorkerSide
<1>23. CASE WkrStart
  BY <1>0, <1>20, <1>22, <1>23, MoveFacts, StatusFacts DEF WkrStart
<1>24. CASE WkrTokenWait
  BY <1>0, <1>20, <1>22, <1>24, MoveFacts, StatusFacts DEF WkrTokenWait
<1>25. CASE WkrTokenResume
  BY <1>0, <1>20, <1>22, <1>25, MoveFacts, StatusFacts DEF WkrTokenResume, StatusAfterWait
<1>26. ASSUME NEW outcome \in {"completed", "human_needed"}, WkrFinish(outcome)
       PROVE  TypeInv'
  <2>1. /\ worker.pc = "running"
        /\ runs' = Append(runs, Task)
        /\ tasks' = SetTask(Task, outcome)
        /\ jobStatus' \in {"human_needed", "planning"}
        /\ UNCHANGED <<redis, controller, env>>
    BY <1>26 DEF WkrFinish, TasksAfterRun
  <2>2. worker' \in Process(WorkerPCs) /\ worker'.msg = worker.msg
    <3>1. CASE outcome = "human_needed"
      BY <1>20, <1>26, <3>1, AnnounceFacts, StatusFacts DEF WkrFinish, AfterRun
    <3>2. CASE outcome # "human_needed"
      BY <1>20, <1>26, <3>2, MoveFacts, StatusFacts DEF WkrFinish, AfterRun
    <3>3. QED BY <3>1, <3>2
  <2>3. QED BY <1>0, <1>22, <2>1, <2>2, StatusFacts
<1>27. CASE WkrReview
  <2>1. worker' \in Process(WorkerPCs) /\ worker'.msg = worker.msg
    BY <1>20, <1>27, MoveFacts, StatusFacts DEF WkrReview
  <2>2. [type |-> "REVIEW", task |-> Task] \in Requests
    BY <1>27, SetTaskFacts, StatusFacts DEF WkrReview, Requests
  <2>3. requests' \in Groups(Requests)
    BY <1>0, <1>27, <2>2, XaddFacts DEF WkrReview, RequestReview
  <2>4. TypeOK'
    BY <1>27, <2>1, <2>3 DEF WkrReview, TypeInv, TypeOK
  <2>5. Shape'
    BY <1>27, <2>1 DEF WkrReview, TypeInv, Shape
  <2>6. QED BY <2>4, <2>5 DEF TypeInv
<1>28. CASE WkrAnnounce
  BY <1>0, <1>20, <1>22, <1>28, MoveFacts, StatusFacts DEF WkrAnnounce
<1>29. CASE WkrAck
  <2>1. worker' \in Process(WorkerPCs) /\ worker'.pc \in {"down", "idle"}
    BY <1>20, <1>29, LoopFacts, StatusFacts DEF WkrAck
  <2>2. /\ activations' \in Groups(Nat)
        /\ activations'.log = activations.log
        /\ activations'.next = activations.next
        /\ activations'.pending = activations.pending \ {worker.msg}
    BY <1>20, <1>29, AckFacts DEF WkrAck
  <2>3. QED BY <1>0, <1>20, <1>29, <2>1, <2>2, WorkerSide DEF WkrAck
<1>30. CASE WkrIdleExit
  <2>1. worker' \in Process(WorkerPCs) /\ worker'.pc = "down"
    BY <1>30, DownFacts, StatusFacts DEF WkrIdleExit
  <2>2. QED BY <1>0, <1>20, <1>30, <2>1, WorkerSide DEF WkrIdleExit
<1>31. CASE WkrReject
  <2>1. worker' \in Process(WorkerPCs) /\ worker'.msg = worker.msg
    BY <1>20, <1>31, AnnounceFacts, StatusFacts DEF WkrReject, WkrRecordDead
  <2>2. QED BY <1>0, <1>20, <1>22, <1>31, <2>1, StatusFacts, ConstantsAssumption
           DEF WkrReject, WkrRecordDead, TasksAfterDeath
<1>32. CASE WkrFault
  <2>1. worker' \in Process(WorkerPCs) /\ worker'.msg = worker.msg
    BY <1>20, <1>32, AnnounceFacts, StatusFacts DEF WkrFault, WkrRecordDead
  <2>2. QED BY <1>0, <1>20, <1>22, <1>32, <2>1, StatusFacts, ConstantsAssumption
           DEF WkrFault, WkrHandling, WkrRecordDead, TasksAfterDeath
<1>33. CASE WkrUnrecorded
  BY <1>0, <1>20, <1>22, <1>33, LoopFacts, StatusFacts, ConstantsAssumption
  DEF WkrUnrecorded, WkrHandling, TasksAfterDeath
<1>34. CASE WkrCrash
  <2>1. worker' \in Process(WorkerPCs) /\ worker'.pc = "down"
    BY <1>34, DownFacts, StatusFacts DEF WkrCrash
  <2>2. QED BY <1>0, <1>20, <1>34, <2>1, WorkerSide, ConstantsAssumption DEF WkrCrash
<1>35. /\ gui \in [pc : {"idle", "job", "write"}, status : JobStatuses]
       /\ operator \in Seq({"mark", "kill", "launch", "plan"})
       /\ resumes \in 0 .. MaxResumes
  BY DEF TypeInv, TypeOK
<1>36. ASSUME NEW kind, BeginResume(kind) PROVE TypeInv'
  BY <1>0, <1>35, <1>36, OperatorFacts, OperatorSide, ConstantsAssumption DEF BeginResume
<1>37. CASE OpMark
  BY <1>0, <1>35, <1>37, OperatorFacts, OperatorSide, StatusFacts DEF OpMark, Step
<1>38. CASE OpKill
  BY <1>0, <1>35, <1>38, OperatorFacts, OperatorSide DEF OpKill, Step
<1>39. CASE OpLaunch
  BY <1>0, <1>35, <1>39, OperatorFacts, OperatorSide DEF OpLaunch, Step
<1>40. CASE OpPlan
  <2>1. [type |-> "PLAN", task |-> 0] \in Requests
    BY DEF Requests
  <2>2. requests' \in Groups(Requests)
    BY <1>0, <1>40, <2>1, XaddFacts DEF OpPlan
  <2>3. QED BY <1>0, <1>35, <1>40, <2>2, OperatorFacts, OperatorSide DEF OpPlan, Step
<1>41. CASE OpAbort
  <2>1. TypeOK'
    BY <1>41, ConstantsAssumption DEF OpAbort, TypeInv, TypeOK
  <2>2. Shape'
    BY <1>41 DEF OpAbort, TypeInv, Shape
  <2>3. QED BY <2>1, <2>2 DEF TypeInv
<1>42. CASE StopJob
  BY <1>0, <1>35, <1>42, OperatorSide, StatusFacts DEF StopJob
<1>43. CASE GuiReadJob
  BY <1>0, <1>35, <1>43, OperatorSide DEF GuiReadJob
<1>44. CASE GuiReadTasks
  <2>1. ActiveJobStatus(tasks) \in JobStatuses \cup {"none"}
    BY DEF ActiveJobStatus, JobStatuses, ActiveStatuses
  <2>2. gui' \in [pc : {"idle", "job", "write"}, status : JobStatuses]
    BY <1>44, <2>1, StatusFacts DEF GuiReadTasks, Expected
  <2>3. QED BY <1>0, <1>35, <1>44, <2>2, OperatorSide DEF GuiReadTasks
<1>45. CASE GuiReconcile
  BY <1>0, <1>35, <1>45, OperatorSide, StatusFacts DEF GuiReconcile
<1>46. CASE UNCHANGED vars
  <2>1. TypeOK'
    BY <1>46 DEF vars, TypeInv, TypeOK
  <2>2. Shape'
    BY <1>46 DEF vars, TypeInv, Shape
  <2>3. QED BY <2>1, <2>2 DEF TypeInv
<1>47. CASE Controller
  BY <1>1, <1>2, <1>3, <1>4, <1>7, <1>8, <1>9, <1>10, <1>11, <1>12, <1>13, <1>14, <1>18,
     <1>19, <1>47 DEF Controller
<1>48. CASE Worker
  BY <1>21, <1>23, <1>24, <1>25, <1>26, <1>27, <1>28, <1>29, <1>30, <1>31, <1>48 DEF Worker
<1>49. CASE Operator \/ Gui
  BY <1>37, <1>38, <1>39, <1>40, <1>43, <1>44, <1>45, <1>49 DEF Operator, Gui
<1>50. QED
  BY <1>15, <1>16, <1>17, <1>32, <1>33, <1>34, <1>36, <1>41, <1>42, <1>46, <1>47, <1>48, <1>49
  DEF Next, Terminated

(* Every reachable state has its types. *)
THEOREM TypeCorrect == Spec => []TypeOK
<1>1. TypeInv => TypeOK
  BY DEF TypeInv
<1>2. QED BY <1>1, TypeInit, TypeStep, PTL DEF Spec

-----------------------------------------------------------------------------
(* What the worker holds, and where it is with it. *)
WorkerInv ==
  /\ worker.pc = "loaded" => tasks[Task].status = "queued"
  /\ worker.pc \in {"running", "waiting"} => tasks[Task].status \in {"running", "waiting_tokens"}
  /\ worker.pc = "ran" => tasks[Task].status = "completed" /\ HasRun(Task) /\ ~Reviewed(Task)
  /\ worker.pc \in {"announce", "ack"} => tasks[Task].status # "queued"

RunInv ==
  /\ \A r \in DOMAIN runs :
       runs[r] \in DOMAIN tasks /\ tasks[runs[r]].status \notin ActiveTaskStatuses
  /\ \A t \in DOMAIN tasks : tasks[t].status = "completed" => HasRun(t)
  /\ Distinct(runs)

ReviewInv ==
  /\ \A i \in DOMAIN requests.log :
       requests.log[i].type = "REVIEW" => HasRun(requests.log[i].task)
  /\ OneReviewPerTask

Inv == TypeInv /\ WorkerInv /\ RunInv /\ ReviewInv /\ QueuedNeverSettled

LEMMA InvInit == Init => Inv
<1> SUFFICES ASSUME Init PROVE Inv
  OBVIOUS
<1>1. TypeInv
  BY TypeInit
<1>2. /\ tasks = <<>> /\ runs = <<>>
      /\ requests.log = <<>> /\ activations.next = 1
      /\ worker.pc = "down"
  BY DEF Init, EmptyGroup, Down
<1>3. WorkerInv /\ RunInv /\ ReviewInv
  BY <1>2 DEF WorkerInv, RunInv, Distinct, ReviewInv, OneReviewPerTask
<1>4. QueuedNeverSettled
  BY <1>2 DEF QueuedNeverSettled, Settled
<1>5. QED BY <1>1, <1>3, <1>4 DEF Inv

(* An acknowledged activation is one of a task. *)
LEMMA SettledFacts ==
  ASSUME TypeInv, NEW i \in Settled(activations)
  PROVE  i \in DOMAIN activations.log /\ activations.log[i] \in DOMAIN tasks
<1>1. /\ activations.log \in Seq(Nat)
      /\ activations.next \in Nat
      /\ activations.next <= Len(activations.log) + 1
      /\ i \in 1 .. activations.next - 1
  BY DEF TypeInv, TypeOK, Shape, Groups, Settled
<1>2. i \in DOMAIN activations.log
  BY <1>1
<1>3. QED BY <1>2 DEF TypeInv, Shape

(* So is the one the worker holds. *)
LEMMA HeldFacts ==
  ASSUME TypeInv, worker.pc \notin {"down", "idle"}
  PROVE  worker.msg \in DOMAIN activations.log /\ Task \in DOMAIN tasks
<1>1. /\ activations.log \in Seq(Nat)
      /\ activations.next \in Nat
      /\ activations.next <= Len(activations.log) + 1
      /\ worker.msg \in 1 .. activations.next - 1
  BY DEF TypeInv, TypeOK, Shape, Groups
<1>2. worker.msg \in DOMAIN activations.log
  BY <1>1
<1>3. QED BY <1>2 DEF TypeInv, Shape, Task

(* What a step leaves of the requests, and of the worker's stream.         *)
NoNewReview ==
  \A i \in DOMAIN requests'.log :
    \/ i \in DOMAIN requests.log /\ requests'.log[i] = requests.log[i]
    \/ requests'.log[i].type # "REVIEW"

RequestsKept ==
  \A i \in DOMAIN requests.log :
    i \in DOMAIN requests'.log /\ requests'.log[i] = requests.log[i]

ActivationsKept ==
  /\ \A i \in DOMAIN activations.log : activations'.log[i] = activations.log[i]
  /\ Settled(activations') \subseteq Settled(activations)

(* Rows are appended to the tasks at most. *)
TasksKept ==
  /\ DOMAIN tasks \subseteq DOMAIN tasks'
  /\ \A t \in DOMAIN tasks : tasks'[t] = tasks[t]
  /\ \A t \in DOMAIN tasks' \ DOMAIN tasks : tasks'[t].status = "queued"

(* Steps that at most append rows to the tasks, and the invariant's parts  *)
(* that do not read the worker.                                            *)
LEMMA InvRows ==
  ASSUME Inv, TypeInv', UNCHANGED runs, TasksKept, NoNewReview, RequestsKept, ActivationsKept
  PROVE  RunInv' /\ ReviewInv' /\ QueuedNeverSettled'
<1> USE DEF Inv
<1>1. \A t : HasRun(t)' <=> HasRun(t)
  BY DEF HasRun
<1>2. RunInv'
  <2>1. \A r \in DOMAIN runs' :
          runs'[r] \in DOMAIN tasks' /\ tasks'[runs'[r]].status \notin ActiveTaskStatuses
    BY DEF RunInv, TasksKept
  <2>2. \A t \in DOMAIN tasks' : tasks'[t].status = "completed" => HasRun(t)'
    BY <1>1 DEF RunInv, TasksKept
  <2>3. QED BY <2>1, <2>2 DEF RunInv, Distinct
<1>3. ReviewInv'
  <2>1. \A i \in DOMAIN requests'.log :
          requests'.log[i].type = "REVIEW" =>
            \E r \in DOMAIN runs' : runs'[r] = requests'.log[i].task
    BY DEF ReviewInv, HasRun, NoNewReview
  <2>2. ASSUME NEW i \in DOMAIN requests'.log, NEW j \in DOMAIN requests'.log,
               requests'.log[i].type = "REVIEW", requests'.log[i] = requests'.log[j]
        PROVE  i = j
    <3>1. /\ i \in DOMAIN requests.log /\ requests'.log[i] = requests.log[i]
          /\ j \in DOMAIN requests.log /\ requests'.log[j] = requests.log[j]
      BY <2>2 DEF NoNewReview
    <3>2. QED BY <2>2, <3>1 DEF ReviewInv, OneReviewPerTask
  <2>3. OneReviewPerTask'
    BY <2>2 DEF OneReviewPerTask
  <2>4. QED BY <2>1, <2>3 DEF ReviewInv, HasRun
<1>4. QueuedNeverSettled'
  <2>1. ASSUME NEW i \in Settled(activations')
        PROVE  tasks'[activations'.log[i]].status # "queued"
    <3>1. i \in Settled(activations) /\ i \in DOMAIN activations.log
      BY <2>1, SettledFacts DEF ActivationsKept
    <3>2. activations'.log[i] = activations.log[i] /\ activations.log[i] \in DOMAIN tasks
      BY <3>1 DEF ActivationsKept, TypeInv, Shape
    <3>3. QED BY <3>1, <3>2 DEF TasksKept, QueuedNeverSettled
  <2>2. QED BY <2>1 DEF QueuedNeverSettled
<1>5. QED BY <1>2, <1>3, <1>4

(* Everybody's steps but the worker's. *)
LEMMA InvQuiet ==
  ASSUME Inv, TypeInv', UNCHANGED runs, TasksKept, NoNewReview, RequestsKept, ActivationsKept,
         worker' = worker \/ worker'.pc \in {"down", "idle"}
  PROVE  Inv'
<1> USE DEF Inv
<1>1. \A t : HasRun(t)' <=> HasRun(t)
  BY DEF HasRun
<1>2. \A t : Reviewed(t)' <=> Reviewed(t)
  BY DEF Reviewed, NoNewReview, RequestsKept
<1>3. WorkerInv'
  <2>1. CASE worker'.pc \in {"down", "idle"}
    BY <2>1 DEF WorkerInv
  <2>2. CASE worker' = worker /\ worker.pc \notin {"down", "idle"}
    <3>1. Task' = Task /\ Task \in DOMAIN tasks
      BY <2>2, HeldFacts DEF Task, ActivationsKept
    <3>2. tasks'[Task] = tasks[Task]
      BY <3>1 DEF TasksKept
    <3>3. QED BY <1>1, <1>2, <2>2, <3>1, <3>2 DEF WorkerInv
  <2>3. QED BY <2>1, <2>2
<1>4. QED BY <1>3, InvRows

(* The worker sets the status of the task it holds: it never returns the   *)
(* task to the queue, and activates only a task that is active.            *)
LEMMA InvSetTask ==
  ASSUME Inv, TypeInv', worker.pc \notin {"down", "idle"}, UNCHANGED <<redis, runs>>,
         NEW st \in TaskStatuses \ {"queued"}, tasks' = SetTask(Task, st),
         st = "completed" => HasRun(Task),
         st \in ActiveTaskStatuses => tasks[Task].status \in ActiveTaskStatuses,
         \/ worker'.pc = "idle"
         \/ worker'.msg = worker.msg /\ worker'.pc \in {"announce", "ack"}
         \/ worker'.msg = worker.msg /\ worker'.pc \in {"running", "waiting"}
            /\ st \in {"running", "waiting_tokens"}
  PROVE  Inv'
<1> USE DEF Inv, redis
<1>1. /\ Task \in DOMAIN tasks
      /\ DOMAIN tasks' = DOMAIN tasks
      /\ tasks'[Task].status = st
      /\ \A t \in DOMAIN tasks : t # Task => tasks'[t] = tasks[t]
  BY SetTaskFacts
<1>2. \A t : (HasRun(t)' <=> HasRun(t)) /\ (Reviewed(t)' <=> Reviewed(t))
  BY DEF HasRun, Reviewed
<1>3. WorkerInv'
  BY <1>1, <1>2 DEF WorkerInv, Task
<1>4. RunInv'
  <2>1. \A r \in DOMAIN runs :
          runs[r] \in DOMAIN tasks' /\ tasks'[runs[r]].status \notin ActiveTaskStatuses
    BY <1>1 DEF RunInv
  <2>2. \A t \in DOMAIN tasks' : tasks'[t].status = "completed" => HasRun(t)'
    BY <1>1, <1>2 DEF RunInv
  <2>3. QED BY <2>1, <2>2 DEF RunInv, Distinct
<1>5. ReviewInv'
  BY <1>2 DEF ReviewInv, OneReviewPerTask
<1>6. QueuedNeverSettled'
  <2>1. ASSUME NEW i \in Settled(activations)
        PROVE  tasks'[activations.log[i]].status # "queued"
    <3>1. activations.log[i] \in DOMAIN tasks
      BY <2>1, SettledFacts
    <3>2. QED BY <1>1, <2>1, <3>1 DEF QueuedNeverSettled
  <2>2. QED BY <2>1 DEF QueuedNeverSettled
<1>7. QED BY <1>3, <1>4, <1>5, <1>6

(* Adding anything but a REVIEW. *)
LEMMA RequestFacts ==
  ASSUME TypeInv, NEW m \in Requests, m.type # "REVIEW",
         requests'.log \in {requests.log, Append(requests.log, m)}
  PROVE  NoNewReview /\ RequestsKept
<1>1. requests.log \in Seq(Requests)
  BY DEF TypeInv, TypeOK, Groups
<1>2. CASE requests'.log = requests.log
  BY <1>2 DEF NoNewReview, RequestsKept
<1>3. CASE requests'.log = Append(requests.log, m)
  BY <1>1, <1>3 DEF NoNewReview, RequestsKept
<1>4. QED BY <1>2, <1>3

(* Steps that touch neither the rows of tasks and runs nor the worker's    *)
(* stream, and of the worker's process only end it.                        *)
LEMMA InvAside ==
  ASSUME Inv, TypeInv', UNCHANGED <<tasks, runs, activations>>,
         NoNewReview, RequestsKept,
         worker' = worker \/ worker'.pc \in {"down", "idle"}
  PROVE  Inv'
<1>1. TasksKept /\ ActivationsKept
  BY DEF TasksKept, ActivationsKept
<1>2. QED BY <1>1, InvQuiet

LEMMA InvStep == Inv /\ [Next]_vars => Inv'
<1> SUFFICES ASSUME Inv, [Next]_vars PROVE Inv'
  OBVIOUS
<1> USE DEF db, redis, procs, env
<1>0. TypeInv /\ TypeInv'
  BY TypeStep DEF Inv
<1>1. requests \in Groups(Requests) /\ activations \in Groups(Nat)
  BY <1>0 DEF TypeInv, TypeOK
<1>2. requests' = requests => NoNewReview /\ RequestsKept
  BY DEF NoNewReview, RequestsKept
<1>3. ASSUME NEW i \in Takeable(controller, requests), CtlTake(i) PROVE Inv'
  <2>1. requests'.log = requests.log
    BY <1>1, <1>3, TakeFacts DEF CtlTake
  <2>2. NoNewReview /\ RequestsKept
    BY <2>1 DEF NoNewReview, RequestsKept
  <2>3. QED BY <1>0, <1>3, <2>2, InvAside DEF CtlTake
<1>4. CASE CtlAck
  <2>1. requests'.log = requests.log
    BY <1>1, <1>4, AckFacts DEF CtlAck
  <2>2. NoNewReview /\ RequestsKept
    BY <2>1 DEF NoNewReview, RequestsKept
  <2>3. QED BY <1>0, <1>4, <2>2, InvAside DEF CtlAck
<1>5. CASE CtlPromotionFailed
  <2> DEFINE m == [type |-> "PROMOTION_RECOVERY", task |-> 0]
  <2>1. m \in Requests /\ m.type # "REVIEW"
    BY DEF Requests
  <2>2. requests'.log = Append(requests.log, m)
    BY <1>1, <1>5, <2>1, XaddFacts DEF CtlPromotionFailed
  <2>3. NoNewReview /\ RequestsKept
    BY <1>0, <2>1, <2>2, RequestFacts
  <2>4. QED BY <1>0, <1>5, <2>3, InvAside DEF CtlPromotionFailed
<1>6. CASE OpPlan
  <2> DEFINE m == [type |-> "PLAN", task |-> 0]
  <2>1. m \in Requests /\ m.type # "REVIEW"
    BY DEF Requests
  <2>2. requests'.log = Append(requests.log, m)
    BY <1>1, <1>6, <2>1, XaddFacts DEF OpPlan
  <2>3. NoNewReview /\ RequestsKept
    BY <1>0, <2>1, <2>2, RequestFacts
  <2>4. QED BY <1>0, <1>6, <2>3, InvAside DEF OpPlan
<1>7. CASE \/ CtlTokenWait \/ CtlTokenResume \/ CtlDecide \/ CtlHumanNeeded \/ CtlDone
           \/ CtlRecoveryRequested \/ CtlAnnounce \/ CtlIdleExit
  BY <1>0, <1>2, <1>7, InvAside
  DEF CtlTokenWait, CtlTokenResume, CtlDecide, CtlHumanNeeded, CtlDone,
      CtlRecoveryRequested, CtlAnnounce, CtlIdleExit
<1>8. CASE CtlReject \/ CtlFault \/ CtlUnrecorded \/ CtlCrash
  BY <1>0, <1>2, <1>8, InvAside DEF CtlReject, CtlFault, CtlUnrecorded, CtlCrash, CtlRecordDead
<1>9. Down.pc = "down" /\ Launched.pc = "idle"
  BY DEF Down, Launched
<1>10. CASE OpMark \/ OpKill \/ OpLaunch \/ OpAbort \/ StopJob
  BY <1>0, <1>2, <1>9, <1>10, InvAside DEF OpMark, OpKill, OpLaunch, OpAbort, StopJob, Step
<1>11. CASE (\E kind : BeginResume(kind)) \/ GuiReadJob \/ GuiReadTasks \/ GuiReconcile
  BY <1>0, <1>2, <1>11, InvAside DEF BeginResume, GuiReadJob, GuiReadTasks, GuiReconcile
<1>12. CASE WkrIdleExit \/ WkrCrash
  BY <1>0, <1>2, <1>9, <1>12, InvAside DEF WkrIdleExit, WkrCrash
<1>13. CASE UNCHANGED vars
  BY <1>0, <1>2, <1>13, InvAside DEF vars
<1>14. CASE CtlCreateTask
  <2> DEFINE t == [status |-> "queued", creator |-> Creator]
  <2>1. tasks' = Append(tasks, t) /\ tasks \in Seq(Tasks) /\ t.status = "queued"
    BY <1>0, <1>14 DEF CtlCreateTask, TypeInv, TypeOK
  <2> HIDE DEF t
  <2>2. TasksKept
    BY <2>1 DEF TasksKept
  <2>3. ActivationsKept
    BY <1>14 DEF CtlCreateTask, ActivationsKept
  <2>4. QED BY <1>0, <1>2, <1>14, <2>2, <2>3, InvQuiet DEF CtlCreateTask
<1>15. CASE CtlPublish
  <2>1. NewTask \in Nat
    BY <1>0 DEF NewTask, TypeInv, TypeOK
  <2>2. /\ activations'.next = activations.next
        /\ activations'.pending = activations.pending
        /\ activations'.log \in {activations.log, Append(activations.log, NewTask)}
    BY <1>1, <1>15, <2>1, XaddFacts DEF CtlPublish
  <2>3. activations.log \in Seq(Nat)
    BY <1>1 DEF Groups
  <2>4. \A i \in DOMAIN activations.log : activations'.log[i] = activations.log[i]
    <3>1. CASE activations'.log = activations.log
      BY <3>1
    <3>2. CASE activations'.log = Append(activations.log, NewTask)
      BY <2>1, <2>3, <3>2
    <3>3. QED BY <2>2, <3>1, <3>2
  <2>5. ActivationsKept
    BY <2>2, <2>4 DEF ActivationsKept, Settled
  <2>6. TasksKept
    BY <1>15 DEF CtlPublish, TasksKept
  <2>7. QED BY <1>0, <1>2, <1>15, <2>5, <2>6, InvQuiet DEF CtlPublish
<1>17. requests' = requests /\ tasks' = tasks => RequestsKept /\ NoNewReview /\ TasksKept
  BY DEF RequestsKept, NoNewReview, TasksKept
<1>18. ASSUME NEW i \in Takeable(worker, activations), WkrTake(i) PROVE Inv'
  <2>1. /\ activations' = Take(activations, i)
        /\ UNCHANGED <<db, requests, published, controller, env>>
    BY <1>18 DEF WkrTake
  <2>2. /\ worker.pc = "idle"
        /\ activations'.log = activations.log
        /\ activations'.next = IF i = activations.next THEN activations.next + 1 ELSE activations.next
        /\ activations'.pending = activations.pending \cup {i}
    BY <1>1, <1>18, <2>1, TakeFacts
  <2>3. activations.next \in Nat /\ i \in Nat
    BY <1>1, <1>18, TakeFacts DEF Groups
  <2>4. ActivationsKept
    BY <2>2, <2>3 DEF ActivationsKept, Settled
  <2>5. RunInv' /\ ReviewInv' /\ QueuedNeverSettled'
    BY <1>0, <1>17, <2>1, <2>4, InvRows
  <2>6. PICK pc \in {"loaded", "ack"} :
          /\ worker' = Enter(worker, activations, i, pc)
          /\ pc = "loaded" <=> tasks[activations.log[i]].status = "queued"
    BY <1>18 DEF WkrTake, Startable
  <2>7. worker'.pc = pc /\ worker'.msg = i
    BY <1>0, <2>3, <2>6, EnterFacts, StatusFacts DEF TypeInv, TypeOK
  <2>8. Task' = activations.log[i]
    BY <2>2, <2>7 DEF Task
  <2>9. WorkerInv'
    BY <2>1, <2>6, <2>7, <2>8 DEF WorkerInv
  <2>10. QED BY <1>0, <2>5, <2>9 DEF Inv
<1>19. worker \in Process(WorkerPCs)
  BY <1>0 DEF TypeInv, TypeOK
<1>20. CASE WkrStart
  <2>1. worker'.pc = "running" /\ worker'.msg = worker.msg
    BY <1>19, <1>20, MoveFacts, StatusFacts DEF WkrStart
  <2>2. tasks[Task].status = "queued"
    BY <1>20 DEF WkrStart, Inv, WorkerInv
  <2>3. QED BY <1>0, <1>20, <2>1, <2>2, InvSetTask, StatusFacts DEF WkrStart, ActiveTaskStatuses
<1>21. CASE WkrTokenWait
  <2>1. worker'.pc = "waiting" /\ worker'.msg = worker.msg
    BY <1>19, <1>21, MoveFacts, StatusFacts DEF WkrTokenWait
  <2>2. tasks[Task].status \in ActiveTaskStatuses
    BY <1>21 DEF WkrTokenWait, Inv, WorkerInv, ActiveTaskStatuses
  <2>3. QED BY <1>0, <1>21, <2>1, <2>2, InvSetTask, StatusFacts DEF WkrTokenWait
<1>22. CASE WkrTokenResume
  <2>1. worker'.pc = "running" /\ worker'.msg = worker.msg
    BY <1>19, <1>22, MoveFacts, StatusFacts DEF WkrTokenResume
  <2>2. tasks[Task].status \in ActiveTaskStatuses
    BY <1>22 DEF WkrTokenResume, Inv, WorkerInv, ActiveTaskStatuses
  <2>3. QED BY <1>0, <1>22, <2>1, <2>2, InvSetTask, StatusFacts DEF WkrTokenResume
<1>23. "dead" \in TaskStatuses \ {"queued"} /\ "dead" \notin ActiveTaskStatuses
  BY StatusFacts DEF ActiveTaskStatuses
<1>24. CASE WkrReject \/ WkrFault
  <2>1. worker.pc \notin {"down", "idle"} /\ WkrRecordDead
    BY <1>24 DEF WkrReject, WkrFault, WkrHandling
  <2>2. worker'.pc = "announce" /\ worker'.msg = worker.msg
    BY <1>19, <2>1, AnnounceFacts, StatusFacts DEF WkrRecordDead
  <2>3. tasks' = SetTask(Task, "dead") /\ UNCHANGED <<runs, redis>>
    BY <2>1 DEF WkrRecordDead, TasksAfterDeath
  <2>4. QED BY <1>0, <1>23, <2>1, <2>2, <2>3, InvSetTask
<1>25. CASE WkrUnrecorded
  <2>1. worker.pc \notin {"down", "idle"} /\ worker'.pc = "idle" /\ UNCHANGED <<runs, redis>>
    BY <1>19, <1>25, LoopFacts, StatusFacts DEF WkrUnrecorded, WkrHandling
  <2>2. CASE tasks' = tasks
    BY <1>0, <1>17, <2>1, <2>2, InvAside
  <2>3. CASE tasks' = SetTask(Task, "dead")
    BY <1>0, <1>23, <2>1, <2>3, InvSetTask
  <2>4. QED BY <1>25, <2>2, <2>3 DEF WkrUnrecorded, TasksAfterDeath
<1>26. CASE WkrAnnounce
  <2>1. worker'.pc = "ack" /\ worker'.msg = worker.msg
    BY <1>19, <1>26, MoveFacts, StatusFacts DEF WkrAnnounce
  <2>2. ActivationsKept
    BY <1>26 DEF WkrAnnounce, ActivationsKept
  <2>3. RunInv' /\ ReviewInv' /\ QueuedNeverSettled'
    BY <1>0, <1>17, <1>26, <2>2, InvRows DEF WkrAnnounce
  <2>4. WorkerInv'
    BY <1>26, <2>1 DEF WkrAnnounce, Inv, WorkerInv, Task
  <2>5. QED BY <1>0, <2>3, <2>4 DEF Inv
<1>27. CASE WkrAck
  <2>1. worker.pc = "ack" /\ worker'.pc \in {"down", "idle"}
    BY <1>19, <1>27, LoopFacts, StatusFacts DEF WkrAck
  <2>2. WorkerInv'
    BY <2>1 DEF WorkerInv
  <2>3. RunInv' /\ ReviewInv'
    BY <1>27 DEF WkrAck, Inv, RunInv, ReviewInv, HasRun, OneReviewPerTask, Distinct
  <2>4. /\ activations'.log = activations.log
        /\ activations'.next = activations.next
        /\ activations'.pending = activations.pending \ {worker.msg}
    BY <1>1, <1>27, AckFacts DEF WkrAck
  <2>5. tasks[activations.log[worker.msg]].status # "queued"
    BY <2>1 DEF Inv, WorkerInv, Task
  <2>6. \A i \in Settled(activations') : i \in Settled(activations) \/ i = worker.msg
    BY <2>4 DEF Settled
  <2>7. QueuedNeverSettled'
    BY <1>27, <2>4, <2>5, <2>6 DEF WkrAck, Inv, QueuedNeverSettled
  <2>8. QED BY <1>0, <2>2, <2>3, <2>7 DEF Inv
<1>28. ASSUME NEW outcome \in {"completed", "human_needed"}, WkrFinish(outcome)
       PROVE  Inv'
  <2>1. /\ worker.pc = "running"
        /\ runs' = Append(runs, Task)
        /\ tasks' = SetTask(Task, outcome)
        /\ UNCHANGED redis
    BY <1>28 DEF WkrFinish, TasksAfterRun
  <2>2. outcome \in TaskStatuses /\ outcome \notin ActiveTaskStatuses
    BY StatusFacts DEF ActiveTaskStatuses
  <2>3. /\ Task \in DOMAIN tasks
        /\ Task \in Nat \ {0}
        /\ DOMAIN tasks' = DOMAIN tasks
        /\ tasks'[Task].status = outcome
        /\ \A t \in DOMAIN tasks : t # Task => tasks'[t] = tasks[t]
    BY <1>0, <2>1, <2>2, SetTaskFacts
  <2>4. tasks[Task].status \in ActiveTaskStatuses
    BY <2>1 DEF Inv, WorkerInv, ActiveTaskStatuses
  <2>5. ~HasRun(Task)
    BY <2>4 DEF HasRun, Inv, RunInv
  <2>6. ~Reviewed(Task)
    BY <2>5 DEF Reviewed, Inv, ReviewInv
  <2>7. /\ DOMAIN runs' = DOMAIN runs \cup {Len(runs) + 1}
        /\ \A r \in DOMAIN runs : runs'[r] = runs[r]
        /\ runs'[Len(runs) + 1] = Task
        /\ Len(runs) + 1 \notin DOMAIN runs
    <3>1. runs \in Seq(Nat)
      BY <1>0 DEF TypeInv, TypeOK
    <3>2. QED BY <2>1, <3>1
  <2>8. \A t : HasRun(t)' <=> (HasRun(t) \/ t = Task)
    BY <2>7 DEF HasRun
  <2>9. RunInv'
    <3>1. \A r \in DOMAIN runs' :
            runs'[r] \in DOMAIN tasks' /\ tasks'[runs'[r]].status \notin ActiveTaskStatuses
      BY <2>2, <2>3, <2>7 DEF Inv, RunInv
    <3>2. \A t \in DOMAIN tasks' : tasks'[t].status = "completed" => HasRun(t)'
      BY <2>3, <2>8 DEF Inv, RunInv
    <3>3. Distinct(runs')
      BY <2>5, <2>7 DEF Distinct, HasRun, Inv, RunInv
    <3>4. QED BY <3>1, <3>2, <3>3 DEF RunInv
  <2>10. ReviewInv'
    <3>1. requests' = requests
      BY <2>1
    <3>2. \A i \in DOMAIN requests.log :
            requests.log[i].type = "REVIEW" => \E r \in DOMAIN runs' : runs'[r] = requests.log[i].task
      BY <2>7 DEF HasRun, Inv, ReviewInv
    <3>3. QED BY <3>1, <3>2 DEF Inv, ReviewInv, OneReviewPerTask, HasRun
  <2>11. QueuedNeverSettled'
    <3>1. ASSUME NEW i \in Settled(activations)
          PROVE  tasks'[activations.log[i]].status # "queued"
      BY <1>0, <2>2, <2>3, SettledFacts DEF ActiveTaskStatuses, Inv, QueuedNeverSettled
    <3>2. QED BY <2>1, <3>1 DEF QueuedNeverSettled
  <2>12. worker'.msg = worker.msg /\ worker'.pc = IF outcome = "human_needed" THEN "announce" ELSE "ran"
    <3>1. CASE outcome = "human_needed"
      BY <1>19, <1>28, <3>1, AnnounceFacts, StatusFacts DEF WkrFinish, AfterRun
    <3>2. CASE outcome # "human_needed"
      BY <1>19, <1>28, <3>2, MoveFacts, StatusFacts DEF WkrFinish, AfterRun
    <3>3. QED BY <3>1, <3>2
  <2>13. Task' = Task /\ Reviewed(Task)' = Reviewed(Task)
    BY <2>1, <2>12 DEF Task, Reviewed
  <2>14. WorkerInv'
    BY <2>3, <2>6, <2>8, <2>12, <2>13 DEF WorkerInv
  <2>15. QED BY <1>0, <2>9, <2>10, <2>11, <2>14 DEF Inv
<1>29. CASE WkrReview
  <2> DEFINE m == [type |-> "REVIEW", task |-> Task]
  <2>1. /\ worker.pc = "ran"
        /\ UNCHANGED <<tasks, runs, activations>>
    BY <1>29 DEF WkrReview
  <2>2. /\ tasks[Task].status = "completed"
        /\ HasRun(Task)
        /\ ~Reviewed(Task)
    BY <2>1 DEF Inv, WorkerInv
  <2>3. m \in Requests
    BY <1>0, <2>1, SetTaskFacts, StatusFacts DEF Requests
  <2>4. requests'.log = Append(requests.log, m)
    BY <1>1, <1>29, <2>3, XaddFacts DEF WkrReview, RequestReview
  <2>5. /\ DOMAIN requests'.log = DOMAIN requests.log \cup {Len(requests.log) + 1}
        /\ \A i \in DOMAIN requests.log : requests'.log[i] = requests.log[i]
        /\ requests'.log[Len(requests.log) + 1] = m
    <3>1. requests.log \in Seq(Requests)
      BY <1>1 DEF Groups
    <3> HIDE DEF m
    <3>2. QED BY <2>3, <2>4, <3>1
  <2>6. m.type = "REVIEW" /\ m.task = Task
    OBVIOUS
  <2> HIDE DEF m
  <2>7. \A i \in DOMAIN requests.log : requests.log[i] # m
    BY <2>2, <2>6 DEF Reviewed
  <2>8. ReviewInv'
    <3>1. \A i \in DOMAIN requests'.log :
            requests'.log[i].type = "REVIEW" =>
              \E r \in DOMAIN runs : runs[r] = requests'.log[i].task
      BY <2>2, <2>5, <2>6 DEF HasRun, Inv, ReviewInv
    <3>2. \A i, j \in DOMAIN requests'.log :
            requests'.log[i].type = "REVIEW" /\ requests'.log[i] = requests'.log[j] => i = j
      BY <2>5, <2>7 DEF Inv, ReviewInv, OneReviewPerTask
    <3>3. QED BY <2>1, <3>1, <3>2 DEF ReviewInv, OneReviewPerTask, HasRun
  <2>9. worker'.pc = "ack" /\ worker'.msg = worker.msg
    BY <1>19, <1>29, MoveFacts, StatusFacts DEF WkrReview
  <2>10. WorkerInv'
    BY <2>1, <2>2, <2>9 DEF WorkerInv, Task
  <2>11. RunInv' /\ QueuedNeverSettled'
    BY <2>1 DEF Inv, RunInv, HasRun, Distinct, QueuedNeverSettled
  <2>12. QED BY <1>0, <2>8, <2>10, <2>11 DEF Inv
<1>30. CASE Controller
  BY <1>3, <1>4, <1>5, <1>7, <1>8, <1>14, <1>15, <1>30 DEF Controller
<1>31. CASE Worker
  BY <1>12, <1>18, <1>20, <1>21, <1>22, <1>24, <1>26, <1>27, <1>28, <1>29, <1>31 DEF Worker
<1>32. CASE Operator \/ Gui
  BY <1>6, <1>10, <1>11, <1>32 DEF Operator, Gui
<1>33. QED
  BY <1>8, <1>10, <1>11, <1>12, <1>13, <1>24, <1>25, <1>30, <1>31, <1>32 DEF Next, Terminated

LEMMA Invariance == Spec => []Inv
  BY InvInit, InvStep, PTL DEF Spec

(* However often an activation is delivered, and whatever crashes, a task   *)
(* is run once.                                                            *)
THEOREM RunsOnce == Spec => []OneRunPerTask
<1>1. Inv => OneRunPerTask
  BY DEF Inv, RunInv, OneRunPerTask
<1>2. QED BY <1>1, Invariance, PTL

(* No finished task is sent to review twice. *)
THEOREM ReviewsOnce == Spec => []OneReviewPerTask
<1>1. Inv => OneReviewPerTask
  BY DEF Inv, ReviewInv
<1>2. QED BY <1>1, Invariance, PTL

(* Reviews, runs and task statuses agree. *)
THEOREM RunsAgree == Spec => []RunsMatchTasks
<1>1. Inv => RunsMatchTasks
  BY DEF Inv, RunInv, ReviewInv, RunsMatchTasks, HasRun, Reviewed
<1>2. QED BY <1>1, Invariance, PTL

(* No activation is acknowledged before its task has been taken up. *)
THEOREM NoTaskLost == Spec => []QueuedNeverSettled
<1>1. Inv => QueuedNeverSettled
  BY DEF Inv
<1>2. QED BY <1>1, Invariance, PTL

-----------------------------------------------------------------------------
(* The three ways a step leaves the rows of tasks. *)
LEMMA TaskSteps ==
  ASSUME Inv, [Next]_vars
  PROVE  \/ tasks' = tasks
         \/ CtlCreateTask
         \/ /\ worker.pc \notin {"down", "idle"}
            /\ \E st \in TaskStatuses :
                 /\ tasks' = SetTask(Task, st)
                 /\ \/ st = "dead"
                    \/ st \in {"running", "waiting_tokens"}
                       /\ tasks[Task].status \in {"queued", "running", "waiting_tokens"}
                    \/ st \in {"completed", "human_needed"}
                       /\ tasks[Task].status \in {"running", "waiting_tokens"}
<1> USE DEF db, redis, procs, env
<1>1. CASE Controller \/ CtlFault \/ CtlUnrecorded \/ CtlCrash
  BY <1>1
  DEF Controller, CtlTake, CtlTokenWait, CtlTokenResume, CtlDecide, CtlPublish, CtlHumanNeeded,
      CtlDone, CtlPromotionFailed, CtlRecoveryRequested, CtlAnnounce, CtlAck, CtlIdleExit,
      CtlReject, CtlFault, CtlUnrecorded, CtlCrash, CtlRecordDead
<1>2. CASE Operator \/ OpAbort \/ StopJob \/ Gui \/ (\E kind : BeginResume(kind)) \/ UNCHANGED vars
  BY <1>2
  DEF Operator, OpMark, OpKill, OpLaunch, OpPlan, OpAbort, StopJob, Step, Gui, GuiReadJob,
      GuiReadTasks, GuiReconcile, BeginResume, vars
<1>3. CASE \/ \E i \in Takeable(worker, activations) : WkrTake(i)
           \/ WkrReview \/ WkrAnnounce \/ WkrAck \/ WkrIdleExit \/ WkrCrash
  BY <1>3 DEF WkrTake, WkrReview, WkrAnnounce, WkrAck, WkrIdleExit, WkrCrash
<1>4. CASE WkrReject \/ WkrFault \/ WkrUnrecorded
  BY <1>4, StatusFacts
  DEF WkrReject, WkrFault, WkrUnrecorded, WkrHandling, WkrRecordDead, TasksAfterDeath
<1>5. CASE WkrStart \/ WkrTokenWait \/ WkrTokenResume
  BY <1>5, StatusFacts DEF WkrStart, WkrTokenWait, WkrTokenResume, Inv, WorkerInv
<1>6. CASE \E outcome \in {"completed", "human_needed"} : WkrFinish(outcome)
  BY <1>6, StatusFacts DEF WkrFinish, TasksAfterRun, Inv, WorkerInv
<1>7. CASE Worker
  BY <1>3, <1>4, <1>5, <1>6, <1>7 DEF Worker
<1>8. QED BY <1>1, <1>2, <1>3, <1>4, <1>7 DEF Next, Terminated

(* A task goes from queued through the worker to an end and never back. *)
THEOREM TasksMoveForward == Spec => TaskMovesForward
<1>1. ASSUME Inv, [Next]_vars
      PROVE  \A t \in DOMAIN tasks : Stage(tasks[t].status) <= Stage(tasks'[t].status)
  <2> DEFINE Moves == \A t \in DOMAIN tasks : Stage(tasks[t].status) <= Stage(tasks'[t].status)
  <2>1. tasks \in Seq(Tasks) /\ TypeInv
    BY <1>1 DEF Inv, TypeInv, TypeOK
  <2>2. ASSUME NEW t \in DOMAIN tasks PROVE tasks[t].status \in TaskStatuses
    <3>1. tasks[t] \in Tasks
      BY <2>1
    <3>2. QED BY <3>1 DEF Tasks
  <2>3. /\ Stage("queued") = 0
        /\ Stage("running") = 1 /\ Stage("waiting_tokens") = 1
        /\ Stage("completed") = 2 /\ Stage("human_needed") = 2
        /\ Stage("dead") = 3
        /\ \A st \in TaskStatuses : Stage(st) \in 0 .. 3
    BY DEF TaskStatuses, ActiveTaskStatuses, Stage
  <2>4. CASE \A t \in DOMAIN tasks : tasks'[t] = tasks[t]
    BY <2>2, <2>3, <2>4
  <2>5. CASE CtlCreateTask
    <3> DEFINE row == [status |-> "queued", creator |-> Creator]
    <3>1. tasks' = Append(tasks, row)
      BY <2>5 DEF CtlCreateTask
    <3> HIDE DEF row
    <3>2. \A t \in DOMAIN tasks : tasks'[t] = tasks[t]
      BY <2>1, <3>1
    <3>3. QED BY <2>4, <3>2
  <2>6. ASSUME worker.pc \notin {"down", "idle"}, NEW st \in TaskStatuses, tasks' = SetTask(Task, st),
               \/ st = "dead"
               \/ st \in {"running", "waiting_tokens"}
                  /\ tasks[Task].status \in {"queued", "running", "waiting_tokens"}
               \/ st \in {"completed", "human_needed"}
                  /\ tasks[Task].status \in {"running", "waiting_tokens"}
        PROVE  Moves
    <3>1. /\ tasks'[Task].status = st
          /\ Task \in DOMAIN tasks
          /\ \A t \in DOMAIN tasks : t # Task => tasks'[t] = tasks[t]
      BY <2>1, <2>6, SetTaskFacts
    <3>2. Stage(tasks[Task].status) <= Stage(st)
      BY <2>2, <2>3, <2>6, <3>1
    <3>3. QED BY <2>2, <2>3, <3>1, <3>2
  <2>7. QED BY <1>1, <2>4, <2>5, <2>6, TaskSteps
<1>2. QED BY <1>1, Invariance, PTL DEF Spec, TaskMovesForward

(* The limits on the tasks are kept by every step. *)
LEMMA LimitStep ==
  ASSUME Inv, IterationLimit, [Next]_vars
  PROVE  IterationLimit'
<1>1. tasks \in Seq(Tasks) /\ TypeInv
  BY DEF Inv, TypeInv, TypeOK
<1>2. CASE tasks' = tasks
  BY <1>2 DEF IterationLimit, RecoveryTasks, IsRecovery
<1>3. CASE worker.pc \notin {"down", "idle"} /\ \E st \in TaskStatuses : tasks' = SetTask(Task, st)
  <2>1. /\ DOMAIN tasks' = DOMAIN tasks
        /\ \A t \in DOMAIN tasks : tasks'[t].creator = tasks[t].creator
    BY <1>1, <1>3, SetTaskFacts
  <2>2. RecoveryTasks' = RecoveryTasks
    BY <2>1 DEF RecoveryTasks, IsRecovery
  <2>3. QED BY <2>1, <2>2 DEF IterationLimit, IsRecovery
<1>4. CASE CtlCreateTask
  <2> DEFINE row == [status |-> "queued", creator |-> Creator]
             new == Len(tasks) + 1
  <2>1. tasks' = Append(tasks, row) /\ ~LimitReached
    BY <1>4 DEF CtlCreateTask
  <2>2. row.creator = Creator /\ (Creator = "recovery" <=> RecoveryLineage)
    BY DEF Creator
  <2> HIDE DEF row
  <2>3. /\ DOMAIN tasks' = DOMAIN tasks \cup {new}
        /\ \A t \in DOMAIN tasks : tasks'[t] = tasks[t]
        /\ tasks'[new] = row
        /\ new \notin DOMAIN tasks
        /\ DOMAIN tasks = 1 .. Len(tasks)
        /\ Len(tasks) \in Nat
    BY <1>1, <2>1
  <2>4. RecoveryTasks' = IF RecoveryLineage THEN RecoveryTasks \cup {new} ELSE RecoveryTasks
    BY <2>2, <2>3 DEF RecoveryTasks, IsRecovery
  <2>5. IsFiniteSet(RecoveryTasks) /\ new \notin RecoveryTasks
    <3>1. IsFiniteSet(1 .. Len(tasks))
      BY <2>3, FS_Interval
    <3>2. RecoveryTasks \subseteq 1 .. Len(tasks)
      BY <2>3 DEF RecoveryTasks
    <3>3. QED BY <2>3, <3>1, <3>2, FS_Subset
  <2>6. Cardinality(RecoveryTasks) \in Nat
    BY <2>5, FS_CardinalityType
  <2>7. CASE RecoveryLineage
    <3>1. Cardinality(RecoveryTasks) < RecoveryMaxTasks
      BY <2>1, <2>6, <2>7, ConstantsAssumption DEF LimitReached
    <3>2. Cardinality(RecoveryTasks') = Cardinality(RecoveryTasks) + 1
      BY <2>4, <2>5, <2>7, FS_AddElement
    <3>3. Cardinality(RecoveryTasks') <= RecoveryMaxTasks
      BY <2>6, <3>1, <3>2, ConstantsAssumption
    <3>4. \A t \in DOMAIN tasks' : ~IsRecovery(t)' => t <= MaxIterations
      BY <2>2, <2>3, <2>7 DEF IterationLimit, IsRecovery
    <3>5. QED BY <3>3, <3>4 DEF IterationLimit
  <2>8. CASE ~RecoveryLineage
    <3>1. new <= MaxIterations
      BY <2>1, <2>3, <2>8, ConstantsAssumption DEF LimitReached
    <3>2. \A t \in DOMAIN tasks' : ~IsRecovery(t)' => t <= MaxIterations
      BY <2>3, <3>1 DEF IterationLimit, IsRecovery
    <3>3. QED BY <2>4, <2>8, <3>2 DEF IterationLimit
  <2>9. QED BY <2>7, <2>8
<1>5. QED BY <1>2, <1>3, <1>4, TaskSteps

(* The iteration limit and the recovery limit bound the tasks of the job,   *)
(* however often requests are redelivered and the job is resumed.          *)
THEOREM LimitsKept == Spec => []IterationLimit
<1>1. Init => IterationLimit
  <2>1. ASSUME Init PROVE RecoveryTasks = {} /\ DOMAIN tasks = {}
    BY <2>1 DEF Init, RecoveryTasks
  <2>2. QED BY <2>1, FS_EmptySet, ConstantsAssumption DEF IterationLimit
<1>2. QED BY <1>1, LimitStep, Invariance, PTL DEF Spec

-----------------------------------------------------------------------------
(* A job that nobody interrupts: no process fails or is killed, no resume, *)
(* no stop, and no refresh, whose late write may overwrite any status.     *)
Undisturbed == MaxFaults = 0 /\ MaxResumes = 0 /\ ~GuiRefresh /\ ~GuiStop

(* One thing at a time drives such a job: an undelivered request, the      *)
(* controller that answers it, an undelivered activation, or the worker    *)
(* that runs its task.  Whoever does not drive it is Resting.              *)
Resting(p)  == p.pc \in {"down", "idle", "announce", "ack"}
Drained(g)  == g.next = Len(g.log) + 1
OneNew(g)   == g.next = Len(g.log)
Held(p, g)  == g.pending = IF p.pc \in {"down", "idle"} THEN {} ELSE {p.msg}

NoneActive  == ActiveTasks(tasks) = {}
OnlyNewest  == ActiveTasks(tasks) = {Len(tasks)} /\ jobStatus = ActiveJobStatus(tasks)
NewestQueued == OnlyNewest /\ tasks[Len(tasks)].status = "queued"

Starting ==
  /\ operator \in {<<"launch", "plan">>, <<"plan">>} /\ jobStatus = "planning"
  /\ NoneActive /\ Drained(requests) /\ Drained(activations)
  /\ controller.pc \in {"down", "idle"} /\ worker.pc \in {"down", "idle"}
Asked ==
  /\ jobStatus \in ActiveStatuses /\ NoneActive
  /\ OneNew(requests) /\ Drained(activations)
  /\ Resting(controller) \/ controller.pc = "recover"
  /\ Resting(worker)
Answering ==
  /\ jobStatus \in ActiveStatuses /\ NoneActive
  /\ Drained(requests) /\ Drained(activations)
  /\ controller.pc \in {"deciding", "waiting", "decided"} /\ Resting(worker)
Publishing ==
  /\ NewestQueued /\ NewTask \notin published
  /\ Drained(requests) /\ Drained(activations)
  /\ controller.pc = "publish" /\ Resting(worker)
Activated ==
  /\ NewestQueued /\ Drained(requests) /\ OneNew(activations)
  /\ activations.log[activations.next] = Len(tasks)
  /\ Resting(controller) /\ Resting(worker)
Executing ==
  /\ OnlyNewest /\ Task = Len(tasks)
  /\ Drained(requests) /\ Drained(activations)
  /\ Resting(controller) /\ worker.pc \in {"loaded", "running", "waiting"}
Executed ==
  /\ jobStatus \in ActiveStatuses /\ NoneActive
  /\ Drained(requests) /\ Drained(activations)
  /\ Resting(controller) /\ worker.pc = "ran"
Over ==
  /\ jobStatus \in TerminalStatuses /\ NoneActive
  /\ Drained(requests) /\ Drained(activations)
  /\ Resting(controller) /\ Resting(worker)

Driven ==
  Asked \/ Answering \/ Publishing \/ Activated \/ Executing \/ Executed \/ Over
DriveInv ==
  /\ Held(controller, requests) /\ Held(worker, activations) /\ gui.pc = "idle"
  /\ Starting \/ (operator = <<>> /\ Driven)


(* The status that belongs to a single active task. *)
LEMMA OneActive ==
  ASSUME NEW ts \in Seq(Tasks), NEW t, ActiveTasks(ts) = {t}
  PROVE  /\ t \in DOMAIN ts /\ ActiveJobStatus(ts) \in ActiveStatuses
         /\ ts[t].status = "running" => ActiveJobStatus(ts) = "implementing"
         /\ ts[t].status = "waiting_tokens" => ActiveJobStatus(ts) = "waiting_tokens"
<1>1. t \in DOMAIN ts /\ \A u \in ActiveTasks(ts) : u = t
  BY DEF ActiveTasks
<1> QED BY <1>1 DEF ActiveJobStatus, ActiveStatuses

LEMMA AddActive ==
  ASSUME NEW ts \in Seq(Tasks), ActiveTasks(ts) = {}, NEW row \in Tasks, row.status = "queued"
  PROVE  /\ ActiveTasks(Append(ts, row)) = {Len(ts) + 1}
         /\ Len(Append(ts, row)) = Len(ts) + 1
         /\ Append(ts, row)[Len(ts) + 1].status = "queued"
<1> DEFINE us == Append(ts, row)
<1>1. /\ DOMAIN us = DOMAIN ts \cup {Len(ts) + 1} /\ Len(us) = Len(ts) + 1
      /\ us[Len(ts) + 1] = row /\ \A t \in DOMAIN ts : us[t] = ts[t]
  OBVIOUS
<1> HIDE DEF us
<1>2. ActiveTasks(us) = {Len(ts) + 1}
  BY <1>1 DEF ActiveTasks, ActiveTaskStatuses
<1> QED BY <1>1, <1>2 DEF us

(* The worker sets the status of its task, the only one that may be active. *)
LEMMA SetActive ==
  ASSUME TypeInv, worker.pc \notin {"down", "idle"}, ActiveTasks(tasks) \subseteq {Task},
         NEW st \in TaskStatuses
  PROVE  /\ Len(SetTask(Task, st)) = Len(tasks)
         /\ st \in ActiveTaskStatuses => ActiveTasks(SetTask(Task, st)) = {Task}
         /\ st \notin ActiveTaskStatuses => ActiveTasks(SetTask(Task, st)) = {}
         /\ st = "running" => ActiveJobStatus(SetTask(Task, st)) = "implementing"
         /\ st = "waiting_tokens" => ActiveJobStatus(SetTask(Task, st)) = "waiting_tokens"
<1> DEFINE us == SetTask(Task, st)
<1>1. /\ Task \in DOMAIN tasks /\ us \in Seq(Tasks) /\ DOMAIN us = DOMAIN tasks
      /\ Len(us) = Len(tasks) /\ us[Task].status = st
      /\ \A t \in DOMAIN tasks : t # Task => us[t] = tasks[t]
  BY SetTaskFacts
<1> HIDE DEF us
<1>2. \A t \in DOMAIN tasks : t # Task => us[t].status \notin ActiveTaskStatuses
  BY <1>1 DEF ActiveTasks
<1>3. st \in ActiveTaskStatuses => ActiveTasks(us) = {Task}
  BY <1>1, <1>2 DEF ActiveTasks
<1>4. st \notin ActiveTaskStatuses => ActiveTasks(us) = {}
  BY <1>1, <1>2 DEF ActiveTasks
<1>5. {"running", "waiting_tokens"} \subseteq ActiveTaskStatuses
  BY DEF ActiveTaskStatuses
<1>6. /\ st = "running" => ActiveJobStatus(us) = "implementing"
      /\ st = "waiting_tokens" => ActiveJobStatus(us) = "waiting_tokens"
  BY <1>1, <1>3, <1>5, OneActive
<1> QED BY <1>1, <1>3, <1>4, <1>6 DEF us

(* An idle process, with nothing pending, takes the next entry. *)
LEMMA TakesNew ==
  ASSUME NEW Msg, NEW g \in Groups(Msg), NEW PCs, NEW p \in Process(PCs), NEW pc \in PCs,
         pc \notin {"down", "idle"}, Held(p, g), NEW i \in Takeable(p, g)
  PROVE  /\ p.pc = "idle" /\ i = g.next /\ HasNew(g)
         /\ Take(g, i).log = g.log
         /\ OneNew(g) => Drained(Take(g, i))
         /\ Enter(p, g, i, pc).pc = pc /\ Enter(p, g, i, pc).msg = i
         /\ Held(Enter(p, g, i, pc), Take(g, i))
<1>1. /\ i \in Nat \ {0} /\ p.pc = "idle" /\ Take(g, i).log = g.log
      /\ Take(g, i).next = IF i = g.next THEN g.next + 1 ELSE g.next
      /\ Take(g, i).pending = g.pending \cup {i}
  BY TakeFacts
<1>2. g.pending = {}
  BY <1>1 DEF Held
<1>3. i = g.next /\ HasNew(g)
  BY <1>2 DEF Takeable
<1>4. Enter(p, g, i, pc).pc = pc /\ Enter(p, g, i, pc).msg = i
  BY <1>1, EnterFacts
<1>5. Held(Enter(p, g, i, pc), Take(g, i))
  BY <1>1, <1>2, <1>4 DEF Held
<1>6. g.next \in Nat /\ Len(g.log) \in Nat
  BY DEF Groups
<1>7. OneNew(g) => Drained(Take(g, i))
  BY <1>1, <1>3, <1>6 DEF OneNew, Drained
<1> QED BY <1>1, <1>3, <1>4, <1>5, <1>7

LEMMA AddsNew ==
  ASSUME NEW Msg, NEW g \in Groups(Msg), NEW m \in Msg, Drained(g)
  PROVE  /\ OneNew(Xadd(g, m)) /\ Xadd(g, m).log[Xadd(g, m).next] = m
         /\ Xadd(g, m).pending = g.pending
<1>1. g.log \in Seq(Msg) /\ g.next = Len(g.log) + 1
  BY DEF Groups, Drained
<1>2. Len(Append(g.log, m)) = Len(g.log) + 1 /\ Append(g.log, m)[Len(g.log) + 1] = m
  BY <1>1
<1> QED BY <1>1, <1>2, XaddFacts DEF OneNew

(* Who is where tells what drives the job. *)
LEMMA Drives ==
  ASSUME TypeInv, DriveInv
  PROVE  /\ operator # <<>> => Starting
         /\ controller.pc \in {"deciding", "waiting", "decided"} => operator = <<>> /\ Answering
         /\ controller.pc = "publish" => operator = <<>> /\ Publishing
         /\ controller.pc = "recover" => operator = <<>> /\ Asked
         /\ worker.pc \in {"loaded", "running", "waiting"} => operator = <<>> /\ Executing
         /\ worker.pc = "ran" => operator = <<>> /\ Executed
         /\ HasNew(requests) => operator = <<>> /\ Asked
         /\ HasNew(activations) => operator = <<>> /\ Activated
<1>1. /\ requests.next \in Nat /\ Len(requests.log) \in Nat
      /\ activations.next \in Nat /\ Len(activations.log) \in Nat
  BY DEF TypeInv, TypeOK, Groups
<1>2. /\ Drained(requests) => ~HasNew(requests)
      /\ Drained(activations) => ~HasNew(activations)
  BY <1>1 DEF Drained, HasNew
<1> QED BY <1>2 DEF DriveInv, Driven, Starting, Asked, Answering, Publishing, Activated,
             Executing, Executed, Over, Resting

(* A process that is not driving moves on, or leaves. *)
LEMMA ControllerRests ==
  ASSUME DriveInv, UNCHANGED <<db, activations, published, worker, env>>,
         requests'.log = requests.log, requests'.next = requests.next,
         Held(controller, requests)', Resting(controller),
         \/ controller'.pc \in {"down", "idle"}
         \/ controller'.pc = "ack" /\ controller.pc = "announce"
  PROVE  DriveInv'
<1>1. /\ jobStatus' = jobStatus /\ tasks' = tasks /\ operator' = operator /\ gui' = gui
      /\ activations' = activations /\ published' = published /\ worker' = worker
  BY DEF db, env
<1>2. Held(worker, activations)' /\ gui'.pc = "idle"
  BY <1>1 DEF DriveInv, Held
<1>3. Starting => Starting'
  BY <1>1 DEF Starting, Drained, NoneActive
<1>4. Asked => Asked'
  BY <1>1 DEF Asked, Resting, Drained, OneNew, NoneActive
<1>5. Activated => Activated'
  BY <1>1 DEF Activated, Resting, Drained, OneNew, NewestQueued, OnlyNewest
<1>6. Executing => Executing'
  BY <1>1 DEF Executing, Resting, Drained, OnlyNewest, Task
<1>7. Executed => Executed'
  BY <1>1 DEF Executed, Resting, Drained, NoneActive
<1>8. Over => Over'
  BY <1>1 DEF Over, Resting, Drained, NoneActive
<1>9. ~Answering /\ ~Publishing
  BY DEF Answering, Publishing, Resting
<1>10. Starting' \/ (operator' = <<>> /\ Driven')
  BY <1>1, <1>3, <1>4, <1>5, <1>6, <1>7, <1>8, <1>9 DEF DriveInv, Driven
<1> QED BY <1>2, <1>10 DEF DriveInv

LEMMA WorkerRests ==
  ASSUME DriveInv, UNCHANGED <<db, requests, published, controller, env>>,
         activations'.log = activations.log, activations'.next = activations.next,
         Held(worker, activations)', Resting(worker),
         \/ worker'.pc \in {"down", "idle"}
         \/ worker'.pc = "ack" /\ worker.pc = "announce"
  PROVE  DriveInv'
<1>1. /\ jobStatus' = jobStatus /\ tasks' = tasks /\ operator' = operator /\ gui' = gui
      /\ requests' = requests /\ published' = published /\ controller' = controller
  BY DEF db, env
<1>2. Held(controller, requests)' /\ gui'.pc = "idle"
  BY <1>1 DEF DriveInv, Held
<1>3. Starting => Starting'
  BY <1>1 DEF Starting, Drained, NoneActive
<1>4. Asked => Asked'
  BY <1>1 DEF Asked, Resting, Drained, OneNew, NoneActive
<1>5. Activated => Activated'
  BY <1>1 DEF Activated, Resting, Drained, OneNew, NewestQueued, OnlyNewest
<1>6. Answering => Answering'
  BY <1>1 DEF Answering, Resting, Drained, NoneActive
<1>7. Publishing => Publishing'
  BY <1>1 DEF Publishing, Resting, Drained, NewestQueued, OnlyNewest, NewTask
<1>8. Over => Over'
  BY <1>1 DEF Over, Resting, Drained, NoneActive
<1>9. ~Executing /\ ~Executed
  BY DEF Executing, Executed, Resting
<1>10. Starting' \/ (operator' = <<>> /\ Driven')
  BY <1>1, <1>3, <1>4, <1>5, <1>6, <1>7, <1>8, <1>9 DEF DriveInv, Driven
<1> QED BY <1>2, <1>10 DEF DriveInv


(* What the steps of an undisturbed job do to its drive.                   *)
LEMMA ControllerDrives ==
  ASSUME TypeInv, DriveInv, Controller
  PROVE  DriveInv'
<1> USE DEF db, redis, procs, env
<1>0. /\ controller \in Process(ControllerPCs) /\ worker \in Process(WorkerPCs)
      /\ requests \in Groups(Requests) /\ activations \in Groups(Nat)
      /\ tasks \in Seq(Tasks) /\ Len(tasks) \in Nat /\ published \subseteq DOMAIN tasks
  BY DEF TypeInv, TypeOK
<1>1. Held(controller, requests) /\ Held(worker, activations) /\ gui.pc = "idle"
  BY DEF DriveInv
<1>2. {"planning", "waiting_tokens"} \subseteq ActiveStatuses
      /\ {"done", "human_needed", "dead"} \subseteq TerminalStatuses
  BY DEF ActiveStatuses, TerminalStatuses
<1>3. ASSUME NEW i \in Takeable(controller, requests), CtlTake(i) PROVE DriveInv'
  <2>1. /\ requests' = Take(requests, i) /\ controller' = Enter(controller, requests, i, "deciding")
        /\ UNCHANGED <<db, activations, published, worker, env>>
    BY <1>3 DEF CtlTake
  <2>2. /\ HasNew(requests)
        /\ OneNew(requests) => Drained(requests')
        /\ controller'.pc = "deciding" /\ Held(controller', requests')
    BY <1>0, <1>1, <1>3, <2>1, TakesNew, StatusFacts
  <2>3. operator = <<>> /\ Asked
    BY <2>2, Drives
  <2>4. Answering'
    BY <2>1, <2>2, <2>3 DEF Answering, Asked, Resting, Drained, NoneActive
  <2>5. Held(worker, activations)' /\ Held(controller, requests)'
    BY <1>1, <2>1, <2>2 DEF Held
  <2> QED BY <1>1, <2>1, <2>3, <2>4, <2>5 DEF DriveInv, Driven
<1>4. ASSUME controller.pc \in {"deciding", "waiting", "decided"}, UNCHANGED <<tasks, redis, worker, env>>,
             controller'.pc \in {"deciding", "waiting", "decided"}, controller'.msg = controller.msg,
             jobStatus' \in ActiveStatuses
      PROVE  DriveInv'
  <2>1. operator = <<>> /\ Answering
    BY <1>4, Drives
  <2>2. Answering'
    BY <1>4, <2>1 DEF Answering, Resting, Drained, NoneActive
  <2>3. Held(worker, activations)' /\ Held(controller, requests)'
    BY <1>1, <1>4 DEF Held
  <2> QED BY <1>1, <1>4, <2>1, <2>2, <2>3 DEF DriveInv, Driven
<1>5. CASE CtlTokenWait \/ CtlTokenResume \/ CtlDecide
  <2>1. /\ controller.pc \in {"deciding", "waiting"} /\ UNCHANGED <<tasks, redis, worker, env>>
        /\ jobStatus' \in {jobStatus, "planning", "waiting_tokens"}
        /\ \E pc \in {"deciding", "waiting", "decided"}, a \in Actions \cup {controller.action} :
             controller' = [controller EXCEPT !.pc = pc, !.action = a]
    <3>1. CASE CtlTokenWait
      <4>1. controller' = [controller EXCEPT !.pc = "waiting", !.action = controller.action]
        BY <1>0, <3>1 DEF CtlTokenWait, Process
      <4> QED BY <3>1, <4>1 DEF CtlTokenWait
    <3>2. CASE CtlTokenResume
      <4>1. controller' = [controller EXCEPT !.pc = "deciding", !.action = controller.action]
        BY <1>0, <3>2 DEF CtlTokenResume, AskAgain, Process
      <4> QED BY <3>2, <4>1 DEF CtlTokenResume
    <3>3. CASE CtlDecide
      BY <3>3 DEF CtlDecide, Answers, Actions
    <3> QED BY <1>5, <3>1, <3>2, <3>3
  <2>2. /\ controller'.pc \in {"deciding", "waiting", "decided"}
        /\ controller'.msg = controller.msg
    BY <1>0, <2>1 DEF Process
  <2>3. jobStatus \in ActiveStatuses
    BY <2>1, Drives DEF Answering
  <2> QED BY <1>2, <1>4, <2>1, <2>2, <2>3
<1>6. CASE CtlCreateTask
  <2> DEFINE row == [status |-> "queued", creator |-> Creator]
  <2>1. row \in Tasks /\ row.status = "queued"
    BY StatusFacts DEF Creator, Creators, Tasks, TaskStatuses, ActiveTaskStatuses
  <2>2. /\ tasks' = Append(tasks, row) /\ jobStatus' = ActiveJobStatus(tasks')
        /\ controller' = [controller EXCEPT !.pc = "publish"] /\ UNCHANGED <<redis, worker, env>>
        /\ controller.pc = "decided"
    BY <1>6 DEF CtlCreateTask, WantsTask
  <2> HIDE DEF row
  <2>3. operator = <<>> /\ Answering
    BY <2>2, Drives
  <2>4. /\ ActiveTasks(tasks') = {Len(tasks) + 1} /\ Len(tasks') = Len(tasks) + 1
        /\ tasks'[Len(tasks) + 1].status = "queued"
    BY <1>0, <2>1, <2>2, <2>3, AddActive DEF Answering, NoneActive
  <2>5. NewestQueued'
    BY <2>2, <2>4 DEF NewestQueued, OnlyNewest
  <2>6. NewTask' \notin published'
    <3>1. DOMAIN tasks = 1 .. Len(tasks)
      BY <1>0
    <3> QED BY <1>0, <2>2, <2>4, <3>1 DEF NewTask
  <2>7. controller'.pc = "publish" /\ controller'.msg = controller.msg
    BY <1>0, <2>2, MoveFacts, StatusFacts
  <2>8. Publishing'
    BY <2>2, <2>3, <2>5, <2>6, <2>7 DEF Publishing, Answering, Resting, Drained
  <2>9. Held(worker, activations)' /\ Held(controller, requests)'
    BY <1>1, <2>2, <2>7 DEF Held
  <2> QED BY <1>1, <2>2, <2>3, <2>8, <2>9 DEF DriveInv, Driven
<1>7. CASE CtlPublish
  <2>1. operator = <<>> /\ Publishing
    BY <1>7, Drives DEF CtlPublish
  <2>2. /\ activations' = Xadd(activations, NewTask) /\ NewTask \in Nat
        /\ controller' = [controller EXCEPT !.pc = "ack"]
        /\ UNCHANGED <<db, requests, worker, env>> /\ controller.pc = "publish"
    BY <1>0, <1>7, <2>1 DEF CtlPublish, Publishing, NewTask
  <2>3. /\ OneNew(activations') /\ activations'.log[activations'.next] = NewTask
        /\ activations'.pending = activations.pending
    BY <1>0, <2>1, <2>2, AddsNew DEF Publishing
  <2>4. controller'.pc = "ack" /\ controller'.msg = controller.msg
    BY <1>0, <2>2, MoveFacts, StatusFacts
  <2>5. Activated'
    BY <2>1, <2>2, <2>3, <2>4
    DEF Activated, Publishing, NewestQueued, OnlyNewest, Resting, Drained, OneNew, NewTask
  <2>6. Held(worker, activations)' /\ Held(controller, requests)'
    BY <1>1, <2>2, <2>3, <2>4 DEF Held
  <2> QED BY <1>1, <2>1, <2>2, <2>5, <2>6 DEF DriveInv, Driven
<1>8. CASE CtlHumanNeeded \/ CtlDone \/ CtlReject
  <2>1. /\ controller.pc \in {"deciding", "decided"} /\ UNCHANGED <<tasks, redis, worker, env>>
        /\ \E st \in {"done", "human_needed", "dead"} :
             jobStatus' = st /\ controller' = Announcing(controller, st)
    BY <1>8 DEF CtlHumanNeeded, CtlDone, CtlReject, CtlRecordDead, WantsTask
  <2>2. jobStatus' \in TerminalStatuses /\ controller'.pc = "announce" /\ controller'.msg = controller.msg
    <3>1. PICK st \in {"done", "human_needed", "dead"} :
            jobStatus' = st /\ controller' = Announcing(controller, st)
      BY <2>1
    <3>2. st \in TerminalStatuses /\ "announce" \in ControllerPCs
      BY StatusFacts
    <3>3. /\ Announcing(controller, st).pc = "announce"
          /\ Announcing(controller, st).msg = controller.msg
      BY <1>0, <3>2, AnnounceFacts
    <3> QED BY <3>1, <3>2, <3>3
  <2>3. operator = <<>> /\ Answering
    BY <2>1, Drives
  <2>4. Over'
    BY <2>1, <2>2, <2>3 DEF Over, Answering, Resting, Drained, NoneActive
  <2>5. Held(worker, activations)' /\ Held(controller, requests)'
    BY <1>1, <2>1, <2>2 DEF Held
  <2> QED BY <1>1, <2>1, <2>3, <2>4, <2>5 DEF DriveInv, Driven
<1>9. CASE CtlPromotionFailed
  <2> DEFINE m == [type |-> "PROMOTION_RECOVERY", task |-> 0]
  <2>1. m \in Requests
    BY DEF Requests
  <2>2. /\ requests' = Xadd(requests, m) /\ controller' = [controller EXCEPT !.pc = "recover"]
        /\ UNCHANGED <<db, activations, published, worker, env>> /\ controller.pc = "decided"
    BY <1>9 DEF CtlPromotionFailed
  <2> HIDE DEF m
  <2>3. operator = <<>> /\ Answering
    BY <2>2, Drives
  <2>4. OneNew(requests') /\ requests'.pending = requests.pending
    BY <1>0, <2>1, <2>2, <2>3, AddsNew DEF Answering
  <2>5. controller'.pc = "recover" /\ controller'.msg = controller.msg
    BY <1>0, <2>2, MoveFacts, StatusFacts
  <2>6. Asked'
    BY <2>2, <2>3, <2>4, <2>5 DEF Asked, Answering, Resting, Drained, OneNew, NoneActive
  <2>7. Held(worker, activations)' /\ Held(controller, requests)'
    BY <1>1, <2>2, <2>4, <2>5 DEF Held
  <2> QED BY <1>1, <2>2, <2>3, <2>6, <2>7 DEF DriveInv, Driven
<1>10. CASE CtlRecoveryRequested
  <2>1. /\ jobStatus' = "planning" /\ controller' = [controller EXCEPT !.pc = "ack"]
        /\ UNCHANGED <<tasks, redis, worker, env>> /\ controller.pc = "recover"
    BY <1>10 DEF CtlRecoveryRequested
  <2>2. operator = <<>> /\ Asked
    BY <2>1, Drives
  <2>3. controller'.pc = "ack" /\ controller'.msg = controller.msg
    BY <1>0, <2>1, MoveFacts, StatusFacts
  <2>4. Asked'
    BY <1>2, <2>1, <2>2, <2>3 DEF Asked, Resting, Drained, OneNew, NoneActive
  <2>5. Held(worker, activations)' /\ Held(controller, requests)'
    BY <1>1, <2>1, <2>3 DEF Held
  <2> QED BY <1>1, <2>1, <2>2, <2>4, <2>5 DEF DriveInv, Driven
<1>11. CASE CtlAnnounce
  <2>1. controller'.pc = "ack" /\ controller'.msg = controller.msg
    BY <1>0, <1>11, MoveFacts, StatusFacts DEF CtlAnnounce
  <2>2. Held(controller, requests)'
    BY <1>1, <1>11, <2>1 DEF Held, CtlAnnounce
  <2> QED BY <1>11, <2>1, <2>2, ControllerRests DEF CtlAnnounce, Resting
<1>12. CASE CtlAck
  <2>1. controller.pc = "ack" /\ controller'.pc \in {"down", "idle"}
    BY <1>0, <1>12, LoopFacts, StatusFacts DEF CtlAck
  <2>2. /\ requests'.log = requests.log /\ requests'.next = requests.next
        /\ requests'.pending = requests.pending \ {controller.msg}
    BY <1>0, <1>12, AckFacts DEF CtlAck
  <2>3. Held(controller, requests)'
    BY <1>1, <2>1, <2>2 DEF Held
  <2> QED BY <1>12, <2>1, <2>2, <2>3, ControllerRests DEF CtlAck, Resting
<1>13. CASE CtlIdleExit
  <2>1. controller.pc = "idle" /\ controller'.pc = "down"
    BY <1>13, DownFacts, StatusFacts DEF CtlIdleExit, IdleExit, Idle
  <2>2. Held(controller, requests)'
    BY <1>1, <1>13, <2>1 DEF Held, CtlIdleExit
  <2> QED BY <1>13, <2>1, <2>2, ControllerRests DEF CtlIdleExit, Resting
<1> QED BY <1>3, <1>5, <1>6, <1>7, <1>8, <1>9, <1>10, <1>11, <1>12, <1>13 DEF Controller


LEMMA WorkerDrives ==
  ASSUME Inv, DriveInv, Worker
  PROVE  DriveInv'
<1> USE DEF db, redis, procs, env
<1>0. /\ controller \in Process(ControllerPCs) /\ worker \in Process(WorkerPCs)
      /\ requests \in Groups(Requests) /\ activations \in Groups(Nat)
      /\ tasks \in Seq(Tasks) /\ Len(tasks) \in Nat /\ TypeInv
  BY DEF Inv, TypeInv, TypeOK
<1>1. Held(controller, requests) /\ Held(worker, activations) /\ gui.pc = "idle"
  BY DEF DriveInv
<1>2. {"planning", "implementing", "waiting_tokens"} \subseteq ActiveStatuses
      /\ {"human_needed", "dead"} \subseteq TerminalStatuses
      /\ {"running", "waiting_tokens"} \subseteq ActiveTaskStatuses
      /\ {"completed", "human_needed", "dead"} \cap ActiveTaskStatuses = {}
  BY DEF ActiveStatuses, TerminalStatuses, ActiveTaskStatuses
<1>3. ASSUME NEW i \in Takeable(worker, activations), WkrTake(i) PROVE DriveInv'
  <2>1. PICK pc \in {"loaded", "ack"} :
          /\ activations' = Take(activations, i) /\ worker' = Enter(worker, activations, i, pc)
          /\ pc = "loaded" <=> tasks[activations.log[i]].status = "queued"
          /\ UNCHANGED <<db, requests, published, controller, env>>
    BY <1>3 DEF WkrTake, Startable
  <2>2. /\ i = activations.next /\ HasNew(activations) /\ activations'.log = activations.log
        /\ OneNew(activations) => Drained(activations')
        /\ worker'.pc = pc /\ worker'.msg = i /\ Held(worker', activations')
    BY <1>0, <1>1, <1>3, <2>1, TakesNew, StatusFacts
  <2>3. operator = <<>> /\ Activated
    BY <1>0, <2>2, Drives
  <2>4. worker'.pc = "loaded" /\ Task' = Len(tasks)
    BY <2>1, <2>2, <2>3 DEF Activated, NewestQueued, Task
  <2>5. Executing'
    BY <2>1, <2>2, <2>3, <2>4 DEF Executing, Activated, NewestQueued, OnlyNewest, Resting, Drained
  <2>6. Held(worker, activations)' /\ Held(controller, requests)'
    BY <1>1, <2>1, <2>2 DEF Held
  <2> QED BY <1>1, <2>1, <2>3, <2>5, <2>6 DEF DriveInv, Driven
<1>4. ASSUME worker.pc \in {"loaded", "running", "waiting"}, NEW st \in {"running", "waiting_tokens"},
             tasks' = SetTask(Task, st),
             jobStatus' = IF st = "running" THEN "implementing" ELSE "waiting_tokens",
             worker'.pc \in {"running", "waiting"}, worker'.msg = worker.msg,
             UNCHANGED <<redis, controller, env>>
      PROVE  DriveInv'
  <2>1. operator = <<>> /\ Executing
    BY <1>0, <1>4, Drives
  <2>2. /\ Len(tasks') = Len(tasks) /\ ActiveTasks(tasks') = {Task}
        /\ jobStatus' = ActiveJobStatus(tasks')
    BY <1>0, <1>2, <1>4, <2>1, SetActive, StatusFacts DEF Executing, OnlyNewest
  <2>3. Task' = Task
    BY <1>4 DEF Task
  <2>4. Executing'
    BY <1>4, <2>1, <2>2, <2>3 DEF Executing, OnlyNewest, Resting, Drained
  <2>5. Held(worker, activations)' /\ Held(controller, requests)'
    BY <1>1, <1>4 DEF Held
  <2> QED BY <1>1, <1>4, <2>1, <2>4, <2>5 DEF DriveInv, Driven
<1>5. CASE WkrStart
  BY <1>0, <1>4, <1>5, MoveFacts, StatusFacts DEF WkrStart
<1>6. CASE WkrTokenWait
  BY <1>0, <1>4, <1>6, MoveFacts, StatusFacts DEF WkrTokenWait
<1>7. CASE WkrTokenResume
  BY <1>0, <1>4, <1>7, MoveFacts, StatusFacts DEF WkrTokenResume, StatusAfterWait
<1>8. ASSUME worker.pc \in {"loaded", "running", "ran"}, NEW st \in {"completed", "human_needed", "dead"},
             tasks' = SetTask(Task, st), UNCHANGED <<redis, controller, env>>,
             \/ worker'.pc = "ran" /\ jobStatus' \in ActiveStatuses
             \/ worker'.pc = "announce" /\ jobStatus' \in TerminalStatuses,
             worker'.msg = worker.msg
      PROVE  DriveInv'
  <2>1. operator = <<>> /\ (Executing \/ Executed)
    BY <1>0, <1>8, Drives
  <2>2. ActiveTasks(tasks) \subseteq {Task}
    BY <2>1 DEF Executing, Executed, OnlyNewest, NoneActive
  <2>3. ActiveTasks(tasks') = {}
    BY <1>0, <1>2, <1>8, <2>2, SetActive, StatusFacts
  <2>4. Resting(controller) /\ Drained(requests) /\ Drained(activations)
    BY <2>1 DEF Executing, Executed
  <2>5. Executed' \/ Over'
    BY <1>8, <2>3, <2>4 DEF Executed, Over, Resting, Drained, NoneActive
  <2>6. Held(worker, activations)' /\ Held(controller, requests)'
    BY <1>1, <1>8 DEF Held
  <2> QED BY <1>1, <1>8, <2>1, <2>5, <2>6 DEF DriveInv, Driven
<1>9. ASSUME NEW outcome \in {"completed", "human_needed"}, WkrFinish(outcome) PROVE DriveInv'
  <2>1. /\ worker.pc = "running" /\ tasks' = SetTask(Task, outcome)
        /\ jobStatus' = IF outcome = "human_needed" THEN "human_needed" ELSE "planning"
        /\ UNCHANGED <<redis, controller, env>>
    BY <1>9 DEF WkrFinish, TasksAfterRun
  <2>2. worker'.msg = worker.msg /\ worker'.pc = IF outcome = "human_needed" THEN "announce" ELSE "ran"
    <3>1. CASE outcome = "human_needed"
      BY <1>0, <1>9, <3>1, AnnounceFacts, StatusFacts DEF WkrFinish, AfterRun
    <3>2. CASE outcome # "human_needed"
      BY <1>0, <1>9, <3>2, MoveFacts, StatusFacts DEF WkrFinish, AfterRun
    <3> QED BY <3>1, <3>2
  <2> QED BY <1>2, <1>8, <2>1, <2>2
<1>10. CASE WkrReject
  <2>1. worker'.pc = "announce" /\ worker'.msg = worker.msg
    BY <1>0, <1>10, AnnounceFacts, StatusFacts DEF WkrReject, WkrRecordDead
  <2> QED BY <1>2, <1>8, <1>10, <2>1 DEF WkrReject, WkrRecordDead, TasksAfterDeath
<1>11. CASE WkrReview
  <2> DEFINE m == [type |-> "REVIEW", task |-> Task]
  <2>1. /\ requests' = Xadd(requests, m) /\ worker' = [worker EXCEPT !.pc = "ack"]
        /\ UNCHANGED <<db, activations, published, controller, env>> /\ worker.pc = "ran"
    BY <1>11 DEF WkrReview, RequestReview
  <2>2. m \in Requests
    BY <1>0, <2>1, SetTaskFacts, StatusFacts DEF Requests
  <2> HIDE DEF m
  <2>3. operator = <<>> /\ Executed
    BY <1>0, <2>1, Drives
  <2>4. OneNew(requests') /\ requests'.pending = requests.pending
    BY <1>0, <2>1, <2>2, <2>3, AddsNew DEF Executed
  <2>5. worker'.pc = "ack" /\ worker'.msg = worker.msg
    BY <1>0, <2>1, MoveFacts, StatusFacts
  <2>6. Asked'
    BY <2>1, <2>3, <2>4, <2>5 DEF Asked, Executed, Resting, Drained, OneNew, NoneActive
  <2>7. Held(worker, activations)' /\ Held(controller, requests)'
    BY <1>1, <2>1, <2>4, <2>5 DEF Held
  <2> QED BY <1>1, <2>1, <2>3, <2>6, <2>7 DEF DriveInv, Driven
<1>12. CASE WkrAnnounce
  <2>1. worker'.pc = "ack" /\ worker'.msg = worker.msg
    BY <1>0, <1>12, MoveFacts, StatusFacts DEF WkrAnnounce
  <2>2. Held(worker, activations)'
    BY <1>1, <1>12, <2>1 DEF Held, WkrAnnounce
  <2> QED BY <1>12, <2>1, <2>2, WorkerRests DEF WkrAnnounce, Resting
<1>13. CASE WkrAck
  <2>1. worker.pc = "ack" /\ worker'.pc \in {"down", "idle"}
    BY <1>0, <1>13, LoopFacts, StatusFacts DEF WkrAck
  <2>2. /\ activations'.log = activations.log /\ activations'.next = activations.next
        /\ activations'.pending = activations.pending \ {worker.msg}
    BY <1>0, <1>13, AckFacts DEF WkrAck
  <2>3. Held(worker, activations)'
    BY <1>1, <2>1, <2>2 DEF Held
  <2> QED BY <1>13, <2>1, <2>2, <2>3, WorkerRests DEF WkrAck, Resting
<1>14. CASE WkrIdleExit
  <2>1. worker.pc = "idle" /\ worker'.pc = "down"
    BY <1>14, DownFacts, StatusFacts DEF WkrIdleExit, IdleExit, Idle
  <2>2. Held(worker, activations)'
    BY <1>1, <1>14, <2>1 DEF Held, WkrIdleExit
  <2> QED BY <1>14, <2>1, <2>2, WorkerRests DEF WkrIdleExit, Resting
<1> QED BY <1>3, <1>5, <1>6, <1>7, <1>9, <1>10, <1>11, <1>12, <1>13, <1>14 DEF Worker

LEMMA OperatorDrives ==
  ASSUME TypeInv, DriveInv, Operator
  PROVE  DriveInv'
<1> USE DEF db, redis, procs, env
<1>0. /\ requests \in Groups(Requests) /\ Down.pc = "down" /\ Launched.pc = "idle"
  BY DEF TypeInv, TypeOK, Down, Launched
<1>1. Held(controller, requests) /\ Held(worker, activations) /\ gui.pc = "idle"
  BY DEF DriveInv
<1>2. /\ <<"launch", "plan">> # <<>> /\ <<"plan">> # <<>>
      /\ Head(<<"launch", "plan">>) = "launch" /\ Tail(<<"launch", "plan">>) = <<"plan">>
      /\ Head(<<"plan">>) = "plan" /\ Tail(<<"plan">>) = <<>>
  OBVIOUS
<1>3. Starting
  BY Drives DEF Operator, OpMark, OpKill, OpLaunch, OpPlan, Step
<1>4. ~OpMark /\ ~OpKill
  BY <1>2, <1>3 DEF OpMark, OpKill, Step, Starting
<1>5. CASE OpLaunch
  <2>1. operator' = <<"plan">> /\ controller' = Launched /\ worker' = Launched
        /\ UNCHANGED <<db, redis, gui, resumes, faults>>
    BY <1>2, <1>3, <1>5 DEF OpLaunch, Step, Starting
  <2>2. Starting'
    BY <1>0, <1>3, <2>1 DEF Starting, Drained, NoneActive
  <2>3. Held(worker, activations)' /\ Held(controller, requests)'
    BY <1>0, <1>1, <1>3, <2>1 DEF Held, Starting
  <2> QED BY <1>1, <2>1, <2>2, <2>3 DEF DriveInv
<1>6. CASE OpPlan
  <2> DEFINE m == [type |-> "PLAN", task |-> 0]
  <2>1. m \in Requests
    BY DEF Requests
  <2>2. operator' = <<>> /\ requests' = Xadd(requests, m)
        /\ UNCHANGED <<db, activations, published, procs, gui, resumes, faults>>
    BY <1>2, <1>3, <1>6 DEF OpPlan, Step, Starting
  <2> HIDE DEF m
  <2>3. OneNew(requests') /\ requests'.pending = requests.pending
    BY <1>0, <1>3, <2>1, <2>2, AddsNew DEF Starting
  <2>4. "planning" \in ActiveStatuses
    BY DEF ActiveStatuses
  <2>5. Asked'
    BY <1>3, <2>2, <2>3, <2>4 DEF Asked, Starting, Resting, Drained, OneNew, NoneActive
  <2>6. Held(worker, activations)' /\ Held(controller, requests)'
    BY <1>1, <2>2, <2>3 DEF Held
  <2> QED BY <1>1, <2>2, <2>5, <2>6 DEF DriveInv, Driven
<1> QED BY <1>4, <1>5, <1>6 DEF Operator

LEMMA DriveStep ==
  ASSUME Undisturbed, Inv, DriveInv, [Next]_vars
  PROVE  DriveInv'
<1>1. ~(faults < MaxFaults) /\ ~(resumes < MaxResumes) /\ TypeInv
  BY DEF Undisturbed, Inv, TypeInv, TypeOK
<1>2. gui.pc = "idle"
  BY DEF DriveInv
<1>3. CASE UNCHANGED vars
  <2>1. /\ UNCHANGED <<db, activations, published, worker, env>>
        /\ jobStatus' = jobStatus /\ tasks' = tasks /\ requests' = requests
        /\ activations' = activations /\ published' = published
        /\ controller' = controller /\ worker' = worker /\ operator' = operator /\ gui' = gui
    BY <1>3 DEF vars, db, redis, procs, env
  <2>2. /\ Starting => Starting'
        /\ Asked => Asked'
        /\ Answering => Answering'
    BY <2>1 DEF Starting, Asked, Answering, Resting, Drained, OneNew, NoneActive
  <2>3. /\ Publishing => Publishing'
        /\ Activated => Activated'
    BY <2>1 DEF Publishing, Activated, NewestQueued, OnlyNewest, Resting, Drained, OneNew, NewTask
  <2>4. /\ Executing => Executing'
        /\ Executed => Executed'
        /\ Over => Over'
    BY <2>1 DEF Executing, Executed, Over, Resting, Drained, OnlyNewest, NoneActive, Task
  <2>5. Held(worker, activations)' /\ Held(controller, requests)'
    BY <2>1 DEF DriveInv, Held
  <2> QED BY <1>2, <2>1, <2>2, <2>3, <2>4, <2>5 DEF DriveInv, Driven
<1>4. ~CtlFault /\ ~CtlUnrecorded /\ ~CtlCrash
  BY <1>1 DEF CtlFault, CtlUnrecorded, CtlCrash
<1>5. ~WkrFault /\ ~WkrUnrecorded /\ ~WkrCrash /\ ~OpAbort
  BY <1>1 DEF WkrFault, WkrUnrecorded, WkrCrash, OpAbort
<1>6. ~StopJob /\ ~Gui /\ ~\E kind \in ResumeKinds : BeginResume(kind)
  BY <1>1, <1>2 DEF Undisturbed, StopJob, Gui, GuiReadJob, GuiReadTasks, GuiReconcile, BeginResume
<1>7. Controller \/ Worker \/ Operator \/ UNCHANGED vars
  BY <1>4, <1>5, <1>6 DEF Next, Terminated
<1> QED BY <1>1, <1>3, <1>7, ControllerDrives, WorkerDrives, OperatorDrives

LEMMA DriveInit == Init => DriveInv
<1> SUFFICES ASSUME Init PROVE DriveInv
  OBVIOUS
<1>1. /\ controller.pc = "down" /\ worker.pc = "down" /\ gui.pc = "idle"
      /\ requests.pending = {} /\ activations.pending = {}
  BY DEF Init, Down, EmptyGroup
<1>2. requests.next = Len(requests.log) + 1 /\ activations.next = Len(activations.log) + 1
  BY DEF Init, EmptyGroup
<1>3. ActiveTasks(tasks) = {}
  BY DEF Init, ActiveTasks
<1> QED BY <1>1, <1>2, <1>3 DEF Init, DriveInv, Held, Starting, Drained, NoneActive

LEMMA DriveInvariance ==
  ASSUME Undisturbed
  PROVE  Spec => [](Inv /\ DriveInv)
<1>1. Init => Inv /\ DriveInv
  BY InvInit, DriveInit
<1>2. Inv /\ DriveInv /\ [Next]_vars => (Inv /\ DriveInv)'
  BY InvStep, DriveStep
<1> QED BY <1>1, <1>2, PTL DEF Spec

(* Whatever models answer and runs produce: while a task is active, the    *)
(* status shown for the job is that task's.                                *)
THEOREM StatusMatches ==
  ASSUME Undisturbed
  PROVE  Spec => []StatusMatchesTasks
<1>1. DriveInv => StatusMatchesTasks
  BY DEF DriveInv, Driven, StatusMatchesTasks, Starting, Asked, Answering, Publishing, Activated,
         Executing, Executed, Over, NewestQueued, OnlyNewest, NoneActive
<1> QED BY <1>1, DriveInvariance, PTL

(* A job that is not over waits for its start, or has a request or an      *)
(* activation that some process still has to answer.                       *)
THEOREM NeverStalls ==
  ASSUME Undisturbed
  PROVE  Spec => []NoSilentStall
<1>1. Inv /\ DriveInv => NoSilentStall
  <2> SUFFICES ASSUME Inv, DriveInv, jobStatus \in ActiveStatuses, operator = <<>>
               PROVE  Outstanding(requests) # {} \/ Outstanding(activations) # {}
    BY DEF NoSilentStall
  <2>1. /\ requests.next \in Nat /\ activations.next \in Nat
        /\ Held(controller, requests) /\ Held(worker, activations)
    BY DEF Inv, TypeInv, TypeOK, Groups, DriveInv
  <2>2. jobStatus \notin TerminalStatuses /\ operator \notin {<<"launch", "plan">>, <<"plan">>}
    BY DEF ActiveStatuses, TerminalStatuses
  <2>3. \/ OneNew(requests) \/ OneNew(activations)
        \/ controller.pc \notin {"down", "idle"} \/ worker.pc \notin {"down", "idle"}
    BY <2>2 DEF DriveInv, Driven, Starting, Asked, Answering, Publishing, Activated,
                Executing, Executed, Over
  <2>4. /\ OneNew(requests) => requests.next \in Outstanding(requests)
        /\ OneNew(activations) => activations.next \in Outstanding(activations)
    BY <2>1 DEF OneNew, Outstanding
  <2>5. /\ controller.pc \notin {"down", "idle"} => controller.msg \in Outstanding(requests)
        /\ worker.pc \notin {"down", "idle"} => worker.msg \in Outstanding(activations)
    BY <2>1 DEF Held, Outstanding
  <2> QED BY <2>3, <2>4, <2>5
<1> QED BY <1>1, DriveInvariance, PTL
=============================================================================
