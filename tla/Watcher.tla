------------------------------- MODULE Watcher -------------------------------
(***************************************************************************)
(* The watcher of a job (watcher.py), the emailed replies it applies       *)
(* (ai_loop/email_commands.py), and the resumes that replace it            *)
(* (resume_job.py, LoopBackend.resume_job).  A watcher waits on the event  *)
(* streams and polls the mailbox; a reply to a job in human_needed makes   *)
(* it run a CLI resume as its child, which launches another watcher.       *)
(* Controller and worker are reduced to what a watcher sees of them: the   *)
(* job's status and the terminal events.                                   *)
(***************************************************************************)
EXTENDS Naturals, Sequences, FiniteSets

CONSTANTS
  Replies,        \* the operator's replies to the job's mails
  BadReplies,     \* those without the job's command token, or with nothing else
  ManualKinds,    \* which resumes the operator begins: "cli", "gui"
  MaxManual,      \* bound: resumes and stops by the operator
  MaxSettles,     \* bound: how often the job stops, ended or asking
  MaxTrouble      \* bound: failures of the mailbox, of SQLite or of a watcher's
                  \* resume, and events of other jobs

ASSUME WatcherAssumption ==
  /\ BadReplies \subseteq Replies /\ IsFiniteSet(Replies)
  /\ ManualKinds \subseteq {"cli", "gui"}
  /\ MaxManual \in Nat /\ MaxSettles \in Nat /\ MaxTrouble \in Nat

VARIABLES
  status,       \* jobs.status: active, human_needed, or ended (done, dead)
  constraints,  \* jobs.constraints_json: the commands in it
  handled,      \* message ids of the job's email_command_* events
  loop,         \* whether controller and worker run
  work,         \* whether they have a request or a task to work on
  owed,         \* the event still to be published for a committed status
  events,       \* DONE and DEAD ("end") and HUMAN ("human") streams: whose event
  mail,         \* the mailbox
  watchers,     \* every watcher process ever launched
  pidFile,      \* the watcher in watcher.pid, 0 if there is no such file
  scripts,      \* steps left of the operator's resume (0) and of the watchers'
  snapshot,     \* the constraints each of those resumes has read
  added,        \* how often each reply has been added to the constraints
  clash,        \* history: a resume ran into another one, or into the running job
  stopped,      \* whether the GUI's Stop has taken the watcher away
  manual, settles, trouble    \* the bounded counters

db    == <<status, constraints, handled, added>>
jobv  == <<loop, work, owed, events>>
wvars == <<watchers, pidFile, stopped>>
rvars == <<scripts, snapshot, clash>>
count == <<manual, settles, trouble>>
vars  == <<db, jobv, mail, wvars, rvars, count>>

Streams == {"end", "human"}
Ids     == 1 .. Len(watchers)
Actors  == {0} \cup Ids

None == "none"

(* cursor: the last id read of each stream, 0 for "$" (ids count from 1);  *)
(* from: what the XREAD under way has resolved the cursors to.             *)
Started == [pc |-> "start", waiting |-> FALSE, human |-> FALSE, todo |-> {}, command |-> None, seen |-> {},
            cursor |-> [s \in Streams |-> 0], from |-> [s \in Streams |-> 0]]
Gone    == [Started EXCEPT !.pc = "gone"]

Init ==
  /\ status = "active" /\ constraints = {} /\ handled = {}
  /\ added = [m \in Replies |-> 0]
  /\ loop = TRUE /\ work = TRUE /\ owed = None
  /\ events = [s \in Streams |-> <<>>]
  /\ mail = {}
  /\ watchers = <<Started>> /\ pidFile = 1 /\ stopped = FALSE
  /\ scripts = [a \in {0, 1} |-> <<>>]
  /\ snapshot = [a \in {0, 1} |-> {}]
  /\ clash = FALSE
  /\ manual = 0 /\ settles = 0 /\ trouble = 0

(* A definition X_how is X with one plausible mistake in it: it is used     *)
(* nowhere, and a run that checks a property tells it from X.              *)

Live(w) == watchers[w].pc # "gone"
Set(w, rec) == watchers' = [watchers EXCEPT ![w] = rec]
Rec(w) == watchers[w]

Trouble == trouble < MaxTrouble /\ trouble' = trouble + 1

-----------------------------------------------------------------------------
(* The watcher's loop.                                                     *)

(* Before the loop the status is read once. *)
Start(w) ==
  /\ Rec(w).pc = "start"
  /\ Set(w, [Rec(w) EXCEPT !.pc = "top", !.waiting = (status = "human_needed")])
  /\ UNCHANGED <<db, jobv, mail, pidFile, stopped, rvars, count>>

ResumedElsewhere(w) == Rec(w).waiting /\ status # "human_needed"

LeaveResumed(w) ==
  /\ Rec(w).pc = "top" /\ ResumedElsewhere(w)
  /\ Set(w, Gone)
  /\ UNCHANGED <<db, jobv, mail, pidFile, stopped, rvars, count>>

MailDue_waiting(w) == Rec(w).waiting
MailDue(w) == TRUE

(* processed_message_ids: read before the mailbox is opened. *)
BeginPoll(w) ==
  /\ Rec(w).pc = "top" /\ ~ResumedElsewhere(w) /\ MailDue(w)
  /\ Set(w, [Rec(w) EXCEPT !.pc = "poll", !.seen = handled])
  /\ UNCHANGED <<db, jobv, mail, pidFile, stopped, rvars, count>>

Fetch(w) ==
  /\ Rec(w).pc = "poll"
  /\ Set(w, [Rec(w) EXCEPT !.pc = "apply", !.seen = {}, !.todo = mail \ Rec(w).seen])
  /\ UNCHANGED <<db, jobv, mail, pidFile, stopped, rvars, count>>

NextCommand(rec) == [rec EXCEPT !.pc = "apply", !.command = None, !.human = FALSE]

(* apply_email_command reads the job row; nothing locks it until the first *)
(* write.                                                                  *)
ReadJob(w) ==
  /\ Rec(w).pc = "apply"
  /\ \E m \in Rec(w).todo :
       Set(w, [Rec(w) EXCEPT !.pc = "write", !.todo = @ \ {m}, !.command = m,
                             !.human = (status = "human_needed")])
  /\ snapshot' = [snapshot EXCEPT ![w] = constraints]
  /\ UNCHANGED <<db, jobv, mail, pidFile, stopped, scripts, clash, count>>

Command(w) == Rec(w).command
Writing(w) == Rec(w).pc = "write"

(* email_command_received is committed before the resume is run. *)
Handled_late(w) == IF Rec(w).human THEN handled ELSE handled \cup {Command(w)}
Handled(w) == handled \cup {Command(w)}

Reject(w) ==
  /\ Writing(w) /\ Command(w) \in BadReplies
  /\ handled' = handled \cup {Command(w)}
  /\ Set(w, NextCommand(Rec(w)))
  /\ snapshot' = [snapshot EXCEPT ![w] = {}]
  /\ UNCHANGED <<status, constraints, added, jobv, mail, pidFile, stopped, scripts, clash, count>>

(* For a job that does not wait for its operator the command becomes a     *)
(* constraint of its next tasks.                                           *)
Constrain(w) ==
  /\ Writing(w) /\ Command(w) \notin BadReplies /\ ~Rec(w).human
  /\ handled' = Handled(w)
  /\ constraints' = snapshot[w] \cup {Command(w)}
  /\ added' = [added EXCEPT ![Command(w)] = @ + 1]
  /\ Set(w, NextCommand(Rec(w)))
  /\ snapshot' = [snapshot EXCEPT ![w] = {}]
  /\ UNCHANGED <<status, jobv, mail, pidFile, stopped, scripts, clash, count>>

CliScript == <<"read", "mark", "kill", "launch", "plan">>         \* resume_job.py
GuiScript_adopting == <<"read", "mark", "plan", "launch">>
GuiScript == <<"kill", "read", "mark", "plan", "launch">>         \* LoopBackend.resume_job

Busy == \E a \in Actors : scripts[a] # <<>>

(* For one that does, the job is resumed by a child process, although its  *)
(* status may be another by now, or its processes be at work again.        *)
Resume(w) ==
  /\ Writing(w) /\ Command(w) \notin BadReplies /\ Rec(w).human
  /\ handled' = Handled(w)
  /\ Set(w, [Rec(w) EXCEPT !.pc = "resume"])
  /\ scripts' = [scripts EXCEPT ![w] = CliScript]
  /\ snapshot' = [snapshot EXCEPT ![w] = {}]
  /\ clash' = (clash \/ Busy \/ status # "human_needed" \/ (loop /\ work))
  /\ UNCHANGED <<status, constraints, added, jobv, mail, pidFile, stopped, count>>

(* The child has succeeded: the rest of the batch is left to the new       *)
(* watcher.                                                                *)
LeaveReplaced(w) ==
  /\ Rec(w).pc = "resume" /\ scripts[w] = <<>>
  /\ Set(w, Gone)
  /\ UNCHANGED <<db, jobv, mail, pidFile, stopped, rvars, count>>

(* The child has failed, at whatever step: human_needed is restored, even  *)
(* if the new processes are already there.  Past its kill this watcher is  *)
(* in no pid file any more: no later resume or Stop finds it.              *)
ResumeFailed(w) ==
  /\ Trouble
  /\ Rec(w).pc = "resume" /\ scripts[w] # <<>>
  /\ status' = "human_needed"
  /\ Set(w, NextCommand(Rec(w)))
  /\ scripts' = [scripts EXCEPT ![w] = <<>>]
  /\ snapshot' = [snapshot EXCEPT ![w] = {}]
  /\ clash' = (clash \/ pidFile # w)
  /\ UNCHANGED <<constraints, handled, added, jobv, mail, pidFile, stopped, manual, settles>>

(* XREAD: a cursor still at "$" is resolved anew by every call. *)
Reading(rec) ==
  [rec EXCEPT !.pc = "read", !.todo = {}, !.command = None, !.seen = {}, !.human = FALSE,
              !.from = [s \in Streams |-> IF rec.cursor[s] = 0 THEN Len(events[s])
                                                              ELSE rec.cursor[s]]]

BeginRead(w) ==
  /\ \/ Rec(w).pc = "top" /\ ~ResumedElsewhere(w)
     \/ Rec(w).pc = "apply" /\ Rec(w).todo = {}
  /\ Set(w, Reading(Rec(w)))
  /\ UNCHANGED <<db, jobv, mail, pidFile, stopped, rvars, count>>

(* An exception of the poll is swallowed, and with it the rest of the batch. *)
PollFails(w) ==
  /\ Trouble /\ Rec(w).pc \in {"poll", "apply", "write"}
  /\ Set(w, Reading(Rec(w)))
  /\ snapshot' = [snapshot EXCEPT ![w] = {}]
  /\ UNCHANGED <<db, jobv, mail, pidFile, stopped, scripts, clash, manual, settles>>

Arrived(w) == {s \in Streams : Rec(w).from[s] < Len(events[s])}

Top(rec) == [rec EXCEPT !.pc = "top", !.from = [s \in Streams |-> 0]]

Seen(w, s) ==
  IF s = "end" THEN Gone ELSE Top([Rec(w) EXCEPT !.waiting = TRUE, !.cursor[s] = Rec(w).from[s] + 1])

ReadEvent(w, s) ==
  /\ Rec(w).pc = "read" /\ s \in Arrived(w)
  /\ Set(w, IF events[s][Rec(w).from[s] + 1] = "own" THEN Seen(w, s)
            ELSE Top([Rec(w) EXCEPT !.cursor[s] = Rec(w).from[s] + 1]))
  /\ UNCHANGED <<db, jobv, mail, pidFile, stopped, rvars, count>>

ReadTimeout(w) ==
  /\ Rec(w).pc = "read" /\ Arrived(w) = {}
  /\ Set(w, Top(Rec(w)))
  /\ UNCHANGED <<db, jobv, mail, pidFile, stopped, rvars, count>>

WatcherStep(w) ==
  \/ Start(w) \/ LeaveResumed(w) \/ BeginPoll(w) \/ Fetch(w)
  \/ ReadJob(w) \/ Reject(w) \/ Constrain(w) \/ Resume(w) \/ LeaveReplaced(w)
  \/ BeginRead(w) \/ (\E s \in Streams : ReadEvent(w, s)) \/ ReadTimeout(w)

-----------------------------------------------------------------------------
(* A resume, step by step: the operator's (a = 0), or a watcher's child.   *)

AtStep(a, step) ==
  /\ scripts[a] # <<>> /\ Head(scripts[a]) = step
  /\ scripts' = [scripts EXCEPT ![a] = Tail(@)]

OpRead(a) ==
  /\ AtStep(a, "read")
  /\ snapshot' = [snapshot EXCEPT ![a] = constraints]
  /\ UNCHANGED <<db, jobv, mail, wvars, clash, count>>

OpMark(a) ==
  /\ AtStep(a, "mark")
  /\ status' = "active"
  /\ IF a = 0 THEN constraints' = snapshot[a] /\ UNCHANGED added
     ELSE /\ constraints' = snapshot[a] \cup {Command(a)}
          /\ added' = [added EXCEPT ![Command(a)] = @ + 1]
  /\ snapshot' = [snapshot EXCEPT ![a] = {}]
  /\ UNCHANGED <<handled, jobv, mail, wvars, clash, count>>

(* The watcher in the pid file goes, and with its process group the resume *)
(* it has begun; but a resume never kills its own parent.                  *)
Victims(a) == IF pidFile = a THEN {} ELSE {pidFile} \ {0}

Kill(a) ==
  /\ watchers' = [w \in Ids |-> IF w \in Victims(a) THEN Gone ELSE watchers[w]]
  /\ pidFile' = 0
  /\ loop' = FALSE /\ owed' = None

OpKill(a) ==
  /\ scripts[a] # <<>> /\ Head(scripts[a]) = "kill"
  /\ Kill(a)
  /\ scripts' = [b \in Actors |-> IF b = a THEN Tail(scripts[a])
                                  ELSE IF b \in Victims(a) THEN <<>> ELSE scripts[b]]
  /\ snapshot' = [b \in Actors |-> IF b \in Victims(a) THEN {} ELSE snapshot[b]]
  /\ UNCHANGED <<db, work, events, mail, stopped, clash, count>>

(* The GUI adopts a watcher it finds alive in the pid file. *)
Adopts(a) == a = 0 /\ scripts[a] = <<"launch">> /\ pidFile # 0 /\ Live(pidFile)

Adopt(a) ==
  /\ Adopts(a) /\ AtStep(a, "launch")
  /\ UNCHANGED <<watchers, pidFile, snapshot>>

NewId == Len(watchers) + 1

Launch(a) ==
  /\ ~Adopts(a) /\ scripts[a] # <<>> /\ Head(scripts[a]) = "launch"
  /\ watchers' = Append(watchers, Started)
  /\ pidFile' = NewId
  /\ scripts' = [b \in Actors \cup {NewId} |->
                   IF b = NewId THEN <<>> ELSE IF b = a THEN Tail(scripts[a]) ELSE scripts[b]]
  /\ snapshot' = [b \in Actors \cup {NewId} |-> IF b = NewId THEN {} ELSE snapshot[b]]

OpLaunch(a) ==
  /\ Adopt(a) \/ Launch(a)
  /\ loop' = TRUE /\ stopped' = FALSE
  /\ UNCHANGED <<db, work, owed, events, mail, clash, count>>

OpPlan(a) ==
  /\ AtStep(a, "plan")
  /\ work' = TRUE
  /\ UNCHANGED <<db, loop, owed, events, mail, wvars, snapshot, clash, count>>

ResumeStep(a) == OpRead(a) \/ OpMark(a) \/ OpKill(a) \/ OpLaunch(a) \/ OpPlan(a)

BeginManual(kind) ==
  /\ scripts[0] = <<>> /\ manual < MaxManual
  /\ manual' = manual + 1
  /\ scripts' = [scripts EXCEPT ![0] = IF kind = "cli" THEN CliScript ELSE GuiScript]
  /\ clash' = (clash \/ Busy)
  /\ UNCHANGED <<db, jobv, mail, wvars, snapshot, settles, trouble>>

(* The GUI's Stop of an active job. *)
Stop ==
  /\ status = "active" /\ scripts[0] = <<>> /\ manual < MaxManual
  /\ manual' = manual + 1
  /\ Kill(0)
  /\ scripts' = [a \in Actors |-> IF a \in Victims(0) THEN <<>> ELSE scripts[a]]
  /\ snapshot' = [a \in Actors |-> IF a \in Victims(0) THEN {} ELSE snapshot[a]]
  /\ status' = "human_needed" /\ stopped' = TRUE
  /\ UNCHANGED <<constraints, handled, added, work, events, mail, clash, settles, trouble>>

-----------------------------------------------------------------------------
(* Controller and worker, and the world outside.                           *)

EventOf(st) == IF st = "ended" THEN "end" ELSE "human"

(* finish_job, notify_terminal: the status is committed, then published.   *)
Settle(st) ==
  /\ loop /\ work /\ owed = None /\ settles < MaxSettles
  /\ settles' = settles + 1
  /\ status' = st /\ work' = FALSE
  /\ owed' = EventOf(st)
  /\ UNCHANGED <<constraints, handled, added, loop, events, mail, wvars, rvars, manual, trouble>>

Publish ==
  /\ owed # None
  /\ events' = [events EXCEPT ![owed] = Append(@, "own")]
  /\ owed' = None
  /\ loop' = (loop /\ status = "active")        \* a terminal job's processes leave
  /\ UNCHANGED <<db, work, mail, wvars, rvars, count>>

ForeignEvent(s) ==
  /\ Trouble
  /\ events' = [events EXCEPT ![s] = Append(@, "other")]
  /\ UNCHANGED <<db, loop, work, owed, mail, wvars, rvars, manual, settles>>

ReplyArrives(m) ==
  /\ m \notin mail /\ mail' = mail \cup {m}
  /\ UNCHANGED <<db, jobv, wvars, rvars, count>>

(* The job has ended and every watcher has left. *)
Terminated ==
  /\ \A w \in Ids : ~Live(w)
  /\ UNCHANGED vars

Next ==
  \/ \E w \in Ids : WatcherStep(w) \/ ResumeFailed(w) \/ PollFails(w)
  \/ \E a \in Actors : ResumeStep(a)
  \/ \E kind \in ManualKinds : BeginManual(kind)
  \/ Stop
  \/ \E st \in {"human_needed", "ended"} : Settle(st)
  \/ Publish
  \/ \E s \in Streams : ForeignEvent(s)
  \/ \E m \in Replies : ReplyArrives(m)
  \/ Terminated

(* A running process runs on, the mailbox is polled again and again, a     *)
(* resume goes on to its end, a committed status is published.             *)
(* Without a clash every watcher but the first is of a manual resume or of a  *)
(* reply.                                                                  *)
Fairness ==
  /\ \A w \in 1 .. 1 + MaxManual + Cardinality(Replies \ BadReplies) :
       /\ WF_vars(w \in Ids /\ WatcherStep(w))
       /\ SF_vars(w \in Ids /\ BeginPoll(w))
       /\ WF_vars(w \in Ids /\ ResumeStep(w))
  /\ WF_vars(ResumeStep(0))
  /\ WF_vars(Publish)

Spec     == Init /\ [][Next]_vars
FairSpec == Spec /\ Fairness

-----------------------------------------------------------------------------
Record ==
  [pc : {"start", "top", "poll", "apply", "write", "resume", "read", "gone"},
   waiting : BOOLEAN, human : BOOLEAN, todo : SUBSET Replies,
   command : Replies \cup {None}, seen : SUBSET Replies,
   cursor : [Streams -> Nat], from : [Streams -> Nat]]

TypeOK ==
  /\ status \in {"active", "human_needed", "ended"}
  /\ constraints \subseteq Replies /\ handled \subseteq Replies
  /\ loop \in BOOLEAN /\ work \in BOOLEAN
  /\ owed \in Streams \cup {None}
  /\ events \in [Streams -> Seq({"own", "other"})]
  /\ mail \subseteq Replies
  /\ watchers \in Seq(Record)
  /\ pidFile \in 0 .. Len(watchers)
  /\ scripts \in [Actors -> Seq({"read", "mark", "kill", "launch", "plan"})]
  /\ snapshot \in [Actors -> SUBSET Replies]
  /\ added \in [Replies -> Nat]
  /\ clash \in BOOLEAN /\ stopped \in BOOLEAN

(* After a clash nothing is promised: where a run need not look further.   *)
Unclashed == ~clash

(* A job that has not ended has a watcher to hear of the replies, unless   *)
(* the operator's Stop took it or a resume is under way: whichever way the *)
(* watchers replaced each other, one is left (resumes that clash with      *)
(* another or with the job excepted).                                      *)
WatcherPresent ==
  status # "ended" /\ ~stopped /\ ~Busy /\ ~clash => \E w \in Ids : Live(w)

(* A reply is added to the constraints at most once, over all the watchers *)
(* the job has had (resumes that clash with another excepted).             *)
AppliedOnce == ~clash => \A m \in Replies : added[m] <= 1

(* A reply in the mailbox is eventually taken up, by this watcher or by    *)
(* the one that replaces it, unless the job has no watcher any more.       *)
ReplyHandled ==
  \A m \in Replies :
    m \in mail
      ~> (m \in handled \/ \A w \in Ids : ~Live(w))
=============================================================================
