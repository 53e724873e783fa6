--------------------------- MODULE OperatorProofs ---------------------------
(***************************************************************************)
(* Theorems about the two components that meet the operator of a job.      *)
(* Watcher, for any replies and bounds: whichever way watchers replace     *)
(* each other, one is left and no reply is applied twice.  Promotion, for  *)
(* any number of paths, any set of tracked ones and of versions, and every *)
(* bound on runs, edits and crashes: no edit of the operator's is lost.    *)
(***************************************************************************)
EXTENDS Watcher, Promotion, WellFoundedInduction, TLAPS

-----------------------------------------------------------------------------
(* Watcher.                                                                *)

(* What is left of a script: CMark is a CLI resume that will mark next.    *)
CRead   == <<"read", "mark", "kill", "launch", "plan">>
CMark   == <<"mark", "kill", "launch", "plan">>
CKill   == <<"kill", "launch", "plan">>
CLaunch == <<"launch", "plan">>
CPlan   == <<"plan">>
GKill   == <<"kill", "read", "mark", "plan", "launch">>
GRead   == <<"read", "mark", "plan", "launch">>
GMark   == <<"mark", "plan", "launch">>
GPlan   == <<"plan", "launch">>
GLaunch == <<"launch">>
Over    == <<>>

Early    == {CRead, CMark, CKill}
ToLaunch == {CLaunch, GRead, GMark, GPlan, GLaunch}
CliRests == {CRead, CMark, CKill, CLaunch, CPlan, Over}
GuiRests == {GKill, GRead, GMark, GPlan, GLaunch}

(* At every time: a script is what is left of one, a watcher's belongs to  *)
(* the reply it handles.                                                   *)
ScriptInv ==
  /\ scripts[0] \in CliRests \cup GuiRests
  /\ \A w \in Ids :
       /\ scripts[w] \in CliRests
       /\ scripts[w] # Over => watchers[w].pc = "resume"
       /\ watchers[w].pc \in {"write", "resume"} => watchers[w].command \in Replies

CursorOK(r) == \A s \in Streams : r.pc = "read" /\ r.cursor[s] # 0 => r.from[s] = r.cursor[s]

CursorInv == \A w \in Ids : CursorOK(watchers[w])

(* One resume at a time.                                                   *)
Alone == \A a, b \in Actors : scripts[a] # Over /\ scripts[b] # Over => a = b

(* A live watcher is the one in the pid file, or has begun the resume that *)
(* took it out of there.                                                   *)
LiveInv ==
  \A w \in Ids : Live(w) =>
    IF w = pidFile THEN watchers[w].pc = "resume" => scripts[w] \in Early
    ELSE watchers[w].pc = "resume" /\ scripts[w] \notin Early

(* Between kill and launch there is no watcher to find, and no loop to     *)
(* settle anything.                                                        *)
KillInv ==
  \A a \in Actors : scripts[a] \in ToLaunch => pidFile = 0 /\ loop = FALSE /\ owed = None

(* A reply's resume finds the job as the reply has found it.               *)
ChildInv ==
  \A w \in Ids : scripts[w] \in Early =>
    /\ loop = FALSE \/ work = FALSE
    /\ status = IF scripts[w] = CKill THEN "active" ELSE "human_needed"

AddedInv ==
  /\ \A m \in Replies : added[m] \in {0, 1} /\ (added[m] = 1 => m \in handled)
  /\ \A w \in Ids : watchers[w].pc = "resume" =>
       /\ Command(w) \in handled
       /\ scripts[w] \in {CRead, CMark} => added[Command(w)] = 0

(* What a watcher has fetched and not begun has not been handled.          *)
ReplyOK(r, known) ==
  /\ r.pc = "poll" => r.seen = known
  /\ r.pc \in {"apply", "write", "resume"} => r.todo \cap known = {}
  /\ r.pc = "write" => r.command \notin known \cup r.todo

ReplyInv == pidFile # 0 => ReplyOK(watchers[pidFile], handled)

(* From where a watcher will read on in a stream.                          *)
ReadFrom(r, s) ==
  IF r.pc = "read" THEN r.from[s]
  ELSE IF r.cursor[s] = 0 THEN Len(events[s]) ELSE r.cursor[s]

Unread(r, s) == \E i \in 1 .. Len(events[s]) : i > ReadFrom(r, s) /\ events[s][i] = "own"

(* An ended job whose loop will not settle again.                          *)
Settled == status = "ended" /\ (owed = "end" \/ loop = FALSE)

(* What a watcher has read of its job, or will, is true, or the watcher    *)
(* is about to be killed.                                                  *)
EventOK(r, script) ==
  /\ owed = "end" \/ Unread(r, "end") => Settled \/ scripts[0] = CKill
  /\ owed = "human" \/ Unread(r, "human") \/ r.waiting = TRUE =>
       status = "human_needed" \/ Settled \/ scripts[0] = CKill \/ script = CKill

EventInv == pidFile # 0 => EventOK(watchers[pidFile], scripts[pidFile])

PresentInv ==
  \/ pidFile # 0 /\ Live(pidFile)
  \/ \E a \in Actors : scripts[a] \in Early \cup {GKill} \cup ToLaunch
  \/ stopped = TRUE \/ Settled

Quiet ==
  Alone /\ LiveInv /\ KillInv /\ ChildInv /\ AddedInv /\ ReplyInv /\ EventInv /\ PresentInv

Inv == TypeOK /\ ScriptInv /\ CursorInv /\ (~clash => Quiet)

-----------------------------------------------------------------------------
(* The scripts, rest by rest.                                              *)
LEMMA Rests ==
  /\ CliScript = CRead /\ GuiScript = GKill
  /\ Len(CRead) = 5 /\ Head(CRead) = "read" /\ Tail(CRead) = CMark
  /\ Len(CMark) = 4 /\ Head(CMark) = "mark" /\ Tail(CMark) = CKill
  /\ Len(CKill) = 3 /\ Head(CKill) = "kill" /\ Tail(CKill) = CLaunch
  /\ Len(CLaunch) = 2 /\ Head(CLaunch) = "launch" /\ Tail(CLaunch) = CPlan
  /\ Len(CPlan) = 1 /\ Head(CPlan) = "plan" /\ Tail(CPlan) = Over
  /\ Len(GKill) = 5 /\ Head(GKill) = "kill" /\ Tail(GKill) = GRead
  /\ Len(GRead) = 4 /\ Head(GRead) = "read" /\ Tail(GRead) = GMark
  /\ Len(GMark) = 3 /\ Head(GMark) = "mark" /\ Tail(GMark) = GPlan
  /\ Len(GPlan) = 2 /\ Head(GPlan) = "plan" /\ Tail(GPlan) = GLaunch
  /\ Len(GLaunch) = 1 /\ Head(GLaunch) = "launch" /\ Tail(GLaunch) = Over
  /\ Len(Over) = 0
BY DEF CliScript, GuiScript, CRead, CMark, CKill, CLaunch, CPlan,
       GKill, GRead, GMark, GPlan, GLaunch, Over

LEMMA Kinds ==
  /\ \A s \in Early : s \notin ToLaunch /\ s \notin {GKill, CPlan, Over}
  /\ \A s \in ToLaunch : s \notin {GKill, CPlan, Over}
  /\ CKill \notin {CRead, CMark, GKill, CPlan, Over} /\ CRead # CMark
  /\ GKill # CPlan /\ GKill # Over /\ CPlan # Over
<1>1. /\ CRead \notin {GKill, GRead} /\ CMark \notin {GRead, GMark}
      /\ CKill \notin {GMark, GKill} /\ CLaunch # GPlan /\ CPlan # GLaunch
  BY Rests
<1>2. /\ Over \notin {CRead, CMark, CKill, CLaunch, CPlan}
      /\ Over \notin {GKill, GRead, GMark, GPlan, GLaunch}
  BY Rests
<1>3. /\ CRead \notin {CMark, CKill, CLaunch, CPlan, GMark, GPlan, GLaunch}
      /\ CMark \notin {CKill, CLaunch, CPlan, GKill, GPlan, GLaunch}
      /\ CKill \notin {CLaunch, CPlan, GRead, GPlan, GLaunch}
  BY Rests
<1>4. /\ CLaunch \notin {CPlan, GKill, GRead, GMark, GLaunch}
      /\ CPlan \notin {GKill, GRead, GMark, GPlan}
      /\ GKill \notin {GRead, GMark, GPlan, GLaunch}
  BY Rests
<1>5. QED BY <1>1, <1>2, <1>3, <1>4 DEF Early, ToLaunch

LEMMA RestTypes ==
  \A s \in CliRests \cup GuiRests : s \in Seq({"read", "mark", "kill", "launch", "plan"})
<1> DEFINE S == Seq({"read", "mark", "kill", "launch", "plan"})
<1>1. CRead \in S /\ CMark \in S /\ CKill \in S
  BY DEF CRead, CMark, CKill
<1>2. CLaunch \in S /\ CPlan \in S /\ Over \in S
  BY DEF CLaunch, CPlan, Over
<1>3. GKill \in S /\ GRead \in S /\ GMark \in S
  BY DEF GKill, GRead, GMark
<1>4. GPlan \in S /\ GLaunch \in S
  BY DEF GPlan, GLaunch
<1> HIDE DEF S
<1>5. \A s \in CliRests \cup GuiRests : s \in S
  BY <1>1, <1>2, <1>3, <1>4 DEF CliRests, GuiRests
<1>6. QED BY <1>5 DEF S

LEMMA StartedOK ==
  /\ Started \in Record /\ Gone \in Record
  /\ Started.pc = "start" /\ Gone.pc = "gone"
  /\ Started.waiting = FALSE /\ Gone.waiting = FALSE
  /\ \A s \in Streams : Started.cursor[s] = 0 /\ Gone.cursor[s] = 0
BY DEF Started, Gone, Record, Streams, None

LEMMA InitInv == Init => Inv
<1> SUFFICES ASSUME Init PROVE Inv
  OBVIOUS
<1>1. /\ watchers = <<Started>> /\ Len(watchers) = 1 /\ Ids = {1} /\ Actors = {0, 1}
      /\ watchers[1] = Started /\ watchers \in Seq(Record) /\ pidFile = 1
  BY StartedOK DEF Init, Ids, Actors
<1>2. /\ \A a \in {0, 1} : scripts[a] = Over
      /\ scripts \in [{0, 1} -> Seq({"read", "mark", "kill", "launch", "plan"})]
      /\ \A s \in Streams : Len(events[s]) = 0
  BY DEF Init, Over
<1>3. TypeOK
  <2>1. events \in [Streams -> Seq({"own", "other"})]
    BY DEF Init
  <2>2. snapshot \in [Actors -> SUBSET Replies] /\ added \in [Replies -> Nat]
    BY <1>1 DEF Init
  <2>3. /\ status \in {"active", "human_needed", "ended"}
        /\ constraints \subseteq Replies /\ handled \subseteq Replies /\ mail \subseteq Replies
        /\ loop \in BOOLEAN /\ work \in BOOLEAN /\ clash \in BOOLEAN /\ stopped \in BOOLEAN
        /\ owed \in Streams \cup {None} /\ pidFile \in 0 .. 1
    BY <1>1 DEF Init
  <2>4. QED BY <1>1, <1>2, <2>1, <2>2, <2>3 DEF TypeOK
<1>4. ScriptInv /\ CursorInv
  BY <1>1, <1>2, StartedOK DEF ScriptInv, CursorInv, CursorOK, CliRests
<1>5. Alone /\ LiveInv /\ PresentInv
  BY <1>1, <1>2, StartedOK DEF Alone, LiveInv, PresentInv, Live
<1>6. KillInv /\ ChildInv /\ AddedInv
  <2>1. \A a \in Actors : scripts[a] \notin ToLaunch \cup Early
    BY <1>1, <1>2, Rests DEF ToLaunch, Early
  <2>2. \A m \in Replies : added[m] = 0
    BY DEF Init
  <2>3. QED
    BY <1>1, <2>1, <2>2, StartedOK DEF KillInv, ChildInv, AddedInv, Actors
<1>7. ReplyInv /\ EventInv
  BY <1>1, <1>2, StartedOK DEF ReplyInv, EventInv, ReplyOK, EventOK, Unread, ReadFrom, Init, None, Streams
<1>8. QED BY <1>3, <1>4, <1>5, <1>6, <1>7 DEF Inv, Quiet

-----------------------------------------------------------------------------
(* What the types say of a watcher.                                        *)
LEMMA Facts ==
  ASSUME TypeOK
  PROVE  /\ Len(watchers) \in Nat /\ Ids = 1 .. Len(watchers) /\ 0 \notin Ids
         /\ 0 \in Actors /\ Ids \subseteq Actors
         /\ \A a \in Actors : a # 0 => a \in Ids
         /\ pidFile # 0 => pidFile \in Ids
         /\ \A w \in Ids : watchers[w] \in Record
         /\ \A s \in Streams : events[s] \in Seq({"own", "other"}) /\ Len(events[s]) \in Nat
BY DEF TypeOK, Ids, Actors

LEMMA SetRec ==
  ASSUME TypeOK, NEW w \in Ids, NEW rec \in Record, Set(w, rec)
  PROVE  /\ watchers' \in Seq(Record) /\ Len(watchers') = Len(watchers)
         /\ Ids' = Ids /\ Actors' = Actors
         /\ watchers'[w] = rec
         /\ \A v \in Ids : v # w => watchers'[v] = watchers[v]
<1>1. watchers \in Seq(Record) /\ w \in 1 .. Len(watchers)
  BY DEF TypeOK, Ids
<1>2. watchers' = [watchers EXCEPT ![w] = rec]
  BY DEF Set
<1>3. watchers' \in Seq(Record) /\ Len(watchers') = Len(watchers)
  BY <1>1, <1>2
<1>4. QED BY <1>1, <1>2, <1>3 DEF Ids, Actors

(* A step of one watcher that changes nothing the others see.              *)
LEMMA MoveInv ==
  ASSUME Inv, NEW w \in Ids, NEW rec \in Record, Set(w, rec),
         UNCHANGED <<status, constraints, handled, added, loop, work, owed, events, mail,
                     pidFile, stopped, scripts, clash>>,
         snapshot' \in [Actors -> SUBSET Replies],
         Live(w), rec.pc # "resume", CursorOK(rec),
         rec.pc = "write" => rec.command \in Replies,
         watchers[w].pc = "resume" => scripts[w] = Over /\ rec.pc = "gone",
         ~clash /\ w = pidFile =>
           /\ ReplyOK(rec, handled) /\ EventOK(rec, scripts[w])
           /\ rec.pc = "gone" => Settled \/ scripts[0] = CKill
  PROVE  Inv'
<1>1. TypeOK
  BY DEF Inv
<1>2. /\ watchers' \in Seq(Record) /\ Len(watchers') = Len(watchers)
      /\ Ids' = Ids /\ Actors' = Actors /\ watchers'[w] = rec
      /\ \A v \in Ids : v # w => watchers'[v] = watchers[v]
  BY <1>1, SetRec
<1>3. TypeOK'
  BY <1>1, <1>2 DEF TypeOK
<1>4. ScriptInv' /\ CursorInv'
  BY <1>2 DEF Inv, ScriptInv, CursorInv, CursorOK
<1>5. ASSUME ~clash PROVE Quiet'
  <2>1. Quiet /\ ~clash
    BY <1>5 DEF Inv
  <2>2. Alone' /\ KillInv' /\ ChildInv'
    BY <1>2, <2>1 DEF Quiet, Alone, KillInv, ChildInv
  <2>3. LiveInv'
    <3>1. LiveInv /\ UNCHANGED <<pidFile, scripts>>
      BY <2>1 DEF Quiet
    <3>2. ASSUME NEW v \in Ids, v # w, Live(v)'
          PROVE  IF v = pidFile THEN watchers'[v].pc = "resume" => scripts[v] \in Early
                 ELSE watchers'[v].pc = "resume" /\ scripts[v] \notin Early
      BY <1>2, <3>1, <3>2 DEF LiveInv, Live
    <3>3. ASSUME Live(w)'
          PROVE  w = pidFile /\ watchers'[w].pc # "resume"
      BY <1>2, <3>1, <3>3 DEF LiveInv, Live
    <3>4. QED BY <1>2, <3>1, <3>2, <3>3 DEF LiveInv
  <2>4. AddedInv'
    BY <1>2, <2>1 DEF Quiet, AddedInv, Command, Rec
  <2>5. ReplyInv'
    BY <1>1, <1>2, <2>1, Facts DEF Quiet, ReplyInv
  <2>6. EventInv'
    BY <1>1, <1>2, <2>1, Facts DEF Quiet, EventInv, EventOK, Unread, ReadFrom, Settled
  <2>7. PresentInv'
    <3>1. CASE w = pidFile /\ rec.pc = "gone"
      BY <1>1, <1>2, <2>1, <3>1, Facts DEF PresentInv, Settled, Early
    <3>2. CASE ~(w = pidFile /\ rec.pc = "gone")
      BY <1>1, <1>2, <2>1, <3>2, Facts DEF Quiet, PresentInv, Settled, Live
    <3>3. QED BY <3>1, <3>2
  <2>8. QED BY <2>2, <2>3, <2>4, <2>5, <2>6, <2>7 DEF Quiet
<1>6. QED BY <1>3, <1>4, <1>5 DEF Inv

(* A watcher that is not in a resume is the one in the pid file.           *)
LEMMA OwnWatcher ==
  ASSUME Inv, ~clash, NEW w \in Ids, Live(w), watchers[w].pc # "resume"
  PROVE  /\ w = pidFile /\ pidFile # 0 /\ scripts[w] = Over
         /\ ReplyOK(watchers[w], handled) /\ EventOK(watchers[w], scripts[w])
<1>1. TypeOK /\ LiveInv /\ ReplyInv /\ EventInv /\ ScriptInv
  BY DEF Inv, Quiet
<1>2. w = pidFile /\ pidFile # 0
  BY <1>1, Facts DEF LiveInv
<1>3. QED BY <1>1, <1>2 DEF ReplyInv, EventInv, ScriptInv

(* What a watcher has yet to read does not grow as it reads.               *)
LEMMA ReadsOn ==
  ASSUME TypeOK, NEW r \in Record, NEW q \in Record, CursorOK(r),
         \A s \in Streams :
           \/ q.pc # "read" /\ q.cursor[s] = 0
           \/ q.pc # "read" /\ q.cursor[s] = r.cursor[s]
           \/ q.pc # "read" /\ r.pc = "read" /\ q.cursor[s] = r.from[s] + 1
           \/ /\ q.pc = "read" /\ r.pc # "read"
              /\ q.from[s] = IF r.cursor[s] = 0 THEN Len(events[s]) ELSE r.cursor[s]
  PROVE  \A s \in Streams : Unread(q, s) => Unread(r, s)
<1> SUFFICES ASSUME NEW s \in Streams, Unread(q, s) PROVE Unread(r, s)
  OBVIOUS
<1>1. /\ Len(events[s]) \in Nat
      /\ r.cursor[s] \in Nat /\ r.from[s] \in Nat /\ q.cursor[s] \in Nat /\ q.from[s] \in Nat
  BY Facts DEF Record
<1>2. ReadFrom(q, s) = Len(events[s]) \/ ReadFrom(q, s) >= ReadFrom(r, s)
  BY <1>1 DEF ReadFrom, CursorOK
<1>3. QED BY <1>1, <1>2 DEF Unread, ReadFrom

LEMMA EventKept ==
  ASSUME NEW r \in Record, NEW q \in Record, NEW script, EventOK(r, script),
         \A s \in Streams : Unread(q, s) => Unread(r, s),
         q.waiting = TRUE => r.waiting = TRUE \/ status = "human_needed"
  PROVE  EventOK(q, script)
BY DEF EventOK, Streams

LEMMA GoneOK == ASSUME TypeOK PROVE \A s \in Streams : ~Unread(Gone, s) /\ ~Unread(Started, s)
BY Facts, StartedOK DEF Unread, ReadFrom

LEMMA StartStep == ASSUME Inv, NEW w \in Ids, Start(w) PROVE Inv'
<1> DEFINE r == watchers[w]
           q == [r EXCEPT !.pc = "top", !.waiting = (status = "human_needed")]
<1>1. TypeOK /\ r \in Record /\ CursorOK(r)
  BY Facts DEF Inv, CursorInv
<1>2. q \in Record /\ q.pc = "top" /\ q.cursor = r.cursor
  BY <1>1 DEF Record
<1>3. q.waiting = TRUE => status = "human_needed"
  BY <1>1 DEF Record
<1>4. r.pc = "start" /\ Live(w) /\ Set(w, q)
  BY DEF Start, Live, Rec
<1> HIDE DEF r, q
<1>5. ASSUME ~clash PROVE ReplyOK(q, handled) /\ EventOK(q, scripts[w])
  BY <1>1, <1>2, <1>3, <1>4, <1>5, OwnWatcher, ReadsOn, EventKept DEF ReplyOK, r
<1>6. CursorOK(q) /\ snapshot' \in [Actors -> SUBSET Replies]
  BY <1>1, <1>2 DEF CursorOK, Start, rvars, TypeOK
<1>7. QED
  BY <1>1, <1>2, <1>4, <1>5, <1>6, MoveInv DEF Start, db, jobv, rvars, r

LEMMA LeaveResumedStep == ASSUME Inv, NEW w \in Ids, LeaveResumed(w) PROVE Inv'
<1>1. TypeOK /\ watchers[w] \in Record
  BY Facts DEF Inv
<1>2. /\ watchers[w].pc = "top" /\ Live(w) /\ Set(w, Gone)
      /\ watchers[w].waiting = TRUE /\ status # "human_needed"
  BY <1>1 DEF LeaveResumed, ResumedElsewhere, Live, Rec, Record
<1>3. ASSUME ~clash PROVE EventOK(Gone, scripts[w]) /\ (Settled \/ scripts[0] = CKill)
  <2>1. EventOK(watchers[w], scripts[w]) /\ scripts[w] = Over
    BY <1>2, <1>3, OwnWatcher
  <2>2. QED BY <1>1, <1>2, <2>1, GoneOK, StartedOK, Rests DEF EventOK, Streams
<1>4. CursorOK(Gone) /\ ReplyOK(Gone, handled) /\ snapshot' \in [Actors -> SUBSET Replies]
  BY <1>1, StartedOK DEF CursorOK, ReplyOK, LeaveResumed, rvars, TypeOK
<1>5. QED
  BY <1>1, <1>2, <1>3, <1>4, StartedOK, MoveInv DEF LeaveResumed, db, jobv, rvars

LEMMA LeaveReplacedStep == ASSUME Inv, NEW w \in Ids, LeaveReplaced(w) PROVE Inv'
<1>1. TypeOK
  BY DEF Inv
<1>2. watchers[w].pc = "resume" /\ scripts[w] = Over /\ Live(w) /\ Set(w, Gone)
  BY DEF LeaveReplaced, Live, Rec, Over
<1>3. ASSUME ~clash PROVE w # pidFile
  BY <1>2, <1>3, Rests DEF Inv, Quiet, LiveInv, Early
<1>4. CursorOK(Gone) /\ snapshot' \in [Actors -> SUBSET Replies]
  BY <1>1, StartedOK DEF CursorOK, LeaveReplaced, rvars, TypeOK
<1>5. QED
  BY <1>1, <1>2, <1>3, <1>4, StartedOK, MoveInv DEF LeaveReplaced, db, jobv, rvars

LEMMA PollSteps == ASSUME Inv, NEW w \in Ids, BeginPoll(w) \/ Fetch(w) \/ ReadJob(w) PROVE Inv'
<1> DEFINE r == watchers[w]
<1>1. TypeOK /\ r \in Record /\ CursorOK(r)
  BY Facts DEF Inv, CursorInv
<1>2. ASSUME NEW q \in Record, Set(w, q), q.cursor = r.cursor, q.waiting = r.waiting,
             r.pc \in {"top", "poll", "apply"}, q.pc \in {"poll", "apply", "write"},
             q.pc = "write" => q.command \in Replies,
             ReplyOK(r, handled) => ReplyOK(q, handled),
             UNCHANGED <<status, constraints, handled, added, loop, work, owed, events, mail,
                         pidFile, stopped, scripts, clash>>,
             snapshot' \in [Actors -> SUBSET Replies]
      PROVE  Inv'
  <2>1. Live(w) /\ CursorOK(q)
    BY <1>2 DEF Live, CursorOK
  <2>2. \A s \in Streams : Unread(q, s) => Unread(r, s)
    BY <1>1, <1>2, ReadsOn
  <2>3. ASSUME ~clash PROVE ReplyOK(q, handled) /\ EventOK(q, scripts[w])
    <3>1. ReplyOK(r, handled) /\ EventOK(r, scripts[w])
      BY <1>2, <2>1, <2>3, OwnWatcher
    <3>2. QED BY <1>1, <1>2, <2>2, <3>1, EventKept
  <2>4. QED BY <1>2, <2>1, <2>3, MoveInv
<1>3. CASE BeginPoll(w)
  <2> DEFINE q == [r EXCEPT !.pc = "poll", !.seen = handled]
  <2>1. /\ q \in Record /\ q.pc = "poll" /\ q.seen = handled
        /\ q.cursor = r.cursor /\ q.waiting = r.waiting
    BY <1>1 DEF Record, TypeOK
  <2>2. Set(w, q) /\ r.pc = "top"
    BY <1>3 DEF BeginPoll, Rec
  <2> HIDE DEF q, r
  <2>3. QED
    BY <1>1, <1>2, <1>3, <2>1, <2>2 DEF BeginPoll, db, jobv, rvars, ReplyOK, TypeOK
<1>4. CASE Fetch(w)
  <2> DEFINE q == [r EXCEPT !.pc = "apply", !.seen = {}, !.todo = mail \ r.seen]
  <2>1. /\ q \in Record /\ q.pc = "apply" /\ q.todo = mail \ r.seen
        /\ q.cursor = r.cursor /\ q.waiting = r.waiting
    BY <1>1 DEF Record, TypeOK
  <2>2. Set(w, q) /\ r.pc = "poll"
    BY <1>4 DEF Fetch, Rec
  <2> HIDE DEF q, r
  <2>3. QED
    BY <1>1, <1>2, <1>4, <2>1, <2>2 DEF Fetch, db, jobv, rvars, ReplyOK, TypeOK
<1>5. CASE ReadJob(w)
  <2>1. PICK m \in r.todo :
          Set(w, [r EXCEPT !.pc = "write", !.todo = @ \ {m}, !.command = m,
                           !.human = (status = "human_needed")])
    BY <1>5 DEF ReadJob, Rec
  <2> DEFINE q == [r EXCEPT !.pc = "write", !.todo = @ \ {m}, !.command = m,
                            !.human = (status = "human_needed")]
  <2>2. /\ q \in Record /\ q.pc = "write" /\ q.todo = r.todo \ {m} /\ q.command = m
        /\ q.cursor = r.cursor /\ q.waiting = r.waiting /\ m \in Replies
    BY <1>1 DEF Record
  <2>3. Set(w, q) /\ r.pc = "apply" /\ snapshot' \in [Actors -> SUBSET Replies]
    BY <1>1, <1>5, <2>1 DEF ReadJob, Rec, TypeOK
  <2> HIDE DEF q, r
  <2>4. QED
    BY <1>1, <1>2, <1>5, <2>1, <2>2, <2>3 DEF ReadJob, db, jobv, ReplyOK
<1>6. QED BY <1>3, <1>4, <1>5

(* A watcher that begins to read: the end of a pass, or of a failed one.   *)
LEMMA ReadingSteps == ASSUME Inv, NEW w \in Ids, BeginRead(w) \/ PollFails(w) PROVE Inv'
<1> DEFINE r == watchers[w]
           q == Reading(r)
<1>1. TypeOK /\ r \in Record /\ CursorOK(r)
  BY Facts DEF Inv, CursorInv
<1>2. /\ q \in Record /\ q.pc = "read" /\ q.cursor = r.cursor /\ q.waiting = r.waiting
      /\ \A s \in Streams : q.from[s] = IF r.cursor[s] = 0 THEN Len(events[s]) ELSE r.cursor[s]
  <2> DEFINE f == [s \in Streams |-> IF r.cursor[s] = 0 THEN Len(events[s]) ELSE r.cursor[s]]
  <2>1. r.cursor \in [Streams -> Nat] /\ f \in [Streams -> Nat]
    BY <1>1, Facts DEF Record
  <2>2. q = [r EXCEPT !.pc = "read", !.todo = {}, !.command = None, !.seen = {},
                      !.human = FALSE, !.from = f]
    BY DEF Reading
  <2>3. \A s \in Streams : f[s] = IF r.cursor[s] = 0 THEN Len(events[s]) ELSE r.cursor[s]
    OBVIOUS
  <2> HIDE DEF f, q, r
  <2>4. QED BY <1>1, <2>1, <2>2, <2>3 DEF Record, None
<1>3. Set(w, q) /\ r.pc \in {"top", "poll", "apply", "write"}
  BY DEF BeginRead, PollFails, Rec
<1> HIDE DEF q, r
<1>4. CursorOK(q) /\ Live(w) /\ ReplyOK(q, handled)
  BY <1>2, <1>3 DEF CursorOK, Live, ReplyOK, r
<1>5. ASSUME ~clash PROVE EventOK(q, scripts[w])
  <2>1. EventOK(r, scripts[w])
    BY <1>3, <1>4, <1>5, OwnWatcher DEF r
  <2>2. \A s \in Streams : Unread(q, s) => Unread(r, s)
    BY <1>1, <1>2, <1>3, ReadsOn
  <2>3. QED BY <1>1, <1>2, <2>1, <2>2, EventKept
<1>6. /\ UNCHANGED <<status, constraints, handled, added, loop, work, owed, events, mail,
                     pidFile, stopped, scripts, clash>>
      /\ snapshot' \in [Actors -> SUBSET Replies]
  BY <1>1 DEF BeginRead, PollFails, db, jobv, rvars, TypeOK
<1>7. QED BY <1>2, <1>3, <1>4, <1>5, <1>6, MoveInv DEF r

LEMMA ReadStep ==
  ASSUME Inv, NEW w \in Ids, ReadTimeout(w) \/ \E s \in Streams : ReadEvent(w, s)
  PROVE  Inv'
<1> DEFINE r == watchers[w]
<1>1. TypeOK /\ r \in Record /\ CursorOK(r)
  BY Facts DEF Inv, CursorInv
<1>2. r.pc = "read" /\ Live(w)
  BY DEF ReadTimeout, ReadEvent, Rec, Live
<1>3. /\ UNCHANGED <<status, constraints, handled, added, loop, work, owed, events, mail,
                     pidFile, stopped, scripts, clash>>
      /\ snapshot' \in [Actors -> SUBSET Replies]
  BY <1>1 DEF ReadTimeout, ReadEvent, db, jobv, rvars, TypeOK
<1>4. ASSUME NEW q \in Record, Set(w, q), q.pc = "top",
             \A s \in Streams : q.cursor[s] \in {r.cursor[s], r.from[s] + 1},
             q.waiting = TRUE => r.waiting = TRUE \/ Unread(r, "human")
      PROVE  Inv'
  <2>1. CursorOK(q) /\ ReplyOK(q, handled)
    BY <1>4 DEF CursorOK, ReplyOK
  <2>2. \A s \in Streams : Unread(q, s) => Unread(r, s)
    BY <1>1, <1>2, <1>4, ReadsOn
  <2>3. ASSUME ~clash PROVE EventOK(q, scripts[w])
    BY <1>2, <1>4, <2>2, <2>3, OwnWatcher DEF EventOK, Streams
  <2>4. QED BY <1>2, <1>3, <1>4, <2>1, <2>3, MoveInv
<1>5. CASE ReadTimeout(w)
  <2>1. /\ Top(r) \in Record /\ Top(r).pc = "top"
        /\ Top(r).cursor = r.cursor /\ Top(r).waiting = r.waiting
    BY <1>1 DEF Top, Record
  <2>2. QED BY <1>4, <1>5, <2>1 DEF ReadTimeout, Rec
<1>6. ASSUME NEW s \in Streams, ReadEvent(w, s) PROVE Inv'
  <2> DEFINE i == r.from[s] + 1
  <2>1. i \in 1 .. Len(events[s]) /\ i > ReadFrom(r, s) /\ i \in Nat
    BY <1>1, <1>2, <1>6, Facts DEF ReadEvent, Arrived, Rec, ReadFrom, Record
  <2>2. ASSUME NEW waits \in BOOLEAN, waits => r.waiting = TRUE \/ Unread(r, "human"),
               Set(w, Top([r EXCEPT !.waiting = waits, !.cursor[s] = i]))
        PROVE  Inv'
    <3> DEFINE q == Top([r EXCEPT !.waiting = waits, !.cursor[s] = i])
    <3>1. [r.cursor EXCEPT ![s] = i] \in [Streams -> Nat]
      BY <1>1, <2>1 DEF Record
    <3>2. /\ q \in Record /\ q.pc = "top" /\ q.waiting = waits
          /\ q.cursor = [r.cursor EXCEPT ![s] = i]
      BY <1>1, <3>1 DEF Top, Record
    <3> HIDE DEF q
    <3>3. \A t \in Streams : q.cursor[t] \in {r.cursor[t], r.from[t] + 1}
      BY <1>1, <3>2 DEF Record
    <3>4. Set(w, q)
      BY <2>2 DEF q
    <3>5. q.waiting = TRUE => r.waiting = TRUE \/ Unread(r, "human")
      BY <2>2, <3>2
    <3>6. QED BY <1>4, <3>2, <3>3, <3>4, <3>5
  <2>3. CASE events[s][i] # "own"
    <3>1. Set(w, Top([r EXCEPT !.cursor[s] = i]))
      BY <1>6, <2>3 DEF ReadEvent, Rec
    <3>2. [r EXCEPT !.cursor[s] = i] = [r EXCEPT !.waiting = r.waiting, !.cursor[s] = i]
      BY <1>1 DEF Record
    <3>3. r.waiting \in BOOLEAN
      BY <1>1 DEF Record
    <3>4. QED BY <2>2, <3>1, <3>2, <3>3
  <2>4. CASE events[s][i] = "own" /\ s = "human"
    <3>1. Set(w, Top([r EXCEPT !.waiting = TRUE, !.cursor[s] = i]))
      BY <1>6, <2>4 DEF ReadEvent, Seen, Rec
    <3>2. Unread(r, "human")
      BY <2>1, <2>4 DEF Unread
    <3>3. QED BY <2>2, <3>1, <3>2
  <2>5. CASE events[s][i] = "own" /\ s = "end"
    <3>1. Set(w, Gone)
      BY <1>6, <2>5 DEF ReadEvent, Seen, Rec
    <3>2. Unread(r, "end")
      BY <2>1, <2>5 DEF Unread
    <3>3. ASSUME ~clash PROVE EventOK(Gone, scripts[w]) /\ (Settled \/ scripts[0] = CKill)
      <4>1. EventOK(r, scripts[w])
        BY <1>2, <3>3, OwnWatcher
      <4>2. Settled \/ scripts[0] = CKill
        BY <3>2, <4>1 DEF EventOK
      <4>3. QED BY <1>1, <4>2, GoneOK, StartedOK DEF EventOK, Streams
    <3>4. CursorOK(Gone) /\ ReplyOK(Gone, handled)
      BY StartedOK DEF CursorOK, ReplyOK
    <3>5. QED BY <1>2, <1>3, <3>1, <3>3, <3>4, StartedOK, MoveInv
  <2>6. QED BY <2>3, <2>4, <2>5 DEF Streams
<1>7. QED BY <1>5, <1>6

(* A reply that is refused, or becomes a constraint of the running job.    *)
LEMMA CommandSteps == ASSUME Inv, NEW w \in Ids, Reject(w) \/ Constrain(w) PROVE Inv'
<1> DEFINE r == watchers[w]
           q == NextCommand(r)
           m == r.command
<1>1. TypeOK /\ ScriptInv /\ CursorInv /\ r \in Record /\ CursorOK(r)
  BY Facts DEF Inv, CursorInv
<1>2. /\ q \in Record /\ q.pc = "apply" /\ q.todo = r.todo
      /\ q.cursor = r.cursor /\ q.waiting = r.waiting
  BY <1>1 DEF NextCommand, Record, None
<1>3. /\ Set(w, q) /\ r.pc = "write" /\ Live(w) /\ m \in Replies
      /\ Command(w) = m /\ handled' = handled \cup {m}
  BY <1>1 DEF Reject, Constrain, Handled, Writing, Command, Rec, Live, ScriptInv
<1>4. /\ UNCHANGED <<status, loop, work, owed, events, mail, pidFile, stopped, scripts, clash>>
      /\ snapshot' \in [Actors -> SUBSET Replies]
      /\ constraints' \subseteq Replies
      /\ added' = added \/ added' = [added EXCEPT ![m] = @ + 1]
  <2>1. w \in Actors
    BY <1>1, Facts
  <2>2. QED BY <1>1, <1>3, <2>1 DEF Reject, Constrain, db, jobv, TypeOK
<1> HIDE DEF q, m
<1>5. /\ watchers' \in Seq(Record) /\ Len(watchers') = Len(watchers)
      /\ Ids' = Ids /\ Actors' = Actors /\ watchers'[w] = q
      /\ \A v \in Ids : v # w => watchers'[v] = watchers[v]
  BY <1>1, <1>2, <1>3, SetRec
<1>6. TypeOK'
  BY <1>1, <1>3, <1>4, <1>5 DEF TypeOK
<1>7. ScriptInv' /\ CursorInv'
  <2>1. scripts[w] = Over
    BY <1>1, <1>3 DEF ScriptInv
  <2>2. QED BY <1>1, <1>2, <1>4, <1>5, <2>1 DEF ScriptInv, CursorInv, CursorOK
<1>8. ASSUME ~clash PROVE Quiet'
  <2>1. Quiet /\ w = pidFile /\ pidFile # 0 /\ ReplyOK(r, handled) /\ EventOK(r, scripts[w])
    BY <1>3, <1>8, OwnWatcher DEF Inv
  <2>2. m \notin handled /\ q.todo \cap handled' = {}
    BY <1>2, <1>3, <2>1 DEF ReplyOK, m
  <2>3. Alone' /\ KillInv' /\ ChildInv'
    BY <1>4, <1>5, <2>1 DEF Quiet, Alone, KillInv, ChildInv
  <2>4. LiveInv' /\ PresentInv'
    BY <1>1, <1>2, <1>3, <1>4, <1>5, <2>1, Facts DEF Quiet, LiveInv, PresentInv, Live
  <2>5. AddedInv'
    <3>1. \A n \in Replies : added[n] \in {0, 1} /\ (added[n] = 1 => n \in handled)
      BY <2>1 DEF Quiet, AddedInv
    <3>2. \A n \in Replies : added'[n] = added[n] \/ (n = m /\ added'[n] = added[n] + 1)
      <4>1. CASE added' = added
        BY <4>1
      <4>2. CASE added' = [added EXCEPT ![m] = @ + 1]
        BY <1>1, <4>2 DEF TypeOK
      <4>3. QED BY <1>4, <4>1, <4>2
    <3>3. \A n \in Replies : added'[n] \in {0, 1} /\ (added'[n] = 1 => n \in handled')
      BY <1>3, <2>2, <3>1, <3>2
    <3>4. ASSUME NEW v \in Ids', watchers'[v].pc = "resume"
          PROVE  /\ Command(v)' \in handled'
                 /\ scripts'[v] \in {CRead, CMark} => added'[Command(v)'] = 0
      <4>1. v \in Ids /\ v # w /\ watchers'[v] = watchers[v]
        BY <1>2, <1>5, <3>4
      <4>2. Command(v)' = Command(v) /\ watchers[v].pc = "resume" /\ Command(v) \in Replies
        BY <1>1, <3>4, <4>1 DEF Command, Rec, ScriptInv
      <4>3. /\ Command(v) \in handled
            /\ scripts[v] \in {CRead, CMark} => added[Command(v)] = 0
        BY <2>1, <4>1, <4>2 DEF Quiet, AddedInv
      <4>4. QED BY <1>3, <1>4, <2>2, <3>2, <4>2, <4>3
    <3>5. QED BY <3>3, <3>4 DEF AddedInv
  <2>6. ReplyInv'
    BY <1>2, <1>4, <1>5, <2>1, <2>2 DEF ReplyInv, ReplyOK
  <2>7. EventInv'
    <3>1. EventOK(q, scripts[w])
      BY <1>1, <1>2, <1>3, <2>1, ReadsOn, EventKept
    <3>2. QED BY <1>4, <1>5, <2>1, <3>1 DEF EventInv, EventOK, Unread, ReadFrom, Settled
  <2>8. QED BY <2>3, <2>4, <2>5, <2>6, <2>7 DEF Quiet
<1>9. QED BY <1>4, <1>6, <1>7, <1>8 DEF Inv

(* A reply to a job that waits for its operator begins a resume.           *)
LEMMA ResumeStepInv == ASSUME Inv, NEW w \in Ids, Resume(w) PROVE Inv'
<1> DEFINE r == watchers[w]
           q == [r EXCEPT !.pc = "resume"]
           m == r.command
<1>1. TypeOK /\ ScriptInv /\ CursorInv /\ r \in Record /\ CursorOK(r) /\ w \in Actors /\ w # 0
  BY Facts DEF Inv, CursorInv
<1>2. /\ q \in Record /\ q.pc = "resume" /\ q.todo = r.todo /\ q.command = m
      /\ q.cursor = r.cursor /\ q.waiting = r.waiting
  BY <1>1 DEF Record
<1>3. /\ Set(w, q) /\ r.pc = "write" /\ Live(w) /\ m \in Replies
      /\ handled' = handled \cup {m}
  BY <1>1 DEF Resume, Handled, Writing, Command, Rec, Live, ScriptInv
<1>4. /\ UNCHANGED <<status, constraints, loop, work, owed, events, mail, added, pidFile, stopped>>
      /\ snapshot' \in [Actors -> SUBSET Replies]
      /\ scripts' = [scripts EXCEPT ![w] = CRead]
      /\ clash' \in BOOLEAN
      /\ ~clash' => ~clash /\ ~Busy /\ status = "human_needed" /\ ~(loop /\ work)
  BY <1>1, Rests DEF Resume, jobv, TypeOK, Busy
<1> HIDE DEF q, m
<1>5. /\ watchers' \in Seq(Record) /\ Len(watchers') = Len(watchers)
      /\ Ids' = Ids /\ Actors' = Actors /\ watchers'[w] = q
      /\ \A v \in Ids : v # w => watchers'[v] = watchers[v]
  BY <1>1, <1>2, <1>3, SetRec
<1>6. /\ scripts' \in [Actors -> Seq({"read", "mark", "kill", "launch", "plan"})]
      /\ scripts'[w] = CRead /\ \A a \in Actors : a # w => scripts'[a] = scripts[a]
  BY <1>1, <1>4, RestTypes DEF TypeOK, CliRests
<1>7. TypeOK'
  BY <1>1, <1>3, <1>4, <1>5, <1>6 DEF TypeOK
<1>8. ScriptInv' /\ CursorInv'
  <2>1. CursorInv'
    BY <1>1, <1>2, <1>5 DEF CursorInv, CursorOK
  <2>2. scripts'[0] = scripts[0] /\ scripts'[w] \in CliRests
    BY <1>1, <1>6, Facts DEF CliRests
  <2>3. \A v \in Ids : v # w => scripts'[v] = scripts[v] /\ watchers'[v] = watchers[v]
    BY <1>1, <1>5, <1>6, Facts
  <2>4. QED BY <1>1, <1>2, <1>3, <1>5, <1>6, <2>1, <2>2, <2>3 DEF ScriptInv
<1>9. ASSUME ~clash' PROVE Quiet'
  <2>1. Quiet /\ w = pidFile /\ pidFile # 0 /\ ReplyOK(r, handled) /\ EventOK(r, scripts[w])
    BY <1>3, <1>4, <1>9, OwnWatcher DEF Inv
  <2>2. \A a \in Actors : scripts[a] = Over
    BY <1>4, <1>9 DEF Busy, Over
  <2>3. \A a \in Actors : a # w => scripts'[a] = Over
    BY <1>6, <2>2
  <2>4. m \notin handled /\ q.todo \cap handled' = {}
    BY <1>2, <1>3, <2>1 DEF ReplyOK, m
  <2>5. Alone' /\ KillInv'
    <3>1. CRead \notin ToLaunch /\ Over \notin ToLaunch
      BY Kinds DEF Early
    <3>2. \A a \in Actors' : scripts'[a] \notin ToLaunch
      BY <1>5, <1>6, <2>3, <3>1
    <3>3. Alone'
      BY <1>5, <2>3 DEF Alone
    <3>4. QED BY <3>2, <3>3 DEF KillInv
  <2>6. ChildInv'
    <3>1. loop = FALSE \/ work = FALSE
      BY <1>1, <1>4, <1>9 DEF TypeOK
    <3>2. \A v \in Ids' : scripts'[v] \in Early => v = w
      BY <1>5, <2>3, Rests, Facts, <1>1 DEF Early
    <3>3. QED BY <1>4, <1>6, <1>9, <3>1, <3>2, Rests DEF ChildInv
  <2>7. LiveInv' /\ PresentInv'
    BY <1>1, <1>2, <1>3, <1>4, <1>5, <1>6, <2>1, <2>3, Facts DEF Quiet, LiveInv, PresentInv, Live, Early
  <2>8. AddedInv'
    <3>1. added[m] = 0 /\ \A n \in Replies : added[n] \in {0, 1} /\ (added[n] = 1 => n \in handled)
      BY <1>3, <2>1, <2>4 DEF Quiet, AddedInv
    <3>2. ASSUME NEW v \in Ids, v # w, watchers'[v].pc = "resume"
          PROVE  Command(v)' \in handled' /\ scripts'[v] \notin {CRead, CMark}
      BY <1>1, <1>3, <1>5, <2>1, <2>3, <3>2, Rests, Facts DEF Quiet, AddedInv, Command, Rec
    <3>3. Command(w)' = m
      BY <1>2, <1>5 DEF Command, Rec
    <3>4. QED BY <1>3, <1>4, <1>5, <3>1, <3>2, <3>3 DEF AddedInv
  <2>9. ReplyInv'
    BY <1>2, <1>4, <1>5, <2>1, <2>4 DEF ReplyInv, ReplyOK
  <2>10. EventInv'
    <3>1. EventOK(q, scripts[w])
      BY <1>1, <1>2, <1>3, <2>1, ReadsOn, EventKept
    <3>2. scripts[w] # CKill /\ scripts[0] # CKill /\ scripts'[0] # CKill
      BY <1>1, <2>2, <2>3, Rests, Facts
    <3>3. QED BY <1>4, <1>5, <2>1, <3>1, <3>2 DEF EventInv, EventOK, Unread, ReadFrom, Settled
  <2>11. QED BY <2>5, <2>6, <2>7, <2>8, <2>9, <2>10 DEF Quiet
<1>10. QED BY <1>7, <1>8, <1>9 DEF Inv

(* One that fails past its kill clashes with what it has launched.         *)
LEMMA ResumeFailedStep == ASSUME Inv, NEW w \in Ids, ResumeFailed(w) PROVE Inv'
<1> DEFINE r == watchers[w]
           q == NextCommand(r)
<1>1. TypeOK /\ ScriptInv /\ CursorInv /\ r \in Record /\ CursorOK(r) /\ w \in Actors /\ w # 0
  BY Facts DEF Inv, CursorInv
<1>2. /\ q \in Record /\ q.pc = "apply" /\ q.todo = r.todo
      /\ q.cursor = r.cursor /\ q.waiting = r.waiting
  BY <1>1 DEF NextCommand, Record, None
<1>3. Set(w, q) /\ r.pc = "resume" /\ Live(w) /\ scripts[w] # Over
  BY DEF ResumeFailed, Rec, Live, Over
<1>4. /\ UNCHANGED <<constraints, handled, added, loop, work, owed, events, mail, pidFile, stopped>>
      /\ status' = "human_needed"
      /\ snapshot' \in [Actors -> SUBSET Replies]
      /\ scripts' = [scripts EXCEPT ![w] = Over]
      /\ clash' \in BOOLEAN /\ (~clash' => ~clash /\ pidFile = w)
  BY <1>1 DEF ResumeFailed, jobv, TypeOK, Over
<1> HIDE DEF q
<1>5. /\ watchers' \in Seq(Record) /\ Len(watchers') = Len(watchers)
      /\ Ids' = Ids /\ Actors' = Actors /\ watchers'[w] = q
      /\ \A v \in Ids : v # w => watchers'[v] = watchers[v]
  BY <1>1, <1>2, <1>3, SetRec
<1>6. /\ scripts' \in [Actors -> Seq({"read", "mark", "kill", "launch", "plan"})]
      /\ scripts'[w] = Over /\ \A a \in Actors : a # w => scripts'[a] = scripts[a]
  BY <1>1, <1>4, RestTypes DEF TypeOK, CliRests
<1>7. TypeOK'
  BY <1>1, <1>3, <1>4, <1>5, <1>6 DEF TypeOK
<1>8. ScriptInv' /\ CursorInv'
  <2>1. CursorInv'
    BY <1>1, <1>2, <1>5 DEF CursorInv, CursorOK
  <2>2. scripts'[0] = scripts[0] /\ scripts'[w] \in CliRests
    BY <1>1, <1>6, Facts DEF CliRests
  <2>3. \A v \in Ids : v # w => scripts'[v] = scripts[v] /\ watchers'[v] = watchers[v]
    BY <1>1, <1>5, <1>6, Facts
  <2>4. QED BY <1>1, <1>2, <1>3, <1>5, <1>6, <2>1, <2>2, <2>3 DEF ScriptInv
<1>9. ASSUME ~clash' PROVE Quiet'
  <2>1. Quiet /\ w = pidFile /\ pidFile # 0 /\ scripts[w] \in Early
    BY <1>1, <1>3, <1>4, <1>9 DEF Inv, Quiet, LiveInv
  <2>2. \A a \in Actors : scripts'[a] = Over
    BY <1>1, <1>3, <1>6, <2>1 DEF Quiet, Alone
  <2>3. scripts[0] = Over /\ scripts[0] # CKill
    BY <1>1, <1>6, <2>2, Rests, Facts
  <2>4. \A a \in Actors' : scripts'[a] \notin Early \cup ToLaunch
    BY <1>5, <2>2, Rests DEF Early, ToLaunch
  <2>5. Alone' /\ KillInv' /\ ChildInv'
    BY <1>1, <1>5, <2>2, <2>4, Facts DEF Alone, KillInv, ChildInv
  <2>6. LiveInv' /\ PresentInv'
    BY <1>1, <1>2, <1>3, <1>4, <1>5, <1>6, <2>1, Facts DEF Quiet, LiveInv, PresentInv, Live
  <2>7. AddedInv'
    <3>1. ASSUME NEW v \in Ids', watchers'[v].pc = "resume"
          PROVE  Command(v)' \in handled' /\ scripts'[v] \notin {CRead, CMark}
      <4>1. v \in Ids /\ v # w /\ watchers'[v] = watchers[v]
        BY <1>2, <1>5, <3>1
      <4>2. QED BY <1>1, <1>4, <1>5, <2>1, <2>4, <3>1, <4>1, Facts DEF Quiet, AddedInv, Command, Rec, Early
    <3>2. QED BY <1>4, <2>1, <3>1 DEF AddedInv, Quiet
  <2>8. ReplyInv'
    BY <1>2, <1>3, <1>4, <1>5, <2>1 DEF Quiet, ReplyInv, ReplyOK
  <2>9. EventInv'
    <3>1. EventOK(r, scripts[w]) /\ status # "ended"
      BY <2>1 DEF Quiet, EventInv, ChildInv
    <3>2. \A s \in Streams : Unread(q, s) => Unread(r, s)
      BY <1>1, <1>2, <1>3, ReadsOn
    <3>3. owed # "end" /\ ~Unread(q, "end")
      BY <2>3, <3>1, <3>2 DEF EventOK, Settled, Streams
    <3>4. QED BY <1>4, <1>5, <2>1, <3>3 DEF EventInv, EventOK, Unread, ReadFrom
  <2>10. QED BY <2>5, <2>6, <2>7, <2>8, <2>9 DEF Quiet
<1>10. QED BY <1>7, <1>8, <1>9 DEF Inv

-----------------------------------------------------------------------------
(* The steps of a resume.                                                  *)

LEMMA CliHeads ==
  ASSUME NEW s \in CliRests, s # Over
  PROVE  /\ Head(s) = "read" => s = CRead /\ Tail(s) = CMark
         /\ Head(s) = "mark" => s = CMark /\ Tail(s) = CKill
         /\ Head(s) = "kill" => s = CKill /\ Tail(s) = CLaunch
         /\ Head(s) = "launch" => s = CLaunch /\ Tail(s) = CPlan
         /\ Head(s) = "plan" => s = CPlan /\ Tail(s) = Over
BY Rests DEF CliRests

LEMMA GuiHeads ==
  ASSUME NEW s \in GuiRests
  PROVE  /\ Head(s) = "read" => s = GRead /\ Tail(s) = GMark
         /\ Head(s) = "mark" => s = GMark /\ Tail(s) = GPlan
         /\ Head(s) = "kill" => s = GKill /\ Tail(s) = GRead
         /\ Head(s) = "launch" => s = GLaunch /\ Tail(s) = Over
         /\ Head(s) = "plan" => s = GPlan /\ Tail(s) = GLaunch
BY Rests DEF GuiRests

LEMMA Heads ==
  ASSUME TypeOK, ScriptInv, NEW a \in Actors, scripts[a] # <<>>
  PROVE  LET s == scripts[a]
             t == Tail(s)
         IN  /\ s # Over /\ (a # 0 => a \in Ids /\ watchers[a].pc = "resume")
             /\ t \in CliRests \cup GuiRests /\ (a # 0 => t \in CliRests)
             /\ Head(s) = "read" => (s = CRead /\ t = CMark) \/ (a = 0 /\ s = GRead /\ t = GMark)
             /\ Head(s) = "mark" => (s = CMark /\ t = CKill) \/ (a = 0 /\ s = GMark /\ t = GPlan)
             /\ Head(s) = "kill" => (s = CKill /\ t = CLaunch) \/ (a = 0 /\ s = GKill /\ t = GRead)
             /\ Head(s) = "launch" => (s = CLaunch /\ t = CPlan) \/ (a = 0 /\ s = GLaunch /\ t = Over)
             /\ Head(s) = "plan" => (s = CPlan /\ t = Over) \/ (a = 0 /\ s = GPlan /\ t = GLaunch)
<1>1. scripts[a] # Over /\ (a # 0 => a \in Ids /\ watchers[a].pc = "resume")
  BY Facts DEF ScriptInv, Over
<1>2. scripts[a] \in CliRests \/ (a = 0 /\ scripts[a] \in GuiRests)
  BY Facts DEF ScriptInv
<1>3. CASE scripts[a] \in CliRests
  <2>1. Tail(scripts[a]) \in CliRests
    BY <1>1, <1>3, Rests DEF CliRests
  <2>2. QED BY <1>1, <1>3, <2>1, CliHeads
<1>4. CASE a = 0 /\ scripts[a] \in GuiRests
  <2>1. Tail(scripts[a]) \in CliRests \cup GuiRests
    BY <1>4, Rests DEF CliRests, GuiRests
  <2>2. QED BY <1>1, <1>4, <2>1, GuiHeads
<1>5. QED BY <1>2, <1>3, <1>4

(* Where nothing but a script goes on, its type and its owner remain.      *)
LEMMA ScriptSet ==
  ASSUME TypeOK, ScriptInv, CursorInv, NEW a \in Actors, NEW s \in CliRests \cup GuiRests,
         a # 0 => s \in CliRests /\ watchers[a].pc = "resume",
         scripts' = [scripts EXCEPT ![a] = s], UNCHANGED watchers
  PROVE  /\ scripts' \in [Actors -> Seq({"read", "mark", "kill", "launch", "plan"})]
         /\ Ids' = Ids /\ Actors' = Actors
         /\ scripts'[a] = s /\ \A b \in Actors : b # a => scripts'[b] = scripts[b]
         /\ ScriptInv' /\ CursorInv'
<1>1. s \in Seq({"read", "mark", "kill", "launch", "plan"})
  BY RestTypes
<1>2. /\ scripts' \in [Actors -> Seq({"read", "mark", "kill", "launch", "plan"})]
      /\ scripts'[a] = s /\ \A b \in Actors : b # a => scripts'[b] = scripts[b]
  BY <1>1 DEF TypeOK
<1>3. Ids' = Ids /\ Actors' = Actors
  BY DEF Ids, Actors
<1>4. scripts'[0] \in CliRests \cup GuiRests
  BY <1>2, Facts DEF ScriptInv
<1>5. ASSUME NEW w \in Ids
      PROVE  /\ scripts'[w] \in CliRests
             /\ scripts'[w] # Over => watchers[w].pc = "resume"
  BY <1>2, Facts DEF ScriptInv
<1>6. ScriptInv'
  BY <1>3, <1>4, <1>5 DEF ScriptInv
<1>7. CursorInv'
  BY <1>3 DEF CursorInv, CursorOK
<1>8. QED BY <1>2, <1>3, <1>6, <1>7

(* While one resume is under way the others are over.                      *)
LEMMA OthersOver ==
  ASSUME Alone, NEW a \in Actors, scripts[a] # Over
  PROVE  \A b \in Actors : b # a => scripts[b] = Over
BY DEF Alone

LEMMA OpReadStep == ASSUME Inv, NEW a \in Actors, OpRead(a) PROVE Inv'
<1> DEFINE s == scripts[a]
           t == Tail(s)
<1>1. TypeOK /\ ScriptInv /\ CursorInv
  BY DEF Inv
<1>2. /\ s # Over /\ (a # 0 => a \in Ids /\ watchers[a].pc = "resume")
      /\ t \in CliRests \cup GuiRests /\ (a # 0 => t \in CliRests)
      /\ (s = CRead /\ t = CMark) \/ (a = 0 /\ s = GRead /\ t = GMark)
  BY <1>1, Heads DEF OpRead, AtStep
<1>3. /\ scripts' = [scripts EXCEPT ![a] = t]
      /\ UNCHANGED <<status, constraints, handled, added, loop, work, owed, events, mail,
                     watchers, pidFile, stopped, clash>>
      /\ snapshot' \in [Actors -> SUBSET Replies]
  BY <1>1 DEF OpRead, AtStep, db, jobv, wvars, TypeOK
<1> HIDE DEF s, t
<1>4. /\ scripts' \in [Actors -> Seq({"read", "mark", "kill", "launch", "plan"})]
      /\ Ids' = Ids /\ Actors' = Actors
      /\ scripts'[a] = t /\ \A b \in Actors : b # a => scripts'[b] = scripts[b]
      /\ ScriptInv' /\ CursorInv'
  BY <1>1, <1>2, <1>3, ScriptSet
<1>5. TypeOK'
  BY <1>1, <1>3, <1>4 DEF TypeOK
<1>6. ASSUME ~clash PROVE Quiet'
  <2>1. Quiet /\ \A b \in Actors : b # a => scripts[b] = Over /\ scripts'[b] = Over
    BY <1>2, <1>4, <1>6, OthersOver DEF Inv, Quiet, s
  <2>2. /\ t # Over /\ t # CKill /\ s # CKill
        /\ (s \in Early <=> t \in Early) /\ (s \in ToLaunch <=> t \in ToLaunch)
        /\ (s \in {CRead, CMark} <=> t \in {CRead, CMark})
    BY <1>2, Rests, Kinds DEF Early, ToLaunch
  <2>3. Alone' /\ KillInv'
    BY <1>3, <1>4, <2>1, <2>2 DEF Quiet, Alone, KillInv, s
  <2>4. LiveInv' /\ ReplyInv' /\ AddedInv'
    BY <1>1, <1>3, <1>4, <2>1, <2>2, Facts
    DEF Quiet, LiveInv, Live, ReplyInv, ReplyOK, AddedInv, Command, Rec, s
  <2>5. ChildInv'
    BY <1>1, <1>3, <1>4, <2>1, <2>2, Facts DEF Quiet, ChildInv, s
  <2>6. EventInv'
    <3>1. \A b \in Actors : scripts'[b] = CKill <=> scripts[b] = CKill
      BY <1>4, <2>2 DEF s
    <3>2. QED
      BY <1>1, <1>3, <2>1, <3>1, Facts DEF Quiet, EventInv, EventOK, Unread, ReadFrom, Settled
  <2>7. PresentInv'
    BY <1>2, <1>4, <2>2 DEF PresentInv, Early, ToLaunch
  <2>8. QED BY <2>3, <2>4, <2>5, <2>6, <2>7 DEF Quiet
<1>7. QED BY <1>3, <1>4, <1>5, <1>6 DEF Inv

LEMMA OpMarkStep == ASSUME Inv, NEW a \in Actors, OpMark(a) PROVE Inv'
<1> DEFINE s == scripts[a]
           t == Tail(s)
           m == Command(a)
<1>1. TypeOK /\ ScriptInv /\ CursorInv
  BY DEF Inv
<1>2. /\ s # Over /\ (a # 0 => a \in Ids /\ watchers[a].pc = "resume" /\ m \in Replies)
      /\ t \in CliRests \cup GuiRests /\ (a # 0 => t \in CliRests)
      /\ (s = CMark /\ t = CKill) \/ (a = 0 /\ s = GMark /\ t = GPlan)
  BY <1>1, Heads DEF OpMark, AtStep, ScriptInv, Command, Rec
<1>3. /\ scripts' = [scripts EXCEPT ![a] = t]
      /\ UNCHANGED <<handled, loop, work, owed, events, mail, watchers, pidFile, stopped, clash>>
      /\ status' = "active"
      /\ snapshot' \in [Actors -> SUBSET Replies]
      /\ IF a = 0 THEN added' = added ELSE added' = [added EXCEPT ![m] = @ + 1]
  BY <1>1 DEF OpMark, AtStep, jobv, wvars, TypeOK
<1>4. constraints' \subseteq Replies
  BY <1>1, <1>2 DEF OpMark, TypeOK
<1> HIDE DEF s, t, m
<1>5. /\ scripts' \in [Actors -> Seq({"read", "mark", "kill", "launch", "plan"})]
      /\ Ids' = Ids /\ Actors' = Actors
      /\ scripts'[a] = t /\ \A b \in Actors : b # a => scripts'[b] = scripts[b]
      /\ ScriptInv' /\ CursorInv'
  BY <1>1, <1>2, <1>3, ScriptSet
<1>6. TypeOK'
  <2>1. added \in [Replies -> Nat] /\ (a # 0 => m \in Replies)
    BY <1>1, <1>2 DEF TypeOK
  <2>2. (added' = added) \/ (a # 0 /\ added' = [added EXCEPT ![m] = @ + 1])
    BY <1>3
  <2>3. added' \in [Replies -> Nat]
    BY <2>1, <2>2
  <2>4. QED BY <1>1, <1>3, <1>4, <1>5, <2>3 DEF TypeOK
<1>7. ASSUME ~clash PROVE Quiet'
  <2>1. Quiet /\ \A b \in Actors : b # a => scripts[b] = Over /\ scripts'[b] = Over
    BY <1>2, <1>5, <1>7, OthersOver DEF Inv, Quiet, s
  <2>2. /\ t # Over /\ t \notin {CRead, CMark} /\ s # CKill
        /\ (s \in Early <=> t \in Early) /\ (s \in ToLaunch <=> t \in ToLaunch)
        /\ t \in Early => t = CKill
    BY <1>2, Kinds, Rests DEF Early, ToLaunch
  <2>3. \A b \in Actors' : scripts'[b] \in Early \cup ToLaunch => b = a
    BY <1>5, <2>1, Kinds
  <2>4. Alone' /\ KillInv'
    BY <1>3, <1>5, <2>1, <2>2, <2>3 DEF Quiet, Alone, KillInv, s
  <2>5. LiveInv' /\ ReplyInv'
    BY <1>1, <1>3, <1>5, <2>1, <2>2, Facts DEF Quiet, LiveInv, Live, ReplyInv, ReplyOK, s
  <2>6. ChildInv'
    BY <1>1, <1>3, <1>5, <2>1, <2>2, <2>3, Facts DEF Quiet, ChildInv, s
  <2>7. AddedInv'
    <3>1. \A n \in Replies : added[n] \in {0, 1} /\ (added[n] = 1 => n \in handled)
      BY <2>1 DEF Quiet, AddedInv
    <3>2. a # 0 => m \in handled /\ added[m] = 0
      BY <1>2, <2>1 DEF Quiet, AddedInv, m, s
    <3>3. \A n \in Replies : added'[n] \in {0, 1} /\ (added'[n] = 1 => n \in handled)
      <4>1. CASE a = 0
        BY <1>3, <3>1, <4>1
      <4>2. CASE a # 0
        BY <1>1, <1>2, <1>3, <3>1, <3>2, <4>2 DEF TypeOK
      <4>3. QED BY <4>1, <4>2
    <3>4. \A v \in Ids : scripts'[v] \notin {CRead, CMark}
      BY <1>1, <1>5, <2>1, <2>2, Kinds, Facts DEF Early
    <3>5. \A v \in Ids : watchers[v].pc = "resume" => Command(v) \in handled
      BY <2>1 DEF Quiet, AddedInv
    <3>6. QED BY <1>3, <1>5, <3>3, <3>4, <3>5 DEF AddedInv, Command, Rec
  <2>8. EventInv'
    <3>1. CASE t = GPlan
      <4>1. pidFile = 0
        BY <1>2, <2>1, <2>2, <3>1, Kinds, Rests DEF Quiet, KillInv, ToLaunch, Early, s
      <4>2. QED BY <1>3, <4>1 DEF EventInv
    <3>2. CASE a = 0 /\ t = CKill
      BY <1>5, <3>2 DEF EventInv, EventOK
    <3>3. CASE a # 0 /\ t = CKill
      <4>1. a = pidFile /\ status = "human_needed"
        BY <1>2, <2>1, <2>2, <3>3, Kinds DEF Quiet, LiveInv, ChildInv, Live, Early, s
      <4>2. scripts[0] = Over /\ Over # CKill
        BY <1>1, <2>1, <3>3, Kinds, Facts
      <4>3. pidFile # 0 => owed # "end" /\ ~Unread(watchers[pidFile], "end")
        BY <2>1, <4>1, <4>2 DEF Quiet, EventInv, EventOK, Settled
      <4>4. QED BY <1>3, <1>5, <3>3, <4>1, <4>3 DEF EventInv, EventOK, Unread, ReadFrom
    <3>4. QED BY <1>2, <3>1, <3>2, <3>3
  <2>9. PresentInv'
    BY <1>2, <1>5 DEF PresentInv, Early, ToLaunch
  <2>10. QED BY <2>4, <2>5, <2>6, <2>7, <2>8, <2>9 DEF Quiet
<1>8. QED BY <1>3, <1>5, <1>6, <1>7 DEF Inv

(* The kill takes the watcher of the pid file and what it has begun, never *)
(* the one that began the kill.                                            *)
LEMMA OpKillStep == ASSUME Inv, NEW a \in Actors, OpKill(a) PROVE Inv'
<1> DEFINE s == scripts[a]
           t == Tail(s)
           V == Victims(a)
<1>1. TypeOK /\ ScriptInv /\ CursorInv
  BY DEF Inv
<1>2. /\ s # Over /\ (a # 0 => a \in Ids /\ watchers[a].pc = "resume")
      /\ t \in CliRests \cup GuiRests /\ (a # 0 => t \in CliRests)
      /\ (s = CKill /\ t = CLaunch) \/ (a = 0 /\ s = GKill /\ t = GRead)
  BY <1>1, Heads DEF OpKill
<1>3. /\ UNCHANGED <<status, constraints, handled, added, work, events, mail, stopped, clash>>
      /\ pidFile' = 0 /\ loop' = FALSE /\ owed' = None
  BY DEF OpKill, Kill, db
<1>3a. /\ watchers' = [w \in Ids |-> IF w \in V THEN Gone ELSE watchers[w]]
       /\ scripts' = [b \in Actors |-> IF b = a THEN t ELSE IF b \in V THEN Over ELSE scripts[b]]
  BY DEF OpKill, Kill, Over
<1>4. snapshot' \in [Actors -> SUBSET Replies]
  BY <1>1 DEF OpKill, TypeOK
<1>5. /\ a \notin V /\ 0 \notin V
      /\ \A w \in Ids : w = pidFile /\ w \notin V => w = a
  BY <1>1, Facts DEF Victims
<1> HIDE DEF s, t, V
<1>6. watchers \in Seq(Record) /\ Len(watchers) \in Nat /\ Ids = 1 .. Len(watchers)
  BY <1>1, Facts DEF TypeOK
<1>7. watchers' \in Seq(Record) /\ Len(watchers') = Len(watchers)
  <2>1. \A w \in Ids : watchers[w] \in Record
    BY <1>1, Facts
  <2>2. \A w \in Ids : (IF w \in V THEN Gone ELSE watchers[w]) \in Record
    BY <2>1, StartedOK
  <2>3. watchers' \in [1 .. Len(watchers) -> Record] /\ DOMAIN watchers' = 1 .. Len(watchers)
    BY <1>3a, <1>6, <2>2
  <2>4. QED BY <1>6, <2>3
<1>8. /\ Ids' = Ids /\ Actors' = Actors
      /\ \A w \in Ids : watchers'[w] = IF w \in V THEN Gone ELSE watchers[w]
  BY <1>3a, <1>7 DEF Ids, Actors
<1>9. /\ scripts' \in [Actors -> Seq({"read", "mark", "kill", "launch", "plan"})]
      /\ scripts'[a] = t /\ \A b \in Actors : b # a => scripts'[b] = IF b \in V THEN Over ELSE scripts[b]
  <2> DEFINE S == Seq({"read", "mark", "kill", "launch", "plan"})
  <2>1. t \in S /\ Over \in S /\ scripts \in [Actors -> S]
    BY <1>1, <1>2, RestTypes DEF TypeOK, CliRests
  <2> HIDE DEF S
  <2>2. scripts' \in [Actors -> S]
    BY <1>3a, <2>1
  <2>3. scripts'[a] = t /\ \A b \in Actors : b # a => scripts'[b] = IF b \in V THEN Over ELSE scripts[b]
    BY <1>3a
  <2>4. QED BY <2>2, <2>3 DEF S
<1>10. TypeOK'
  <2>1. pidFile' \in 0 .. Len(watchers')
    <3>1. Len(watchers') \in Nat
      BY <1>6, <1>7
    <3>2. QED BY <1>3, <3>1
  <2>2. UNCHANGED <<status, constraints, handled, added, work, events, mail, stopped, clash>>
    BY <1>3
  <2>3. loop' \in BOOLEAN /\ owed' \in Streams \cup {None}
    BY <1>3
  <2>4. QED BY <1>1, <1>4, <1>7, <1>8, <1>9, <2>1, <2>2, <2>3 DEF TypeOK
<1>11. ScriptInv' /\ CursorInv'
  <2>1. CursorInv'
    BY <1>1, <1>8, StartedOK DEF CursorInv, CursorOK
  <2>2. scripts'[0] \in CliRests \cup GuiRests
    BY <1>1, <1>2, <1>5, <1>9, Facts DEF ScriptInv
  <2>3. ASSUME NEW w \in Ids
        PROVE  /\ scripts'[w] \in CliRests
               /\ scripts'[w] # Over => watchers'[w].pc = "resume"
               /\ watchers'[w].pc \in {"write", "resume"} => watchers'[w].command \in Replies
    <3>1. CASE w \in V
      BY <1>5, <1>8, <1>9, <3>1, StartedOK, <1>1, Facts DEF CliRests
    <3>2. CASE w \notin V
      BY <1>1, <1>2, <1>8, <1>9, <3>2, Facts DEF ScriptInv
    <3>3. QED BY <3>1, <3>2
  <2>4. QED BY <1>8, <2>1, <2>2, <2>3 DEF ScriptInv
<1>12. ASSUME ~clash PROVE Quiet'
  <2>1. Quiet /\ \A b \in Actors : b # a => scripts[b] = Over /\ scripts'[b] = Over
    BY <1>2, <1>9, <1>12, OthersOver DEF Inv, Quiet, s
  <2>2. t \in ToLaunch /\ t \notin Early /\ Over \notin Early
    BY <1>2, Kinds DEF ToLaunch
  <2>3. \A b \in Actors' : scripts'[b] \notin Early
    BY <1>8, <1>9, <2>1, <2>2
  <2>4. Alone' /\ KillInv' /\ ChildInv'
    BY <1>1, <1>3, <1>8, <2>1, <2>3, Facts DEF Alone, KillInv, ChildInv
  <2>5. LiveInv'
    <3>1. ASSUME NEW w \in Ids, Live(w)' PROVE watchers'[w].pc = "resume"
      <4>1. w \notin V /\ watchers'[w] = watchers[w] /\ Live(w)
        BY <1>8, <3>1, StartedOK DEF Live
      <4>2. CASE w = pidFile
        BY <1>1, <1>2, <1>5, <4>1, <4>2, Facts
      <4>3. CASE w # pidFile
        BY <2>1, <4>1, <4>3 DEF Quiet, LiveInv
      <4>4. QED BY <4>2, <4>3
    <3>2. QED BY <1>1, <1>3, <1>8, <2>3, <3>1, Facts DEF LiveInv
  <2>6. AddedInv'
    <3>1. ASSUME NEW w \in Ids, watchers'[w].pc = "resume"
          PROVE  Command(w)' \in handled' /\ scripts'[w] \notin {CRead, CMark}
      <4>1. watchers'[w] = watchers[w]
        BY <1>8, <3>1, StartedOK
      <4>2. QED BY <1>1, <1>3, <1>8, <2>1, <2>3, <3>1, <4>1, Facts DEF Quiet, AddedInv, Command, Rec, Early
    <3>2. QED BY <1>3, <1>8, <2>1, <3>1 DEF Quiet, AddedInv
  <2>7. ReplyInv' /\ EventInv'
    BY <1>3 DEF ReplyInv, EventInv
  <2>8. PresentInv'
    BY <1>8, <1>9, <2>2 DEF PresentInv
  <2>9. QED BY <2>4, <2>5, <2>6, <2>7, <2>8 DEF Quiet
<1>13. QED BY <1>3, <1>10, <1>11, <1>12 DEF Inv

(* The GUI finds no watcher to adopt: it has killed the one of the file.   *)
LEMMA OpAdoptStep ==
  ASSUME Inv, NEW a \in Actors, Adopt(a), loop' = TRUE, stopped' = FALSE,
         UNCHANGED <<db, work, owed, events, mail, clash, count>>
  PROVE  Inv'
<1>1. TypeOK /\ ScriptInv /\ CursorInv
  BY DEF Inv
<1>2. /\ a = 0 /\ scripts[a] = GLaunch /\ pidFile # 0 /\ GLaunch \in ToLaunch
      /\ scripts' = [scripts EXCEPT ![a] = Over]
  BY Rests DEF Adopt, Adopts, AtStep, GLaunch, ToLaunch
<1>3. clash = TRUE
  BY <1>1, <1>2 DEF Inv, Quiet, KillInv, TypeOK
<1>4. UNCHANGED <<status, constraints, handled, added, work, owed, events, mail, clash, watchers, pidFile, snapshot>>
  BY DEF Adopt, db
<1>5. GLaunch # Over /\ Over \in CliRests
  BY Rests DEF CliRests
<1>6. /\ scripts' \in [Actors -> Seq({"read", "mark", "kill", "launch", "plan"})]
      /\ Ids' = Ids /\ Actors' = Actors /\ ScriptInv' /\ CursorInv'
  BY <1>1, <1>2, <1>4, <1>5, ScriptSet, Facts
<1>7. TypeOK'
  BY <1>1, <1>4, <1>6 DEF TypeOK
<1>8. QED BY <1>3, <1>4, <1>6, <1>7 DEF Inv

LEMMA OpPlanStep == ASSUME Inv, NEW a \in Actors, OpPlan(a) PROVE Inv'
<1> DEFINE s == scripts[a]
           t == Tail(s)
<1>1. TypeOK /\ ScriptInv /\ CursorInv
  BY DEF Inv
<1>2. /\ s # Over /\ (a # 0 => a \in Ids /\ watchers[a].pc = "resume")
      /\ t \in CliRests \cup GuiRests /\ (a # 0 => t \in CliRests)
      /\ (s = CPlan /\ t = Over) \/ (a = 0 /\ s = GPlan /\ t = GLaunch)
  BY <1>1, Heads DEF OpPlan, AtStep
<1>3. /\ scripts' = [scripts EXCEPT ![a] = t] /\ work' = TRUE
      /\ UNCHANGED <<status, constraints, handled, added, loop, owed, events, mail,
                     watchers, pidFile, stopped, clash, snapshot>>
  BY DEF OpPlan, AtStep, db, wvars
<1> HIDE DEF s, t
<1>4. /\ scripts' \in [Actors -> Seq({"read", "mark", "kill", "launch", "plan"})]
      /\ Ids' = Ids /\ Actors' = Actors
      /\ scripts'[a] = t /\ \A b \in Actors : b # a => scripts'[b] = scripts[b]
      /\ ScriptInv' /\ CursorInv'
  BY <1>1, <1>2, <1>3, ScriptSet
<1>5. TypeOK'
  BY <1>1, <1>3, <1>4 DEF TypeOK
<1>6. ASSUME ~clash PROVE Quiet'
  <2>1. Quiet /\ \A b \in Actors : b # a => scripts[b] = Over /\ scripts'[b] = Over
    BY <1>2, <1>4, <1>6, OthersOver DEF Inv, Quiet, s
  <2>2. /\ t \notin Early /\ s \notin Early /\ s # CKill /\ t # CKill
        /\ t \in ToLaunch => s \in ToLaunch
        /\ s \in ToLaunch => t \in ToLaunch
        /\ s # GKill
    BY <1>2, Kinds DEF Early, ToLaunch
  <2>3. \A b \in Actors' : scripts'[b] \notin Early
    BY <1>4, <2>1, <2>2, Kinds
  <2>4. ChildInv' /\ Alone'
    BY <1>1, <1>4, <2>1, <2>3, Facts DEF Alone, ChildInv
  <2>5. KillInv'
    <3>1. \A b \in Actors' : scripts'[b] \in ToLaunch => scripts[b] \in ToLaunch /\ b \in Actors
      BY <1>4, <2>2 DEF s
    <3>2. QED BY <1>3, <2>1, <3>1 DEF Quiet, KillInv
  <2>6. LiveInv' /\ ReplyInv'
    <3>1. \A b \in Actors : scripts[b] \notin Early
      BY <2>1, <2>2, Kinds DEF s
    <3>2. QED BY <1>1, <1>3, <1>4, <2>1, <2>3, <3>1, Facts DEF Quiet, LiveInv, Live, ReplyInv, ReplyOK
  <2>7. AddedInv'
    BY <1>1, <1>3, <1>4, <2>1, <2>3, Facts DEF Quiet, AddedInv, Command, Rec, Early
  <2>8. EventInv'
    <3>1. \A b \in Actors : scripts'[b] # CKill /\ scripts[b] # CKill
      BY <1>4, <2>1, <2>2, Kinds DEF s
    <3>2. QED BY <1>1, <1>3, <2>1, <3>1, Facts DEF Quiet, EventInv, EventOK, Unread, ReadFrom, Settled
  <2>9. PresentInv'
    <3>1. \A b \in Actors : scripts[b] \in Early \cup {GKill} \cup ToLaunch =>
            b = a /\ t \in ToLaunch
      BY <2>1, <2>2, Kinds DEF s
    <3>2. QED BY <1>3, <1>4, <2>1, <3>1 DEF Quiet, PresentInv, Live, Settled
  <2>10. QED BY <2>4, <2>5, <2>6, <2>7, <2>8, <2>9 DEF Quiet
<1>7. QED BY <1>3, <1>4, <1>5, <1>6 DEF Inv

(* The new watcher comes into a pid file a kill has emptied.               *)
LEMMA OpLaunchStep ==
  ASSUME Inv, NEW a \in Actors, Launch(a), loop' = TRUE, stopped' = FALSE,
         UNCHANGED <<db, work, owed, events, mail, clash, count>>
  PROVE  Inv'
<1> DEFINE s == scripts[a]
           t == Tail(s)
           W == NewId
           S == Seq({"read", "mark", "kill", "launch", "plan"})
<1>1. TypeOK /\ ScriptInv /\ CursorInv
  BY DEF Inv
<1>2. /\ s # Over /\ (a # 0 => a \in Ids /\ watchers[a].pc = "resume")
      /\ t \in CliRests \cup GuiRests /\ (a # 0 => t \in CliRests)
      /\ (s = CLaunch /\ t = CPlan) \/ (a = 0 /\ s = GLaunch /\ t = Over)
  BY <1>1, Heads DEF Launch
<1>3. /\ UNCHANGED <<status, constraints, handled, added, work, owed, events, mail, clash>>
      /\ pidFile' = W
  BY DEF Launch, db
<1>4. /\ watchers' = Append(watchers, Started)
      /\ scripts' = [b \in Actors \cup {W} |-> IF b = W THEN Over ELSE IF b = a THEN t ELSE scripts[b]]
  BY DEF Launch, Over
<1>5. W = Len(watchers) + 1 /\ W # 0 /\ W \notin Ids /\ W \notin Actors
  BY <1>1, Facts DEF NewId, Actors
<1>6. snapshot' \in [Actors \cup {W} -> SUBSET Replies]
  BY <1>1 DEF Launch, TypeOK
<1> HIDE DEF s, t, W, S
<1>7. /\ watchers' \in Seq(Record) /\ Len(watchers') = W /\ W \in Nat
      /\ watchers'[W] = Started /\ \A w \in Ids : watchers'[w] = watchers[w]
  <2>1. watchers \in Seq(Record) /\ Ids = 1 .. Len(watchers)
    BY <1>1, Facts DEF TypeOK
  <2>2. QED BY <1>4, <1>5, <2>1, StartedOK
<1>8. Ids' = Ids \cup {W} /\ Actors' = Actors \cup {W}
  <2>1. Ids = 1 .. Len(watchers) /\ Len(watchers) \in Nat /\ Ids' = 1 .. W
    BY <1>1, <1>7, Facts DEF Ids
  <2>2. 1 .. W = Ids \cup {W}
    BY <1>5, <2>1
  <2>3. QED BY <2>1, <2>2 DEF Actors
<1>9. /\ scripts' \in [Actors' -> S]
      /\ scripts'[W] = Over /\ scripts'[a] = t
      /\ \A b \in Actors : b # a => scripts'[b] = scripts[b]
  <2>1. t \in S /\ Over \in S /\ scripts \in [Actors -> S]
    BY <1>1, <1>2, RestTypes DEF TypeOK, CliRests, S
  <2>2. scripts' \in [Actors \cup {W} -> S]
    BY <1>4, <2>1
  <2>3. /\ scripts'[W] = Over /\ scripts'[a] = t
        /\ \A b \in Actors : b # a => scripts'[b] = scripts[b]
    BY <1>4, <1>5
  <2>4. QED BY <1>8, <2>2, <2>3
<1>10. TypeOK'
  <2>1. pidFile' \in 0 .. Len(watchers') /\ snapshot' \in [Actors' -> SUBSET Replies]
    BY <1>3, <1>6, <1>7, <1>8
  <2>2. watchers' \in Seq(Record) /\ scripts' \in [Actors' -> S]
    BY <1>7, <1>9
  <2>3. QED BY <1>1, <1>3, <2>1, <2>2 DEF TypeOK, S
<1>11. ScriptInv' /\ CursorInv'
  <2>1. CursorInv'
    BY <1>1, <1>7, <1>8, StartedOK DEF CursorInv, CursorOK
  <2>2. scripts'[0] \in CliRests \cup GuiRests
    BY <1>1, <1>2, <1>9, Facts DEF ScriptInv
  <2>3. ASSUME NEW w \in Ids
        PROVE  /\ scripts'[w] \in CliRests
               /\ scripts'[w] # Over => watchers[w].pc = "resume"
    BY <1>1, <1>2, <1>9, Facts DEF ScriptInv
  <2>4. scripts'[W] \in CliRests /\ scripts'[W] = Over /\ watchers'[W].pc = "start"
    BY <1>7, <1>9, StartedOK DEF CliRests
  <2>5. QED BY <1>1, <1>7, <1>8, <2>1, <2>2, <2>3, <2>4 DEF ScriptInv
<1>12. ASSUME ~clash PROVE Quiet'
  <2>1. Quiet /\ \A b \in Actors : b # a => scripts[b] = Over /\ scripts'[b] = Over
    BY <1>2, <1>9, <1>12, OthersOver DEF Inv, Quiet, s
  <2>2. s \in ToLaunch /\ t \notin Early \cup ToLaunch /\ Over \notin Early \cup ToLaunch
    BY <1>2, Kinds DEF ToLaunch
  <2>3. pidFile = 0 /\ owed' = None
    BY <1>3, <2>1, <2>2 DEF Quiet, KillInv, s
  <2>4. \A b \in Actors' : scripts'[b] \notin Early \cup ToLaunch /\ (b # a => scripts'[b] = Over)
    BY <1>8, <1>9, <2>1, <2>2
  <2>5. Alone' /\ KillInv' /\ ChildInv'
    <3>1. Alone'
      BY <2>4 DEF Alone
    <3>2. KillInv'
      BY <2>4 DEF KillInv
    <3>3. Ids' \subseteq Actors'
      BY DEF Ids, Actors
    <3>4. ChildInv'
      BY <2>4, <3>3 DEF ChildInv
    <3>5. QED BY <3>1, <3>2, <3>4
  <2>6. LiveInv'
    <3>1. ASSUME NEW w \in Ids, Live(w)' PROVE watchers'[w].pc = "resume" /\ w # W /\ scripts'[w] \notin Early
      BY <1>1, <1>5, <1>7, <1>8, <2>1, <2>3, <2>4, <3>1, Facts DEF Quiet, LiveInv, Live
    <3>2. QED BY <1>3, <1>7, <1>8, <3>1, StartedOK DEF LiveInv
  <2>7. AddedInv'
    <3>1. ASSUME NEW w \in Ids, watchers'[w].pc = "resume"
          PROVE  Command(w)' \in handled' /\ scripts'[w] \notin {CRead, CMark}
      BY <1>1, <1>3, <1>7, <1>8, <2>1, <2>4, <3>1, Facts DEF Quiet, AddedInv, Command, Rec, Early
    <3>2. QED BY <1>3, <1>7, <1>8, <2>1, <3>1, StartedOK DEF Quiet, AddedInv
  <2>8. ReplyInv'
    BY <1>3, <1>7, StartedOK DEF ReplyInv, ReplyOK
  <2>9. EventInv'
    <3>1. ~Unread(Started, "end") /\ ~Unread(Started, "human")
      BY <1>1, GoneOK DEF Streams
    <3>2. ~Unread(watchers[pidFile], "end")' /\ ~Unread(watchers[pidFile], "human")'
      BY <1>3, <1>7, <3>1 DEF Unread, ReadFrom
    <3>3. QED BY <1>3, <1>7, <2>3, <3>2, StartedOK DEF EventInv, EventOK, None
  <2>10. PresentInv'
    BY <1>3, <1>5, <1>7, StartedOK DEF PresentInv, Live
  <2>11. QED BY <2>5, <2>6, <2>7, <2>8, <2>9, <2>10 DEF Quiet
<1>13. QED BY <1>3, <1>10, <1>11, <1>12 DEF Inv

-----------------------------------------------------------------------------
(* The operator, the job and the world outside.                            *)

LEMMA BeginManualStep == ASSUME Inv, NEW kind \in ManualKinds, BeginManual(kind) PROVE Inv'
<1> DEFINE t == IF kind = "cli" THEN CRead ELSE GKill
<1>1. TypeOK /\ ScriptInv /\ CursorInv /\ 0 \in Actors
  BY Facts DEF Inv
<1>2. /\ t \in {CRead, GKill} /\ t \in CliRests \cup GuiRests
      /\ scripts[0] = Over /\ scripts' = [scripts EXCEPT ![0] = t]
  BY Rests DEF BeginManual, CliRests, GuiRests, Over
<1>3. /\ UNCHANGED <<status, constraints, handled, added, loop, work, owed, events, mail,
                     watchers, pidFile, stopped, snapshot>>
      /\ clash' \in BOOLEAN /\ (~clash' => ~clash /\ ~Busy)
  BY <1>1 DEF BeginManual, db, jobv, wvars, TypeOK
<1> HIDE DEF t
<1>4. /\ scripts' \in [Actors -> Seq({"read", "mark", "kill", "launch", "plan"})]
      /\ Ids' = Ids /\ Actors' = Actors
      /\ scripts'[0] = t /\ \A b \in Actors : b # 0 => scripts'[b] = scripts[b]
      /\ ScriptInv' /\ CursorInv'
  BY <1>1, <1>2, <1>3, ScriptSet
<1>5. TypeOK'
  BY <1>1, <1>3, <1>4 DEF TypeOK
<1>6. ASSUME ~clash' PROVE Quiet'
  <2>1. Quiet /\ \A b \in Actors : scripts[b] = Over
    BY <1>3, <1>6 DEF Inv, Busy, Over
  <2>2. /\ \A b \in Actors : b # 0 => scripts'[b] = Over
        /\ t \notin ToLaunch /\ Over \notin ToLaunch /\ Over \notin Early /\ Over # CKill
    BY <1>2, <1>4, <2>1, Kinds DEF Early
  <2>3. Alone' /\ KillInv'
    <3>1. \A b \in Actors' : scripts'[b] \notin ToLaunch
      BY <1>4, <2>2
    <3>2. QED BY <1>4, <2>2, <3>1 DEF Alone, KillInv
  <2>4. LiveInv' /\ ChildInv' /\ AddedInv' /\ ReplyInv'
    <3>1. \A w \in Ids : w \in Actors /\ w # 0 /\ scripts'[w] = Over /\ scripts[w] = Over
      BY <1>1, <2>1, <2>2, Facts
    <3>2. LiveInv'
      BY <1>3, <1>4, <2>1, <2>2, <3>1 DEF Quiet, LiveInv, Live, Rec
    <3>3. ChildInv'
      BY <1>4, <2>2, <3>1 DEF ChildInv
    <3>4. AddedInv'
      BY <1>3, <1>4, <2>1, <2>2, <3>1, Kinds DEF Quiet, AddedInv, Command, Rec, Early
    <3>5. ReplyInv'
      BY <1>3, <2>1 DEF Quiet, ReplyInv, ReplyOK
    <3>6. QED BY <3>2, <3>3, <3>4, <3>5
  <2>5. EventInv'
    <3>1. scripts[0] # CKill /\ (pidFile # 0 => scripts[pidFile] = scripts'[pidFile])
      BY <1>1, <1>2, <1>4, <2>2, Facts
    <3>2. QED BY <1>1, <1>3, <2>1, <3>1, Facts DEF Quiet, EventInv, EventOK, Unread, ReadFrom, Settled
  <2>6. PresentInv'
    BY <1>1, <1>2, <1>4 DEF PresentInv, Early
  <2>7. QED BY <2>3, <2>4, <2>5, <2>6 DEF Quiet
<1>7. QED BY <1>4, <1>5, <1>6 DEF Inv

LEMMA StopStep == ASSUME Inv, Stop PROVE Inv'
<1> DEFINE V == Victims(0)
           S == Seq({"read", "mark", "kill", "launch", "plan"})
<1>1. TypeOK /\ ScriptInv /\ CursorInv
  BY DEF Inv
<1>2. /\ UNCHANGED <<constraints, handled, added, work, events, mail, clash>>
      /\ status' = "human_needed" /\ stopped' = TRUE
      /\ pidFile' = 0 /\ loop' = FALSE /\ owed' = None
  BY DEF Stop, Kill
<1>3. /\ watchers' = [w \in Ids |-> IF w \in V THEN Gone ELSE watchers[w]]
      /\ scripts' = [a \in Actors |-> IF a \in V THEN Over ELSE scripts[a]]
  BY DEF Stop, Kill, Over
<1>4. snapshot' \in [Actors -> SUBSET Replies]
  BY <1>1 DEF Stop, TypeOK
<1>5. 0 \notin V /\ \A w \in Ids : w = pidFile => w \in V
  BY <1>1, Facts DEF Victims
<1> HIDE DEF V, S
<1>6. watchers \in Seq(Record) /\ Len(watchers) \in Nat /\ Ids = 1 .. Len(watchers)
  BY <1>1, Facts DEF TypeOK
<1>7. watchers' \in Seq(Record) /\ Len(watchers') = Len(watchers)
  <2>1. \A w \in Ids : (IF w \in V THEN Gone ELSE watchers[w]) \in Record
    BY <1>1, Facts, StartedOK
  <2>2. watchers' \in [1 .. Len(watchers) -> Record] /\ DOMAIN watchers' = 1 .. Len(watchers)
    BY <1>3, <1>6, <2>1
  <2>3. QED BY <1>6, <2>2
<1>8. /\ Ids' = Ids /\ Actors' = Actors
      /\ \A w \in Ids : watchers'[w] = IF w \in V THEN Gone ELSE watchers[w]
  BY <1>3, <1>7 DEF Ids, Actors
<1>9. /\ scripts' \in [Actors -> S]
      /\ \A a \in Actors : scripts'[a] = IF a \in V THEN Over ELSE scripts[a]
  <2>1. Over \in S /\ scripts \in [Actors -> S]
    BY <1>1, RestTypes DEF TypeOK, CliRests, S
  <2>2. QED BY <1>3, <2>1
<1>10. TypeOK'
  <2>1. Len(watchers') \in Nat
    BY <1>6, <1>7
  <2>2. pidFile' \in 0 .. Len(watchers')
    BY <1>2, <2>1
  <2>3. loop' \in BOOLEAN /\ owed' \in Streams \cup {None}
    BY <1>2
  <2>4. QED BY <1>1, <1>2, <1>4, <1>7, <1>8, <1>9, <2>2, <2>3 DEF TypeOK, S
<1>11. ScriptInv' /\ CursorInv'
  <2>1. CursorInv'
    BY <1>1, <1>8, StartedOK DEF CursorInv, CursorOK
  <2>2. scripts'[0] \in CliRests \cup GuiRests
    BY <1>1, <1>5, <1>9, Facts DEF ScriptInv
  <2>3. ASSUME NEW w \in Ids
        PROVE  /\ scripts'[w] \in CliRests
               /\ scripts'[w] # Over => watchers'[w].pc = "resume"
               /\ watchers'[w].pc \in {"write", "resume"} => watchers'[w].command \in Replies
    <3>1. CASE w \in V
      BY <1>1, <1>8, <1>9, <3>1, StartedOK, Facts DEF CliRests
    <3>2. CASE w \notin V
      BY <1>1, <1>8, <1>9, <3>2, Facts DEF ScriptInv
    <3>3. QED BY <3>1, <3>2
  <2>4. QED BY <1>8, <2>1, <2>2, <2>3 DEF ScriptInv
<1>12. ASSUME ~clash PROVE Quiet'
  <2>1. Quiet
    BY <1>12 DEF Inv
  <2>2. \A w \in Ids : Live(w)' => /\ w \notin V /\ watchers'[w] = watchers[w] /\ Live(w)
                                   /\ w # pidFile /\ scripts'[w] = scripts[w]
    <3>1. ASSUME NEW w \in Ids, Live(w)' PROVE w \notin V
      BY <1>8, <3>1, StartedOK DEF Live
    <3>2. QED BY <1>1, <1>5, <1>8, <1>9, <3>1, Facts DEF Live
  <2>3. LiveInv'
    BY <1>1, <1>2, <1>8, <2>1, <2>2, Facts DEF Quiet, LiveInv
  <2>4. \A w \in Ids : scripts'[w] \notin Early
    <3>1. ASSUME NEW w \in Ids, scripts'[w] \in Early PROVE FALSE
      <4>1. scripts'[w] # Over
        BY <3>1, Kinds
      <4>2. Live(w)'
        BY <1>8, <1>11, <4>1 DEF ScriptInv, Live
      <4>3. QED BY <2>1, <2>2, <3>1, <4>2 DEF Quiet, LiveInv
    <3>2. QED BY <3>1
  <2>5. Alone' /\ KillInv' /\ ChildInv'
    BY <1>2, <1>8, <1>9, <2>1, <2>4 DEF Quiet, Alone, KillInv, ChildInv
  <2>6. AddedInv'
    <3>1. ASSUME NEW w \in Ids, watchers'[w].pc = "resume"
          PROVE  Command(w)' \in handled' /\ scripts'[w] \notin {CRead, CMark}
      <4>1. watchers'[w] = watchers[w]
        BY <1>8, <3>1, StartedOK
      <4>2. QED BY <1>2, <2>1, <2>4, <3>1, <4>1 DEF Quiet, AddedInv, Command, Rec, Early
    <3>2. \A m \in Replies : added'[m] \in {0, 1} /\ (added'[m] = 1 => m \in handled')
      BY <1>2, <2>1 DEF Quiet, AddedInv
    <3>3. QED BY <1>8, <3>1, <3>2 DEF AddedInv
  <2>7. ReplyInv' /\ EventInv' /\ PresentInv'
    BY <1>2 DEF ReplyInv, EventInv, PresentInv
  <2>8. QED BY <2>3, <2>5, <2>6, <2>7 DEF Quiet
<1>13. QED BY <1>2, <1>10, <1>11, <1>12 DEF Inv

(* A step of the job settles it only where no resume is under way.         *)
LEMMA SettleStep ==
  ASSUME Inv, NEW st \in {"human_needed", "ended"}, Settle(st)
  PROVE  Inv'
<1>1. TypeOK /\ ScriptInv /\ CursorInv
  BY DEF Inv
<1>2. /\ UNCHANGED <<constraints, handled, added, loop, events, mail, watchers, pidFile, stopped,
                     scripts, snapshot, clash>>
      /\ status' = st /\ work' = FALSE /\ owed' = IF st = "ended" THEN "end" ELSE "human"
      /\ loop = TRUE /\ work = TRUE /\ owed = None
  BY <1>1 DEF Settle, EventOf, wvars, rvars, TypeOK
<1>3. TypeOK' /\ Ids' = Ids /\ Actors' = Actors
  BY <1>1, <1>2 DEF TypeOK, Ids, Actors, Streams
<1>4. ScriptInv' /\ CursorInv'
  BY <1>1, <1>2, <1>3 DEF ScriptInv, CursorInv, CursorOK
<1>5. ASSUME ~clash PROVE Quiet'
  <2>1. Quiet
    BY <1>5 DEF Inv
  <2>2. Alone' /\ LiveInv' /\ AddedInv' /\ ReplyInv'
    BY <1>2, <1>3, <2>1
    DEF Quiet, Alone, LiveInv, AddedInv, ReplyInv, ReplyOK, Live, Command, Rec
  <2>3. \A a \in Actors : scripts[a] \notin ToLaunch
    BY <1>2, <2>1 DEF Quiet, KillInv
  <2>4. \A w \in Ids : scripts[w] \notin Early
    BY <1>2, <2>1 DEF Quiet, ChildInv
  <2>5. KillInv' /\ ChildInv'
    BY <1>2, <1>3, <2>3, <2>4 DEF KillInv, ChildInv
  <2>6. ~Settled /\ (st = "ended" => Settled')
    BY <1>2 DEF Settled, None
  <2>7. EventInv'
    BY <1>1, <1>2, <2>1, <2>6, Facts DEF Quiet, EventInv, EventOK, Unread, ReadFrom
  <2>8. PresentInv'
    BY <1>2, <1>3, <2>1, <2>6 DEF Quiet, PresentInv, Live
  <2>9. QED BY <2>2, <2>5, <2>7, <2>8 DEF Quiet
<1>6. QED BY <1>2, <1>3, <1>4, <1>5 DEF Inv

(* What a watcher has to read grows by the event alone.                    *)
LEMMA EventsGrow ==
  ASSUME TypeOK, NEW s \in Streams, NEW e \in {"own", "other"},
         events' = [events EXCEPT ![s] = Append(@, e)]
  PROVE  /\ events' \in [Streams -> Seq({"own", "other"})]
         /\ \A r \in Record, z \in Streams :
              Unread(r, z)' => Unread(r, z) \/ (z = s /\ e = "own")
<1>1. events \in [Streams -> Seq({"own", "other"})]
  BY DEF TypeOK
<1>2. events' \in [Streams -> Seq({"own", "other"})]
  BY <1>1
<1>3. ASSUME NEW r \in Record, NEW z \in Streams, Unread(r, z)', ~(z = s /\ e = "own")
      PROVE  Unread(r, z)
  <2>1. /\ r.cursor[z] \in Nat /\ r.from[z] \in Nat
        /\ Len(events[z]) \in Nat /\ Len(events'[z]) \in Nat /\ Len(events'[z]) >= Len(events[z])
        /\ \A i \in 1 .. Len(events[z]) : events'[z][i] = events[z][i]
        /\ \A i \in 1 .. Len(events'[z]) : i > Len(events[z]) => z = s /\ events'[z][i] = e
    BY <1>1 DEF Record
  <2>2. PICK i \in 1 .. Len(events'[z]) : i > ReadFrom(r, z)' /\ events'[z][i] = "own"
    BY <1>3 DEF Unread
  <2>3. i \in 1 .. Len(events[z])
    BY <1>3, <2>1, <2>2
  <2>4. i > ReadFrom(r, z)
    BY <2>1, <2>2, <2>3 DEF ReadFrom
  <2>5. QED BY <2>1, <2>2, <2>3, <2>4 DEF Unread
<1>4. QED BY <1>2, <1>3

LEMMA EventSteps ==
  ASSUME Inv, Publish \/ \E s \in Streams : ForeignEvent(s)
  PROVE  Inv'
<1>1. TypeOK /\ ScriptInv /\ CursorInv
  BY DEF Inv
<1>2. UNCHANGED <<status, constraints, handled, added, work, mail, watchers, pidFile, stopped,
                  scripts, snapshot, clash>>
  BY DEF Publish, ForeignEvent, db, wvars, rvars
<1>3. /\ events' \in [Streams -> Seq({"own", "other"})]
      /\ loop' \in BOOLEAN /\ owed' \in Streams \cup {None}
      /\ loop = FALSE => loop' = FALSE
      /\ owed = None => owed' = None
      /\ owed' = None \/ owed' = owed
      /\ owed # None => Publish \/ (owed' = owed /\ loop' = loop)
      /\ owed = None => loop' = loop
      /\ Publish => owed # None /\ owed' = None /\ loop' = IF status = "active" THEN loop ELSE FALSE
  <2>1. CASE Publish
    <3>1. owed \in Streams /\ events' = [events EXCEPT ![owed] = Append(@, "own")]
      BY <1>1, <2>1 DEF Publish, TypeOK
    <3>2. events' \in [Streams -> Seq({"own", "other"})]
      BY <1>1, <3>1, EventsGrow
    <3>3. loop \in BOOLEAN /\ owed # None /\ owed' = None /\ loop' = (loop /\ status = "active")
      BY <1>1, <2>1 DEF Publish, TypeOK
    <3>4. loop' = IF status = "active" THEN loop ELSE FALSE
      BY <3>3
    <3>5. QED BY <2>1, <3>2, <3>3, <3>4
  <2>2. ASSUME NEW s \in Streams, ForeignEvent(s), ~Publish
        PROVE  /\ events' \in [Streams -> Seq({"own", "other"})]
               /\ loop' = loop /\ owed' = owed
    BY <1>1, <2>2, EventsGrow DEF ForeignEvent
  <2>3. QED BY <1>1, <2>1, <2>2 DEF TypeOK
<1>4. \A r \in Record, z \in Streams : Unread(r, z)' => Unread(r, z) \/ (Publish /\ z = owed)
  <2>1. CASE Publish
    <3>1. owed \in Streams /\ events' = [events EXCEPT ![owed] = Append(@, "own")]
      BY <1>1, <2>1 DEF Publish, TypeOK
    <3>2. QED BY <1>1, <2>1, <3>1, EventsGrow
  <2>2. ASSUME NEW s \in Streams, ForeignEvent(s)
        PROVE  \A r \in Record, z \in Streams : Unread(r, z)' => Unread(r, z)
    <3>1. events' = [events EXCEPT ![s] = Append(@, "other")]
      BY <2>2 DEF ForeignEvent
    <3>2. QED BY <1>1, <3>1, EventsGrow
  <2>3. QED BY <2>1, <2>2
<1>5. TypeOK' /\ Ids' = Ids /\ Actors' = Actors
  BY <1>1, <1>2, <1>3 DEF TypeOK, Ids, Actors
<1>6. ScriptInv' /\ CursorInv'
  BY <1>1, <1>2, <1>5 DEF ScriptInv, CursorInv, CursorOK
<1>7. ASSUME ~clash PROVE Quiet'
  <2>1. Quiet
    BY <1>7 DEF Inv
  <2>2. Alone' /\ LiveInv' /\ AddedInv' /\ ReplyInv'
    BY <1>2, <1>5, <2>1
    DEF Quiet, Alone, LiveInv, AddedInv, ReplyInv, ReplyOK, Live, Command, Rec
  <2>3. KillInv' /\ ChildInv'
    BY <1>2, <1>3, <1>5, <2>1 DEF Quiet, KillInv, ChildInv
  <2>4. Settled => Settled'
    <3>1. CASE Publish
      BY <1>2, <1>3, <3>1 DEF Settled
    <3>2. CASE ~Publish
      BY <1>2, <1>3, <3>2 DEF Settled, None
    <3>3. QED BY <3>1, <3>2
  <2>5. EventInv'
    <3>1. SUFFICES ASSUME pidFile # 0 PROVE EventOK(watchers[pidFile], scripts[pidFile])'
      BY <1>2 DEF EventInv
    <3>2. watchers[pidFile] \in Record /\ EventOK(watchers[pidFile], scripts[pidFile])
      BY <1>1, <2>1, <3>1, Facts DEF Quiet, EventInv
    <3>3. \A z \in Streams : Unread(watchers[pidFile], z)' => Unread(watchers[pidFile], z) \/ owed = z
      BY <1>2, <1>4, <3>2 DEF Unread, ReadFrom
    <3>4. owed' = None \/ owed' = owed
      BY <1>3
    <3>5. QED BY <1>2, <2>4, <3>2, <3>3, <3>4 DEF EventOK, Streams, None
  <2>6. PresentInv'
    BY <1>2, <1>5, <2>1, <2>4 DEF Quiet, PresentInv, Live
  <2>7. QED BY <2>2, <2>3, <2>5, <2>6 DEF Quiet
<1>8. QED BY <1>2, <1>5, <1>6, <1>7 DEF Inv

LEMMA ArrivalStep ==
  ASSUME Inv, \E m \in Replies : ReplyArrives(m)
  PROVE  Inv'
<1>1. /\ UNCHANGED <<status, constraints, handled, added, loop, work, owed, events, watchers, pidFile,
                     stopped, scripts, snapshot, clash>>
      /\ TypeOK
      /\ mail' \subseteq Replies
  BY DEF ReplyArrives, db, jobv, wvars, rvars, Inv, TypeOK
<1>2. TypeOK' /\ ScriptInv' /\ CursorInv' /\ Ids' = Ids /\ Actors' = Actors
  BY <1>1 DEF TypeOK, Ids, Actors, Inv, ScriptInv, CursorInv, CursorOK
<1>3. ASSUME ~clash PROVE Quiet'
  <2>1. Quiet
    BY <1>3 DEF Inv
  <2>2. /\ Alone' /\ LiveInv' /\ KillInv' /\ ChildInv' /\ AddedInv'
    BY <1>1, <1>2, <2>1
    DEF Quiet, Alone, LiveInv, KillInv, ChildInv, AddedInv, Live, Command, Rec
  <2>3. ReplyInv' /\ EventInv' /\ PresentInv'
    BY <1>1, <1>2, <2>1
    DEF Quiet, ReplyInv, ReplyOK, EventInv, EventOK, Unread, ReadFrom, Settled, PresentInv, Live
  <2>4. QED BY <2>2, <2>3 DEF Quiet
<1>4. QED BY <1>1, <1>2, <1>3 DEF Inv

LEMMA StutterStep == ASSUME Inv, UNCHANGED vars PROVE Inv'
<1>1. UNCHANGED <<status, constraints, handled, added, loop, work, owed, events, mail, watchers, pidFile,
                  stopped, scripts, snapshot, clash>>
  BY DEF vars, db, jobv, wvars, rvars
<1>2. TypeOK' /\ ScriptInv' /\ CursorInv' /\ Ids' = Ids /\ Actors' = Actors
  BY <1>1 DEF TypeOK, Ids, Actors, Inv, ScriptInv, CursorInv, CursorOK
<1>3. ASSUME ~clash PROVE Quiet'
  <2>1. Quiet
    BY <1>3 DEF Inv
  <2>2. /\ Alone' /\ LiveInv' /\ KillInv' /\ ChildInv' /\ AddedInv'
    BY <1>1, <1>2, <2>1
    DEF Quiet, Alone, LiveInv, KillInv, ChildInv, AddedInv, Live, Command, Rec
  <2>3. ReplyInv' /\ EventInv' /\ PresentInv'
    BY <1>1, <1>2, <2>1
    DEF Quiet, ReplyInv, ReplyOK, EventInv, EventOK, Unread, ReadFrom, Settled, PresentInv, Live
  <2>4. QED BY <2>2, <2>3 DEF Quiet
<1>4. QED BY <1>1, <1>2, <1>3 DEF Inv

-----------------------------------------------------------------------------
(* Every step.                                                             *)
LEMMA InvStep == Inv /\ [Next]_vars => Inv'
<1> SUFFICES ASSUME Inv, [Next]_vars PROVE Inv'
  OBVIOUS
<1>1. CASE UNCHANGED vars
  BY <1>1, StutterStep
<1>2. ASSUME NEW w \in Ids, WatcherStep(w) \/ ResumeFailed(w) \/ PollFails(w)
      PROVE  Inv'
  <2>1. CASE Start(w) \/ LeaveResumed(w) \/ LeaveReplaced(w)
    BY <2>1, StartStep, LeaveResumedStep, LeaveReplacedStep
  <2>2. CASE BeginPoll(w) \/ Fetch(w) \/ ReadJob(w)
    BY <2>2, PollSteps
  <2>3. CASE BeginRead(w) \/ PollFails(w)
    BY <2>3, ReadingSteps
  <2>4. CASE ReadTimeout(w) \/ \E s \in Streams : ReadEvent(w, s)
    BY <2>4, ReadStep
  <2>5. CASE Reject(w) \/ Constrain(w)
    BY <2>5, CommandSteps
  <2>6. CASE Resume(w) \/ ResumeFailed(w)
    BY <2>6, ResumeStepInv, ResumeFailedStep
  <2>7. QED BY <1>2, <2>1, <2>2, <2>3, <2>4, <2>5, <2>6 DEF WatcherStep
<1>3. ASSUME NEW a \in Actors, ResumeStep(a) PROVE Inv'
  <2>1. CASE OpRead(a) \/ OpMark(a) \/ OpKill(a) \/ OpPlan(a)
    BY <2>1, OpReadStep, OpMarkStep, OpKillStep, OpPlanStep
  <2>2. CASE OpLaunch(a)
    BY <2>2, OpAdoptStep, OpLaunchStep DEF OpLaunch
  <2>3. QED BY <1>3, <2>1, <2>2 DEF ResumeStep
<1>4. CASE Stop \/ \E kind \in ManualKinds : BeginManual(kind)
  BY <1>4, StopStep, BeginManualStep
<1>5. CASE \E st \in {"human_needed", "ended"} : Settle(st)
  BY <1>5, SettleStep
<1>6. CASE Publish \/ \E s \in Streams : ForeignEvent(s)
  BY <1>6, EventSteps
<1>7. CASE \E m \in Replies : ReplyArrives(m)
  BY <1>7, ArrivalStep
<1>8. CASE Terminated
  BY <1>8, StutterStep DEF Terminated
<1>9. QED BY <1>1, <1>2, <1>3, <1>4, <1>5, <1>6, <1>7, <1>8 DEF Next

(* The invariant holds at every time.                                      *)
THEOREM InvHolds == Spec => []Inv
BY InitInv, InvStep, PTL DEF Spec

(* Every variable keeps its type, however many watchers there are.         *)
THEOREM TypeCorrect == Spec => []TypeOK
<1>1. Inv => TypeOK
  BY DEF Inv
<1>2. QED BY <1>1, InvHolds, PTL

(* apply_email_command (email_commands.py) adds a reply to the constraints *)
(* at most once over all the watchers of a job, although each of them      *)
(* fetches the whole mailbox.                                              *)
THEOREM AppliesOnce == Spec => []AppliedOnce
<1>1. Inv => AppliedOnce
  <2>1. SUFFICES ASSUME Inv, ~clash, NEW m \in Replies PROVE added[m] <= 1
    BY DEF AppliedOnce
  <2>2. added[m] \in {0, 1}
    BY <2>1 DEF Inv, Quiet, AddedInv
  <2>3. QED BY <2>2
<1>2. QED BY <1>1, InvHolds, PTL

(* resume_job.py and LoopBackend.resume_job take a watcher away and launch *)
(* the next: in the end one is left, unless the job has ended.             *)
THEOREM OneIsLeft == Spec => []WatcherPresent
<1>1. Inv => WatcherPresent
  <2>1. SUFFICES ASSUME Inv, status # "ended", ~stopped, ~Busy, ~clash
                 PROVE  \E w \in Ids : Live(w)
    BY DEF WatcherPresent
  <2>2. TypeOK /\ PresentInv
    BY <2>1 DEF Inv, Quiet
  <2>3. \A a \in Actors : scripts[a] \notin Early \cup {GKill} \cup ToLaunch
    BY <2>1, Kinds DEF Busy, Over
  <2>4. ~Settled
    BY <2>1 DEF Settled
  <2>5. pidFile # 0 /\ Live(pidFile)
    BY <2>1, <2>2, <2>3, <2>4 DEF PresentInv
  <2>6. QED BY <2>2, <2>5, Facts
<1>2. QED BY <1>1, InvHolds, PTL

-----------------------------------------------------------------------------
(* Promotion.                                                              *)

(* The loops always find a first path to visit.                            *)
LEMMA FirstIn ==
  ASSUME NEW S \in SUBSET Paths, S # {}
  PROVE  First(S) \in S
<1>1. S \subseteq Nat
  BY PromotionAssumption DEF Paths
<1>2. PICK p \in S : \A q \in S : ~(<<q, p>> \in OpToRel(<, Nat))
  BY <1>1, WFMin, NatLessThanWellFounded, Zenon
<1>3. OpToRel(<, Nat) = {ss \in Nat \X Nat : ss[1] < ss[2]}
  BY Zenon DEF OpToRel
<1>4. ASSUME NEW q \in S PROVE p <= q
  <2>1. p \in Nat /\ q \in Nat
    BY <1>1
  <2>2. <<q, p>> \notin {ss \in Nat \X Nat : ss[1] < ss[2]}
    BY <1>2, <1>3
  <2>3. ~(q < p)
    BY <2>1, <2>2
  <2>4. QED BY <2>1, <2>3
<1>5. \A q \in S : p <= q
  BY <1>4
<1>6. QED BY <1>5, Zenon DEF First

(* Where the controller is restricts what its variables hold.              *)
Shape ==
  /\ pc \in {"writing", "restore"} => todo # {}
  /\ pc \in {"scan", "compare"} => applied = {}
  /\ pc = "compare" => todo \subseteq conflict
  /\ pc \in {"copy", "writing"} => todo \cap (present \cup applied) = {}
  /\ pc = "validate" => todo = {}
  /\ pc \in {"undo", "rollback", "restore"} => todo \subseteq applied

TypeInv == PromotionTypeOK /\ Shape

(* An edit of the operator's own is on no path that will be written.       *)
OwnInv ==
  ~raced =>
    /\ \A p \in own : Dirty(p)
    /\ own \cap AtRisk = {}
    /\ pc \in {"validate", "rollback", "restore"}
         => \A p \in own \cap applied : ~Matches(p)

(* The paths that may hold what this promotion has put there, and those    *)
(* that do.                                                                *)
Touched ==
  {p \in Paths : \/ pc \in {"copy", "writing", "validate"} /\ p \in applied
                 \/ pc = "writing" /\ p = First(todo)
                 \/ pc \in {"undo", "rollback", "restore"} /\ p \in todo
                 \/ pc = "done"}

Holding ==
  {p \in Paths : \/ pc \in {"copy", "writing", "validate"} /\ p \in applied
                 \/ pc \in {"rollback", "restore"} /\ p \in todo
                 \/ pc = "done"}

HeadInv == \A p \in Paths \ edited : head[p] = Base[p]

CleanInv ==
  ~raced /\ ~broken =>
    /\ \A p \in Paths \ (edited \cup Touched) : target[p] = head[p]
    /\ \A p \in Holding \ edited : target[p] = worktree[p]
    /\ pc \notin {"work", "asked", "done"} => present \subseteq edited
    /\ pc \in {"scan", "compare"} => conflict \subseteq edited
    /\ pc \in {"copy", "writing", "validate"}
         => Changed \subseteq todo \cup applied \cup edited

PromotionInv == TypeInv /\ OwnInv /\ HeadInv /\ CleanInv

-----------------------------------------------------------------------------
LEMMA BaseType == Base \in [Paths -> Contents]
BY DEF Base, Contents, Special

LEMMA PromotionStarts == PromotionInit => PromotionInv
<1> SUFFICES ASSUME PromotionInit PROVE PromotionInv
  OBVIOUS
<1>1. PromotionTypeOK
  <2>1. worktree \in [Paths -> Contents] /\ target \in [Paths -> Contents]
        /\ head \in [Paths -> Contents]
    BY BaseType, Zenon DEF PromotionInit
  <2>2. runs \in 0 .. MaxRuns /\ edits \in 0 .. MaxEdits /\ crashes \in 0 .. MaxCrashes
    BY PromotionAssumption DEF PromotionInit
  <2>3. QED BY <2>1, <2>2 DEF PromotionInit, PromotionTypeOK
<1>4. Shape
  BY DEF PromotionInit, Shape
<1>2. OwnInv
  BY DEF PromotionInit, OwnInv
<1>3. HeadInv /\ CleanInv
  BY DEF PromotionInit, HeadInv, CleanInv, Holding
<1>5. QED BY <1>1, <1>2, <1>3, <1>4 DEF PromotionInv, TypeInv

(* Every step of the controller, by name.                                  *)
LEMMA TypeStep ==
  ASSUME TypeInv, [PromotionNext]_promotionVars
  PROVE  TypeInv'
<1> USE PromotionAssumption
<1> USE DEF TypeInv, PromotionTypeOK, Shape, Changing
<1>0. todo # {} => First(todo) \in todo
  BY FirstIn
<1>c. Changed \in SUBSET Paths
  BY DEF Changed
<1>p. \A p, c : p \in Paths /\ c \in Contents /\ Put(p, c) => target' \in [Paths -> Contents]
  BY DEF Put
<1>s. {"absent", "partial", "user"} \subseteq Contents
  BY DEF Contents, Special
<1>w. \A p \in Paths : worktree[p] \in Contents /\ head[p] \in Contents
  OBVIOUS
<1>1. ASSUME NEW result \in [Paths -> Contents], WorkerRun(result) PROVE TypeInv'
  BY <1>1 DEF WorkerRun, locals, past
<1>2. CASE Continue \/ NothingToPromote \/ Refuse \/ Undone \/ RolledBack
  BY <1>2 DEF Continue, NothingToPromote, Refuse, Undone, RolledBack, repo, locals, bounds, past
<1>3. CASE BeginPromotion
  BY <1>3, <1>c DEF BeginPromotion, repo, bounds, past
<1>4. CASE Scan \/ Scanned \/ Compare
  BY <1>4, <1>0 DEF Scan, Scanned, Compare, repo, bounds, past
<1>5. CASE BeginCopy
  BY <1>5, <1>c DEF BeginCopy, Skipped, repo, bounds, past
<1>6. CASE Remove
  BY <1>6, <1>0, <1>p, <1>s DEF Remove, bounds, past
<1>7. CASE BeginWrite
  BY <1>7, <1>0, <1>p, <1>s DEF BeginWrite, locals, bounds, past
<1>8. CASE FinishWrite
  BY <1>8, <1>0, <1>p, <1>w DEF FinishWrite, bounds, past
<1>9. CASE Copied \/ ValidationPasses
  BY <1>9 DEF Copied, ValidationPasses, repo, locals, bounds, past
<1>10. CASE CopyFails
  BY <1>10 DEF CopyFails, repo, bounds
<1>11. CASE Undo
  BY <1>11, <1>0, <1>p, <1>w DEF Undo, Original, bounds, past
<1>12. CASE UndoFails
  BY <1>12, <1>0, <1>p, <1>s DEF UndoFails, bounds
<1>13. CASE ValidationFails
  BY <1>13 DEF ValidationFails, ToRollBack, repo, bounds, past
<1>14. CASE Match
  BY <1>14, <1>0 DEF Match, repo, bounds, past
<1>15. CASE Restore
  BY <1>15, <1>0, <1>p, <1>w DEF Restore, Original, bounds, past
<1>16. CASE RestoreFails
  BY <1>16, <1>0, <1>p, <1>s DEF RestoreFails, bounds
<1>17. CASE RollbackFails
  BY <1>17 DEF RollbackFails, repo, bounds
<1>18. CASE Crash
  BY <1>18 DEF Crash, repo
<1>19. ASSUME NEW p \in Paths, NEW content \in {"user", worktree[p], head[p]}, Edit(p, content)
       PROVE  TypeInv'
  <2>1. target' \in [Paths -> Contents]
    BY <1>19, <1>p, <1>s, <1>w DEF Edit
  <2>2. own' \subseteq edited' /\ edited' \subseteq Paths /\ raced' \in BOOLEAN
    BY <1>19, Zenon DEF Edit
  <2>3. QED BY <1>19, <2>1, <2>2 DEF Edit, locals
<1>20. CASE Commit
  BY <1>20 DEF Commit, Dirty, locals
<1>21. CASE UNCHANGED promotionVars
  BY <1>21 DEF promotionVars, repo, locals, bounds, past
<1>22. QED
  BY <1>1, <1>2, <1>3, <1>4, <1>5, <1>6, <1>7, <1>8, <1>9, <1>10, <1>11, <1>12, <1>13,
     <1>14, <1>15, <1>16, <1>17, <1>18, <1>19, <1>20, <1>21
     DEF PromotionNext, Controller, Operator, PromotionOver

(* What is at risk, place by place.                                        *)
LEMMA RiskIs ==
  ASSUME TypeInv
  PROVE  /\ pc = "scan" => AtRisk = Changed \ (todo \cup conflict)
         /\ pc = "compare" => AtRisk = Changed \ (conflict \cup present)
         /\ pc \in {"copy", "writing", "undo"} => AtRisk = todo \cup applied
         /\ pc = "restore" => AtRisk = {First(todo)}
         /\ pc \in {"work", "asked", "validate", "rollback", "done"} => AtRisk = {}
BY DEF AtRisk, TypeInv, PromotionTypeOK, Changing

(* The same after a step. *)
LEMMA RiskWillBe ==
  ASSUME TypeInv'
  PROVE  /\ pc' = "scan" => AtRisk' = Changed' \ (todo' \cup conflict')
         /\ pc' = "compare" => AtRisk' = Changed' \ (conflict' \cup present')
         /\ pc' \in {"copy", "writing", "undo"} => AtRisk' = todo' \cup applied'
         /\ pc' = "restore" => AtRisk' = {First(todo')}
         /\ pc' \in {"work", "asked", "validate", "rollback", "done"} => AtRisk' = {}
BY DEF AtRisk, TypeInv, PromotionTypeOK, Changing, First

(* No step of the controller writes a path with an own edit.               *)
LEMMA OwnStep ==
  ASSUME TypeInv, OwnInv, [PromotionNext]_promotionVars, ~raced'
  PROVE  /\ OwnInv'
         /\ edits' = edits => \A p \in own : target'[p] = target[p]
<1>t. TypeInv'
  BY TypeStep
<1> DEFINE Kept == \A p \in own : target'[p] = target[p]
           Own == /\ \A p \in own' : Dirty(p)'
                  /\ own' \cap AtRisk' = {}
                  /\ pc' \in {"validate", "rollback", "restore"}
                       => \A p \in own' \cap applied' : ~Matches(p)'
<1> SUFFICES Own /\ (edits' = edits => Kept)
  BY DEF OwnInv
<1> HIDE <1>t
<1>0. todo # {} => First(todo) \in todo
  BY FirstIn DEF TypeInv, PromotionTypeOK
<1>x. own \subseteq Paths /\ applied \subseteq Paths /\ target \in [Paths -> Contents]
  BY DEF TypeInv, PromotionTypeOK
<1>b. ASSUME ~raced
      PROVE  /\ \A p \in own : Dirty(p)
             /\ own \cap AtRisk = {}
             /\ pc \in {"validate", "rollback", "restore"}
                  => \A p \in own \cap applied : ~Matches(p)
  BY <1>b DEF OwnInv
<1>p. \A p, c : Put(p, c) => \A q \in Paths \ {p} : target'[q] = target[q]
  BY <1>x DEF Put
<1> USE DEF Dirty, Matches
<1>1. ASSUME NEW result \in [Paths -> Contents], WorkerRun(result) PROVE Own /\ Kept
  BY <1>1, <1>b, <1>t, RiskWillBe DEF WorkerRun, locals, past
<1>2. CASE Continue \/ NothingToPromote \/ Refuse \/ Undone \/ RolledBack
  BY <1>2, <1>b, <1>t, RiskWillBe
     DEF Continue, NothingToPromote, Refuse, Undone, RolledBack, repo, locals, bounds, past
<1>3. CASE BeginPromotion
  BY <1>3, <1>b, <1>t, RiskWillBe DEF BeginPromotion, Changed, repo, bounds, past
<1>4. CASE Scan
  BY <1>4, <1>0, <1>b, <1>t, RiskIs, RiskWillBe DEF Scan, Changed, repo, bounds, past
<1>5. CASE Scanned
  BY <1>5, <1>b, <1>t, RiskIs, RiskWillBe DEF Scanned, Changed, repo, bounds, past
<1>6. CASE Compare
  BY <1>6, <1>0, <1>b, <1>t, RiskIs, RiskWillBe DEF Compare, Changed, repo, bounds, past
<1>7. CASE BeginCopy
  BY <1>7, <1>b, <1>t, RiskIs, RiskWillBe DEF BeginCopy, Skipped, repo, bounds, past, TypeInv, Shape
<1>8. CASE Remove
  BY <1>8, <1>0, <1>p, <1>x, <1>b, <1>t, RiskIs, RiskWillBe DEF Remove, bounds, past
<1>9. CASE BeginWrite
  BY <1>9, <1>0, <1>p, <1>x, <1>b, <1>t, RiskIs, RiskWillBe DEF BeginWrite, locals, bounds, past
<1>10. CASE FinishWrite
  BY <1>10, <1>0, <1>p, <1>x, <1>b, <1>t, RiskIs, RiskWillBe
     DEF FinishWrite, bounds, past, TypeInv, Shape
<1>11. CASE Copied \/ ValidationPasses
  BY <1>11, <1>b, <1>t, RiskIs, RiskWillBe DEF Copied, ValidationPasses, repo, locals, bounds, past
<1>12. CASE CopyFails
  BY <1>12, <1>b, <1>t, RiskIs, RiskWillBe DEF CopyFails, repo, bounds
<1>13. CASE Undo
  BY <1>13, <1>0, <1>p, <1>x, <1>b, <1>t, RiskIs, RiskWillBe DEF Undo, bounds, past
<1>14. CASE UndoFails
  BY <1>14, <1>0, <1>p, <1>x, <1>b, <1>t, RiskIs, RiskWillBe DEF UndoFails, bounds
<1>15. CASE ValidationFails
  BY <1>15, <1>b, <1>t, RiskWillBe DEF ValidationFails, repo, bounds, past
<1>16. CASE Match
  <2>1. todo \subseteq applied
    BY <1>16 DEF Match, TypeInv, Shape
  <2>2. Matches(First(todo)) => First(todo) \notin own
    BY <1>16, <1>0, <1>b, <2>1 DEF Match, past
  <2>3. CASE Matches(First(todo))
    BY <1>16, <1>b, <1>t, <2>2, <2>3, RiskWillBe DEF Match, repo, bounds, past
  <2>4. CASE ~Matches(First(todo))
    BY <1>16, <1>b, <1>t, <2>4, RiskWillBe DEF Match, repo, bounds, past
  <2>5. QED BY <2>3, <2>4
<1>17. CASE Restore
  BY <1>17, <1>p, <1>x, <1>b, <1>t, RiskIs, RiskWillBe DEF Restore, bounds, past
<1>18. CASE RestoreFails
  BY <1>18, <1>p, <1>x, <1>b, <1>t, RiskIs, RiskWillBe DEF RestoreFails, bounds
<1>19. CASE RollbackFails
  BY <1>19, <1>b, <1>t, RiskWillBe DEF RollbackFails, repo, bounds
<1>20. CASE Crash
  BY <1>20, <1>b, <1>t, RiskWillBe DEF Crash, repo
<1>21. ASSUME NEW p \in Paths, NEW content \in {"user", worktree[p], head[p]}, Edit(p, content)
       PROVE  Own /\ edits' # edits
  <2>1. ~raced /\ p \notin AtRisk
    BY <1>21, Zenon DEF Edit, TypeInv, PromotionTypeOK
  <2>2. AtRisk' = AtRisk
    BY <1>21 DEF Edit, AtRisk, Changed, First, locals
  <2>3. target'[p] = content /\ \A q \in Paths \ {p} : target'[q] = target[q]
    BY <1>21, <1>x DEF Edit, Put
  <2>4. own' \subseteq own \cup {p}
    BY <1>21 DEF Edit
  <2>5. p \in own' => content # head[p] /\ ~(p \in applied /\ content = worktree[p])
    BY <1>21 DEF Edit
  <2>6. edits' # edits
    BY <1>21 DEF Edit, TypeInv, PromotionTypeOK
  <2>7. UNCHANGED <<worktree, head, pc, applied>>
    BY <1>21 DEF Edit, locals
  <2>8. QED BY <1>b, <1>x, <2>1, <2>2, <2>3, <2>4, <2>5, <2>6, <2>7
<1>22. CASE Commit
  BY <1>22 DEF Commit, TypeInv, PromotionTypeOK
<1>23. CASE UNCHANGED promotionVars
  BY <1>23, <1>b DEF promotionVars, repo, locals, bounds, past, AtRisk, Changed, First
<1>24. QED
  BY <1>1, <1>2, <1>3, <1>4, <1>5, <1>6, <1>7, <1>8, <1>9, <1>10, <1>11, <1>12, <1>13,
     <1>14, <1>15, <1>16, <1>17, <1>18, <1>19, <1>20, <1>21, <1>22, <1>23
     DEF PromotionNext, Controller, Operator, PromotionOver

-----------------------------------------------------------------------------
(* HEAD changes only where the operator has edited.                        *)
LEMMA HeadStep ==
  ASSUME TypeInv, HeadInv, [PromotionNext]_promotionVars
  PROVE  HeadInv'
<1> USE DEF HeadInv, Base
<1>1. ASSUME NEW result \in [Paths -> Contents], WorkerRun(result) PROVE HeadInv'
  BY <1>1 DEF WorkerRun, past
<1>2. CASE Controller \/ Crash
  BY <1>2 DEF Controller, Continue, BeginPromotion, NothingToPromote, Scan, Scanned, Compare,
     Refuse, BeginCopy, Remove, BeginWrite, FinishWrite, Copied, CopyFails, Undo, UndoFails,
     Undone, ValidationPasses, ValidationFails, Match, Restore, RestoreFails, RolledBack,
     RollbackFails, Crash, repo, past
<1>3. ASSUME NEW p \in Paths, NEW content \in {"user", worktree[p], head[p]}, Edit(p, content)
      PROVE  HeadInv'
  BY <1>3 DEF Edit
<1>4. CASE Commit
  BY <1>4 DEF Commit, Dirty
<1>5. CASE UNCHANGED promotionVars
  BY <1>5 DEF promotionVars, repo, past
<1>6. QED
  BY <1>1, <1>2, <1>3, <1>4, <1>5 DEF PromotionNext, Operator, PromotionOver

(* A path the operator has not touched holds what the promotion has put    *)
(* there, or what HEAD has.                                                *)
LEMMA CleanStep ==
  ASSUME TypeInv, HeadInv, CleanInv, [PromotionNext]_promotionVars, ~raced', ~broken'
  PROVE  CleanInv'
<1>t. TypeInv'
  BY TypeStep
<1> DEFINE Rest == Paths \ edited
           Part1 == \A p \in Paths : p \notin edited /\ p \notin Touched => target[p] = head[p]
           Part2 == \A p \in Holding : p \notin edited => target[p] = worktree[p]
           Part3 == pc \notin {"work", "asked", "done"} => present \subseteq edited
           Part4 == pc \in {"scan", "compare"} => conflict \subseteq edited
           Part5 == pc \in {"copy", "writing", "validate"}
                      => Changed \subseteq todo \cup applied \cup edited
           Parts == Part1 /\ Part2 /\ Part3 /\ Part4 /\ Part5
<1> SUFFICES Parts'
  BY DEF CleanInv
<1> HIDE <1>t
<1>0. todo # {} => First(todo) \in todo
  BY FirstIn DEF TypeInv, PromotionTypeOK
<1>x. /\ todo \subseteq Paths /\ present \subseteq Paths /\ conflict \subseteq Paths
      /\ applied \subseteq Paths /\ edited \subseteq Paths
      /\ target \in [Paths -> Contents] /\ Changed \subseteq Paths
  BY DEF TypeInv, PromotionTypeOK, Changed
<1>b. ~raced /\ ~broken => Parts
  BY DEF CleanInv
<1>p. \A p, c : p \in Paths /\ Put(p, c)
        => target'[p] = c /\ \A q \in Paths \ {p} : target'[q] = target[q]
  BY <1>x DEF Put
<1>h. Shape
  BY DEF TypeInv
<1> USE DEF Touched, Holding
<1>1. ASSUME NEW result \in [Paths -> Contents], WorkerRun(result) PROVE Parts'
  BY <1>1, <1>b DEF WorkerRun, locals, past
<1>2. CASE Continue \/ Refuse \/ Undone \/ RolledBack
  BY <1>2, <1>b DEF Continue, Refuse, Undone, RolledBack, repo, locals, bounds, past
<1>3. CASE NothingToPromote
  BY <1>3, <1>b DEF NothingToPromote, HeadInv, Changed, repo, locals, past
<1>4. CASE BeginPromotion
  BY <1>4, <1>b DEF BeginPromotion, repo, past
<1>5. CASE Scan
  BY <1>5, <1>0, <1>x, <1>b DEF Scan, Dirty, repo, past
<1>6. CASE Scanned
  BY <1>6, <1>b DEF Scanned, repo, past
<1>7. CASE Compare
  BY <1>7, <1>0, <1>x, <1>b, <1>h DEF Compare, Shape, repo, past
<1>8. CASE BeginCopy
  BY <1>8, <1>b, <1>x, <1>h DEF BeginCopy, Shape, Skipped, Changed, repo, past
<1>9. CASE Remove
  BY <1>9, <1>0, <1>x, <1>b, <1>p, <1>h DEF Remove, Shape, Changed, past
<1>10. CASE BeginWrite
  BY <1>10, <1>0, <1>x, <1>b, <1>p, <1>h DEF BeginWrite, Shape, Changed, locals, past
<1>11. CASE FinishWrite
  BY <1>11, <1>0, <1>x, <1>b, <1>p, <1>h DEF FinishWrite, Shape, Changed, past
<1>12. CASE Copied
  BY <1>12, <1>b DEF Copied, Changed, repo, locals, past
<1>13. CASE CopyFails
  BY <1>13, <1>b DEF CopyFails, repo
<1>14. CASE Undo
  BY <1>14, <1>0, <1>x, <1>b, <1>p DEF Undo, Original, past
<1>15. CASE UndoFails \/ RestoreFails \/ RollbackFails
  BY <1>15 DEF UndoFails, RestoreFails, RollbackFails
<1>16. CASE ValidationPasses
  BY <1>16, <1>b, <1>x, <1>h DEF ValidationPasses, Shape, HeadInv, Changed, repo, locals, past
<1>17. CASE ValidationFails
  BY <1>17, <1>b DEF ValidationFails, ToRollBack, repo, past
<1>18. CASE Match
  BY <1>18, <1>0, <1>x, <1>b DEF Match, Matches, repo, past
<1>19. CASE Restore
  BY <1>19, <1>0, <1>x, <1>b, <1>p, <1>h DEF Restore, Shape, Original, past
<1>20. CASE Crash
  BY <1>20, <1>b DEF Crash, Changing, repo
<1>21. ASSUME NEW p \in Paths, NEW content \in {"user", worktree[p], head[p]}, Edit(p, content)
       PROVE  Parts'
  <2>1. ~raced /\ ~broken
    BY <1>21, Zenon DEF Edit, TypeInv, PromotionTypeOK
  <2>2. \A q \in Paths : q \notin edited' => q \notin edited /\ target'[q] = target[q]
    BY <1>21, <1>x DEF Edit, Put
  <2>3. UNCHANGED <<worktree, head, pc, todo, present, conflict, applied>>
        /\ edited' = edited \cup {p}
    BY <1>21 DEF Edit, locals
  <2>4. QED BY <1>b, <1>x, <2>1, <2>2, <2>3 DEF Changed
<1>22. CASE Commit
  <2>1. ~raced /\ ~broken
    BY <1>22 DEF Commit
  <2>2. \A q \in Paths : q \notin edited' => q \notin edited /\ head'[q] = head[q]
    BY <1>22, <1>x DEF Commit, Dirty
  <2>3. UNCHANGED <<worktree, target, pc, todo, present, conflict, applied>>
        /\ edited \subseteq edited'
    BY <1>22 DEF Commit, locals
  <2>4. QED BY <1>b, <1>x, <2>1, <2>2, <2>3 DEF Changed
<1>23. CASE UNCHANGED promotionVars
  BY <1>23, <1>b DEF promotionVars, repo, locals, past, Changed
<1>24. QED
  BY <1>1, <1>2, <1>3, <1>4, <1>5, <1>6, <1>7, <1>8, <1>9, <1>10, <1>11, <1>12, <1>13,
     <1>14, <1>15, <1>16, <1>17, <1>18, <1>19, <1>20, <1>21, <1>22, <1>23
     DEF PromotionNext, Controller, Operator, PromotionOver

-----------------------------------------------------------------------------
LEMMA StepInv == PromotionInv /\ [PromotionNext]_promotionVars => PromotionInv'
<1> SUFFICES ASSUME PromotionInv, [PromotionNext]_promotionVars PROVE PromotionInv'
  OBVIOUS
<1>1. TypeInv' /\ HeadInv'
  BY TypeStep, HeadStep DEF PromotionInv
<1>2. OwnInv'
  BY OwnStep DEF PromotionInv, OwnInv
<1>3. CleanInv'
  BY CleanStep DEF PromotionInv, CleanInv
<1>4. QED BY <1>1, <1>2, <1>3 DEF PromotionInv

THEOREM Invariance == PromotionSpec => []PromotionInv
<1>1. QED BY PromotionStarts, StepInv, PTL DEF PromotionSpec

(* The variables keep their types; no path is both skipped and written.    *)
THEOREM PromotionTypeCorrect == PromotionSpec => []PromotionTypeOK
<1>1. PromotionInv => PromotionTypeOK
  BY DEF PromotionInv, TypeInv
<1>2. QED BY Invariance, <1>1, PTL

(* The operator's uncommitted edits survive every promotion.               *)
THEOREM EditsAreKept == PromotionSpec => EditsKept
<1>1. PromotionInv /\ PromotionInv' /\ [PromotionNext]_promotionVars
        => [\A p \in own : ~raced /\ edits' = edits => target'[p] = target[p]]_promotionVars
  <2> SUFFICES ASSUME PromotionInv, [PromotionNext]_promotionVars, ~raced, edits' = edits, NEW p \in own
               PROVE  target'[p] = target[p]
    OBVIOUS
  <2>1. ~raced'
    BY DEF PromotionInv, TypeInv, PromotionTypeOK, PromotionNext, Controller, Continue, BeginPromotion, NothingToPromote,
       Scan, Scanned, Compare, Refuse, BeginCopy, Remove, BeginWrite, FinishWrite, Copied,
       CopyFails, Undo, UndoFails, Undone, ValidationPasses, ValidationFails, Match, Restore,
       RestoreFails, RolledBack, RollbackFails, Crash, WorkerRun, Operator, Edit, Commit,
       PromotionOver, promotionVars, past
  <2>2. QED BY <2>1, OwnStep DEF PromotionInv
<1>2. QED BY Invariance, <1>1, PTL DEF PromotionSpec, EditsKept

(* A failed promotion leaves nothing behind for the next one.              *)
THEOREM FailuresLeaveNothing == PromotionSpec => []NothingLeft
<1>1. PromotionInv => NothingLeft
  BY DEF PromotionInv, CleanInv, NothingLeft, Touched
<1>2. QED BY Invariance, <1>1, PTL

(* A job that is done has its work in the operator's checkout.             *)
THEOREM DonePromotes == PromotionSpec => []DoneIsPromoted
<1>1. PromotionInv => DoneIsPromoted
  BY DEF PromotionInv, CleanInv, DoneIsPromoted, Holding
<1>2. QED BY Invariance, <1>1, PTL
=============================================================================
