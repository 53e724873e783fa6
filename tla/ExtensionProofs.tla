--------------------------- MODULE ExtensionProofs ---------------------------
(***************************************************************************)
(* Theorems about Extension, and the service it talks to, for any targets, *)
(* commands and decisions and every bound on sessions, revisions and       *)
(* versions of the sources.  The invariant has one part for each thing     *)
(* that is exchanged: requests (WireInv, MatchInv), identities (ClockInv), *)
(* the cache (CacheInv) and models (ModelInv).                             *)
(***************************************************************************)
EXTENDS Extension, FiniteSetTheorems, TLAPS

Ops == Commands \cup Decisions \cup {"automatic", "open", "select", "view"}
States == {"none", "fresh", "stale", "analysing"}
Versions == 0 .. MaxSource

Requests == [id : Slots, op : Ops, ctx : Contexts, arg : Selections]
Frames   == [id : Slots, kind : Kinds, ctx : Contexts, of : Versions, stale : BOOLEAN]
Tickets  == [live : BOOLEAN, ctx : Contexts]
Pendings == [op : Ops \cup {"none"}, arg : Selections, ticket : Tickets, before : States,
             saved : BOOLEAN, aborted : BOOLEAN]
Projects == [session : 0 .. MaxSessions, rev : 0 .. MaxRevision, target : Selections,
             of : Versions, stale : BOOLEAN]
Workers  == [r : Requests \cup {NoRequest}, pc : {"idle", "child", "failed", "reply"},
             kind : Kinds, of : Versions]

Types ==
  /\ queue \in Seq(Requests) /\ toClient \in Seq(Frames)
  /\ worker \in Workers /\ ops \in [Ids -> {"none", "live", "cancelled"}]
  /\ project \in Projects /\ cache \in [of : Versions, stale : BOOLEAN]
  /\ src \in Versions \ {0} /\ head \in Versions /\ sessions \in 0 .. MaxSessions
  /\ life \in {"up", "ended"}
  /\ ctx \in Contexts /\ pend \in [Slots -> Pendings]
  /\ shown \in [state : States, of : Versions]
  /\ unreported \in BOOLEAN /\ refresh \in BOOLEAN /\ known \in BOOLEAN

(* Nothing waits behind a closed input; a child works on the project its   *)
(* request was for.                                                        *)
Shape ==
  /\ \A i \in Slots :
       /\ Of(i).op = "none" => Of(i) = NoPending
       /\ Of(i).op \in {"analyse", "automatic"} => i = "cmd"
       /\ Of(i).saved => Of(i).op \in Analyses \cup Decisions
  /\ ~Up => ctx = NoContext /\ \A i \in Slots : Of(i) = NoPending
  /\ ctx = NoContext => ~unreported
  /\ worker.pc = "idle" => worker = IdleWorker
  /\ worker.pc # "idle" =>
       worker.r \in Requests /\ worker.r.op \in Analyses \cup {"operate", "refresh"}
  /\ worker.pc \in {"child", "failed"} =>
       /\ worker.r.ctx = Context /\ project # NoProject /\ project.rev < MaxRevision
       /\ worker.pc = "failed" => worker.r.op \in Analyses

TypeInv == Types /\ Shape

-----------------------------------------------------------------------------
(* Requests and answers: one place for each request that is waited for.    *)

Elements(s) == {s[k] : k \in DOMAIN s}
Idents(s)   == {x.id : x \in Elements(s)}
OneEach(s)  == \A k, l \in DOMAIN s : s[k].id = s[l].id => k = l

WireInv ==
  /\ OneEach(queue) /\ OneEach(toClient) /\ Idents(queue) \cap Idents(toClient) = {}
  /\ worker.r.id \notin Idents(queue) \cup Idents(toClient)
  /\ Up => \A i \in Slots :
       Of(i).op # "none" <=> i \in Idents(queue) \cup Idents(toClient) \cup {worker.r.id}

(* What the service has still to do is what the extension waits for. *)
Undone == Elements(queue) \cup (IF worker.pc = "idle" THEN {} ELSE {worker.r})
MatchInv ==
  Up => \A r \in Undone : r.op = Of(r.id).op /\ r.ctx = Of(r.id).ticket.ctx

-----------------------------------------------------------------------------
(* Identities: sessions and revisions only grow.                           *)

AnswerInv ==
  /\ project.session = 0 => project = NoProject
  /\ project.session =< sessions
  /\ \A a \in Elements(toClient) :
       /\ a.ctx.session = 0 => a.ctx = NoContext
       /\ a.ctx.session =< sessions
       /\ a.ctx.session = project.session => a.ctx.rev =< project.rev
       /\ a.ctx.session = project.session /\ a.ctx.rev = project.rev =>
            a.ctx = Context /\ a.of = project.of /\ a.stale = project.stale

ClientInv ==
  /\ ctx.session = 0 => ctx = NoContext
  /\ ctx.session =< sessions
  /\ ctx.session = project.session => ctx.rev =< project.rev
  /\ ctx.session = project.session /\ ctx.rev = project.rev => ctx = Context

(* A ticket is for the present revision or an earlier one; only that of an *)
(* opening is current while no project is open.                            *)
TicketInv ==
  \A i \in Slots :
    /\ Of(i).ticket.ctx.session =< sessions
    /\ Of(i).ticket.ctx.session = 0 => Of(i).ticket.ctx = NoContext
    /\ Of(i).op = "open" => i = "sel" /\ ctx = NoContext /\ Of(i).ticket.ctx = NoContext
    /\ ctx = NoContext /\ Of(i).ticket.live => Of(i).op = "open"
    /\ Of(i).ticket.ctx.session = ctx.session => Of(i).ticket.ctx.rev =< ctx.rev

(* What an opening answers is newer than anything that is waited for.      *)
OpenInv ==
  Of("sel").op = "open" =>
    \A a \in Elements(toClient) : a.id = "sel" /\ a.kind = "ok" =>
      \A i \in Slots : Of(i).ticket.ctx.session < a.ctx.session

ClockInv == AnswerInv /\ ClientInv /\ TicketInv /\ OpenInv

-----------------------------------------------------------------------------
(* Models.                                                                 *)

(* Outside an analysis that has read the sources, the cache is the model.  *)
CacheInv ==
  \/ project = NoProject \/ cache.of = project.of
  \/ worker.pc = "failed" \/ (worker.pc = "child" /\ worker.of # 0 /\ worker.r.op \in Analyses)

(* What the service tells: the answer carries the project's identity.      *)
Comes(i) ==
  \E kind \in Kinds :
    /\ Carries(Of(i).op, kind)
    /\ \/ worker.pc = "reply" /\ worker.r.id = i /\ worker.kind = kind
       \/ \E a \in Elements(toClient) : a.id = i /\ a.kind = kind /\ a.ctx = Context

Expected(i) == IsCurrent(Of(i).ticket) /\ Comes(i)

(* Answers that bring an identity, but nothing of the model. *)
Quiet == {"phase", "refresh", "select"}
Loud  == {"open"} \cup Analyses \cup (Decisions \ Quiet)

(* The model is shown as fresh, or will be if its analysis is refused.     *)
WouldBeFresh ==
  \/ shown.state = "fresh"
  \/ /\ Of("cmd").op \in {"analyse", "automatic"} /\ Of("cmd").before = "fresh"
     /\ IsCurrent(Of("cmd").ticket) /\ ~Of("cmd").saved

Excused(of) == of = src \/ unreported \/ known

ShownInv ==
  ctx # NoContext /\ (ctx = Context \/ \E i \in Slots : Of(i).op \in Quiet /\ Expected(i)) =>
    /\ shown.of = project.of
    /\ WouldBeFresh => ~project.stale /\ Excused(project.of)

ComingInv ==
  \A i \in Slots :
    /\ Of(i).op \in Loud /\ Expected(i) /\ ~Of(i).saved /\ ~project.stale
    /\ Of(i).op \in {"accept", "manual"} => WouldBeFresh
    => Excused(project.of)

(* An analysis that publishes what it has read. *)
ReadInv ==
  /\ Up /\ worker.pc = "child" /\ worker.r.op \in Analyses /\ worker.of # 0
  /\ IsCurrent(Of(worker.r.id).ticket) /\ ~Of(worker.r.id).saved
  => Excused(worker.of)

(* Over committed sources a model that is not stale is theirs: an undo     *)
(* leaves a stale one, and what a later decision makes of it is excused.   *)
Trusted ==
  \/ ctx # NoContext /\ ctx = Context
  \/ \E i \in Slots : Expected(i) /\ (Of(i).op \in {"accept", "manual"} => WouldBeFresh)
CleanInv ==
  /\ head =< src
  /\ Trusted /\ ~project.stale /\ Clean => project.of = src \/ known
  /\ worker.pc = "child" /\ worker.r.op \in Analyses /\ worker.of # 0 /\ Clean => worker.of = src

ModelInv == ShownInv /\ ComingInv /\ ReadInv /\ CleanInv

Inv == TypeInv /\ WireInv /\ MatchInv /\ ClockInv /\ CacheInv /\ ModelInv

-----------------------------------------------------------------------------
(* Lists of requests and answers.                                          *)

LEMMA Emptied ==
  Elements(<<>>) = {} /\ Idents(<<>>) = {} /\ OneEach(<<>>)
BY DEF Elements, Idents, OneEach

LEMMA Appended ==
  ASSUME NEW S, NEW s \in Seq(S), NEW x \in S
  PROVE  /\ Append(s, x) \in Seq(S)
         /\ Elements(Append(s, x)) = Elements(s) \cup {x}
         /\ Idents(Append(s, x)) = Idents(s) \cup {x.id}
         /\ OneEach(s) /\ x.id \notin Idents(s) => OneEach(Append(s, x))
<1> DEFINE t == Append(s, x)
<1>1. /\ t \in Seq(S) /\ Len(t) = Len(s) + 1 /\ Len(s) \in Nat
      /\ DOMAIN t = 1 .. Len(s) + 1 /\ DOMAIN s = 1 .. Len(s)
      /\ t[Len(s) + 1] = x /\ \A k \in 1 .. Len(s) : t[k] = s[k]
  OBVIOUS
<1> HIDE DEF t
<1>2. Elements(t) = Elements(s) \cup {x}
  <2>1. DOMAIN t = DOMAIN s \cup {Len(s) + 1}
    BY <1>1
  <2> QED BY <1>1, <2>1 DEF Elements
<1>3. Idents(t) = Idents(s) \cup {x.id}
  BY <1>2 DEF Idents
<1>4. ASSUME OneEach(s), x.id \notin Idents(s) PROVE OneEach(t)
  <2> SUFFICES ASSUME NEW k \in DOMAIN t, NEW l \in DOMAIN t, t[k].id = t[l].id PROVE k = l
    BY DEF OneEach
  <2>1. \A j \in DOMAIN s : t[j] = s[j] /\ s[j].id # x.id
    BY <1>1, <1>4 DEF Idents, Elements
  <2>2. CASE k \in DOMAIN s /\ l \in DOMAIN s
    BY <1>4, <2>1, <2>2 DEF OneEach
  <2>3. CASE k \notin DOMAIN s \/ l \notin DOMAIN s
    <3>1. \A j \in DOMAIN t : j \notin DOMAIN s => j = Len(s) + 1
      BY <1>1
    <3> QED BY <1>1, <2>1, <2>3, <3>1
  <2> QED BY <2>2, <2>3
<1> QED BY <1>1, <1>2, <1>3, <1>4 DEF t

LEMMA Taken ==
  ASSUME NEW S, NEW s \in Seq(S), s # <<>>
  PROVE  /\ Head(s) \in S /\ Tail(s) \in Seq(S)
         /\ Head(s) \in Elements(s) /\ Head(s).id \in Idents(s)
         /\ Elements(s) = Elements(Tail(s)) \cup {Head(s)}
         /\ OneEach(s) => OneEach(Tail(s)) /\ Idents(Tail(s)) = Idents(s) \ {Head(s).id}
<1> DEFINE t == Tail(s)
           h == Head(s)
<1>1. /\ h \in S /\ t \in Seq(S) /\ Len(s) \in Nat \ {0}
      /\ DOMAIN s = 1 .. Len(s) /\ DOMAIN t = 1 .. Len(s) - 1
      /\ h = s[1] /\ \A k \in 1 .. Len(s) - 1 : t[k] = s[k + 1]
  OBVIOUS
<1> HIDE DEF t, h
<1>2. 1 \in DOMAIN s /\ \A k \in DOMAIN t : k + 1 \in DOMAIN s /\ k + 1 # 1 /\ t[k] = s[k + 1]
  BY <1>1
<1>3. \A j \in DOMAIN s : j = 1 \/ (j - 1 \in DOMAIN t /\ t[j - 1] = s[j])
  BY <1>1
<1>4. h \in Elements(s) /\ h.id \in Idents(s)
  BY <1>1, <1>2 DEF Elements, Idents
<1>5. Elements(s) = Elements(t) \cup {h}
  <2>1. Elements(s) \subseteq Elements(t) \cup {h}
    BY <1>1, <1>3 DEF Elements
  <2>2. Elements(t) \subseteq Elements(s)
    BY <1>2 DEF Elements
  <2> QED BY <1>4, <2>1, <2>2
<1>6. ASSUME OneEach(s) PROVE OneEach(t) /\ Idents(t) = Idents(s) \ {h.id}
  <2>1. OneEach(t)
    <3> SUFFICES ASSUME NEW k \in DOMAIN t, NEW l \in DOMAIN t, t[k].id = t[l].id PROVE k = l
      BY DEF OneEach
    <3>1. k + 1 = l + 1
      BY <1>2, <1>6 DEF OneEach
    <3> QED BY <1>1, <3>1
  <2>2. h.id \notin Idents(t)
    <3> SUFFICES ASSUME NEW k \in DOMAIN t, t[k].id = h.id PROVE FALSE
      BY DEF Idents, Elements
    <3>1. k + 1 = 1
      BY <1>1, <1>2, <1>6 DEF OneEach
    <3> QED BY <1>2, <3>1
  <2>3. Idents(s) = Idents(t) \cup {h.id}
    BY <1>5 DEF Idents
  <2> QED BY <2>1, <2>2, <2>3
<1> QED BY <1>1, <1>4, <1>5, <1>6 DEF t, h

(* How often a request occurs in a list.                                   *)
LEMMA CountOne ==
  ASSUME NEW s, NEW i, OneEach(s)
  PROVE  Cardinality({k \in DOMAIN s : s[k].id = i}) = IF i \in Idents(s) THEN 1 ELSE 0
<1> DEFINE K == {k \in DOMAIN s : s[k].id = i}
<1>1. CASE i \in Idents(s)
  <2>1. PICK k \in DOMAIN s : s[k].id = i
    BY <1>1 DEF Idents, Elements
  <2>2. K = {k}
    BY <2>1 DEF OneEach
  <2> QED BY <1>1, <2>2, FS_Singleton
<1>2. CASE i \notin Idents(s)
  <2>1. K = {}
    BY <1>2 DEF Idents, Elements
  <2> QED BY <1>2, <2>1, FS_EmptySet
<1> QED BY <1>1, <1>2

-----------------------------------------------------------------------------
(* The values the actions are built from.                                  *)

LEMMA Bounds ==
  /\ MaxSessions \in Nat /\ MaxRevision \in Nat /\ MaxRevision >= 1
  /\ MaxSource \in Nat /\ MaxSource >= 1 /\ 0 \in Versions /\ 1 \in Versions
BY ServiceAssumption DEF Versions

LEMMA OpFacts ==
  /\ Ids = Slots /\ Slots = {"cmd", "sel", "view"} /\ "none" \notin Slots
  /\ "none" \notin Ops /\ "whole" \in Selections
  /\ Ops \subseteq {"analyse", "operate", "refresh", "save", "phase", "approve", "accept", "reject",
                    "undo", "manual", "automatic", "open", "select", "view"}
  /\ {"automatic", "open", "select", "view"} \subseteq Ops
  /\ Commands \subseteq Ops /\ Decisions \subseteq Ops
  /\ Commands \subseteq {"analyse", "operate", "refresh", "save"}
  /\ Decisions \subseteq {"phase", "approve", "accept", "reject", "undo", "manual"}
BY ExtensionAssumption DEF Ops, Slots, Selections

LEMMA StartValues ==
  /\ NoContext \in Contexts /\ NoContext.session = 0 /\ NoContext.rev = 0
  /\ NoProject \in Projects /\ NoProject.session = 0 /\ NoProject.rev = 0
     /\ ContextOf(NoProject) = NoContext /\ NoProject.stale = TRUE
  /\ NoPending \in Pendings /\ NoPending.op = "none" /\ NoPending.ticket.live = FALSE
     /\ NoPending.ticket.ctx = NoContext /\ NoPending.saved = FALSE
  /\ NoModel \in [state : States, of : Versions] /\ NoModel.state = "none"
  /\ IdleWorker \in Workers /\ IdleWorker.pc = "idle" /\ IdleWorker.r.id = "none"
     /\ IdleWorker.of = 0 /\ IdleWorker.r = NoRequest
<1>1. NoContext \in Contexts /\ NoContext.session = 0 /\ NoContext.rev = 0
  BY Bounds, OpFacts DEF NoContext, Contexts
<1>2. /\ NoProject \in Projects /\ NoProject.session = 0 /\ NoProject.rev = 0
      /\ ContextOf(NoProject) = NoContext /\ NoProject.stale = TRUE
  BY Bounds, OpFacts DEF NoProject, Projects, ContextOf, NoContext
<1>3. /\ NoPending \in Pendings /\ NoPending.op = "none" /\ NoPending.ticket.live = FALSE
      /\ NoPending.ticket.ctx = NoContext /\ NoPending.saved = FALSE
  BY <1>1, OpFacts DEF NoPending, NoTicket, Pendings, Tickets, States
<1>4. NoModel \in [state : States, of : Versions] /\ NoModel.state = "none"
  BY Bounds DEF NoModel, States
<1>5. /\ IdleWorker \in Workers /\ IdleWorker.pc = "idle" /\ IdleWorker.r.id = "none"
      /\ IdleWorker.of = 0 /\ IdleWorker.r = NoRequest
  BY Bounds DEF IdleWorker, NoRequest, Workers, Kinds
<1> QED BY <1>1, <1>2, <1>3, <1>4, <1>5

LEMMA ContextFacts ==
  ASSUME NEW p \in Projects
  PROVE  /\ ContextOf(p) \in Contexts /\ ContextOf(p).session = p.session
         /\ ContextOf(p).rev = p.rev /\ ContextOf(p).target = p.target
BY DEF ContextOf, Projects, Contexts

LEMMA AdvancedFacts ==
  ASSUME NEW p \in Projects, p.rev < MaxRevision
  PROVE  /\ Advanced(p) \in Projects /\ Advanced(p).session = p.session
         /\ Advanced(p).rev = p.rev + 1 /\ Advanced(p).target = p.target
         /\ Advanced(p).of = p.of /\ Advanced(p).stale = p.stale
<1>1. p.rev + 1 \in 0 .. MaxRevision
  BY Bounds DEF Projects
<1> QED BY <1>1 DEF Advanced, Projects

LEMMA AnswerFacts ==
  ASSUME NEW i \in Slots, NEW kind \in Kinds, NEW p \in Projects
  PROVE  /\ AnswerTo(i, kind, p) \in Frames /\ AnswerTo(i, kind, p).id = i
         /\ AnswerTo(i, kind, p).kind = kind /\ AnswerTo(i, kind, p).ctx = ContextOf(p)
         /\ AnswerTo(i, kind, p).of = p.of /\ AnswerTo(i, kind, p).stale = p.stale
BY ContextFacts DEF AnswerTo, Frames, Projects

LEMMA FrameFacts ==
  ASSUME NEW i \in Slots, NEW op \in Ops, NEW arg \in Selections, NEW c \in Contexts
  PROVE  /\ Frame(i, op, arg, c) \in Requests /\ Frame(i, op, arg, c).id = i
         /\ Frame(i, op, arg, c).op = op /\ Frame(i, op, arg, c).ctx = c
BY DEF Frame, Requests

LEMMA SameTicket ==
  ASSUME NEW t \in Tickets, NEW u \in Tickets, t.live = u.live, t.ctx = u.ctx
  PROVE  t = u
BY DEF Tickets

LEMMA SamePending ==
  ASSUME NEW p \in Pendings, NEW q \in Pendings, p.op = q.op, p.arg = q.arg, p.ticket = q.ticket,
         p.before = q.before, p.saved = q.saved, p.aborted = q.aborted
  PROVE  p = q
BY DEF Pendings

LEMMA ObsoleteFacts ==
  ASSUME Types, NEW i \in Slots
  PROVE  /\ Obsolete(pend) \in [Slots -> Pendings]
         /\ Obsolete(pend)[i].op = Of(i).op /\ Obsolete(pend)[i].ticket.live = FALSE
         /\ Obsolete(pend)[i].ticket.ctx = Of(i).ticket.ctx /\ Obsolete(pend)[i].saved = Of(i).saved
         /\ Of(i) = NoPending => Obsolete(pend)[i] = NoPending
<1>1. ASSUME NEW j \in Slots
      PROVE  /\ [pend[j] EXCEPT !.ticket.live = FALSE] \in Pendings
             /\ [pend[j] EXCEPT !.ticket.live = FALSE].op = pend[j].op
             /\ [pend[j] EXCEPT !.ticket.live = FALSE].ticket.live = FALSE
             /\ [pend[j] EXCEPT !.ticket.live = FALSE].ticket.ctx = pend[j].ticket.ctx
             /\ [pend[j] EXCEPT !.ticket.live = FALSE].saved = pend[j].saved
  <2> DEFINE q == pend[j]
             t == [live |-> FALSE, ctx |-> q.ticket.ctx]
  <2>1. q \in Pendings /\ q.ticket \in Tickets
    BY DEF Types, Pendings
  <2>2. t \in Tickets /\ t.live = FALSE /\ t.ctx = q.ticket.ctx /\ [q.ticket EXCEPT !.live = FALSE] = t
    <3>1. t \in Tickets /\ t.live = FALSE /\ t.ctx = q.ticket.ctx
      BY <2>1 DEF Tickets
    <3>2. LET u == [q.ticket EXCEPT !.live = FALSE]
          IN  u \in Tickets /\ u.live = FALSE /\ u.ctx = q.ticket.ctx
      BY <2>1 DEF Tickets
    <3> HIDE DEF t
    <3> QED BY <3>1, <3>2, SameTicket
  <2> HIDE DEF t, q
  <2>3. [q EXCEPT !.ticket.live = FALSE] = [q EXCEPT !.ticket = t]
    BY <2>1, <2>2 DEF Pendings
  <2>4. /\ [q EXCEPT !.ticket = t] \in Pendings /\ [q EXCEPT !.ticket = t].op = q.op
        /\ [q EXCEPT !.ticket = t].ticket = t /\ [q EXCEPT !.ticket = t].saved = q.saved
    BY <2>1, <2>2 DEF Pendings
  <2> QED BY <2>2, <2>3, <2>4 DEF q
<1>2. Obsolete(pend)[i] = [pend[i] EXCEPT !.ticket.live = FALSE]
  BY DEF Obsolete
<1>3. Obsolete(pend) \in [Slots -> Pendings]
  BY <1>1 DEF Obsolete
<1>4. [NoPending EXCEPT !.ticket.live = FALSE] = NoPending
  <2>1. NoPending.ticket = NoTicket /\ NoTicket \in Tickets /\ NoTicket.live = FALSE
    BY StartValues DEF NoPending, NoTicket, Tickets
  <2>2. [NoTicket EXCEPT !.live = FALSE] = NoTicket
    <3>1. LET u == [NoTicket EXCEPT !.live = FALSE]
          IN  u \in Tickets /\ u.live = NoTicket.live /\ u.ctx = NoTicket.ctx
      BY <2>1 DEF Tickets
    <3> QED BY <2>1, <3>1, SameTicket
  <2>3. [NoPending EXCEPT !.ticket.live = FALSE] = [NoPending EXCEPT !.ticket = NoTicket]
    BY <2>1, <2>2
  <2>4. LET u == [NoPending EXCEPT !.ticket = NoTicket]
        IN  /\ u \in Pendings /\ u.op = NoPending.op /\ u.arg = NoPending.arg
            /\ u.ticket = NoPending.ticket /\ u.before = NoPending.before
            /\ u.saved = NoPending.saved /\ u.aborted = NoPending.aborted
    BY <2>1, StartValues DEF Pendings
  <2> QED BY <2>3, <2>4, StartValues, SamePending
<1> QED BY <1>1, <1>2, <1>3, <1>4 DEF Of

-----------------------------------------------------------------------------
(* The worker: it answers a request at once, begins it, works on it, or    *)
(* replies.                                                                *)

Takes(kind) ==
  /\ worker.pc = "idle" /\ queue # <<>> /\ queue' = Tail(queue)
  /\ Write(Request.id, kind) /\ UNCHANGED <<worker, life>>

Unmoved == UNCHANGED <<project, disk, sessions>>
Moves   == project' \in Projects /\ project'.session = project.session /\ project'.rev = project.rev + 1

(* It handles a request for the present revision. *)
Serves == Request.ctx = Context /\ project # NoProject /\ project.rev < MaxRevision

Decided ==
  /\ Takes("ok") /\ Serves /\ sessions' = sessions
  /\ cache' \in [of : Versions, stale : BOOLEAN] /\ src' \in Versions \ {0} /\ head' \in Versions
  /\ \/ Request.op = "select" /\ Unmoved
     \/ /\ Moves /\ Request.op \in {"select", "phase", "reject"}
        /\ UNCHANGED disk /\ project'.of = project.of /\ project'.stale = project.stale
        /\ Request.op = "reject" => Clean
     \/ /\ Moves /\ Request.op = "approve" /\ Clean /\ src' = src + 1 /\ head' = src'
        /\ project'.of = src' /\ cache'.of = src'
     \/ /\ Moves /\ Request.op = "undo" /\ Clean /\ src' = src + 1 /\ head' = src'
        /\ project'.stale = TRUE /\ project'.of = cache.of /\ cache' = cache
     \/ /\ Moves /\ Request.op \in {"accept", "manual"} /\ Clean /\ UNCHANGED disk
        /\ project'.of = cache.of
     \/ /\ Moves /\ Request.op = "manual" /\ head' = src /\ src' = src
        /\ project'.stale = TRUE /\ project'.of = cache'.of

(* An opening, of a new session. *)
Opens ==
  /\ Takes("ok") /\ Request.op = "open" /\ UNCHANGED disk /\ sessions' = sessions + 1
  /\ sessions' \in 0 .. MaxSessions /\ project' \in Projects
  /\ project'.session = sessions' /\ project'.rev = 1 /\ project'.of = cache.of
  /\ ~project'.stale => project'.of = src

Begins ==
  /\ worker.pc = "idle" /\ queue # <<>> /\ queue' = Tail(queue) /\ Serves
  /\ Request.op \in Analyses \cup {"operate", "refresh"}
  /\ worker' = [r |-> Request, pc |-> "child", kind |-> "ok", of |-> 0]
  /\ UNCHANGED <<ops, toClient, project, disk, sessions, life>>

(* The child and what it leaves.  What is published has been read; what is *)
(* retained is stale.                                                      *)
Works ==
  /\ worker.pc \in {"child", "failed"}
  /\ worker' \in Workers /\ worker'.r = worker.r
  /\ UNCHANGED <<queue, ops, toClient, src, head, sessions, life>>
  /\ cache' \in [of : Versions, stale : BOOLEAN]
  /\ \/ /\ worker.pc = "child" /\ worker.r.op \in Analyses /\ worker'.pc \in {"child", "failed"}
        /\ worker'.of # 0 => worker'.of = src
        /\ worker'.pc = "child" => worker'.of # 0
        /\ UNCHANGED project
     \/ /\ worker'.pc = "reply" /\ UNCHANGED project /\ worker'.kind \in {"ok", "error", "cancelled"}
        /\ worker'.kind = "ok" => worker.r.op = "operate"
        /\ \/ cache' = cache /\ worker.r.op \in {"operate", "refresh"}
           \/ cache'.of = project.of
     \/ /\ worker'.pc = "reply" /\ worker'.kind = "ok" /\ worker.r.op = "refresh" /\ Moves
        /\ project'.of = project.of /\ project'.stale = project.stale /\ cache' = cache
     \/ /\ worker'.pc = "reply" /\ worker.r.op \in Analyses /\ Moves /\ cache'.of = project'.of
        /\ \/ project'.stale = TRUE
           \/ worker.pc = "child" /\ worker.of # 0 /\ project'.of = worker.of

LEMMA RequestFacts ==
  ASSUME Types, queue # <<>>
  PROVE  /\ Request \in Requests /\ Request.id \in Slots /\ Request.op \in Ops
         /\ Request.ctx \in Contexts /\ Request.arg \in Selections
         /\ Tail(queue) \in Seq(Requests)
<1>1. queue \in Seq(Requests)
  BY DEF Types
<1>2. Head(queue) \in Requests /\ Tail(queue) \in Seq(Requests)
  BY <1>1, Taken
<1> QED BY <1>2 DEF Request, Requests

LEMMA AnswersFacts ==
  ASSUME TypeInv, NEW methods, NEW kind \in Kinds, Begin(methods), Answers(kind)
  PROVE  Takes(kind) /\ Request.op \in methods
BY DEF Begin, Answers, Takes

LEMMA HandleFacts ==
  ASSUME TypeInv, NEW methods, Handle(methods)
  PROVE  /\ Begin(methods) /\ Request.op \in methods
         /\ Request.op # "open" => project # NoProject /\ Request.ctx = Context
BY DEF Handle, Begin, Current

LEMMA KindFacts == {"ok", "error", "stale", "cancelled", "failed", "saved"} \subseteq Kinds
BY DEF Kinds

LEMMA RefusalFacts ==
  ASSUME TypeInv, RefuseCancelled \/ RefuseStale \/ RefuseGuarded
  PROVE  \E kind \in {"cancelled", "stale", "error"} : Takes(kind) /\ Unmoved
<1>1. CASE RefuseCancelled
  BY <1>1, AnswersFacts, KindFacts DEF RefuseCancelled, Unmoved
<1>2. CASE RefuseStale
  BY <1>2, AnswersFacts, KindFacts DEF RefuseStale, Unmoved
<1>3. CASE RefuseGuarded
  BY <1>3, AnswersFacts, HandleFacts, KindFacts DEF RefuseGuarded, Unmoved
<1> QED BY <1>1, <1>2, <1>3

LEMMA ReadFacts ==
  ASSUME TypeInv, Read
  PROVE  /\ \E kind \in {"ok", "error"} : Takes(kind) /\ Unmoved
         /\ Request.op \in {"read", "view"} /\ Request.ctx = Context /\ project # NoProject
BY AnswersFacts, HandleFacts, KindFacts DEF Read, Unmoved

LEMMA OpenFacts ==
  ASSUME TypeInv, NEW target \in Selections, Open(target)
  PROVE  Opens
<1>1. /\ sessions \in Nat /\ sessions + 1 \in 0 .. MaxSessions /\ cache.of \in Versions
      /\ cache.stale \in BOOLEAN /\ sessions' = sessions + 1 /\ UNCHANGED disk
  BY Bounds DEF TypeInv, Types, Open
<1>2. Takes("ok") /\ Request.op = "open"
  <2>1. Answers("ok") /\ Handle({"open"})
    BY DEF Open
  <2> QED BY <2>1, AnswersFacts, HandleFacts, KindFacts
<1>3. project' = [session |-> sessions + 1, rev |-> 1, target |-> target,
                  of |-> cache.of, stale |-> cache.stale \/ cache.of # src]
  BY DEF Open
<1>4. project' \in Projects
  BY <1>1, <1>3, Bounds DEF Projects
<1>5. ~project'.stale => project'.of = src
  BY <1>3
<1> QED BY <1>1, <1>2, <1>3, <1>4, <1>5 DEF Opens

LEMMA DecideFacts ==
  ASSUME TypeInv, Select \/ Advance \/ ApproveStep \/ AcceptApproach \/ Undo \/ CommitManual
  PROVE  Decided
<1>1. /\ project \in Projects /\ cache \in [of : Versions, stale : BOOLEAN] /\ src \in Versions \ {0}
      /\ head \in Versions /\ cache.of \in Versions /\ cache.stale \in BOOLEAN /\ src \in Versions
  BY DEF TypeInv, Types
<1>2. ASSUME NEW methods, Handle(methods), Answers("ok"), "open" \notin methods, project.rev < MaxRevision
      PROVE  Takes("ok") /\ Serves /\ Request.op \in methods /\ Advanced(project) \in Projects
             /\ Advanced(project).session = project.session /\ Advanced(project).rev = project.rev + 1
             /\ Advanced(project).of = project.of /\ Advanced(project).stale = project.stale
             /\ Request.arg \in Selections
  <2>1. Begin(methods) /\ Request.op \in methods /\ Request.op # "open"
    BY <1>2, HandleFacts
  <2>2. Takes("ok") /\ Request.arg \in Selections
    BY <1>2, <2>1, AnswersFacts, KindFacts, RequestFacts DEF Begin, TypeInv
  <2> QED BY <1>1, <1>2, <2>1, <2>2, HandleFacts, AdvancedFacts DEF Serves
<1>3. ASSUME NEW of \in Versions, NEW stale \in BOOLEAN, Advanced(project) \in Projects
      PROVE  /\ Reviewed(of, stale) \in Projects /\ Reviewed(of, stale).of = of
             /\ Reviewed(of, stale).stale = stale
             /\ Reviewed(of, stale).session = Advanced(project).session
             /\ Reviewed(of, stale).rev = Advanced(project).rev
  BY <1>3 DEF Reviewed, Projects
<1>4. CASE Select
  <2>1. Handle({"select"}) /\ Answers("ok") /\ project.rev < MaxRevision /\ UNCHANGED <<disk, sessions>>
    BY <1>4 DEF Select
  <2>2. CASE project' = project
    BY <1>1, <1>2, <2>1, <2>2 DEF Decided, Unmoved, disk
  <2>3. CASE project' = [Advanced(project) EXCEPT !.target = Request.arg]
    <3>1. /\ project' \in Projects /\ project'.session = project.session
          /\ project'.rev = project.rev + 1 /\ project'.of = project.of
          /\ project'.stale = project.stale
      BY <1>2, <2>1, <2>3 DEF Projects
    <3> QED BY <1>1, <1>2, <2>1, <3>1 DEF Decided, Moves, disk
  <2> QED BY <1>4, <2>2, <2>3 DEF Select
<1>5. CASE Advance
  <2>1. /\ Handle({"phase", "reject"}) /\ Answers("ok") /\ project.rev < MaxRevision
        /\ UNCHANGED <<disk, sessions>> /\ project' = Advanced(project)
        /\ Request.op = "reject" => Clean
    BY <1>5 DEF Advance
  <2> QED BY <1>1, <1>2, <2>1 DEF Decided, Moves, disk
<1>6. CASE ApproveStep
  <2>1. /\ Handle({"approve"}) /\ Answers("ok") /\ project.rev < MaxRevision /\ sessions' = sessions
        /\ Clean /\ src < MaxSource /\ src' = src + 1 /\ head' = src'
        /\ cache' = [of |-> src', stale |-> FALSE] /\ project' = Reviewed(src', FALSE)
    BY <1>6 DEF ApproveStep
  <2>2. src' \in Versions \ {0}
    BY <1>1, <2>1, Bounds DEF Versions
  <2>3. Takes("ok") /\ Serves /\ Request.op = "approve" /\ Advanced(project) \in Projects
    BY <1>2, <2>1
  <2>4. Moves /\ project'.of = src'
    BY <1>2, <1>3, <2>1, <2>2, <2>3 DEF Moves
  <2>5. cache' \in [of : Versions, stale : BOOLEAN] /\ head' \in Versions /\ cache'.of = src'
    BY <2>1, <2>2
  <2> QED BY <2>1, <2>2, <2>3, <2>4, <2>5 DEF Decided
<1>7. CASE AcceptApproach
  <2>1. /\ Handle({"accept"}) /\ Answers("ok") /\ project.rev < MaxRevision
        /\ UNCHANGED <<disk, sessions>> /\ Clean /\ project' = Reviewed(cache.of, cache.stale)
    BY <1>7 DEF AcceptApproach
  <2> QED BY <1>1, <1>2, <1>3, <2>1 DEF Decided, Moves, disk
<1>8. CASE Undo
  <2>1. /\ Handle({"undo"}) /\ Answers("ok") /\ project.rev < MaxRevision /\ sessions' = sessions
        /\ Clean /\ src < MaxSource /\ src' = src + 1 /\ head' = src' /\ cache' = cache
        /\ project' = Reviewed(cache.of, TRUE)
    BY <1>8 DEF Undo
  <2>2. src' \in Versions \ {0}
    BY <1>1, <2>1, Bounds DEF Versions
  <2>3. Takes("ok") /\ Serves /\ Request.op = "undo" /\ Advanced(project) \in Projects
    BY <1>2, <2>1
  <2>4. Moves /\ project'.of = cache.of /\ project'.stale = TRUE
    BY <1>1, <1>2, <1>3, <2>1, <2>3 DEF Moves
  <2> QED BY <1>1, <2>1, <2>2, <2>3, <2>4 DEF Decided
<1>9. CASE CommitManual
  <2>1. /\ Handle({"manual"}) /\ Answers("ok") /\ project.rev < MaxRevision
        /\ UNCHANGED <<src, sessions>> /\ head' = src
        /\ \/ Clean /\ cache' = cache /\ project' = Reviewed(cache.of, cache.stale)
           \/ ~Clean /\ cache' = [of |-> src, stale |-> FALSE] /\ project' = Reviewed(src, TRUE)
    BY <1>9 DEF CommitManual
  <2>2. CASE Clean
    BY <1>1, <1>2, <1>3, <2>1, <2>2 DEF Decided, Moves, disk, Clean
  <2>3. CASE ~Clean
    <3>1. Takes("ok") /\ Serves /\ Request.op = "manual" /\ Advanced(project) \in Projects
      BY <1>2, <2>1
    <3>2. Moves /\ project'.of = src /\ project'.stale = TRUE
      <4>1. project' = Reviewed(src, TRUE) /\ src \in Versions
        BY <1>1, <2>1, <2>3
      <4>2. Advanced(project).session = project.session /\ Advanced(project).rev = project.rev + 1
        BY <1>2, <2>1
      <4> QED BY <1>3, <3>1, <4>1, <4>2 DEF Moves
    <3>3. cache' \in [of : Versions, stale : BOOLEAN] /\ cache'.of = src
      <4>1. cache' = [of |-> src, stale |-> FALSE] /\ src \in Versions
        BY <1>1, <2>1, <2>3
      <4> QED BY <4>1
    <3>4. src' = src /\ sessions' = sessions /\ head' = src
      BY <2>1
    <3> QED BY <1>1, <3>1, <3>2, <3>3, <3>4 DEF Decided
  <2> QED BY <2>2, <2>3
<1> QED BY <1>4, <1>5, <1>6, <1>7, <1>8, <1>9

LEMMA BeginFacts ==
  ASSUME TypeInv, BeginChild
  PROVE  Begins
<1> DEFINE methods == {"operate", "refresh", "analyse", "automatic", "save"}
<1>1. /\ Handle(methods) /\ project.rev < MaxRevision
      /\ worker' = [r |-> Request, pc |-> "child", kind |-> "ok", of |-> 0]
      /\ UNCHANGED <<ops, toClient, project, disk, sessions>>
  BY DEF BeginChild
<1>2. Begin(methods) /\ Request.op \in methods /\ Request.op # "open"
  BY <1>1, HandleFacts
<1>3. Serves
  BY <1>1, <1>2, HandleFacts DEF Serves
<1> QED BY <1>1, <1>2, <1>3 DEF Begins, Begin, Analyses

LEMMA WorkFacts ==
  ASSUME TypeInv, Operated \/ ReadSources \/ AnalysisCancelled \/ AnalysisPublished \/ AnalysisFailed
  PROVE  Works
<1>1. /\ project \in Projects /\ cache \in [of : Versions, stale : BOOLEAN] /\ src \in Versions \ {0}
      /\ worker \in Workers /\ project.of \in Versions /\ project.stale \in BOOLEAN
      /\ worker.of \in Versions /\ project.target \in Selections /\ "whole" \in Selections
      /\ src \in Versions
  BY OpFacts DEF TypeInv, Types, Projects, Workers
<1>2. worker.pc \in {"child", "failed"} =>
        /\ Advanced(project) \in Projects /\ Advanced(project).session = project.session
        /\ Advanced(project).rev = project.rev + 1
        /\ Advanced(project).of = project.of /\ Advanced(project).stale = project.stale
  BY <1>1, AdvancedFacts DEF TypeInv, Shape
<1>3. ASSUME NEW kind \in Kinds, Outcome(worker.r, kind)
      PROVE  worker' \in Workers /\ worker'.r = worker.r /\ worker'.pc = "reply" /\ worker'.kind = kind
  BY <1>1, <1>3, Bounds DEF Outcome, Workers
<1>4. ASSUME NEW p \in Projects
      PROVE  /\ Saved(p) => cache' \in [of : Versions, stale : BOOLEAN] /\ cache'.of = p.of
             /\ RestoredCache(p) \in [of : Versions, stale : BOOLEAN] /\ RestoredCache(p).of = p.of
  BY DEF Saved, RestoredCache, Projects
<1>5. CASE Operated
  <2>1. /\ AtChild({"operate", "refresh"}) /\ UNCHANGED <<queue, ops, toClient, disk, sessions, life>>
        /\ \E kind \in {"ok", "error", "cancelled"} :
             /\ Outcome(worker.r, kind)
             /\ \/ /\ kind = "ok" /\ worker.r.op = "refresh"
                   /\ \E target \in {project.target, "whole"} :
                        project' = [Advanced(project) EXCEPT !.target = target]
                \/ ~(kind = "ok" /\ worker.r.op = "refresh") /\ project' = project
    BY <1>5 DEF Operated
  <2>2. worker.pc = "child" /\ worker.r.op \in {"operate", "refresh"}
    BY <2>1 DEF AtChild
  <2>3. PICK kind \in {"ok", "error", "cancelled"} :
             /\ Outcome(worker.r, kind)
             /\ \/ /\ kind = "ok" /\ worker.r.op = "refresh"
                   /\ \E target \in {project.target, "whole"} :
                        project' = [Advanced(project) EXCEPT !.target = target]
                \/ ~(kind = "ok" /\ worker.r.op = "refresh") /\ project' = project
    BY <2>1
  <2>4. worker' \in Workers /\ worker'.r = worker.r /\ worker'.pc = "reply" /\ worker'.kind = kind
    BY <1>3, <2>3, KindFacts
  <2>5. CASE project' = project /\ ~(kind = "ok" /\ worker.r.op = "refresh")
    BY <1>1, <2>1, <2>2, <2>3, <2>4, <2>5 DEF Works, disk
  <2>6. CASE \E target \in {project.target, "whole"} :
               project' = [Advanced(project) EXCEPT !.target = target]
    <3>1. Moves /\ project'.of = project.of /\ project'.stale = project.stale
      BY <1>1, <1>2, <2>2, <2>6 DEF Moves, Projects
    <3>2. CASE kind = "ok" /\ worker.r.op = "refresh"
      BY <1>1, <2>1, <2>2, <2>4, <3>1, <3>2 DEF Works, disk
    <3> QED BY <2>3, <2>5, <3>2
  <2> QED BY <2>3, <2>5, <2>6
<1>6. CASE ReadSources
  <2>1. /\ worker.pc = "child" /\ worker.r.op \in Analyses /\ worker.of = 0
        /\ UNCHANGED <<queue, ops, toClient, project, src, head, sessions, life>>
        /\ \/ worker' = [worker EXCEPT !.of = src] /\ cache' = [of |-> src, stale |-> FALSE]
           \/ worker' = [worker EXCEPT !.pc = "failed"] /\ cache' \in {cache, [of |-> src, stale |-> FALSE]}
    BY <1>6 DEF ReadSources, AtChild
  <2>2. cache' \in [of : Versions, stale : BOOLEAN]
    <3>1. cache' \in {cache, [of |-> src, stale |-> FALSE]}
      BY <2>1
    <3>2. [of |-> src, stale |-> FALSE] \in [of : Versions, stale : BOOLEAN]
      BY <1>1
    <3> QED BY <1>1, <3>1, <3>2
  <2>3. /\ worker' \in Workers /\ worker'.r = worker.r /\ worker'.pc \in {"child", "failed"}
        /\ worker'.of # 0 => worker'.of = src
        /\ worker'.pc = "child" => worker'.of # 0
    BY <1>1, <2>1 DEF Workers
  <2> QED BY <2>1, <2>2, <2>3 DEF Works
<1>7. CASE AnalysisCancelled
  <2>1. /\ worker.pc \in {"child", "failed"} /\ worker.r.op \in Analyses
        /\ UNCHANGED <<queue, ops, toClient, src, head, sessions, life>>
        /\ \/ /\ project' = [Advanced(project) EXCEPT !.stale = TRUE]
              /\ Saved(project') /\ Outcome(worker.r, "saved")
           \/ /\ project' = project /\ cache' = RestoredCache(project)
              /\ Outcome(worker.r, "cancelled")
    BY <1>7 DEF AnalysisCancelled, AtChild
  <2>2. CASE /\ project' = [Advanced(project) EXCEPT !.stale = TRUE]
             /\ Saved(project') /\ Outcome(worker.r, "saved")
    <3>1. Moves /\ project'.stale = TRUE
      BY <1>1, <1>2, <2>1, <2>2 DEF Moves, Projects
    <3>2. worker' \in Workers /\ worker'.r = worker.r /\ worker'.pc = "reply"
      BY <1>3, <2>2, KindFacts
    <3>3. cache' \in [of : Versions, stale : BOOLEAN] /\ cache'.of = project'.of
      BY <1>4, <2>2, <3>1 DEF Moves
    <3> QED BY <2>1, <3>1, <3>2, <3>3 DEF Works
  <2>3. CASE project' = project /\ cache' = RestoredCache(project) /\ Outcome(worker.r, "cancelled")
    <3>1. worker' \in Workers /\ worker'.r = worker.r /\ worker'.pc = "reply" /\ worker'.kind = "cancelled"
      BY <1>3, <2>3, KindFacts
    <3>2. cache' \in [of : Versions, stale : BOOLEAN] /\ cache'.of = project.of
      BY <1>1, <1>4, <2>3
    <3> QED BY <2>1, <2>3, <3>1, <3>2 DEF Works
  <2> QED BY <2>1, <2>2, <2>3
<1>8. CASE AnalysisPublished
  <2>1. /\ worker.pc = "child" /\ worker.r.op \in Analyses /\ worker.of # 0
        /\ UNCHANGED <<queue, ops, toClient, src, head, sessions, life>>
        /\ Saved(project') /\ Outcome(worker.r, "ok")
        /\ \E target \in {project.target, "whole"} :
             project' = [Advanced(project) EXCEPT !.target = target, !.of = worker.of,
                                                  !.stale = ChangedMeanwhile]
    BY <1>8 DEF AnalysisPublished, AtChild
  <2>2. ChangedMeanwhile \in BOOLEAN
    BY DEF ChangedMeanwhile
  <2>3. Moves /\ project'.of = worker.of
    <3> DEFINE p == Advanced(project)
    <3>1. p \in Projects /\ p.session = project.session /\ p.rev = project.rev + 1
      BY <1>2, <2>1
    <3>2. PICK target \in {project.target, "whole"} :
             project' = [p EXCEPT !.target = target, !.of = worker.of, !.stale = ChangedMeanwhile]
      BY <2>1
    <3>3. target \in Selections
      BY <1>1
    <3> HIDE DEF p
    <3> QED BY <1>1, <2>2, <3>1, <3>2, <3>3 DEF Moves, Projects
  <2>4. worker' \in Workers /\ worker'.r = worker.r /\ worker'.pc = "reply"
    BY <1>3, <2>1, KindFacts
  <2>5. cache' \in [of : Versions, stale : BOOLEAN] /\ cache'.of = project'.of
    BY <1>4, <2>1, <2>3 DEF Moves
  <2> QED BY <2>1, <2>3, <2>4, <2>5 DEF Works
<1>9. CASE AnalysisFailed
  <2>1. /\ worker.pc = "failed" /\ worker.r.op \in Analyses
        /\ UNCHANGED <<queue, ops, toClient, src, head, sessions, life>>
        /\ project' = [Advanced(project) EXCEPT !.stale = TRUE] /\ Saved(project')
        /\ \E kind \in {"ok", "failed"} : Outcome(worker.r, kind)
    BY <1>9 DEF AnalysisFailed
  <2>2. Moves /\ project'.stale = TRUE
    BY <1>1, <1>2, <2>1 DEF Moves, Projects
  <2>3. worker' \in Workers /\ worker'.r = worker.r /\ worker'.pc = "reply"
    BY <1>3, <2>1, KindFacts
  <2>4. cache' \in [of : Versions, stale : BOOLEAN] /\ cache'.of = project'.of
    BY <1>4, <2>1, <2>2 DEF Moves
  <2> QED BY <2>1, <2>2, <2>3, <2>4 DEF Works
<1> QED BY <1>5, <1>6, <1>7, <1>8, <1>9

(* A reply: the answer may come out as cancelled, whatever has been done.  *)
Replies(kind) ==
  /\ worker.pc = "reply" /\ worker' = IdleWorker /\ kind \in {worker.kind, "cancelled"}
  /\ Write(worker.r.id, kind) /\ UNCHANGED <<queue, project, disk, sessions, life>>

LEMMA WorkerFacts ==
  ASSUME TypeInv, Worker
  PROVE  \/ \E kind \in {"cancelled", "stale", "error"} : Takes(kind) /\ Unmoved
         \/ /\ \E kind \in {"ok", "error"} : Takes(kind) /\ Unmoved
            /\ Request.op \in {"read", "view"} /\ Request.ctx = Context /\ project # NoProject
         \/ Opens \/ Decided \/ Begins \/ Works
         \/ \E kind \in Kinds : Replies(kind)
<1>1. CASE Reply
  <2>1. LateCheck(worker.kind, worker.r.id) \in {worker.kind, "cancelled"} /\ worker.kind \in Kinds
    BY DEF LateCheck, TypeInv, Types, Workers
  <2>2. Replies(LateCheck(worker.kind, worker.r.id))
    BY <1>1, <2>1 DEF Reply, Replies
  <2> QED BY <2>1, <2>2, KindFacts
<1> QED BY <1>1, RefusalFacts, ReadFacts, OpenFacts, DecideFacts, BeginFacts, WorkFacts DEF Worker

-----------------------------------------------------------------------------
(* The extension: it sends a request, hears an answer, or is reset.        *)

EventSets == [Ids -> {"none", "live", "cancelled"}]
Models    == [state : States, of : Versions]

Sends(i, p) ==
  /\ Up /\ Of(i) = NoPending /\ p.op \in Ops /\ ~p.saved /\ p.ticket.live
  /\ \E f \in Requests :
       f.id = i /\ f.op = p.op /\ f.ctx = p.ticket.ctx /\ queue' = Append(queue, f)
  /\ ops' \in EventSets /\ UNCHANGED <<worker, toClient, project, disk, sessions, life>>

Asks(i, p) ==
  /\ Sends(i, p) /\ p.op \notin {"open", "select"} /\ ctx # NoContext /\ p.ticket.ctx = ctx
  /\ p.op \in {"analyse", "automatic"} => i = "cmd" /\ p.before = shown.state
  /\ pend' = [pend EXCEPT ![i] = p]
  /\ shown' \in Models /\ shown'.of = shown.of
  /\ shown'.state = "fresh" => shown.state = "fresh"
  /\ refresh' \in BOOLEAN /\ UNCHANGED <<ctx, unreported, known>>

Leaves(p) == pend' = [Obsolete(pend) EXCEPT !["sel"] = p] /\ unreported' = FALSE /\ refresh' = FALSE

GoesTo(p) ==
  /\ Sends("sel", p) /\ p.op = "open" /\ p.ticket.ctx = NoContext /\ Leaves(p)
  /\ ctx' = NoContext /\ shown' = NoModel /\ known' = known

Selects(p) ==
  /\ Sends("sel", p) /\ p.op = "select" /\ p.ticket.ctx = ctx /\ ctx # NoContext /\ Leaves(p)
  /\ shown' \in Models /\ shown'.of = shown.of
  /\ shown'.state = "fresh" => shown.state = "fresh"
  /\ known' = (known \/ unreported) /\ ctx' = ctx

(* Nothing is sent or heard; what has been saved is marked. *)
SameRequests ==
  /\ pend' \in [Slots -> Pendings]
  /\ \A j \in Slots : /\ pend'[j].op = pend[j].op /\ pend'[j].ticket = pend[j].ticket
                      /\ pend'[j].before = pend[j].before
                      /\ pend[j] = NoPending => pend'[j] = NoPending

Tweaks ==
  /\ SameRequests /\ \A j \in Slots : pend'[j].saved = pend[j].saved
  /\ ops' \in EventSets
  /\ UNCHANGED <<queue, worker, toClient, project, disk, sessions, life, ctx, shown, unreported,
                 refresh, known>>

Reports ==
  /\ SameRequests
  /\ \A j \in Slots : pend'[j].saved = (pend[j].saved \/ pend[j].op \in Analyses \cup Decisions)
  /\ unreported /\ unreported' = FALSE /\ refresh' \in BOOLEAN
  /\ shown' \in Models /\ shown'.of = shown.of /\ shown'.state # "fresh"
  /\ UNCHANGED <<service, ctx, known>>

Hears(i) ==
  /\ toClient # <<>> /\ Answer.id = i /\ toClient' = Tail(toClient)
  /\ pend' = [pend EXCEPT ![i] = NoPending]
  /\ UNCHANGED <<queue, worker, ops, project, disk, sessions, life, unreported>>

LEMMA CaptureFacts ==
  ASSUME Types
  PROVE  Capture \in Tickets /\ Capture.live = TRUE /\ Capture.ctx = ctx
BY DEF Types, Capture, Tickets

LEMMA EventFacts ==
  ASSUME Types
  PROVE  /\ \A ids \in {Ids} \cup {{i} : i \in Ids} : Signalled(ids) \in EventSets
         /\ \A r \in Requests : Route(r) => ops' \in EventSets
<1>1. ops \in EventSets
  BY DEF Types, EventSets
<1>2. \A ids \in {Ids} \cup {{i} : i \in Ids} : Signalled(ids) \in EventSets
  BY <1>1 DEF Signalled, EventSets
<1>3. ASSUME NEW r \in Requests, Route(r) PROVE ops' \in EventSets
  <2>1. PICK e \in EventSets : ops' = Reserved(r, e)
    BY <1>1, <1>2, <1>3 DEF Route
  <2>2. r.id \in Ids
    BY OpFacts DEF Requests
  <2> QED BY <2>1, <2>2 DEF Reserved, EventSets
<1> QED BY <1>2, <1>3

LEMMA SendFacts ==
  ASSUME TypeInv, NEW i \in Slots, NEW op \in Ops, NEW arg \in Selections, NEW t \in Tickets,
         NEW before \in States, Up, Of(i) = NoPending, t.live, Route(Frame(i, op, arg, t.ctx))
  PROVE  Sends(i, Pending(op, arg, t, before))
<1> DEFINE p == Pending(op, arg, t, before)
           f == Frame(i, op, arg, t.ctx)
<1>1. t.ctx \in Contexts
  BY DEF Tickets
<1>2. f \in Requests /\ f.id = i /\ f.op = op /\ f.ctx = t.ctx
  BY <1>1, FrameFacts
<1>3. p.op = op /\ p.ticket = t /\ p.saved = FALSE
  BY DEF Pending, NoPending
<1>4. Route(f)
  OBVIOUS
<1> HIDE DEF p, f
<1>5. ops' \in EventSets
  BY <1>2, <1>4, EventFacts DEF TypeInv
<1>6. /\ queue' = Append(queue, f)
      /\ UNCHANGED <<worker, toClient, project, disk, sessions, life>>
  BY <1>4 DEF Route, Queued
<1> QED BY <1>2, <1>3, <1>5, <1>6 DEF Sends, p

LEMMA AskFacts ==
  ASSUME TypeInv, NEW i \in Slots, NEW op \in Ops \ {"open", "select"}, NEW before \in States, Opened,
         Ask(i, Pending(op, "whole", Capture, before)),
         pend' = [pend EXCEPT ![i] = Pending(op, "whole", Capture, before)],
         op \in {"analyse", "automatic"} => i = "cmd" /\ before = shown.state,
         shown' = shown \/ shown' = [shown EXCEPT !.state = "analysing"],
         refresh' \in BOOLEAN, UNCHANGED <<ctx, unreported>>
  PROVE  \E p \in Pendings : Asks(i, p)
<1> DEFINE p == Pending(op, "whole", Capture, before)
<1>1. Capture \in Tickets /\ Capture.live = TRUE /\ Capture.ctx = ctx
  BY CaptureFacts DEF TypeInv
<1>2. /\ p \in Pendings /\ p.op = op /\ p.arg = "whole" /\ p.ticket = Capture /\ p.saved = FALSE
      /\ p.before = before
  BY <1>1, OpFacts DEF Pending, NoPending, Pendings
<1>3. Ask(i, p) /\ pend' = [pend EXCEPT ![i] = p]
  OBVIOUS
<1>4. Up /\ Of(i) = NoPending /\ Route(Frame(i, op, "whole", ctx)) /\ known' = known
  <2> HIDE DEF p
  <2>1. Up /\ Of(i) = NoPending /\ Route(Frame(i, p.op, p.arg, p.ticket.ctx)) /\ known' = known
    BY <1>3 DEF Ask, Waiting
  <2> QED BY <1>1, <1>2, <2>1
<1>5. Sends(i, p)
  BY <1>1, <1>4, SendFacts, OpFacts
<1>6. /\ shown' \in Models /\ shown'.of = shown.of
      /\ shown'.state = "fresh" => shown.state = "fresh"
  BY DEF TypeInv, Types, Models, States
<1> HIDE DEF p
<1> QED BY <1>1, <1>2, <1>3, <1>4, <1>5, <1>6 DEF Asks, Opened

LEMMA CommandFacts ==
  ASSUME TypeInv, \/ \E op \in Commands : Command(op)
                  \/ Flush
                  \/ \E op \in {"view"} \cup Decisions : ViewRequest(op)
  PROVE  \E i \in Slots, p \in Pendings : Asks(i, p)
<1>1. shown.state \in States /\ "none" \in States /\ refresh \in BOOLEAN
  BY DEF TypeInv, Types, States
<1>2. ASSUME NEW op \in Commands, Command(op) PROVE \E p \in Pendings : Asks("cmd", p)
  <2> DEFINE before == IF op = "analyse" THEN shown.state ELSE "none"
  <2>1. /\ Opened /\ Ask("cmd", Pending(op, "whole", Capture, before))
        /\ pend' = [pend EXCEPT !["cmd"] = Pending(op, "whole", Capture, before)]
        /\ shown' = shown \/ shown' = [shown EXCEPT !.state = "analysing"]
        /\ UNCHANGED <<ctx, unreported, refresh>>
    BY <1>2 DEF Command
  <2>2. before \in States /\ (op \in {"analyse", "automatic"} => before = shown.state)
    BY <1>1, OpFacts
  <2>3. op \in Ops \ {"open", "select"} /\ "cmd" \in Slots
    BY OpFacts
  <2> HIDE DEF before
  <2> QED BY <1>1, <2>1, <2>2, <2>3, AskFacts
<1>3. ASSUME Flush PROVE \E p \in Pendings : Asks("cmd", p)
  <2>1. /\ Opened /\ Ask("cmd", Pending("automatic", "whole", Capture, shown.state))
        /\ pend' = [pend EXCEPT !["cmd"] = Pending("automatic", "whole", Capture, shown.state)]
        /\ shown' = [shown EXCEPT !.state = "analysing"]
        /\ refresh' \in BOOLEAN /\ UNCHANGED <<ctx, unreported>>
    BY <1>3 DEF Flush
  <2>2. "automatic" \in Ops \ {"open", "select"} /\ "cmd" \in Slots
    BY OpFacts
  <2> QED BY <1>1, <2>1, <2>2, AskFacts
<1>4. ASSUME NEW op \in {"view"} \cup Decisions, ViewRequest(op) PROVE \E p \in Pendings : Asks("view", p)
  <2>1. /\ Opened /\ Ask("view", Pending(op, "whole", Capture, "none"))
        /\ pend' = [pend EXCEPT !["view"] = Pending(op, "whole", Capture, "none")]
        /\ UNCHANGED <<ctx, shown, unreported, refresh>>
    BY <1>4 DEF ViewRequest
  <2>2. op \in Ops \ {"open", "select"} /\ op \notin {"analyse", "automatic"} /\ "view" \in Slots
    BY OpFacts
  <2> QED BY <1>1, <2>1, <2>2, AskFacts
<1> QED BY <1>2, <1>3, <1>4, OpFacts

LEMMA SelectionFacts ==
  ASSUME TypeInv, OpenProject \/ \E target \in Selections : SelectTarget(target)
  PROVE  \E p \in Pendings : GoesTo(p) \/ Selects(p)
<1>1. "none" \in States /\ "sel" \in Slots /\ "whole" \in Selections /\ {"open", "select"} \subseteq Ops
  BY OpFacts DEF States
<1>2. CASE OpenProject
  <2> DEFINE t == [live |-> TRUE, ctx |-> NoContext]
             p == Pending("open", "whole", t, "none")
  <2>1. t \in Tickets /\ t.live = TRUE /\ t.ctx = NoContext
    BY StartValues DEF Tickets
  <2>2. /\ ~Changing /\ Ask("sel", p) /\ ctx' = NoContext /\ shown' = NoModel
        /\ pend' = [Obsolete(pend) EXCEPT !["sel"] = p] /\ unreported' = FALSE /\ refresh' = FALSE
    BY <1>2 DEF OpenProject
  <2> HIDE DEF t
  <2>3. p \in Pendings /\ p.op = "open" /\ p.arg = "whole" /\ p.ticket = t
    BY <1>1, <2>1 DEF Pending, NoPending, Pendings
  <2>4. Up /\ Of("sel") = NoPending /\ Route(Frame("sel", "open", "whole", t.ctx)) /\ known' = known
    <3> HIDE DEF p
    <3>1. Up /\ Of("sel") = NoPending /\ Route(Frame("sel", p.op, p.arg, p.ticket.ctx)) /\ known' = known
      BY <2>2 DEF Ask, Waiting
    <3> QED BY <2>3, <3>1
  <2>5. Sends("sel", p)
    BY <1>1, <2>1, <2>4, SendFacts
  <2> HIDE DEF p
  <2> QED BY <2>1, <2>2, <2>3, <2>4, <2>5 DEF GoesTo, Leaves
<1>3. ASSUME NEW target \in Selections, SelectTarget(target) PROVE \E p \in Pendings : Selects(p)
  <2> DEFINE p == Pending("select", target, Capture, "none")
  <2>1. Capture \in Tickets /\ Capture.live = TRUE /\ Capture.ctx = ctx
    BY CaptureFacts DEF TypeInv
  <2>2. /\ ~Changing /\ Opened /\ Up /\ Route(Frame("sel", "select", target, ctx))
        /\ pend' = [Obsolete(pend) EXCEPT !["sel"] = p] /\ shown' = Superseded(shown)
        /\ known' = (known \/ unreported) /\ unreported' = FALSE /\ refresh' = FALSE /\ ctx' = ctx
    BY <1>3 DEF SelectTarget
  <2>3. p \in Pendings /\ p.op = "select" /\ p.ticket = Capture
    BY <1>1, <2>1 DEF Pending, NoPending, Pendings
  <2>4. Sends("sel", p)
    BY <1>1, <2>1, <2>2, SendFacts DEF Changing, Waiting
  <2>5. /\ shown' \in Models /\ shown'.of = shown.of
        /\ shown'.state = "fresh" => shown.state = "fresh"
    BY <2>2 DEF Superseded, TypeInv, Types, Models, States
  <2> HIDE DEF p
  <2> QED BY <2>1, <2>2, <2>3, <2>4, <2>5 DEF Selects, Leaves, Opened
<1> QED BY <1>2, <1>3

LEMMA AbortFacts ==
  ASSUME TypeInv, Abort
  PROVE  Tweaks
<1>1. pend \in [Slots -> Pendings] /\ "cmd" \in Slots /\ "cmd" \in Ids
  BY OpFacts DEF TypeInv, Types
<1>2. /\ pend["cmd"].op # "none" /\ ops' = Signalled({"cmd"})
      /\ pend' = [pend EXCEPT !["cmd"].aborted = TRUE]
      /\ UNCHANGED <<queue, worker, toClient, project, disk, sessions, life, ctx, shown, unreported,
                     refresh, known>>
  BY DEF Abort, RouteCancel
<1>3. ops' \in EventSets
  BY <1>1, <1>2, EventFacts DEF TypeInv
<1>4. SameRequests /\ \A j \in Slots : pend'[j].saved = pend[j].saved
  <2> DEFINE q == pend["cmd"]
             p == [q EXCEPT !.aborted = TRUE]
  <2>1. /\ p \in Pendings /\ p.op = q.op /\ p.ticket = q.ticket /\ p.before = q.before
        /\ p.saved = q.saved
    BY <1>1 DEF Pendings
  <2>2. pend' = [pend EXCEPT !["cmd"] = p] /\ q # NoPending
    BY <1>2, StartValues
  <2> HIDE DEF p
  <2> QED BY <1>1, <2>1, <2>2 DEF SameRequests
<1> QED BY <1>2, <1>3, <1>4 DEF Tweaks

LEMMA ReportFacts ==
  ASSUME TypeInv, ReportSave
  PROVE  Reports
<1>1. pend \in [Slots -> Pendings] /\ shown \in Models /\ refresh \in BOOLEAN
  BY DEF TypeInv, Types, Models
<1>2. /\ unreported /\ unreported' = FALSE /\ refresh' \in BOOLEAN
      /\ UNCHANGED <<service, ctx, known>>
  BY <1>1 DEF ReportSave
<1>3. shown' \in Models /\ shown'.of = shown.of /\ shown'.state # "fresh"
  BY <1>1 DEF ReportSave, Models, States
<1>4. ASSUME NEW j \in Slots
      PROVE  /\ pend'[j] \in Pendings /\ pend'[j].op = pend[j].op /\ pend'[j].ticket = pend[j].ticket
             /\ pend'[j].before = pend[j].before
             /\ pend'[j].saved = (pend[j].saved \/ pend[j].op \in Analyses \cup Decisions)
             /\ pend[j] = NoPending => pend'[j] = NoPending
  <2> DEFINE q == pend[j]
             p == [q EXCEPT !.saved = TRUE]
  <2>1. q \in Pendings /\ q.saved \in BOOLEAN
    BY <1>1 DEF Pendings
  <2>2. /\ p \in Pendings /\ p.op = q.op /\ p.ticket = q.ticket /\ p.before = q.before
        /\ p.saved = TRUE
    BY <2>1 DEF Pendings
  <2>3. pend'[j] = IF q.op \in Analyses \cup Decisions THEN p ELSE q
    BY DEF ReportSave, Of
  <2>4. "none" \notin Analyses \cup Decisions
    BY OpFacts DEF Analyses
  <2> HIDE DEF p, q
  <2>5. CASE q.op \in Analyses \cup Decisions
    BY <2>1, <2>2, <2>3, <2>4, <2>5, StartValues DEF q
  <2>6. CASE q.op \notin Analyses \cup Decisions
    BY <2>1, <2>3, <2>6 DEF q
  <2> QED BY <2>5, <2>6
<1>5. pend' \in [Slots -> Pendings]
  <2>1. pend' = [j \in Slots |-> pend'[j]]
    BY DEF ReportSave
  <2> QED BY <1>4, <2>1
<1> QED BY <1>2, <1>3, <1>4, <1>5 DEF Reports, SameRequests

LEMMA HearFacts ==
  ASSUME NEW i \in Slots, Accept(i) \/ Drop(i)
  PROVE  Hears(i)
BY DEF Accept, Drop, Hears, Receives, Done

-----------------------------------------------------------------------------
(* What a step can be.                                                     *)

Refuses == \E kind \in {"cancelled", "stale", "error"} : Takes(kind) /\ Unmoved
Looks ==
  /\ \E kind \in {"ok", "error"} : Takes(kind) /\ Unmoved
  /\ Request.op \in {"read", "view"} /\ Request.ctx = Context /\ project # NoProject
Quits   == Restart \/ Killed

LEMMA NextFacts ==
  ASSUME TypeInv, Next
  PROVE  \/ \E i \in Slots, p \in Pendings : Asks(i, p)
         \/ \E p \in Pendings : GoesTo(p) \/ Selects(p)
         \/ \E i \in Slots : Hears(i) /\ (Accept(i) \/ Drop(i))
         \/ Tweaks \/ SaveSource \/ Reports \/ Quits
         \/ /\ UNCHANGED client
            /\ \/ Exit \/ Refuses \/ Looks \/ Opens \/ Decided \/ Begins \/ Works
               \/ \E kind \in Kinds : Replies(kind)
<1>1. CASE \E i \in Slots : Accept(i) \/ Drop(i)
  BY <1>1, HearFacts
<1>2. CASE Abort
  BY <1>2, AbortFacts
<1>3. CASE ReportSave
  BY <1>3, ReportFacts
<1>4. CASE ServiceStep
  <2>1. UNCHANGED client /\ (Worker \/ Exit)
    BY <1>4 DEF ServiceStep
  <2> QED BY <2>1, WorkerFacts DEF Refuses, Looks
<1>5. CASE OpenProject \/ \E target \in Selections : SelectTarget(target)
  BY <1>5, SelectionFacts
<1>6. CASE \/ \E op \in Commands : Command(op)
           \/ Flush
           \/ \E op \in {"view"} \cup Decisions : ViewRequest(op)
  BY <1>6, CommandFacts
<1>7. CASE SaveSource \/ Restart \/ Killed
  BY <1>7 DEF Quits
<1> QED BY <1>1, <1>2, <1>3, <1>4, <1>5, <1>6, <1>7 DEF Next

(* An answer that is written, and where it is then. *)
Adds(a, i, kind) ==
  /\ a \in Frames /\ a.id = i /\ a.kind = kind /\ a.ctx = Context'
  /\ a.of = project'.of /\ a.stale = project'.stale
  /\ toClient' \in Seq(Frames) /\ Elements(toClient') = Elements(toClient) \cup {a}
  /\ Idents(toClient') = Idents(toClient) \cup {i}
  /\ OneEach(toClient) /\ i \notin Idents(toClient) => OneEach(toClient')
  /\ ops' \in EventSets

LEMMA WriteFacts ==
  ASSUME Types, NEW i \in Slots, NEW kind \in Kinds, project' \in Projects, Write(i, kind)
  PROVE  \E a : Adds(a, i, kind)
<1> DEFINE a == AnswerTo(i, kind, project')
<1>1. /\ a \in Frames /\ a.id = i /\ a.kind = kind /\ a.ctx = ContextOf(project')
      /\ a.of = project'.of /\ a.stale = project'.stale
  BY AnswerFacts
<1>2. toClient' = Append(toClient, a) /\ ops' = [ops EXCEPT ![i] = "none"]
  BY DEF Write
<1>3. ops' \in EventSets
  BY <1>2, OpFacts DEF Types, EventSets
<1>4. toClient \in Seq(Frames)
  BY DEF Types
<1>5. Context' = ContextOf(project')
  BY DEF Context
<1> HIDE DEF a
<1>6. /\ Append(toClient, a) \in Seq(Frames)
      /\ Elements(Append(toClient, a)) = Elements(toClient) \cup {a}
      /\ Idents(Append(toClient, a)) = Idents(toClient) \cup {a.id}
      /\ OneEach(toClient) /\ a.id \notin Idents(toClient) => OneEach(Append(toClient, a))
  BY <1>1, <1>4, Appended
<1> QED BY <1>1, <1>2, <1>3, <1>5, <1>6 DEF Adds

LEMMA TakeFacts ==
  ASSUME TypeInv, NEW kind \in Kinds, Takes(kind), project' \in Projects
  PROVE  /\ worker.pc = "idle" /\ worker = IdleWorker /\ queue # <<>> /\ queue' = Tail(queue)
         /\ UNCHANGED <<worker, life>>
         /\ Request.id \in Slots /\ \E a : Adds(a, Request.id, kind)
<1>1. queue # <<>> /\ worker.pc = "idle" /\ queue' = Tail(queue) /\ Write(Request.id, kind)
      /\ UNCHANGED <<worker, life>>
  BY DEF Takes
<1>2. Request.id \in Slots
  BY <1>1, RequestFacts DEF TypeInv
<1>3. worker = IdleWorker
  BY <1>1 DEF TypeInv, Shape
<1> QED BY <1>1, <1>2, <1>3, WriteFacts DEF TypeInv

LEMMA ReplyFacts ==
  ASSUME TypeInv, NEW kind \in Kinds, Replies(kind)
  PROVE  /\ worker.pc = "reply" /\ worker' = IdleWorker /\ kind \in {worker.kind, "cancelled"}
         /\ UNCHANGED <<queue, project, disk, sessions, life>>
         /\ worker.r.id \in Slots /\ \E a : Adds(a, worker.r.id, kind)
<1>1. /\ worker.pc = "reply" /\ worker' = IdleWorker /\ kind \in {worker.kind, "cancelled"}
      /\ UNCHANGED <<queue, project, disk, sessions, life>> /\ Write(worker.r.id, kind)
  BY DEF Replies
<1>2. worker.r.id \in Slots
  BY <1>1 DEF TypeInv, Shape, Requests
<1>3. project' \in Projects
  BY <1>1 DEF TypeInv, Types
<1> QED BY <1>1, <1>2, <1>3, WriteFacts DEF TypeInv

(* The answer the extension hears. *)
LEMMA HeardFacts ==
  ASSUME TypeInv, NEW i \in Slots, Hears(i)
  PROVE  /\ Answer \in Frames /\ Answer \in Elements(toClient) /\ Answer.id = i
         /\ toClient' \in Seq(Frames)
         /\ Elements(toClient) = Elements(toClient') \cup {Answer}
         /\ OneEach(toClient) =>
              OneEach(toClient') /\ Idents(toClient') = Idents(toClient) \ {i}
<1>1. toClient \in Seq(Frames) /\ toClient # <<>> /\ toClient' = Tail(toClient) /\ Answer.id = i
  BY DEF TypeInv, Types, Hears
<1>2. /\ Head(toClient) \in Frames /\ Tail(toClient) \in Seq(Frames)
      /\ Head(toClient) \in Elements(toClient)
      /\ Elements(toClient) = Elements(Tail(toClient)) \cup {Head(toClient)}
      /\ OneEach(toClient) => /\ OneEach(Tail(toClient))
                              /\ Idents(Tail(toClient)) = Idents(toClient) \ {Head(toClient).id}
  BY <1>1, Taken
<1> QED BY <1>1, <1>2 DEF Answer

(* The request that is sent, and the one that is taken. *)
LEMMA SentFacts ==
  ASSUME TypeInv, NEW i \in Slots, NEW p, Sends(i, p)
  PROVE  \E f \in Requests :
           /\ f.id = i /\ f.op = p.op /\ f.ctx = p.ticket.ctx
           /\ queue' \in Seq(Requests) /\ Elements(queue') = Elements(queue) \cup {f}
           /\ Idents(queue') = Idents(queue) \cup {i}
           /\ OneEach(queue) /\ i \notin Idents(queue) => OneEach(queue')
<1>1. PICK f \in Requests :
        f.id = i /\ f.op = p.op /\ f.ctx = p.ticket.ctx /\ queue' = Append(queue, f)
  BY DEF Sends
<1>2. queue \in Seq(Requests)
  BY DEF TypeInv, Types
<1>3. /\ Append(queue, f) \in Seq(Requests)
      /\ Elements(Append(queue, f)) = Elements(queue) \cup {f}
      /\ Idents(Append(queue, f)) = Idents(queue) \cup {f.id}
      /\ OneEach(queue) /\ f.id \notin Idents(queue) => OneEach(Append(queue, f))
  BY <1>2, Appended
<1> QED BY <1>1, <1>3

LEMMA NextRequest ==
  ASSUME TypeInv, queue # <<>>, queue' = Tail(queue)
  PROVE  /\ Request \in Requests /\ Request \in Elements(queue)
         /\ queue' \in Seq(Requests) /\ Elements(queue) = Elements(queue') \cup {Request}
         /\ OneEach(queue) =>
              OneEach(queue') /\ Idents(queue') = Idents(queue) \ {Request.id}
<1>1. queue \in Seq(Requests)
  BY DEF TypeInv, Types
<1>2. /\ Head(queue) \in Requests /\ Tail(queue) \in Seq(Requests)
      /\ Head(queue) \in Elements(queue)
      /\ Elements(queue) = Elements(Tail(queue)) \cup {Head(queue)}
      /\ OneEach(queue) => /\ OneEach(Tail(queue))
                           /\ Idents(Tail(queue)) = Idents(queue) \ {Head(queue).id}
  BY <1>1, Taken
<1> QED BY <1>1, <1>2 DEF Request

-----------------------------------------------------------------------------
(* Types.                                                                  *)

LEMMA LeavesFacts ==
  ASSUME TypeInv, NEW p \in Pendings, Leaves(p)
  PROVE  /\ pend' \in [Slots -> Pendings] /\ pend'["sel"] = p
         /\ \A j \in Slots \ {"sel"} :
              /\ pend'[j].op = pend[j].op /\ pend'[j].ticket.live = FALSE
              /\ pend'[j].ticket.ctx = pend[j].ticket.ctx /\ pend'[j].saved = pend[j].saved
              /\ pend[j] = NoPending => pend'[j] = NoPending
<1> DEFINE o == Obsolete(pend)
<1>1. Types /\ "sel" \in Slots
  BY OpFacts DEF TypeInv
<1>2. o \in [Slots -> Pendings] /\ pend' = [o EXCEPT !["sel"] = p]
  BY <1>1, ObsoleteFacts DEF Leaves
<1>3. \A j \in Slots :
        /\ o[j].op = pend[j].op /\ o[j].ticket.live = FALSE
        /\ o[j].ticket.ctx = pend[j].ticket.ctx /\ o[j].saved = pend[j].saved
        /\ pend[j] = NoPending => o[j] = NoPending
  BY <1>1, ObsoleteFacts DEF Of
<1> HIDE DEF o
<1> QED BY <1>1, <1>2, <1>3

(* The operations the extension waits for, by slot. *)
SlotInv ==
  \A i \in Slots :
    /\ Of(i).op = "none" => Of(i) = NoPending
    /\ Of(i).op \in {"analyse", "automatic"} => i = "cmd"
    /\ Of(i).saved => Of(i).op \in Analyses \cup Decisions

LEMMA NoneFacts ==
  /\ "none" \notin Ops /\ NoPending.op = "none" /\ NoPending.saved = FALSE /\ NoPending \in Pendings
  /\ "open" \notin Analyses \cup Decisions /\ "select" \notin Analyses \cup Decisions
BY StartValues, OpFacts DEF Analyses

LEMMA SlotStep ==
  ASSUME TypeInv, Next
  PROVE  pend' \in [Slots -> Pendings] /\ SlotInv'
<1>1. pend \in [Slots -> Pendings] /\ SlotInv
  BY DEF TypeInv, Types, Shape, SlotInv
<1>2. ASSUME NEW i \in Slots, NEW p \in Pendings, Asks(i, p) PROVE pend' \in [Slots -> Pendings] /\ SlotInv'
  BY <1>1, <1>2, NoneFacts DEF Asks, Sends, SlotInv, Of
<1>3. ASSUME NEW p \in Pendings, GoesTo(p) \/ Selects(p) PROVE pend' \in [Slots -> Pendings] /\ SlotInv'
  <2>1. Leaves(p) /\ p.op \in {"open", "select"} /\ ~p.saved
    BY <1>3 DEF GoesTo, Selects, Sends
  <2>2. /\ pend' \in [Slots -> Pendings] /\ pend'["sel"] = p
        /\ \A j \in Slots \ {"sel"} :
             /\ pend'[j].op = pend[j].op /\ pend'[j].saved = pend[j].saved
             /\ pend[j] = NoPending => pend'[j] = NoPending
    BY <2>1, LeavesFacts
  <2>3. ASSUME NEW j \in Slots
        PROVE  /\ pend'[j].op = "none" => pend'[j] = NoPending
               /\ pend'[j].op \in {"analyse", "automatic"} => j = "cmd"
               /\ pend'[j].saved => pend'[j].op \in Analyses \cup Decisions
    <3>1. CASE j = "sel"
      BY <2>1, <2>2, <3>1
    <3>2. CASE j # "sel"
      BY <1>1, <2>2, <3>2 DEF SlotInv, Of
    <3> QED BY <3>1, <3>2
  <2> QED BY <2>2, <2>3 DEF SlotInv, Of
<1>4. ASSUME NEW i \in Slots, Hears(i) PROVE pend' \in [Slots -> Pendings] /\ SlotInv'
  BY <1>1, <1>4, NoneFacts DEF Hears, SlotInv, Of
<1>5. CASE Tweaks
  BY <1>1, <1>5, NoneFacts DEF Tweaks, SameRequests, SlotInv, Of
<1>6. CASE Reports
  BY <1>1, <1>6, NoneFacts DEF Reports, SameRequests, SlotInv, Of
<1>7. CASE Quits
  <2>1. pend' = [i \in Slots |-> NoPending]
    BY <1>7 DEF Quits, Restart, Killed, Reset
  <2> QED BY <2>1, NoneFacts DEF SlotInv, Of
<1>8. CASE UNCHANGED pend
  BY <1>1, <1>8 DEF SlotInv, Of
<1>9. (SaveSource \/ UNCHANGED client) => UNCHANGED pend
  BY DEF SaveSource, client
<1> QED BY <1>2, <1>3, <1>4, <1>5, <1>6, <1>7, <1>8, <1>9, NextFacts

ServiceTypes ==
  /\ queue \in Seq(Requests) /\ toClient \in Seq(Frames)
  /\ worker \in Workers /\ ops \in EventSets
  /\ project \in Projects /\ cache \in [of : Versions, stale : BOOLEAN]
  /\ src \in Versions \ {0} /\ head \in Versions /\ sessions \in 0 .. MaxSessions
  /\ life \in {"up", "ended"}

ClientTypes ==
  /\ ctx \in Contexts /\ shown \in Models
  /\ unreported \in BOOLEAN /\ refresh \in BOOLEAN /\ known \in BOOLEAN

LEMMA TypesAre ==
  /\ Types <=> ServiceTypes /\ ClientTypes /\ pend \in [Slots -> Pendings]
  /\ Types' <=> ServiceTypes' /\ ClientTypes' /\ pend' \in [Slots -> Pendings]
BY DEF Types, ServiceTypes, ClientTypes, EventSets, Models

LEMMA GoneFacts ==
  ASSUME TypeInv, Gone, UNCHANGED <<disk, sessions>>
  PROVE  /\ ServiceTypes' /\ queue' = <<>> /\ toClient' = <<>> /\ worker' = IdleWorker
         /\ project' = NoProject /\ life' = "up" /\ UNCHANGED <<cache, src, head, sessions>>
<1>1. /\ queue' = <<>> /\ toClient' = <<>> /\ worker' = IdleWorker
      /\ project' = NoProject /\ life' = "up" /\ ops' = [i \in Ids |-> "none"]
      /\ UNCHANGED <<cache, src, head, sessions>>
  BY DEF Gone, disk
<1>2. queue' \in Seq(Requests) /\ toClient' \in Seq(Frames)
  BY <1>1
<1>3. ops' \in EventSets
  BY <1>1 DEF EventSets
<1>4. worker' \in Workers /\ project' \in Projects
  BY <1>1, StartValues
<1> QED BY <1>1, <1>2, <1>3, <1>4 DEF ServiceTypes, TypeInv, Types

LEMMA EndFacts ==
  ASSUME TypeInv, EndOfInput
  PROVE  /\ ServiceTypes' /\ toClient' = <<>> /\ life' = "ended"
         /\ UNCHANGED <<queue, worker, project, cache, src, head, sessions>>
<1>1. /\ toClient' = <<>> /\ life' = "ended" /\ ops' = Signalled(Ids)
      /\ UNCHANGED <<queue, worker, project, cache, src, head, sessions>>
  BY DEF EndOfInput, disk
<1>2. toClient' \in Seq(Frames)
  BY <1>1
<1>3. ops' \in EventSets
  BY <1>1, EventFacts DEF TypeInv
<1> QED BY <1>1, <1>2, <1>3 DEF ServiceTypes, TypeInv, Types

LEMMA TakeTypes ==
  ASSUME TypeInv, NEW kind \in Kinds, Takes(kind), project' \in Projects,
         cache' \in [of : Versions, stale : BOOLEAN], src' \in Versions \ {0}, head' \in Versions,
         sessions' \in 0 .. MaxSessions
  PROVE  ServiceTypes'
<1>1. PICK a : Adds(a, Request.id, kind)
  BY TakeFacts
<1>2. queue' \in Seq(Requests)
  BY TakeFacts, NextRequest
<1>3. UNCHANGED <<worker, life>>
  BY TakeFacts
<1>4. worker \in Workers /\ life \in {"up", "ended"}
  BY DEF TypeInv, Types
<1> QED BY <1>1, <1>2, <1>3, <1>4 DEF Adds, ServiceTypes

LEMMA ServiceTypesStep ==
  ASSUME TypeInv, Next
  PROVE  ServiceTypes'
<1>1. ServiceTypes
  BY TypesAre DEF TypeInv
<1>2. ASSUME NEW i \in Slots, NEW p, Sends(i, p) PROVE ServiceTypes'
  <2>1. queue' \in Seq(Requests)
    BY <1>2, SentFacts
  <2> QED BY <1>1, <1>2, <2>1 DEF Sends, ServiceTypes, disk
<1>3. ASSUME NEW i \in Slots, Hears(i) PROVE ServiceTypes'
  <2>1. toClient' \in Seq(Frames)
    BY <1>3, HeardFacts
  <2> QED BY <1>1, <1>3, <2>1 DEF Hears, ServiceTypes, disk
<1>4. CASE Tweaks
  BY <1>1, <1>4 DEF Tweaks, ServiceTypes, disk
<1>5. CASE SaveSource
  <2>1. src < MaxSource /\ src' = src + 1 /\ UNCHANGED <<wire, project, cache, head, sessions, life>>
    BY <1>5 DEF SaveSource
  <2>2. src' \in Versions \ {0}
    BY <1>1, <2>1, Bounds DEF ServiceTypes, Versions
  <2> QED BY <1>1, <2>1, <2>2 DEF ServiceTypes, wire
<1>6. CASE Reports
  BY <1>1, <1>6 DEF Reports, ServiceTypes, service, wire, disk
<1>7. CASE Quits
  BY <1>7, GoneFacts, EndFacts DEF Quits, Restart, Killed
<1>8. CASE Exit
  BY <1>8, GoneFacts DEF Exit
<1>9. CASE Refuses \/ Looks
  <2>1. PICK kind \in Kinds : Takes(kind) /\ Unmoved
    BY <1>9, KindFacts DEF Refuses, Looks
  <2> QED BY <1>1, <2>1, TakeTypes DEF Unmoved, ServiceTypes, disk
<1>10. CASE Opens
  <2>1. /\ Takes("ok") /\ project' \in Projects /\ sessions' \in 0 .. MaxSessions
        /\ UNCHANGED <<cache, src, head>>
    BY <1>10 DEF Opens, disk
  <2> QED BY <1>1, <2>1, TakeTypes, KindFacts DEF ServiceTypes
<1>11. CASE Decided
  <2>1. /\ Takes("ok") /\ project' \in Projects /\ sessions' = sessions
        /\ cache' \in [of : Versions, stale : BOOLEAN] /\ src' \in Versions \ {0} /\ head' \in Versions
    BY <1>1, <1>11 DEF Decided, Moves, Unmoved, ServiceTypes
  <2> QED BY <1>1, <2>1, TakeTypes, KindFacts DEF ServiceTypes
<1>12. CASE Begins
  <2>1. /\ queue # <<>> /\ queue' = Tail(queue)
        /\ worker' = [r |-> Request, pc |-> "child", kind |-> "ok", of |-> 0]
        /\ UNCHANGED <<ops, toClient, project, cache, src, head, sessions, life>>
    BY <1>12 DEF Begins, disk
  <2>2. queue' \in Seq(Requests) /\ Request \in Requests
    BY <2>1, NextRequest
  <2>3. worker' \in Workers
    BY <2>1, <2>2, KindFacts, Bounds DEF Workers
  <2> QED BY <1>1, <2>1, <2>2, <2>3 DEF ServiceTypes
<1>13. CASE Works
  <2>1. /\ worker' \in Workers /\ cache' \in [of : Versions, stale : BOOLEAN]
        /\ UNCHANGED <<queue, ops, toClient, src, head, sessions, life>>
        /\ project' \in Projects
    BY <1>1, <1>13 DEF Works, Moves, ServiceTypes
  <2> QED BY <1>1, <2>1 DEF ServiceTypes
<1>14. ASSUME NEW kind \in Kinds, Replies(kind) PROVE ServiceTypes'
  <2>1. /\ worker' = IdleWorker /\ UNCHANGED <<queue, project, disk, sessions, life>>
        /\ \E a : Adds(a, worker.r.id, kind)
    BY <1>14, ReplyFacts
  <2>2. toClient' \in Seq(Frames) /\ ops' \in EventSets
    BY <2>1 DEF Adds
  <2> QED BY <1>1, <2>1, <2>2, StartValues DEF ServiceTypes, disk
<1>15. ASSUME NEW i \in Slots, NEW p, Asks(i, p) PROVE ServiceTypes'
  BY <1>2, <1>15 DEF Asks
<1>16. ASSUME NEW p, GoesTo(p) \/ Selects(p) PROVE ServiceTypes'
  BY <1>2, <1>16, OpFacts DEF GoesTo, Selects
<1> QED BY <1>3, <1>4, <1>5, <1>6, <1>7, <1>8, <1>9, <1>10, <1>11, <1>12, <1>13, <1>14, <1>15,
           <1>16, NextFacts

LEMMA ClientTypesStep ==
  ASSUME TypeInv, Next
  PROVE  ClientTypes'
<1>1. ClientTypes /\ NoContext \in Contexts /\ NoModel \in Models
  BY TypesAre, StartValues DEF TypeInv, Models
<1>2. ASSUME NEW i \in Slots, NEW p \in Pendings, Asks(i, p) PROVE ClientTypes'
  BY <1>1, <1>2 DEF Asks, ClientTypes
<1>3. ASSUME NEW p \in Pendings, GoesTo(p) \/ Selects(p) PROVE ClientTypes'
  BY <1>1, <1>3 DEF GoesTo, Selects, Leaves, ClientTypes
<1>4. ASSUME NEW i \in Slots, Accept(i) PROVE ClientTypes'
  <2>1. Answer \in Frames
    BY <1>4, HearFacts, HeardFacts
  <2>2. ctx' = Answer.ctx /\ shown' = Shown(i) /\ refresh' = Refreshed(i)
        /\ known' = (known \/ GoesWrong(i)) /\ unreported' = unreported
    BY <1>4 DEF Accept
  <2>3. Summary(Answer) \in Models /\ AnalysisState(Answer, Of(i).saved) \in Models
    BY <2>1 DEF Summary, AnalysisState, StateOf, Models, States, Frames
  <2>4. Shown(i) \in Models
    BY <1>1, <2>3 DEF Shown, ClientTypes
  <2>5. Refreshed(i) \in BOOLEAN
    BY <1>1 DEF Refreshed, ClientTypes
  <2> QED BY <1>1, <2>1, <2>2, <2>4, <2>5 DEF ClientTypes, Frames
<1>5. ASSUME NEW i \in Slots, Drop(i) PROVE ClientTypes'
  <2>1. Of(i).before \in States
    BY DEF TypeInv, Types, Pendings, Of
  <2>2. [shown EXCEPT !.state = Of(i).before] \in Models
    BY <1>1, <2>1 DEF ClientTypes, Models
  <2> QED BY <1>1, <1>5, <2>2 DEF Drop, ClientTypes
<1>6. CASE Tweaks
  BY <1>1, <1>6 DEF Tweaks, ClientTypes
<1>7. CASE SaveSource
  BY <1>1, <1>7 DEF SaveSource, ClientTypes
<1>8. CASE Reports
  BY <1>1, <1>8 DEF Reports, ClientTypes
<1>9. CASE Quits
  BY <1>1, <1>9 DEF Quits, Restart, Killed, Reset, ClientTypes
<1>10. CASE UNCHANGED client
  BY <1>1, <1>10 DEF client, ClientTypes
<1> QED BY <1>2, <1>3, <1>4, <1>5, <1>6, <1>7, <1>8, <1>9, <1>10, NextFacts

-----------------------------------------------------------------------------
(* One place for each request.                                             *)

LEMMA IdentFacts ==
  ASSUME ServiceTypes
  PROVE  /\ Idents(queue) \subseteq Slots /\ Idents(toClient) \subseteq Slots
         /\ Elements(queue) \subseteq Requests /\ Elements(toClient) \subseteq Frames
         /\ \A r \in Elements(queue) : r.id \in Idents(queue)
<1>1. queue \in Seq(Requests) /\ toClient \in Seq(Frames)
  BY DEF ServiceTypes
<1>2. Elements(queue) \subseteq Requests /\ Elements(toClient) \subseteq Frames
  BY <1>1 DEF Elements
<1> QED BY <1>2 DEF Idents, Requests, Frames

LEMMA WireSend ==
  ASSUME TypeInv, WireInv, NEW i \in Slots, NEW p \in Pendings, Sends(i, p),
         pend' \in [Slots -> Pendings], pend'[i] = p, \A j \in Slots \ {i} : pend'[j].op = pend[j].op
  PROVE  WireInv'
<1>1. PICK f \in Requests :
        /\ f.id = i
        /\ Idents(queue') = Idents(queue) \cup {i}
        /\ OneEach(queue) /\ i \notin Idents(queue) => OneEach(queue')
  BY SentFacts
<1>2. /\ Up /\ UNCHANGED <<worker, toClient, life>> /\ pend[i].op = "none" /\ p.op # "none"
      /\ "none" \notin Slots
  BY OpFacts, StartValues DEF Sends, Of
<1>3. i \notin Idents(queue) \cup Idents(toClient) \cup {worker.r.id}
  BY <1>2 DEF WireInv, Of
<1>4. Idents(toClient') = Idents(toClient) /\ OneEach(toClient') /\ worker'.r.id = worker.r.id
  BY <1>2 DEF WireInv
<1>5. OneEach(queue') /\ Idents(queue') \cap Idents(toClient') = {}
      /\ worker'.r.id \notin Idents(queue') \cup Idents(toClient')
  BY <1>1, <1>3, <1>4 DEF WireInv
<1>6. \A j \in Slots : pend'[j].op # "none" <=>
         j \in Idents(queue') \cup Idents(toClient') \cup {worker'.r.id}
  BY <1>1, <1>2, <1>4 DEF WireInv, Of
<1> QED BY <1>4, <1>5, <1>6 DEF WireInv, Of

LEMMA WireHear ==
  ASSUME TypeInv, WireInv, NEW i \in Slots, Hears(i)
  PROVE  WireInv'
<1>1. /\ pend' = [pend EXCEPT ![i] = NoPending] /\ UNCHANGED <<queue, worker, life>>
      /\ NoPending.op = "none" /\ pend \in [Slots -> Pendings]
  BY StartValues DEF Hears, TypeInv, Types
<1>2. /\ OneEach(toClient') /\ Idents(toClient') = Idents(toClient) \ {i} /\ i \in Idents(toClient)
  BY HeardFacts DEF WireInv, Idents
<1>3. /\ Idents(queue') = Idents(queue) /\ OneEach(queue') /\ worker'.r.id = worker.r.id
      /\ Up' <=> Up
  BY <1>1 DEF WireInv, Up
<1>4. Idents(queue') \cap Idents(toClient') = {}
      /\ worker'.r.id \notin Idents(queue') \cup Idents(toClient')
  BY <1>2, <1>3 DEF WireInv
<1>5. ASSUME Up, NEW j \in Slots
      PROVE  pend'[j].op # "none" <=> j \in Idents(queue') \cup Idents(toClient') \cup {worker'.r.id}
  <2>1. CASE j = i
    <3>1. i \notin Idents(queue) \cup {worker.r.id}
      BY <1>2 DEF WireInv
    <3> QED BY <1>1, <1>2, <1>3, <2>1, <3>1
  <2>2. CASE j # i
    BY <1>1, <1>2, <1>3, <1>5, <2>2 DEF WireInv, Of
  <2> QED BY <2>1, <2>2
<1> QED BY <1>2, <1>3, <1>4, <1>5 DEF WireInv, Of

(* The request at the head of the queue is answered, or begun. *)
LEMMA WireTake ==
  ASSUME TypeInv, WireInv, NEW kind \in Kinds, Takes(kind), project' \in Projects, UNCHANGED client
  PROVE  WireInv'
<1>1. /\ worker = IdleWorker /\ queue # <<>> /\ queue' = Tail(queue) /\ UNCHANGED <<worker, life, pend>>
      /\ Request.id \in Slots /\ \E a : Adds(a, Request.id, kind)
  BY TakeFacts DEF client
<1>2. Request \in Elements(queue) /\ OneEach(queue') /\ Idents(queue') = Idents(queue) \ {Request.id}
  BY <1>1, NextRequest DEF WireInv
<1>3. Request.id \in Idents(queue)
  BY <1>2 DEF Idents
<1>4. OneEach(toClient') /\ Idents(toClient') = Idents(toClient) \cup {Request.id}
  BY <1>1, <1>3 DEF WireInv, Adds
<1>5. worker'.r.id = worker.r.id /\ (Up' <=> Up)
  BY <1>1 DEF Up
<1>6. Idents(queue') \cap Idents(toClient') = {}
      /\ worker'.r.id \notin Idents(queue') \cup Idents(toClient')
  BY <1>2, <1>3, <1>4, <1>5 DEF WireInv
<1>7. Idents(queue') \cup Idents(toClient') = Idents(queue) \cup Idents(toClient)
  BY <1>2, <1>3, <1>4
<1> QED BY <1>1, <1>2, <1>4, <1>5, <1>6, <1>7 DEF WireInv, Of

LEMMA WireBegin ==
  ASSUME TypeInv, WireInv, Begins, UNCHANGED client
  PROVE  WireInv'
<1>1. /\ worker = IdleWorker /\ queue # <<>> /\ queue' = Tail(queue)
      /\ UNCHANGED <<toClient, life, pend>> /\ worker'.r = Request
  BY DEF Begins, client, TypeInv, Shape
<1>2. Request \in Elements(queue) /\ OneEach(queue') /\ Idents(queue') = Idents(queue) \ {Request.id}
  BY <1>1, NextRequest DEF WireInv
<1>3. Request.id \in Idents(queue)
  BY <1>2 DEF Idents
<1>4. worker.r.id = "none" /\ worker'.r.id = Request.id /\ (Up' <=> Up)
  BY <1>1, StartValues DEF Up
<1>5. OneEach(toClient') /\ Idents(toClient') = Idents(toClient)
  BY <1>1 DEF WireInv
<1>6. Idents(queue') \cap Idents(toClient') = {}
      /\ worker'.r.id \notin Idents(queue') \cup Idents(toClient')
  BY <1>2, <1>3, <1>4, <1>5 DEF WireInv
<1>7. \A j \in Slots : j \in Idents(queue') \cup Idents(toClient') \cup {worker'.r.id}
                   <=> j \in Idents(queue) \cup Idents(toClient) \cup {worker.r.id}
  BY <1>2, <1>3, <1>4, <1>5, OpFacts
<1> QED BY <1>1, <1>2, <1>4, <1>5, <1>6, <1>7 DEF WireInv, Of

LEMMA WireReply ==
  ASSUME TypeInv, WireInv, NEW kind \in Kinds, Replies(kind), UNCHANGED client
  PROVE  WireInv'
<1>1. /\ worker' = IdleWorker /\ UNCHANGED <<queue, life, pend>> /\ worker.r.id \in Slots
      /\ \E a : Adds(a, worker.r.id, kind)
  BY ReplyFacts DEF client
<1>2. worker'.r.id = "none" /\ (Up' <=> Up)
  BY <1>1, StartValues DEF Up
<1>3. OneEach(toClient') /\ Idents(toClient') = Idents(toClient) \cup {worker.r.id}
  BY <1>1 DEF WireInv, Adds
<1>4. OneEach(queue') /\ Idents(queue') = Idents(queue) /\ Idents(queue) \subseteq Slots
      /\ Idents(toClient) \subseteq Slots
  BY <1>1, IdentFacts, TypesAre DEF WireInv, TypeInv
<1>5. Idents(queue') \cap Idents(toClient') = {}
      /\ worker'.r.id \notin Idents(queue') \cup Idents(toClient')
  BY <1>1, <1>2, <1>3, <1>4, OpFacts DEF WireInv
<1>6. \A j \in Slots : j \in Idents(queue') \cup Idents(toClient') \cup {worker'.r.id}
                   <=> j \in Idents(queue) \cup Idents(toClient) \cup {worker.r.id}
  BY <1>2, <1>3, <1>4, OpFacts
<1> QED BY <1>1, <1>2, <1>3, <1>4, <1>5, <1>6 DEF WireInv, Of

(* Neither side moves a request. *)
LEMMA WireStay ==
  ASSUME WireInv, UNCHANGED <<queue, toClient, life>>, worker'.r = worker.r,
         \A j \in Slots : pend'[j].op = pend[j].op
  PROVE  WireInv'
<1>1. OneEach(queue') /\ OneEach(toClient') /\ Idents(queue') = Idents(queue)
      /\ Idents(toClient') = Idents(toClient) /\ (Up' <=> Up)
  BY DEF WireInv, Up
<1> QED BY <1>1 DEF WireInv, Of

(* The extension leaves the service, or the service its client. *)
LEMMA WireEnd ==
  ASSUME TypeInv, WireInv, (Exit /\ UNCHANGED client) \/ Quits
  PROVE  WireInv'
<1>1. ASSUME queue' = <<>>, toClient' = <<>>, worker' = IdleWorker, \A j \in Slots : pend'[j] = NoPending
      PROVE  WireInv'
  <2>1. OneEach(queue') /\ OneEach(toClient') /\ Idents(queue') = {} /\ Idents(toClient') = {}
    BY <1>1, Emptied
  <2>2. worker'.r.id = "none" /\ "none" \notin Slots /\ \A j \in Slots : pend'[j].op = "none"
    BY <1>1, StartValues, OpFacts
  <2> QED BY <2>1, <2>2 DEF WireInv, Of
<1>2. CASE Exit /\ UNCHANGED client
  <2>1. \A j \in Slots : pend'[j] = NoPending
    BY <1>2 DEF Exit, client, TypeInv, Shape, Up, Of
  <2> QED BY <1>1, <1>2, <2>1, GoneFacts DEF Exit
<1>3. CASE Killed
  <2>1. \A j \in Slots : pend'[j] = NoPending
    BY <1>3 DEF Killed, Reset
  <2> QED BY <1>1, <1>3, <2>1, GoneFacts DEF Killed
<1>4. CASE Restart
  <2>1. toClient' = <<>> /\ life' = "ended" /\ UNCHANGED <<queue, worker>>
    BY <1>4, EndFacts DEF Restart
  <2>2. OneEach(toClient') /\ Idents(toClient') = {} /\ OneEach(queue') /\ Idents(queue') = Idents(queue)
    BY <2>1, Emptied DEF WireInv
  <2> QED BY <2>1, <2>2 DEF WireInv, Up
<1> QED BY <1>2, <1>3, <1>4 DEF Quits

LEMMA ProjectStep ==
  ASSUME TypeInv, Next
  PROVE  project' \in Projects
BY ServiceTypesStep DEF ServiceTypes

LEMMA WireStep ==
  ASSUME TypeInv, WireInv, Next
  PROVE  WireInv'
<1>0. project' \in Projects /\ pend \in [Slots -> Pendings] /\ pend' \in [Slots -> Pendings]
      /\ "sel" \in Slots
  BY ProjectStep, SlotStep, OpFacts DEF TypeInv, Types
<1>1. ASSUME NEW i \in Slots, NEW p \in Pendings, Asks(i, p) PROVE WireInv'
  <2>1. Sends(i, p) /\ pend'[i] = p /\ \A j \in Slots \ {i} : pend'[j].op = pend[j].op
    BY <1>0, <1>1 DEF Asks
  <2> QED BY <1>0, <2>1, WireSend
<1>2. ASSUME NEW p \in Pendings, GoesTo(p) \/ Selects(p) PROVE WireInv'
  <2>1. Sends("sel", p) /\ Leaves(p)
    BY <1>2 DEF GoesTo, Selects
  <2>2. pend'["sel"] = p /\ \A j \in Slots \ {"sel"} : pend'[j].op = pend[j].op
    BY <2>1, LeavesFacts
  <2> QED BY <1>0, <2>1, <2>2, WireSend
<1>3. ASSUME NEW i \in Slots, Hears(i) PROVE WireInv'
  BY <1>3, WireHear
<1>4. CASE Tweaks \/ Reports
  BY <1>4, WireStay DEF Tweaks, Reports, SameRequests, service, wire
<1>5. CASE SaveSource
  BY <1>5, WireStay DEF SaveSource, wire
<1>6. ASSUME UNCHANGED client, Refuses \/ Looks \/ Opens \/ Decided PROVE WireInv'
  <2>1. PICK kind \in Kinds : Takes(kind)
    BY <1>6, KindFacts DEF Refuses, Looks, Opens, Decided
  <2> QED BY <1>0, <1>6, <2>1, WireTake
<1>7. ASSUME UNCHANGED client, Works PROVE WireInv'
  BY <1>7, WireStay DEF Works, client
<1> QED BY <1>1, <1>2, <1>3, <1>4, <1>5, <1>6, <1>7, WireBegin, WireReply, WireEnd, NextFacts

-----------------------------------------------------------------------------
(* The service works on what the extension waits for.                      *)

LEMMA MatchFacts ==
  ASSUME TypeInv, MatchInv
  PROVE  /\ worker.pc = "idle" /\ queue # <<>> /\ Up =>
              Request.op = Of(Request.id).op /\ Request.ctx = Of(Request.id).ticket.ctx
         /\ worker.pc # "idle" /\ Up =>
              worker.r.op = Of(worker.r.id).op /\ worker.r.ctx = Of(worker.r.id).ticket.ctx
<1>1. queue # <<>> => Request \in Undone
  <2>1. queue # <<>> => Request \in Elements(queue)
    BY Taken DEF TypeInv, Types, Request
  <2> QED BY <2>1 DEF Undone
<1>2. worker.pc # "idle" => worker.r \in Undone
  BY DEF Undone
<1> QED BY <1>1, <1>2 DEF MatchInv

(* Every request that is still to be done was so before, or is new. *)
LEMMA MatchStay ==
  ASSUME TypeInv, WireInv, MatchInv, Up' => Up, pend' \in [Slots -> Pendings],
         \A r \in Undone' :
           \/ /\ r \in Undone /\ pend'[r.id].op = pend[r.id].op
              /\ pend'[r.id].ticket.ctx = pend[r.id].ticket.ctx
           \/ r.op = pend'[r.id].op /\ r.ctx = pend'[r.id].ticket.ctx
  PROVE  MatchInv'
BY DEF MatchInv, Of

LEMMA UndoneFacts ==
  ASSUME TypeInv, WireInv
  PROVE  /\ \A r \in Undone : r.id \in Slots /\ r.id \notin Idents(toClient)
         /\ \A r \in Undone : Up => Of(r.id).op # "none"
<1>1. /\ Idents(queue) \subseteq Slots /\ \A r \in Elements(queue) : r.id \in Idents(queue)
  BY IdentFacts, TypesAre DEF TypeInv
<1>2. worker.pc # "idle" => worker.r.id \in Slots
  BY DEF TypeInv, Shape, Requests
<1>3. \A r \in Undone : r.id \in Idents(queue) \/ (worker.pc # "idle" /\ r = worker.r)
  BY <1>1 DEF Undone
<1> QED BY <1>1, <1>2, <1>3 DEF WireInv

LEMMA MatchStep ==
  ASSUME TypeInv, WireInv, MatchInv, Next
  PROVE  MatchInv'
<1>0. pend \in [Slots -> Pendings] /\ pend' \in [Slots -> Pendings] /\ "sel" \in Slots
      /\ "none" \notin Slots /\ \A r \in Undone : r.id \in Slots /\ r.id \notin Idents(toClient)
  BY SlotStep, OpFacts, UndoneFacts DEF TypeInv, Types
<1>1. ASSUME NEW i \in Slots, NEW p \in Pendings, Sends(i, p), pend'[i] = p,
             \A j \in Slots \ {i} :
               pend'[j].op = pend[j].op /\ pend'[j].ticket.ctx = pend[j].ticket.ctx
      PROVE  MatchInv'
  <2>1. PICK f \in Requests :
          /\ f.id = i /\ f.op = p.op /\ f.ctx = p.ticket.ctx
          /\ Elements(queue') = Elements(queue) \cup {f}
    BY <1>1, SentFacts
  <2>2. Up /\ UNCHANGED <<worker, life>> /\ Of(i).op = "none"
    BY <1>1, StartValues DEF Sends
  <2>3. Undone' = Undone \cup {f} /\ (Up' <=> Up)
    BY <2>1, <2>2 DEF Undone, Up
  <2>4. \A r \in Undone : r.id # i
    BY <2>2, UndoneFacts
  <2> QED BY <1>0, <1>1, <2>1, <2>2, <2>3, <2>4, MatchStay
<1>2. ASSUME NEW i \in Slots, NEW p \in Pendings, Asks(i, p) PROVE MatchInv'
  BY <1>0, <1>1, <1>2 DEF Asks
<1>3. ASSUME NEW p \in Pendings, GoesTo(p) \/ Selects(p) PROVE MatchInv'
  <2>1. Sends("sel", p) /\ Leaves(p)
    BY <1>3 DEF GoesTo, Selects
  <2> QED BY <1>0, <1>1, <2>1, LeavesFacts
<1>4. ASSUME NEW i \in Slots, Hears(i) PROVE MatchInv'
  <2>1. pend' = [pend EXCEPT ![i] = NoPending] /\ UNCHANGED <<queue, worker, life>>
    BY <1>4 DEF Hears
  <2>2. i \in Idents(toClient)
    BY <1>4, HeardFacts DEF Idents
  <2>3. Undone' = Undone /\ (Up' <=> Up)
    BY <2>1 DEF Undone, Up
  <2> QED BY <1>0, <2>1, <2>2, <2>3, MatchStay
<1>5. CASE Tweaks \/ Reports
  <2>1. SameRequests /\ UNCHANGED <<queue, worker, life>>
    BY <1>5 DEF Tweaks, Reports, service, wire
  <2>2. Undone' = Undone /\ (Up' <=> Up)
    BY <2>1 DEF Undone, Up
  <2> QED BY <1>0, <2>1, <2>2, MatchStay DEF SameRequests
<1>6. CASE SaveSource
  <2>1. Undone' = Undone /\ (Up' <=> Up) /\ pend' = pend
    BY <1>6 DEF SaveSource, wire, Undone, Up
  <2> QED BY <1>0, <2>1, MatchStay
<1>7. CASE Quits
  <2>1. CASE Restart
    BY <2>1, EndFacts DEF Restart, MatchInv, Up
  <2>2. CASE Killed
    <3>1. queue' = <<>> /\ worker' = IdleWorker
      BY <2>2, GoneFacts DEF Killed
    <3>2. Undone' = {}
      BY <3>1, Emptied, StartValues DEF Undone
    <3> QED BY <3>2 DEF MatchInv
  <2> QED BY <1>7, <2>1, <2>2 DEF Quits
<1>8. CASE Exit
  <2>1. queue' = <<>> /\ worker' = IdleWorker
    BY <1>8, GoneFacts DEF Exit
  <2>2. Undone' = {}
    BY <2>1, Emptied, StartValues DEF Undone
  <2> QED BY <2>2 DEF MatchInv
<1>9. ASSUME UNCHANGED client, queue # <<>>, queue' = Tail(queue), life' = life, worker.pc = "idle",
             worker' = worker \/ worker'.r = Request
      PROVE  MatchInv'
  <2>1. Request \in Elements(queue) /\ Elements(queue) = Elements(queue') \cup {Request}
    BY <1>9, NextRequest
  <2>2. Undone' \subseteq Undone /\ (Up' <=> Up) /\ pend' = pend
    BY <1>9, <2>1 DEF Undone, Up, client
  <2> QED BY <1>0, <2>2, MatchStay
<1>10. ASSUME UNCHANGED client, Refuses \/ Looks \/ Opens \/ Decided \/ Begins PROVE MatchInv'
  <2>1. /\ queue # <<>> /\ queue' = Tail(queue) /\ life' = life /\ worker.pc = "idle"
        /\ worker' = worker \/ worker'.r = Request
    BY <1>10 DEF Refuses, Looks, Opens, Decided, Begins, Takes
  <2> QED BY <1>9, <1>10, <2>1
<1>11. ASSUME UNCHANGED client, UNCHANGED <<queue, life>>, worker.pc # "idle",
              worker'.r = worker.r \/ worker' = IdleWorker
       PROVE  MatchInv'
  <2>1. Undone' \subseteq Undone /\ (Up' <=> Up) /\ pend' = pend
    BY <1>11, StartValues DEF Undone, Up, client
  <2> QED BY <1>0, <2>1, MatchStay
<1>12. ASSUME UNCHANGED client, Works \/ \E kind \in Kinds : Replies(kind) PROVE MatchInv'
  BY <1>11, <1>12 DEF Works, Replies
<1> QED BY <1>2, <1>3, <1>4, <1>5, <1>6, <1>7, <1>8, <1>10, <1>12, NextFacts

-----------------------------------------------------------------------------
(* Identities.                                                             *)

(* How the project moves on, and what is told of it. *)
Tells(a) == a.ctx = Context' /\ a.of = project'.of /\ a.stale = project'.stale
Evolves ==
  /\ \/ UNCHANGED <<project, sessions>>
     \/ Moves /\ project # NoProject /\ sessions' = sessions
     \/ project' \in Projects /\ project'.session = sessions + 1 /\ sessions' = sessions + 1
  /\ \A a \in Elements(toClient') : a \in Elements(toClient) \/ Tells(a)

LEMMA ClockValues ==
  ASSUME TypeInv
  PROVE  /\ project \in Projects /\ project.session \in Nat /\ project.rev \in Nat /\ sessions \in Nat
         /\ ctx \in Contexts /\ ctx.session \in Nat /\ ctx.rev \in Nat
         /\ Context \in Contexts /\ Context.session = project.session /\ Context.rev = project.rev
         /\ \A a \in Elements(toClient) :
              a \in Frames /\ a.ctx \in Contexts /\ a.ctx.session \in Nat /\ a.ctx.rev \in Nat
         /\ \A i \in Slots :
              /\ Of(i).ticket \in Tickets /\ Of(i).ticket.ctx \in Contexts
              /\ Of(i).ticket.ctx.session \in Nat /\ Of(i).ticket.ctx.rev \in Nat
         /\ NoContext.session = 0 /\ NoContext.rev = 0
<1>1. \A c \in Contexts : c.session \in Nat /\ c.rev \in Nat
  BY Bounds DEF Contexts
<1>2. project \in Projects /\ sessions \in Nat /\ ctx \in Contexts /\ pend \in [Slots -> Pendings]
  BY Bounds DEF TypeInv, Types
<1>3. Context \in Contexts /\ Context.session = project.session /\ Context.rev = project.rev
  BY <1>2, ContextFacts DEF Context
<1>4. \A a \in Elements(toClient) : a \in Frames /\ a.ctx \in Contexts
  BY IdentFacts, TypesAre DEF TypeInv, Frames
<1>5. \A i \in Slots : Of(i).ticket \in Tickets /\ Of(i).ticket.ctx \in Contexts
  BY <1>2 DEF Of, Pendings, Tickets
<1> QED BY <1>1, <1>2, <1>3, <1>4, <1>5, StartValues

LEMMA EvolveClock ==
  ASSUME TypeInv, AnswerInv, ClientInv, Evolves, project' \in Projects
  PROVE  AnswerInv' /\ (ctx' = ctx => ClientInv')
<1>1. /\ Context' \in Contexts /\ Context'.session = project'.session /\ Context'.rev = project'.rev
      /\ project'.session \in Nat /\ project'.rev \in Nat
      /\ \A c \in Contexts : c.session \in Nat /\ c.rev \in Nat
  <2>1. Context' = ContextOf(project')
    BY DEF Context
  <2> QED BY <2>1, ContextFacts, Bounds DEF Projects, Contexts
<1>2. \/ UNCHANGED <<project, sessions, Context>>
      \/ /\ project'.session = project.session /\ project'.rev = project.rev + 1 /\ sessions' = sessions
         /\ project.session # 0
      \/ project'.session = sessions + 1 /\ sessions' = sessions + 1
  BY ClockValues DEF Evolves, Moves, AnswerInv, Context
<1>3. /\ project'.session = 0 => project' = NoProject
      /\ project'.session =< sessions'
  BY <1>1, <1>2, ClockValues DEF AnswerInv
<1>4. ASSUME NEW a \in Elements(toClient')
      PROVE  /\ a.ctx.session = 0 => a.ctx = NoContext
             /\ a.ctx.session =< sessions'
             /\ a.ctx.session = project'.session => a.ctx.rev =< project'.rev
             /\ a.ctx.session = project'.session /\ a.ctx.rev = project'.rev =>
                  a.ctx = Context' /\ a.of = project'.of /\ a.stale = project'.stale
  <2>1. CASE Tells(a)
    <3>1. a.ctx = Context' /\ a.of = project'.of /\ a.stale = project'.stale
      BY <2>1 DEF Tells
    <3>2. project' = NoProject => Context' = NoContext
      BY StartValues DEF Context
    <3> QED BY <1>1, <1>3, <3>1, <3>2
  <2>2. CASE a \in Elements(toClient)
    <3>1. /\ a.ctx.session = 0 => a.ctx = NoContext
          /\ a.ctx.session =< sessions
          /\ a.ctx.session = project.session => a.ctx.rev =< project.rev
          /\ a.ctx.session = project.session /\ a.ctx.rev = project.rev =>
               a.ctx = Context /\ a.of = project.of /\ a.stale = project.stale
      BY <2>2 DEF AnswerInv
    <3>2. project.session =< sessions
      BY DEF AnswerInv
    <3> QED BY <1>1, <1>2, <2>2, <3>1, <3>2, ClockValues
  <2> QED BY <2>1, <2>2 DEF Evolves
<1>5. ASSUME ctx' = ctx PROVE ClientInv'
  <2>1. project.session =< sessions
    BY DEF AnswerInv
  <2> QED BY <1>1, <1>2, <1>5, <2>1, ClockValues DEF ClientInv
<1> QED BY <1>3, <1>4, <1>5 DEF AnswerInv

LEMMA StepEvolves ==
  ASSUME TypeInv, Next
  PROVE  Evolves \/ Quits \/ (UNCHANGED client /\ Exit)
<1>0. project' \in Projects
  BY ProjectStep
<1>1. ASSUME UNCHANGED <<project, disk, sessions>> \/ UNCHANGED <<project, sessions>>,
             UNCHANGED toClient \/ (\E i \in Slots : Hears(i))
      PROVE  Evolves
  BY <1>1, HeardFacts DEF Evolves
<1>2. ASSUME NEW kind \in Kinds, Takes(kind) \/ Replies(kind),
             \/ UNCHANGED <<project, sessions>>
             \/ Moves /\ project # NoProject /\ sessions' = sessions
             \/ project' \in Projects /\ project'.session = sessions + 1 /\ sessions' = sessions + 1
      PROVE  Evolves
  <2>1. \E i, a : Adds(a, i, kind)
    BY <1>0, <1>2, TakeFacts, ReplyFacts
  <2> QED BY <1>2, <2>1 DEF Adds, Evolves, Tells
<1>3. CASE \E i \in Slots, p \in Pendings : Asks(i, p)
  BY <1>1, <1>3 DEF Asks, Sends
<1>4. CASE \E p \in Pendings : GoesTo(p) \/ Selects(p)
  BY <1>1, <1>4 DEF GoesTo, Selects, Sends
<1>5. CASE \E i \in Slots : Hears(i)
  BY <1>1, <1>5 DEF Hears
<1>6. CASE Tweaks \/ SaveSource \/ Reports
  BY <1>1, <1>6 DEF Tweaks, SaveSource, Reports, service, wire
<1>7. CASE Refuses \/ Looks
  <2>1. PICK kind \in Kinds : Takes(kind) /\ UNCHANGED <<project, sessions>>
    BY <1>7, KindFacts DEF Refuses, Looks, Unmoved
  <2> QED BY <1>2, <2>1
<1>8. CASE Opens
  BY <1>2, <1>8, KindFacts DEF Opens
<1>9. CASE Decided
  <2>1. /\ Takes("ok") /\ sessions' = sessions /\ project # NoProject
        /\ Moves \/ project' = project
    BY <1>9 DEF Decided, Serves, Unmoved
  <2> QED BY <1>2, <2>1, KindFacts
<1>10. CASE Begins
  BY <1>1, <1>10 DEF Begins
<1>11. CASE Works
  <2>1. project # NoProject /\ UNCHANGED <<toClient, sessions>> /\ (Moves \/ project' = project)
    BY <1>11 DEF Works, TypeInv, Shape
  <2> QED BY <2>1 DEF Evolves
<1>12. ASSUME NEW kind \in Kinds, Replies(kind) PROVE Evolves
  <2>1. UNCHANGED <<project, sessions>>
    BY <1>12 DEF Replies
  <2> QED BY <1>2, <1>12, <2>1
<1> QED BY <1>3, <1>4, <1>5, <1>6, <1>7, <1>8, <1>9, <1>10, <1>11, <1>12, NextFacts

(* What an answer that is accepted does to the extension's identity.       *)
LEMMA AcceptFacts ==
  ASSUME TypeInv, ClockInv, NEW i \in Slots, Accept(i)
  PROVE  /\ Answer \in Elements(toClient) /\ Answer.id = i /\ ctx' = Answer.ctx /\ ctx' # NoContext
         /\ ctx' \in Contexts /\ Of(i).ticket.live /\ Of(i).ticket.ctx = ctx
         /\ Of(i).op = "open" \/ ctx # NoContext
         /\ ctx' = ctx => Of(i).op \in {"select", "operate", "view"}
         /\ ctx' # ctx => \A j \in Slots : Of(j).ticket.ctx # ctx'
         /\ \A j \in Slots : Of(j).ticket.ctx.session = ctx'.session => Of(j).ticket.ctx.rev =< ctx'.rev
         /\ Carries(Of(i).op, Answer.kind)
<1>1. /\ Hears(i) /\ Answer.id = i /\ Answer \in Elements(toClient)
  BY HearFacts, HeardFacts
<1>2. /\ ctx' = Answer.ctx /\ Carries(Of(i).op, Answer.kind) /\ IsCurrent(Of(i).ticket)
      /\ Valid(Of(i).op, Of(i).arg, Answer.ctx)
  BY DEF Accept, Accepted
<1>3. Of(i).ticket.live /\ Of(i).ticket.ctx = ctx
  BY <1>2 DEF IsCurrent
<1>4. Of(i).op \in Ops
  <2>1. Of(i) # NoPending
    BY <1>3, StartValues
  <2>2. Of(i).op # "none" /\ Of(i).op \in Ops \cup {"none"}
    BY <2>1 DEF TypeInv, Types, Shape, Of, Pendings
  <2> QED BY <2>2
<1>5. ctx' \in Contexts /\ ctx'.session \in Nat /\ ctx'.rev \in Nat
  BY <1>1, <1>2, ClockValues
<1>6. CASE Of(i).op = "open"
  <2>1. ctx'.rev = 1
    BY <1>2, <1>6, OpFacts DEF Valid, Analyses
  <2>2. i = "sel" /\ Answer.kind = "ok" /\ ctx = NoContext
    BY <1>2, <1>6 DEF Carries, ClockInv, TicketInv
  <2>3. \A j \in Slots : Of(j).ticket.ctx.session < ctx'.session
    BY <1>1, <1>2, <1>6, <2>2 DEF ClockInv, OpenInv
  <2>4. \A j \in Slots : Of(j).ticket.ctx.session # ctx'.session
    BY <1>5, <2>3, ClockValues
  <2>5. ctx' # ctx /\ ctx' # NoContext
    BY <1>5, <2>1, <2>2, ClockValues
  <2>6. \A j \in Slots : Of(j).ticket.ctx # ctx'
    BY <2>4
  <2> QED BY <1>1, <1>2, <1>3, <1>5, <1>6, <2>4, <2>5, <2>6
<1>7. CASE Of(i).op # "open"
  <2>1. ctx # NoContext
    BY <1>3, <1>7 DEF ClockInv, TicketInv
  <2>2. ctx.session # 0
    BY <2>1 DEF ClockInv, ClientInv
  <2>3. \/ ctx' = ctx /\ Of(i).op \in {"select", "operate", "view"}
        \/ ctx'.session = ctx.session /\ ctx'.rev = ctx.rev + 1
        \/ ctx'.session = ctx.session /\ ctx'.rev = ctx.rev + 0 /\ ctx'.target = ctx.target
           /\ Of(i).op = "select"
    <3>1. CASE Of(i).op = "select"
      BY <1>2, <3>1, <1>5, ClockValues DEF Valid
    <3>2. CASE Of(i).op \in Analyses \cup {"refresh"} \cup Decisions
      <4>1. Of(i).op \notin {"open", "select"}
        BY <3>2, OpFacts DEF Analyses
      <4> QED BY <1>2, <3>2, <4>1 DEF Valid
    <3>3. CASE Of(i).op \notin Analyses \cup {"refresh", "select"} \cup Decisions
      <4>1. ctx' = ctx
        BY <1>2, <1>7, <3>3 DEF Valid
      <4>2. Of(i).op \in {"operate", "view"}
        BY <1>4, <1>7, <3>3, OpFacts DEF Ops, Analyses
      <4> QED BY <4>1, <4>2
    <3> QED BY <3>1, <3>2, <3>3
  <2>4. ASSUME ctx'.session = ctx.session, ctx'.rev = ctx.rev + 0, ctx'.target = ctx.target
        PROVE  ctx' = ctx
    <3>1. ctx'.rev = ctx.rev
      BY <2>4, ClockValues
    <3>2. ctx' \in Contexts /\ ctx \in Contexts
      BY <1>5, ClockValues
    <3> QED BY <2>4, <3>1, <3>2 DEF Contexts
  <2>5. ctx'.session = ctx.session /\ ctx'.rev >= ctx.rev
        /\ (ctx' # ctx => ctx'.rev = ctx.rev + 1)
        /\ (ctx' = ctx => Of(i).op \in {"select", "operate", "view"})
    BY <2>3, <2>4, ClockValues
  <2>6. ctx' # NoContext
    BY <2>2, <2>5, ClockValues
  <2>7. \A j \in Slots : Of(j).ticket.ctx.session = ctx'.session => Of(j).ticket.ctx.rev =< ctx.rev
    BY <2>5 DEF ClockInv, TicketInv
  <2>8. \A j \in Slots :
          /\ Of(j).ticket.ctx.session = ctx'.session => Of(j).ticket.ctx.rev =< ctx'.rev
          /\ ctx' # ctx => Of(j).ticket.ctx # ctx'
    BY <1>5, <2>5, <2>7, ClockValues
  <2> QED BY <1>1, <1>2, <1>3, <1>5, <2>1, <2>5, <2>6, <2>8
<1> QED BY <1>6, <1>7

LEMMA FreshClient ==
  ASSUME AnswerInv', project' \in Projects, sessions' \in Nat, ctx' = NoContext
  PROVE  ClientInv'
<1>1. project'.session \in Nat /\ project'.rev \in Nat
  BY Bounds DEF Projects
<1>2. project'.session = 0 => project' = NoProject /\ Context' = NoContext
  BY StartValues DEF AnswerInv, Context
<1> QED BY <1>1, <1>2, StartValues DEF ClientInv

LEMMA IdentityStep ==
  ASSUME TypeInv, ClockInv, Next
  PROVE  AnswerInv' /\ ClientInv'
<1>0. project' \in Projects /\ sessions' \in Nat /\ AnswerInv /\ ClientInv
  BY ServiceTypesStep, Bounds DEF ServiceTypes, ClockInv
<1>1. CASE Evolves
  <2>1. AnswerInv' /\ (ctx' = ctx => ClientInv')
    BY <1>0, <1>1, EvolveClock
  <2>2. CASE ctx' = NoContext
    BY <1>0, <2>1, <2>2, FreshClient
  <2>3. ASSUME NEW i \in Slots, Accept(i) PROVE ClientInv'
    <3>1. Answer \in Elements(toClient) /\ ctx' = Answer.ctx /\ UNCHANGED <<project, sessions>>
      BY <2>3, AcceptFacts DEF Accept, Receives
    <3>2. Context' = Context
      BY <3>1 DEF Context
    <3> QED BY <1>0, <3>1, <3>2 DEF AnswerInv, ClientInv
  <2>4. \/ ctx' = ctx \/ ctx' = NoContext \/ \E i \in Slots : Accept(i)
    BY NextFacts DEF Asks, GoesTo, Selects, Drop, Tweaks, SaveSource, Reports, Quits, Restart, Killed,
                     Reset, client
  <2> QED BY <2>1, <2>2, <2>3, <2>4
<1>2. CASE Quits \/ (UNCHANGED client /\ Exit)
  <2>1. Elements(toClient') = {} /\ sessions' = sessions /\ (project' = NoProject \/ project' = project)
    <3>1. CASE Restart
      BY <3>1, EndFacts, Emptied DEF Restart
    <3>2. CASE Killed \/ Exit
      BY <3>2, GoneFacts, Emptied DEF Killed, Exit
    <3> QED BY <1>2, <3>1, <3>2 DEF Quits
  <2>2. AnswerInv'
    BY <1>0, <2>1, StartValues DEF AnswerInv
  <2>3. ctx' = NoContext
    BY <1>2 DEF Quits, Restart, Killed, Reset, Exit, client, TypeInv, Shape, Up
  <2> QED BY <1>0, <2>2, <2>3, FreshClient
<1> QED BY <1>1, <1>2, StepEvolves

(* TicketInv, for one slot. *)
TicketOK(i) ==
  /\ Of(i).ticket.ctx.session =< sessions
  /\ Of(i).ticket.ctx.session = 0 => Of(i).ticket.ctx = NoContext
  /\ Of(i).op = "open" => i = "sel" /\ ctx = NoContext /\ Of(i).ticket.ctx = NoContext
  /\ ctx = NoContext /\ Of(i).ticket.live => Of(i).op = "open"
  /\ Of(i).ticket.ctx.session = ctx.session => Of(i).ticket.ctx.rev =< ctx.rev

LEMMA TicketIs ==
  /\ TicketInv <=> \A i \in Slots : TicketOK(i)
  /\ TicketInv' <=> \A i \in Slots : TicketOK(i)'
BY DEF TicketInv, TicketOK

LEMMA TicketNone ==
  ASSUME NEW i \in Slots, pend'[i] = NoPending, ctx' \in Contexts, sessions' \in Nat
  PROVE  TicketOK(i)'
<1>1. ctx'.rev \in Nat
  BY Bounds DEF Contexts
<1> QED BY <1>1, StartValues DEF TicketOK, Of

LEMMA TicketKept ==
  ASSUME TypeInv, NEW i \in Slots, TicketOK(i), ctx' = ctx, pend'[i].op = pend[i].op,
         pend'[i].ticket.ctx = pend[i].ticket.ctx, pend'[i].ticket.live => pend[i].ticket.live,
         sessions' \in Nat, sessions' >= sessions
  PROVE  TicketOK(i)'
<1>1. Of(i).ticket.ctx.session \in Nat /\ sessions \in Nat
  BY ClockValues
<1> QED BY <1>1 DEF TicketOK, Of

LEMMA TicketNew ==
  ASSUME TypeInv, ClientInv, NEW i \in Slots, pend'[i].ticket.ctx = ctx, ctx' = ctx, ctx # NoContext,
         pend'[i].op # "open", sessions' = sessions
  PROVE  TicketOK(i)'
BY ClockValues DEF TicketOK, Of, ClientInv

LEMMA TicketStep ==
  ASSUME TypeInv, ClockInv, Next
  PROVE  TicketInv'
<1>0. /\ pend \in [Slots -> Pendings] /\ pend' \in [Slots -> Pendings] /\ "sel" \in Slots
      /\ ctx' \in Contexts /\ sessions' \in Nat /\ sessions \in Nat
      /\ ClientInv /\ \A i \in Slots : TicketOK(i)
  BY SlotStep, ServiceTypesStep, ClientTypesStep, OpFacts, TicketIs, Bounds
     DEF TypeInv, Types, ServiceTypes, ClientTypes, ClockInv
<1> USE TicketIs
<1>1. ASSUME NEW i \in Slots, NEW p \in Pendings, Asks(i, p) PROVE TicketInv'
  <2>1. /\ pend'[i] = p /\ p.ticket.ctx = ctx /\ p.op # "open" /\ ctx # NoContext /\ ctx' = ctx
        /\ sessions' = sessions /\ \A j \in Slots \ {i} : pend'[j] = pend[j]
    BY <1>0, <1>1 DEF Asks, Sends
  <2>2. TicketOK(i)'
    BY <1>0, <2>1, TicketNew
  <2>3. \A j \in Slots \ {i} : TicketOK(j)'
    BY <1>0, <2>1, TicketKept
  <2> QED BY <2>2, <2>3
<1>2. ASSUME NEW p \in Pendings, Selects(p) PROVE TicketInv'
  <2>1. /\ Leaves(p) /\ p.ticket.ctx = ctx /\ p.op = "select" /\ ctx # NoContext /\ ctx' = ctx
        /\ sessions' = sessions
    BY <1>2 DEF Selects, Sends
  <2>2. TicketOK("sel")'
    <3>1. pend'["sel"] = p
      BY <2>1, LeavesFacts
    <3> QED BY <1>0, <2>1, <3>1, TicketNew
  <2>3. \A j \in Slots \ {"sel"} : /\ pend'[j].op = pend[j].op /\ ~pend'[j].ticket.live
                                      /\ pend'[j].ticket.ctx = pend[j].ticket.ctx
    BY <2>1, LeavesFacts
  <2>4. \A j \in Slots \ {"sel"} : TicketOK(j)'
    BY <1>0, <2>1, <2>3, TicketKept
  <2> QED BY <2>2, <2>4
<1>3. ASSUME NEW p \in Pendings, GoesTo(p) PROVE TicketInv'
  <2>1. /\ Leaves(p) /\ p.ticket.ctx = NoContext /\ p.op = "open" /\ ctx' = NoContext
        /\ sessions' = sessions /\ Up /\ Of("sel") = NoPending
    BY <1>3 DEF GoesTo, Sends
  <2>2. /\ pend'["sel"] = p
        /\ \A j \in Slots \ {"sel"} : /\ pend'[j].op = pend[j].op /\ ~pend'[j].ticket.live
                                     /\ pend'[j].ticket.ctx = pend[j].ticket.ctx
    BY <2>1, LeavesFacts
  <2>3. TicketOK("sel")'
    BY <1>0, <2>1, <2>2, StartValues DEF TicketOK, Of
  <2>4. ASSUME NEW j \in Slots \ {"sel"} PROVE TicketOK(j)'
    <3>1. TicketOK(j) /\ Of(j).op # "open"
      BY <1>0 DEF TicketOK
    <3> QED BY <2>1, <2>2, <3>1, StartValues DEF TicketOK, Of
  <2> QED BY <2>3, <2>4
<1>4. ASSUME NEW i \in Slots, Accept(i) PROVE TicketInv'
  <2>1. /\ pend' = [pend EXCEPT ![i] = NoPending] /\ sessions' = sessions
    BY <1>4, HearFacts DEF Hears
  <2>2. /\ ctx' # NoContext /\ (Of(i).op = "open" \/ ctx # NoContext)
        /\ Of(i).ticket.live
        /\ \A j \in Slots : Of(j).ticket.ctx.session = ctx'.session => Of(j).ticket.ctx.rev =< ctx'.rev
    BY <1>4, AcceptFacts
  <2>3. TicketOK(i)'
    BY <1>0, <2>1, TicketNone
  <2>4. ASSUME NEW j \in Slots, j # i PROVE TicketOK(j)'
    <3>1. TicketOK(i) /\ TicketOK(j) /\ pend'[j] = pend[j]
      BY <1>0, <2>1, <2>4
    <3>2. Of(j).op # "open"
      BY <2>2, <2>4, <3>1 DEF TicketOK
    <3>3. /\ Of(j).ticket.ctx.session =< sessions
          /\ Of(j).ticket.ctx.session = 0 => Of(j).ticket.ctx = NoContext
      BY <3>1 DEF TicketOK
    <3>4. Of(j).ticket.ctx.session = ctx'.session => Of(j).ticket.ctx.rev =< ctx'.rev
      BY <2>2
    <3>5. Of(j)' = Of(j)
      BY <3>1 DEF Of
    <3> QED BY <2>1, <2>2, <3>2, <3>3, <3>4, <3>5 DEF TicketOK
  <2> QED BY <2>3, <2>4
<1>5. ASSUME NEW i \in Slots, Drop(i) PROVE TicketInv'
  <2>1. /\ pend' = [pend EXCEPT ![i] = NoPending] /\ sessions' = sessions /\ ctx' = ctx
    BY <1>5, HearFacts DEF Hears, Drop
  <2>2. TicketOK(i)'
    BY <1>0, <2>1, TicketNone
  <2>3. \A j \in Slots \ {i} : TicketOK(j)'
    BY <1>0, <2>1, TicketKept
  <2> QED BY <2>2, <2>3
<1>6. CASE Tweaks \/ Reports
  <2>1. SameRequests /\ ctx' = ctx /\ sessions' = sessions
    BY <1>6 DEF Tweaks, Reports, service
  <2> QED BY <1>0, <2>1, TicketKept DEF SameRequests
<1>7. CASE SaveSource
  <2>1. pend' = pend /\ ctx' = ctx /\ sessions' = sessions
    BY <1>7 DEF SaveSource
  <2> QED BY <1>0, <2>1, TicketKept
<1>8. CASE Quits
  <2>1. \A i \in Slots : pend'[i] = NoPending
    BY <1>8 DEF Quits, Restart, Killed, Reset
  <2> QED BY <1>0, <2>1, TicketNone
<1>9. CASE UNCHANGED client
  <2>1. pend' = pend /\ ctx' = ctx
    BY <1>9 DEF client
  <2>2. sessions' >= sessions
    BY <1>0, StepEvolves DEF Evolves, Quits, Restart, Killed, Exit, EndOfInput
  <2> QED BY <1>0, <2>1, <2>2, TicketKept
<1> QED BY <1>1, <1>2, <1>3, <1>4, <1>5, <1>6, <1>7, <1>8, <1>9, NextFacts

(* Only an opening answers an opening. *)
LEMMA TakenAnswers ==
  ASSUME TypeInv, MatchInv, NEW kind \in Kinds, Takes(kind), Request.op # "open"
  PROVE  Request.id = "sel" => Of("sel").op # "open"
<1>1. CASE Up
  BY <1>1, MatchFacts DEF Takes
<1>2. CASE ~Up
  BY <1>2, NoneFacts, OpFacts DEF TypeInv, Shape
<1> QED BY <1>1, <1>2

LEMMA RepliedAnswers ==
  ASSUME TypeInv, MatchInv, NEW kind \in Kinds, Replies(kind)
  PROVE  worker.r.id = "sel" => Of("sel").op # "open"
<1>1. worker.pc = "reply" /\ worker.r.op # "open"
  BY DEF Replies, TypeInv, Shape, Analyses
<1>2. CASE Up
  BY <1>1, <1>2, MatchFacts
<1>3. CASE ~Up
  BY <1>3, NoneFacts, OpFacts DEF TypeInv, Shape
<1> QED BY <1>2, <1>3

LEMMA OpenStep ==
  ASSUME TypeInv, WireInv, MatchInv, ClockInv, Next
  PROVE  OpenInv'
<1>0. /\ pend \in [Slots -> Pendings] /\ "sel" \in Slots /\ OpenInv /\ project' \in Projects
      /\ \A a \in Elements(toClient) : a.id \in Idents(toClient)
  BY OpFacts, ProjectStep DEF TypeInv, Types, ClockInv, Idents
<1>1. ASSUME Of("sel")'.op = "open" => Of("sel").op = "open",
             Elements(toClient') \subseteq Elements(toClient),
             \A j \in Slots : pend'[j].ticket.ctx = pend[j].ticket.ctx \/ pend'[j] = NoPending
      PROVE  OpenInv'
  <2> SUFFICES ASSUME Of("sel").op = "open", NEW a \in Elements(toClient), a.id = "sel", a.kind = "ok",
                      NEW j \in Slots
               PROVE  pend'[j].ticket.ctx.session < a.ctx.session
    BY <1>1 DEF OpenInv, Of
  <2>1. Of(j).ticket.ctx.session < a.ctx.session
    BY <1>0 DEF OpenInv
  <2>2. Of(j).ticket.ctx.session \in Nat /\ a.ctx.session \in Nat
    BY ClockValues
  <2> QED BY <1>1, <2>1, <2>2, StartValues DEF Of
<1>2. ASSUME NEW i \in Slots, NEW p \in Pendings, Asks(i, p) PROVE OpenInv'
  <2>1. pend' = [pend EXCEPT ![i] = p] /\ p.op # "open" /\ ctx # NoContext
    BY <1>2 DEF Asks
  <2>2. Of("sel").op # "open"
    BY <1>0, <2>1 DEF ClockInv, TicketInv
  <2>3. Of("sel")'.op # "open"
    BY <1>0, <2>1, <2>2 DEF Of
  <2> QED BY <2>3 DEF OpenInv
<1>3. ASSUME NEW p \in Pendings, GoesTo(p) PROVE OpenInv'
  <2>1. Up /\ Of("sel").op = "none" /\ toClient' = toClient
    BY <1>3, StartValues DEF GoesTo, Sends
  <2>2. "sel" \notin Idents(toClient)
    BY <1>0, <2>1 DEF WireInv
  <2> QED BY <1>0, <2>1, <2>2 DEF OpenInv
<1>4. ASSUME NEW p \in Pendings, Selects(p) PROVE OpenInv'
  <2>1. pend'["sel"].op = "select"
    BY <1>4, LeavesFacts DEF Selects
  <2> QED BY <2>1 DEF OpenInv, Of
<1>5. ASSUME NEW i \in Slots, Hears(i) PROVE OpenInv'
  <2>1. pend' = [pend EXCEPT ![i] = NoPending] /\ Elements(toClient') \subseteq Elements(toClient)
    BY <1>5, HeardFacts DEF Hears
  <2> QED BY <1>0, <1>1, <2>1, StartValues DEF Of
<1>6. CASE Tweaks \/ Reports \/ SaveSource
  <2>1. /\ toClient' = toClient
        /\ \A j \in Slots : pend'[j].op = pend[j].op /\ pend'[j].ticket = pend[j].ticket
    BY <1>6 DEF Tweaks, Reports, SaveSource, SameRequests, service, wire
  <2> QED BY <1>0, <1>1, <2>1 DEF Of
<1>7. CASE Quits
  <2>1. pend'["sel"] = NoPending
    BY <1>0, <1>7 DEF Quits, Restart, Killed, Reset
  <2> QED BY <2>1, StartValues DEF OpenInv, Of
<1>8. ASSUME UNCHANGED client, Exit PROVE OpenInv'
  <2>1. Elements(toClient') = {}
    BY <1>8, GoneFacts, Emptied DEF Exit
  <2> QED BY <2>1 DEF OpenInv
<1>9. ASSUME UNCHANGED client, Begins \/ Works PROVE OpenInv'
  <2>1. toClient' = toClient /\ pend' = pend
    BY <1>9 DEF Begins, Works, client
  <2> QED BY <1>1, <2>1 DEF Of
<1>10. ASSUME UNCHANGED client, NEW i, NEW a, NEW kind \in Kinds, Adds(a, i, kind),
              a.id = "sel" /\ a.kind = "ok" =>
                \/ Of("sel").op # "open"
                \/ \A j \in Slots : Of(j).ticket.ctx.session < a.ctx.session
       PROVE  OpenInv'
  <2>1. Elements(toClient') = Elements(toClient) \cup {a} /\ pend' = pend
    BY <1>10 DEF Adds, client
  <2> QED BY <1>0, <1>10, <2>1 DEF OpenInv, Of
<1>11. ASSUME UNCHANGED client, NEW kind \in Kinds, Takes(kind), kind = "ok" => Request.op # "open"
       PROVE  OpenInv'
  <2>1. PICK a : Adds(a, Request.id, kind)
    BY <1>0, <1>11, TakeFacts
  <2>2. a.id = "sel" /\ a.kind = "ok" => Of("sel").op # "open"
    BY <1>11, <2>1, TakenAnswers DEF Adds
  <2> QED BY <1>10, <1>11, <2>1, <2>2
<1>12. ASSUME UNCHANGED client, Refuses \/ Looks \/ Decided PROVE OpenInv'
  <2>1. \E kind \in Kinds : Takes(kind) /\ (kind = "ok" => Request.op # "open")
    BY <1>12, KindFacts DEF Refuses, Looks, Decided
  <2> QED BY <1>11, <1>12, <2>1
<1>13. ASSUME UNCHANGED client, Opens PROVE OpenInv'
  <2>1. PICK a : Adds(a, Request.id, "ok")
    BY <1>0, <1>13, TakeFacts, KindFacts DEF Opens
  <2>2. a.ctx.session = sessions + 1
    <3>1. a.ctx = ContextOf(project') /\ project'.session = sessions + 1
      BY <1>13, <2>1 DEF Adds, Opens, Context
    <3> QED BY <1>0, <3>1, ContextFacts
  <2>3. \A j \in Slots : Of(j).ticket.ctx.session < a.ctx.session
    BY <2>2, ClockValues DEF ClockInv, TicketInv
  <2> QED BY <1>10, <1>13, <2>1, <2>3, KindFacts
<1>14. ASSUME UNCHANGED client, NEW kind \in Kinds, Replies(kind) PROVE OpenInv'
  <2>1. PICK a : Adds(a, worker.r.id, kind)
    BY <1>14, ReplyFacts
  <2>2. a.id = "sel" /\ a.kind = "ok" => Of("sel").op # "open"
    BY <1>14, <2>1, RepliedAnswers DEF Adds
  <2> QED BY <1>10, <1>14, <2>1, <2>2
<1> QED BY <1>2, <1>3, <1>4, <1>5, <1>6, <1>7, <1>8, <1>9, <1>12, <1>13, <1>14, NextFacts

LEMMA ClockStep ==
  ASSUME TypeInv, WireInv, MatchInv, ClockInv, Next
  PROVE  ClockInv'
BY IdentityStep, TicketStep, OpenStep DEF ClockInv

-----------------------------------------------------------------------------
(* The shapes, and the cache.                                              *)

ClosedInv ==
  /\ ~Up => ctx = NoContext /\ \A i \in Slots : Of(i) = NoPending
  /\ ctx = NoContext => ~unreported
WorkerInv ==
  /\ worker.pc = "idle" => worker = IdleWorker
  /\ worker.pc # "idle" =>
       worker.r \in Requests /\ worker.r.op \in Analyses \cup {"operate", "refresh"}
  /\ worker.pc \in {"child", "failed"} =>
       /\ worker.r.ctx = Context /\ project # NoProject /\ project.rev < MaxRevision
       /\ worker.pc = "failed" => worker.r.op \in Analyses

LEMMA ShapeIs ==
  /\ Shape <=> SlotInv /\ ClosedInv /\ WorkerInv
  /\ Shape' <=> SlotInv' /\ ClosedInv' /\ WorkerInv'
BY DEF Shape, SlotInv, ClosedInv, WorkerInv

LEMMA ClosedStep ==
  ASSUME TypeInv, ClockInv, Next
  PROVE  ClosedInv'
<1>0. /\ ClosedInv /\ pend \in [Slots -> Pendings] /\ "sel" \in Slots /\ "none" \notin Ops
      /\ unreported \in BOOLEAN
  BY ShapeIs, OpFacts DEF TypeInv, Types
<1>1. ASSUME NEW i \in Slots, NEW p \in Pendings, Asks(i, p) PROVE ClosedInv'
  BY <1>0, <1>1 DEF Asks, Sends, ClosedInv, Up
<1>2. ASSUME NEW p \in Pendings, GoesTo(p) \/ Selects(p) PROVE ClosedInv'
  BY <1>2 DEF GoesTo, Selects, Sends, Leaves, ClosedInv, Up
<1>3. ASSUME NEW i \in Slots, Accept(i) PROVE ClosedInv'
  <2>1. Of(i).ticket.live /\ ctx' # NoContext /\ life' = life
    BY <1>3, AcceptFacts, HearFacts DEF Hears
  <2>2. Up
    BY <1>0, <2>1, StartValues DEF ClosedInv
  <2> QED BY <2>1, <2>2 DEF ClosedInv, Up
<1>4. ASSUME NEW i \in Slots, Drop(i) PROVE ClosedInv'
  <2>1. pend' = [pend EXCEPT ![i] = NoPending] /\ UNCHANGED <<life, ctx, unreported>>
    BY <1>4, HearFacts DEF Hears, Drop
  <2> QED BY <1>0, <2>1 DEF ClosedInv, Up, Of
<1>5. CASE Tweaks \/ Reports
  <2>1. SameRequests /\ UNCHANGED <<life, ctx>> /\ (unreported' => unreported)
    BY <1>5 DEF Tweaks, Reports, service
  <2> QED BY <1>0, <2>1 DEF ClosedInv, Up, Of, SameRequests
<1>6. CASE SaveSource
  <2>1. unreported' = (unreported \/ Opened) /\ UNCHANGED <<life, ctx, pend>>
    BY <1>6 DEF SaveSource
  <2> QED BY <1>0, <2>1 DEF ClosedInv, Up, Of, Opened
<1>7. CASE Quits
  BY <1>7 DEF Quits, Restart, Killed, Reset, ClosedInv, Of
<1>8. ASSUME UNCHANGED client, life' = life \/ life' = "up" PROVE ClosedInv'
  <2>1. UNCHANGED <<ctx, pend, unreported>>
    BY <1>8 DEF client
  <2> QED BY <1>0, <1>8, <2>1 DEF ClosedInv, Up, Of
<1>9. ASSUME \/ Exit \/ Refuses \/ Looks \/ Opens \/ Decided \/ Begins \/ Works
             \/ \E kind \in Kinds : Replies(kind)
      PROVE  life' = life \/ life' = "up"
  BY <1>9 DEF Exit, Gone, Refuses, Looks, Opens, Decided, Takes, Begins, Works, Replies
<1> QED BY <1>1, <1>2, <1>3, <1>4, <1>5, <1>6, <1>7, <1>8, <1>9, NextFacts

LEMMA WorkerStep ==
  ASSUME TypeInv, Next
  PROVE  WorkerInv'
<1>0. WorkerInv /\ worker \in Workers /\ project \in Projects
  BY ShapeIs DEF TypeInv, Types
<1>1. ASSUME UNCHANGED <<worker, project>> PROVE WorkerInv'
  BY <1>0, <1>1 DEF WorkerInv, Context
<1>2. ASSUME worker' = IdleWorker PROVE WorkerInv'
  BY <1>2, StartValues DEF WorkerInv
<1>3. CASE \E i \in Slots, p \in Pendings : Asks(i, p)
  BY <1>1, <1>3 DEF Asks, Sends
<1>4. CASE \E p \in Pendings : GoesTo(p) \/ Selects(p)
  BY <1>1, <1>4 DEF GoesTo, Selects, Sends
<1>5. CASE \E i \in Slots : Hears(i)
  BY <1>1, <1>5 DEF Hears
<1>6. CASE Tweaks \/ SaveSource \/ Reports
  BY <1>1, <1>6 DEF Tweaks, SaveSource, Reports, service, wire
<1>7. CASE Quits
  BY <1>1, <1>2, <1>7, GoneFacts, EndFacts DEF Quits, Restart, Killed
<1>8. CASE Exit
  BY <1>2, <1>8, GoneFacts DEF Exit
<1>9. CASE Refuses \/ Looks \/ Opens \/ Decided
  <2>1. PICK kind \in Kinds : Takes(kind)
    BY <1>9, KindFacts DEF Refuses, Looks, Opens, Decided
  <2>2. worker' = IdleWorker
    BY <1>0, <2>1 DEF Takes, WorkerInv
  <2> QED BY <1>2, <2>2
<1>10. CASE Begins
  <2>1. /\ worker' = [r |-> Request, pc |-> "child", kind |-> "ok", of |-> 0] /\ project' = project
        /\ Request.op \in Analyses \cup {"operate", "refresh"}
        /\ Request.ctx = Context /\ project # NoProject /\ project.rev < MaxRevision
    BY <1>10 DEF Begins, Serves
  <2>2. Request \in Requests
    BY <1>10, NextRequest DEF Begins
  <2>3. worker'.r = Request /\ worker'.pc = "child" /\ Context' = Context
    BY <2>1 DEF Context
  <2> QED BY <2>1, <2>2, <2>3 DEF WorkerInv
<1>11. CASE Works
  <2>1. /\ worker.pc # "idle" /\ worker.pc \in {"child", "failed"} /\ worker'.r = worker.r
        /\ worker'.pc # "idle"
        /\ worker'.pc \in {"child", "failed"} => project' = project /\ worker.r.op \in Analyses
    BY <1>11 DEF Works
  <2>2. project' = project => Context' = Context
    BY DEF Context
  <2> QED BY <1>0, <2>1, <2>2 DEF WorkerInv
<1>12. CASE \E kind \in Kinds : Replies(kind)
  BY <1>2, <1>12 DEF Replies
<1> QED BY <1>3, <1>4, <1>5, <1>6, <1>7, <1>8, <1>9, <1>10, <1>11, <1>12, NextFacts

LEMMA TypeStep ==
  ASSUME TypeInv, ClockInv, Next
  PROVE  TypeInv'
BY TypesAre, ShapeIs, ServiceTypesStep, ClientTypesStep, SlotStep, ClosedStep, WorkerStep DEF TypeInv

LEMMA CacheStep ==
  ASSUME TypeInv, CacheInv, Next
  PROVE  CacheInv'
<1>1. ASSUME UNCHANGED <<worker, project, cache>> PROVE CacheInv'
  BY <1>1 DEF CacheInv
<1>2. CASE \E i \in Slots, p \in Pendings : Asks(i, p)
  BY <1>1, <1>2 DEF Asks, Sends, disk
<1>3. CASE \E p \in Pendings : GoesTo(p) \/ Selects(p)
  BY <1>1, <1>3 DEF GoesTo, Selects, Sends, disk
<1>4. CASE \E i \in Slots : Hears(i)
  BY <1>1, <1>4 DEF Hears, disk
<1>5. CASE Tweaks \/ SaveSource \/ Reports
  BY <1>1, <1>5 DEF Tweaks, SaveSource, Reports, service, wire, disk
<1>6. CASE Quits \/ Exit
  BY <1>1, <1>6, GoneFacts, EndFacts DEF Quits, Restart, Killed, Exit, CacheInv
<1>7. CASE Refuses \/ Looks
  BY <1>1, <1>7 DEF Refuses, Looks, Takes, Unmoved, disk
<1>8. CASE Opens
  BY <1>8 DEF Opens, CacheInv, disk
<1>9. CASE Decided
  <2>1. cache.of = project.of
    BY <1>9 DEF Decided, Takes, Serves, CacheInv
  <2>2. cache'.of = project'.of
    BY <1>9, <2>1 DEF Decided, Unmoved, disk
  <2> QED BY <2>2 DEF CacheInv
<1>10. CASE Begins
  <2>1. cache.of = project.of /\ UNCHANGED <<cache, project>>
    BY <1>10 DEF Begins, Serves, CacheInv, disk
  <2> QED BY <2>1 DEF CacheInv
<1>11. CASE Works
  <2>1. worker.pc \in {"child", "failed"} /\ project # NoProject
        /\ (worker.pc = "failed" => worker.r.op \in Analyses)
        /\ {"operate", "refresh"} \cap Analyses = {}
    BY <1>11 DEF Works, TypeInv, Shape, Analyses
  <2>2. worker.r.op \in {"operate", "refresh"} => cache.of = project.of
    BY <2>1 DEF CacheInv
  <2>3. \/ worker'.pc = "failed"
        \/ worker'.pc = "child" /\ worker'.of # 0 /\ worker'.r.op \in Analyses
        \/ cache'.of = project'.of
    BY <1>11, <2>1, <2>2 DEF Works
  <2> QED BY <2>3 DEF CacheInv
<1>12. ASSUME NEW kind \in Kinds, Replies(kind) PROVE CacheInv'
  <2>1. worker.pc = "reply" /\ UNCHANGED <<project, cache>>
    BY <1>12 DEF Replies, disk
  <2> QED BY <2>1 DEF CacheInv
<1> QED BY <1>2, <1>3, <1>4, <1>5, <1>6, <1>7, <1>8, <1>9, <1>10, <1>11, <1>12, NextFacts

-----------------------------------------------------------------------------
(* Models: steps after which no more is expected than before.              *)

Narrows ==
  /\ UNCHANGED <<project, src, head, worker, life, ctx>>
  /\ (unreported \/ known) => (unreported' \/ known')
  /\ known => known'
  /\ shown'.of = shown.of
  /\ WouldBeFresh' => WouldBeFresh
  /\ \A j \in Slots : Expected(j)' => /\ Expected(j) /\ Of(j)'.op = Of(j).op
                                      /\ Of(j).saved => Of(j)'.saved
  /\ worker.pc = "child" /\ Up /\ IsCurrent(Of(worker.r.id).ticket)' /\ ~Of(worker.r.id)'.saved =>
       IsCurrent(Of(worker.r.id).ticket) /\ ~Of(worker.r.id).saved

LEMMA NarrowStep ==
  ASSUME ModelInv, Narrows
  PROVE  ModelInv'
<1>1. Context' = Context /\ (Clean' <=> Clean) /\ (Up' <=> Up)
  BY DEF Narrows, Context, Clean, Up
<1>2. \A x : x = project.of \/ x = worker.of => (Excused(x) => Excused(x)')
  BY DEF Narrows, Excused
<1>3. ShownInv'
  BY <1>1, <1>2 DEF ModelInv, ShownInv, Narrows
<1>4. ComingInv'
  BY <1>1, <1>2 DEF ModelInv, ComingInv, Narrows
<1>5. ReadInv'
  BY <1>1, <1>2 DEF ModelInv, ReadInv, Narrows
<1>6. CleanInv'
  <2>1. Trusted' => Trusted
    BY <1>1 DEF Trusted, Narrows
  <2> QED BY <1>1, <2>1 DEF ModelInv, CleanInv, Narrows
<1> QED BY <1>3, <1>4, <1>5, <1>6 DEF ModelInv

(* Nothing is shown and nothing expected. *)
LEMMA BlankStep ==
  ASSUME ModelInv, ctx' = NoContext, \A j \in Slots : ~Expected(j)', UNCHANGED <<src, head>>,
         worker' = worker \/ worker' = IdleWorker,
         Up' /\ worker'.pc = "child" /\ worker'.r.op \in Analyses => ~IsCurrent(Of(worker.r.id).ticket)'
  PROVE  ModelInv'
<1>1. worker'.pc = "child" => worker' = worker
  BY StartValues
<1>2. ShownInv' /\ ComingInv'
  BY DEF ShownInv, ComingInv
<1>3. ReadInv'
  BY <1>1 DEF ReadInv
<1>4. CleanInv'
  <2>1. ~Trusted' /\ (Clean' <=> Clean)
    BY DEF Trusted, Clean
  <2> QED BY <1>1, <2>1 DEF ModelInv, CleanInv
<1> QED BY <1>2, <1>3, <1>4 DEF ModelInv

LEMMA ExpectedFacts ==
  ASSUME TypeInv, WireInv, NEW j \in Slots, Expected(j)
  PROVE  /\ Up /\ Of(j).op \in Ops /\ Of(j).ticket.live /\ Of(j).ticket.ctx = ctx
         /\ j \in Idents(toClient) \cup {worker.r.id}
<1>1. Of(j).ticket.live /\ Of(j).ticket.ctx = ctx /\ Comes(j)
  BY DEF Expected, IsCurrent
<1>2. Of(j) # NoPending
  BY <1>1, StartValues
<1>3. Up /\ Of(j).op # "none"
  BY <1>2 DEF TypeInv, Shape
<1>4. Of(j).op \in Ops
  BY <1>3 DEF TypeInv, Types, Of, Pendings
<1>5. j \in Idents(toClient) \cup {worker.r.id}
  BY <1>1 DEF Comes, Idents
<1> QED BY <1>1, <1>3, <1>4, <1>5

(* A slot that is left alone expects what it did; a new one nothing. *)
LEMMA SlotExpects ==
  ASSUME NEW j \in Slots, UNCHANGED <<worker, project>>, Elements(toClient') \subseteq Elements(toClient),
         Of(j)'.op = Of(j).op
  PROVE  Comes(j)' => Comes(j)
<1>1. Context' = Context
  BY DEF Context
<1> QED BY <1>1 DEF Comes

LEMMA AskModel ==
  ASSUME TypeInv, WireInv, ModelInv, NEW i \in Slots, NEW p \in Pendings, Asks(i, p)
  PROVE  ModelInv'
<1>1. /\ Up /\ Of(i) = NoPending /\ UNCHANGED <<worker, toClient, project, src, head, life, ctx>>
      /\ UNCHANGED <<unreported, known>>
      /\ shown'.of = shown.of /\ (shown'.state = "fresh" => shown.state = "fresh")
      /\ p.op \in {"analyse", "automatic"} => i = "cmd" /\ p.before = shown.state
  BY DEF Asks, Sends, disk
<1>2. Of(i)' = p /\ \A j \in Slots \ {i} : Of(j)' = Of(j)
  BY DEF Asks, Of, TypeInv, Types
<1>3. i \notin Idents(toClient) \cup {worker.r.id}
  BY <1>1, StartValues DEF WireInv
<1>4. ~Comes(i)'
  <2>1. Idents(toClient') = Idents(toClient) /\ worker' = worker
    BY <1>1
  <2>2. i \notin Idents(toClient') /\ i # worker'.r.id
    BY <1>3, <2>1
  <2> QED BY <2>2 DEF Comes, Idents
<1>5. \A j \in Slots : Expected(j)' => Expected(j) /\ Of(j)' = Of(j)
  <2> SUFFICES ASSUME NEW j \in Slots, Expected(j)' PROVE Expected(j) /\ Of(j)' = Of(j)
    OBVIOUS
  <2>1. j # i
    BY <1>4 DEF Expected
  <2>2. Of(j)' = Of(j)
    BY <1>2, <2>1
  <2>3. Comes(j)' => Comes(j)
    BY <1>1, <2>2, SlotExpects
  <2> QED BY <1>1, <2>2, <2>3 DEF Expected, IsCurrent
<1>6. WouldBeFresh' => WouldBeFresh
  <2>1. "cmd" \in Slots
    BY OpFacts
  <2>2. CASE i = "cmd"
    <3>1. p.before = "fresh" /\ p.op \in {"analyse", "automatic"} => shown.state = "fresh"
      BY <1>1
    <3> QED BY <1>1, <1>2, <2>2, <3>1 DEF WouldBeFresh
  <2>3. CASE i # "cmd"
    <3>1. Of("cmd")' = Of("cmd")
      BY <1>2, <2>1, <2>3
    <3> QED BY <1>1, <3>1 DEF WouldBeFresh, IsCurrent
  <2> QED BY <2>2, <2>3
<1>7. worker.pc = "child" => worker.r.id \in Slots /\ worker.r.id # i
  BY <1>3 DEF TypeInv, Shape, Requests
<1>8. Narrows
  <2>1. worker.pc = "child" => Of(worker.r.id)' = Of(worker.r.id)
    <3>1. worker' = worker
      BY <1>1
    <3> QED BY <1>2, <1>7, <3>1 DEF Of
  <2> QED BY <1>1, <1>5, <1>6, <2>1 DEF Narrows, IsCurrent
<1> QED BY <1>8, NarrowStep

LEMMA SelectModel ==
  ASSUME TypeInv, WireInv, ModelInv, NEW p \in Pendings, Selects(p)
  PROVE  ModelInv'
<1>1. /\ Up /\ Of("sel") = NoPending /\ UNCHANGED <<worker, toClient, project, src, head, life, ctx>>
      /\ known' = (known \/ unreported) /\ Leaves(p) /\ "sel" \in Slots /\ "cmd" \in Slots \ {"sel"}
      /\ shown'.of = shown.of /\ (shown'.state = "fresh" => shown.state = "fresh")
  BY OpFacts DEF Selects, Sends, disk
<1>2. \A j \in Slots \ {"sel"} : ~IsCurrent(Of(j).ticket)'
  BY <1>1, LeavesFacts DEF IsCurrent, Of
<1>3. "sel" \notin Idents(toClient) \cup {worker.r.id}
  BY <1>1, StartValues DEF WireInv
<1>4. ~Comes("sel")'
  <2>1. "sel" \notin Idents(toClient') /\ "sel" # worker'.r.id
    BY <1>1, <1>3
  <2> QED BY <2>1 DEF Comes, Idents
<1>5. \A j \in Slots : ~Expected(j)'
  BY <1>2, <1>4 DEF Expected
<1>6. WouldBeFresh' => WouldBeFresh
  BY <1>1, <1>2 DEF WouldBeFresh
<1>7. worker.pc = "child" => ~IsCurrent(Of(worker.r.id).ticket)'
  <2>1. worker.pc = "child" => worker.r.id \in Slots \ {"sel"} /\ worker' = worker
    BY <1>1, <1>3 DEF TypeInv, Shape, Requests
  <2> QED BY <1>2, <2>1 DEF Of
<1>8. Narrows
  BY <1>1, <1>5, <1>6, <1>7 DEF Narrows
<1> QED BY <1>8, NarrowStep

LEMMA OpenModel ==
  ASSUME TypeInv, WireInv, ModelInv, NEW p \in Pendings, GoesTo(p)
  PROVE  ModelInv'
<1>1. /\ Up /\ Of("sel") = NoPending /\ UNCHANGED <<worker, toClient, project, src, head, life>>
      /\ ctx' = NoContext /\ Leaves(p) /\ "sel" \in Slots
  BY OpFacts DEF GoesTo, Sends, disk
<1>2. \A j \in Slots \ {"sel"} : ~IsCurrent(Of(j).ticket)'
  BY <1>1, LeavesFacts DEF IsCurrent, Of
<1>3. "sel" \notin Idents(toClient) \cup {worker.r.id}
  BY <1>1, StartValues DEF WireInv
<1>4. ~Comes("sel")'
  <2>1. "sel" \notin Idents(toClient') /\ "sel" # worker'.r.id
    BY <1>1, <1>3
  <2> QED BY <2>1 DEF Comes, Idents
<1>5. \A j \in Slots : ~Expected(j)'
  BY <1>2, <1>4 DEF Expected
<1>6. worker.pc = "child" => ~IsCurrent(Of(worker.r.id).ticket)'
  <2>1. worker.pc = "child" => worker.r.id \in Slots \ {"sel"} /\ worker' = worker
    BY <1>1, <1>3 DEF TypeInv, Shape, Requests
  <2> QED BY <1>2, <2>1 DEF Of
<1> QED BY <1>1, <1>5, <1>6, BlankStep

LEMMA QuitModel ==
  ASSUME TypeInv, WireInv, ModelInv, Quits \/ (Exit /\ UNCHANGED client)
  PROVE  ModelInv'
<1>1. ctx' = NoContext /\ \A j \in Slots : Of(j)' = NoPending
  BY DEF Quits, Restart, Killed, Reset, Exit, client, TypeInv, Shape, Up, Of
<1>2. UNCHANGED <<src, head>> /\ (worker' = worker \/ worker' = IdleWorker)
  BY GoneFacts, EndFacts DEF Quits, Restart, Killed, Exit
<1>3. \A j \in Slots : ~IsCurrent(Of(j).ticket)'
  BY <1>1, StartValues DEF IsCurrent
<1>4. worker'.pc = "child" => ~IsCurrent(Of(worker.r.id).ticket)'
  <2>1. worker'.pc = "child" => worker' = worker /\ worker.r.id \in Slots
    BY <1>2, StartValues DEF TypeInv, Shape, Requests
  <2> QED BY <1>3, <2>1 DEF Of
<1> QED BY <1>1, <1>2, <1>3, <1>4, BlankStep DEF Expected

LEMMA TweakModel ==
  ASSUME TypeInv, WireInv, ModelInv, Tweaks
  PROVE  ModelInv'
<1>1. /\ UNCHANGED <<worker, toClient, project, src, head, life, ctx, shown, unreported, known>>
      /\ \A j \in Slots : /\ pend'[j].op = pend[j].op /\ pend'[j].ticket = pend[j].ticket
                          /\ pend'[j].before = pend[j].before /\ pend'[j].saved = pend[j].saved
  BY DEF Tweaks, SameRequests, disk
<1>2. \A j \in Slots : Expected(j)' => Expected(j)
  <2>1. \A j \in Slots : Comes(j)' => Comes(j)
    BY <1>1, SlotExpects DEF Of
  <2> QED BY <1>1, <2>1 DEF Expected, IsCurrent, Of
<1>3. WouldBeFresh' => WouldBeFresh
  BY <1>1, OpFacts DEF WouldBeFresh, IsCurrent, Of
<1>4. worker.pc = "child" => worker.r.id \in Slots /\ worker' = worker
  BY <1>1 DEF TypeInv, Shape, Requests
<1> QED BY <1>1, <1>2, <1>3, <1>4, NarrowStep DEF Narrows, IsCurrent, Of

(* The slot of the answer is free, and nobody else's. *)
LEMMA HeardSlot ==
  ASSUME TypeInv, WireInv, NEW i \in Slots, Hears(i)
  PROVE  /\ UNCHANGED <<worker, project, src, head, life, unreported>>
         /\ ~IsCurrent(Of(i).ticket)' /\ Of(i)' = NoPending /\ ~Expected(i)'
         /\ \A j \in Slots \ {i} : Of(j)' = Of(j) /\ (Comes(j)' => Comes(j))
         /\ worker.pc = "child" => worker.r.id \in Slots \ {i}
<1>1. /\ UNCHANGED <<worker, project, src, head, life, unreported>>
      /\ pend' = [pend EXCEPT ![i] = NoPending] /\ pend \in [Slots -> Pendings]
  BY DEF Hears, disk, TypeInv, Types
<1>2. Of(i)' = NoPending /\ ~IsCurrent(Of(i).ticket)' /\ ~Expected(i)'
  BY <1>1, StartValues DEF Of, IsCurrent, Expected
<1>3. ASSUME NEW j \in Slots \ {i} PROVE Of(j)' = Of(j) /\ (Comes(j)' => Comes(j))
  <2>1. Of(j)' = Of(j)
    BY <1>1 DEF Of
  <2>2. Elements(toClient') \subseteq Elements(toClient)
    BY HeardFacts
  <2> QED BY <1>1, <2>1, <2>2, SlotExpects
<1>4. i \in Idents(toClient)
  BY HeardFacts DEF Idents
<1>5. worker.pc = "child" => worker.r.id \in Slots \ {i}
  BY <1>4 DEF TypeInv, Shape, Requests, WireInv
<1> QED BY <1>1, <1>2, <1>3, <1>5

LEMMA HeardNarrows ==
  ASSUME TypeInv, WireInv, ModelInv, NEW i \in Slots, Hears(i), ctx' = ctx, known => known',
         shown'.of = shown.of, shown'.state = "fresh" => WouldBeFresh
  PROVE  ModelInv'
<1>1. /\ UNCHANGED <<worker, project, src, head, life, unreported>>
      /\ ~IsCurrent(Of(i).ticket)' /\ ~Expected(i)'
      /\ \A j \in Slots \ {i} : Of(j)' = Of(j) /\ (Comes(j)' => Comes(j))
      /\ worker.pc = "child" => worker.r.id \in Slots \ {i}
  BY HeardSlot
<1>2. \A j \in Slots : Expected(j)' => Expected(j) /\ Of(j)' = Of(j)
  BY <1>1 DEF Expected, IsCurrent
<1>3. WouldBeFresh' => WouldBeFresh
  <2>1. CASE i = "cmd"
    BY <1>1, <2>1 DEF WouldBeFresh
  <2>2. CASE i # "cmd"
    <3>1. Of("cmd")' = Of("cmd")
      BY <1>1, <2>2, OpFacts
    <3>2. IsCurrent(Of("cmd").ticket)' => IsCurrent(Of("cmd").ticket)
      BY <3>1 DEF IsCurrent
    <3> QED BY <3>1, <3>2 DEF WouldBeFresh
  <2> QED BY <2>1, <2>2
<1>4. worker.pc = "child" => Of(worker.r.id)' = Of(worker.r.id)
  <2>1. worker' = worker
    BY <1>1
  <2> QED BY <1>1, <2>1 DEF Of
<1>5. Narrows
  BY <1>1, <1>2, <1>3, <1>4 DEF Narrows, IsCurrent
<1> QED BY <1>5, NarrowStep

LEMMA DropModel ==
  ASSUME TypeInv, WireInv, ModelInv, NEW i \in Slots, Drop(i)
  PROVE  ModelInv'
<1>1. /\ ctx' = ctx /\ known' = known /\ Hears(i)
      /\ shown' = IF /\ Of(i).op \in {"analyse", "automatic"}
                     /\ IsCurrent(Of(i).ticket) /\ ~Of(i).saved
                  THEN [shown EXCEPT !.state = Of(i).before] ELSE shown
  BY HearFacts DEF Drop
<1>2. shown'.of = shown.of /\ (shown'.state = "fresh" => WouldBeFresh)
  <2>1. CASE /\ Of(i).op \in {"analyse", "automatic"}
             /\ IsCurrent(Of(i).ticket) /\ ~Of(i).saved
    <3>1. i = "cmd" /\ shown \in Models
      BY <2>1, TypesAre DEF TypeInv, Shape, ClientTypes
    <3>2. shown'.of = shown.of /\ shown'.state = Of(i).before
      BY <1>1, <2>1, <3>1 DEF Models
    <3> QED BY <2>1, <3>1, <3>2 DEF WouldBeFresh
  <2>2. CASE shown' = shown
    BY <2>2 DEF WouldBeFresh
  <2> QED BY <1>1, <2>1, <2>2
<1> QED BY <1>1, <1>2, HeardNarrows

(* An answer that brings another identity: nothing else is expected.       *)
LEMMA NewModel ==
  ASSUME TypeInv, WireInv, ClockInv, ModelInv, NEW i \in Slots, Accept(i), ctx' # ctx
  PROVE  ModelInv'
<1>1. /\ Answer \in Elements(toClient) /\ Answer.id = i /\ ctx' = Answer.ctx /\ ctx' # NoContext
      /\ Of(i).ticket.live /\ Of(i).ticket.ctx = ctx
      /\ Of(i).op = "open" \/ ctx # NoContext
      /\ \A j \in Slots : Of(j).ticket.ctx # ctx'
      /\ Carries(Of(i).op, Answer.kind)
  BY AcceptFacts
<1>2. /\ UNCHANGED <<worker, project, src, head, life, unreported>>
      /\ ~IsCurrent(Of(i).ticket)' /\ ~Expected(i)'
      /\ \A j \in Slots \ {i} : Of(j)' = Of(j)
      /\ worker.pc = "child" => worker.r.id \in Slots \ {i}
  BY HearFacts, HeardSlot
<1>3. \A j \in Slots : ~IsCurrent(Of(j).ticket)'
  BY <1>1, <1>2 DEF IsCurrent
<1>4. shown' = Shown(i) /\ known' = (known \/ GoesWrong(i)) /\ known \in BOOLEAN
  BY DEF Accept, TypeInv, Types
<1>5. Context' = Context /\ (Clean' <=> Clean) /\ \A x : (x = src \/ unreported \/ known) => Excused(x)'
  BY <1>2, <1>4 DEF Context, Clean, Excused
<1>6. \A j \in Slots : ~Expected(j)'
  BY <1>3 DEF Expected
<1>7. WouldBeFresh' => shown'.state = "fresh"
  BY <1>3, OpFacts DEF WouldBeFresh
<1>8. ASSUME Answer.ctx = Context
      PROVE  /\ Expected(i)
             /\ Answer.of = project.of /\ Answer.stale = project.stale /\ Answer \in Frames
  <2>1. Answer.ctx.session = project.session /\ Answer.ctx.rev = project.rev
    BY <1>8, ClockValues
  <2>2. Answer.of = project.of /\ Answer.stale = project.stale
    BY <1>1, <2>1 DEF ClockInv, AnswerInv
  <2>3. Comes(i)
    <3>1. Answer.kind \in Kinds /\ Answer \in Frames
      BY <1>1, IdentFacts, TypesAre DEF TypeInv, Frames
    <3> QED BY <1>1, <1>8, <3>1 DEF Comes
  <2>4. Expected(i)
    BY <1>1, <2>3 DEF Expected, IsCurrent
  <2> QED BY <1>1, <2>2, <2>4, ClockValues
<1>9. Of(i).op \in Quiet \cup Loud
  <2>1. Of(i).op \in Ops
    <3>1. Of(i) # NoPending
      BY <1>1, StartValues
    <3> QED BY <3>1 DEF TypeInv, Types, Shape, Of, Pendings
  <2>2. Of(i).op \notin {"operate", "view"}
    <3>1. Valid(Of(i).op, Of(i).arg, Answer.ctx)
      BY DEF Accept, Accepted
    <3>2. {"operate", "view"} \cap ({"open", "select", "refresh"} \cup Analyses \cup Decisions) = {}
      BY OpFacts DEF Analyses
    <3> QED BY <1>1, <3>1, <3>2 DEF Valid
  <2> QED BY <2>1, <2>2, OpFacts DEF Ops, Quiet, Loud, Analyses
<1>10. CASE Of(i).op \in Loud
  <2>1. Of(i).op \in {"open", "analyse", "automatic", "save", "approve", "accept", "reject", "undo", "manual"}
    BY <1>10, OpFacts DEF Loud, Quiet, Analyses
  <2>2. /\ shown'.of = Answer.of
        /\ shown'.state = "fresh" =>
             ~Answer.stale /\ (Of(i).op \in {"analyse", "automatic"} => ~Of(i).saved)
    BY <1>4, <2>1 DEF Shown, Summary, AnalysisState, StateOf
  <2>3. ASSUME Of(i).saved, Of(i).op \notin {"analyse", "automatic"} PROVE known'
    <3>1. Of(i).op \in {"save"} \cup Decisions
      BY <2>3 DEF TypeInv, Shape, Analyses
    <3> QED BY <1>4, <2>3, <3>1 DEF GoesWrong
  <2>4. ASSUME Of(i).op \in {"accept", "manual"}, ~WouldBeFresh PROVE known'
    BY <1>4, <2>4 DEF GoesWrong, WouldBeFresh
  <2>5. ShownInv'
    <3> SUFFICES ASSUME Answer.ctx = Context
                 PROVE  /\ shown'.of = project.of
                        /\ shown'.state = "fresh" => ~project.stale /\ Excused(project.of)'
      BY <1>1, <1>2, <1>5, <1>6, <1>7 DEF ShownInv
    <3>1. Expected(i) /\ Answer.of = project.of /\ Answer.stale = project.stale
      BY <1>8
    <3>2. ASSUME shown'.state = "fresh" PROVE Excused(project.of)'
      <4>1. known' => Excused(project.of)'
        BY DEF Excused
      <4>2. ASSUME ~known' PROVE Excused(project.of)
        BY <1>10, <2>2, <2>3, <2>4, <3>1, <3>2, <4>2 DEF ModelInv, ComingInv
      <4> QED BY <1>2, <1>5, <4>1, <4>2 DEF Excused
    <3> QED BY <2>2, <3>1, <3>2
  <2>6. CleanInv'
    <3>1. ASSUME Answer.ctx = Context, ~project.stale, Clean PROVE project.of = src \/ known'
      <4>1. Expected(i)
        BY <1>8, <3>1
      <4>2. known' \/ Trusted
        BY <2>4, <4>1 DEF Trusted
      <4> QED BY <1>4, <3>1, <4>2 DEF ModelInv, CleanInv
    <3>2. Trusted' => Answer.ctx = Context
      BY <1>1, <1>5, <1>6 DEF Trusted
    <3> QED BY <1>2, <1>5, <3>1, <3>2 DEF CleanInv, ModelInv
  <2> QED BY <1>2, <1>3, <1>6, <2>5, <2>6 DEF ModelInv, ComingInv, ReadInv, TypeInv, Shape, Requests
<1>11. CASE Of(i).op \in Quiet
  <2>1. ctx # NoContext /\ shown' = shown
    <3>1. /\ Of(i).op \notin {"open", "analyse", "automatic", "save", "approve", "accept", "reject",
                              "undo", "manual"}
      BY <1>11 DEF Quiet
    <3> QED BY <1>1, <1>4, <3>1 DEF Shown
  <2>2. ShownInv'
    <3> SUFFICES ASSUME Answer.ctx = Context
                 PROVE  /\ shown'.of = project.of
                        /\ shown'.state = "fresh" => ~project.stale /\ Excused(project.of)'
      BY <1>1, <1>2, <1>5, <1>6, <1>7 DEF ShownInv
    <3>1. Expected(i)
      BY <1>8
    <3>2. /\ shown.of = project.of
          /\ shown.state = "fresh" => ~project.stale /\ Excused(project.of)
      BY <1>11, <2>1, <3>1 DEF ModelInv, ShownInv, WouldBeFresh
    <3> QED BY <1>2, <1>5, <2>1, <3>2 DEF Excused
  <2>3. CleanInv'
    <3>1. ASSUME Answer.ctx = Context, ~project.stale, Clean PROVE project.of = src \/ known'
      <4>1. Expected(i) /\ Of(i).op \notin {"accept", "manual"}
        BY <1>8, <1>11, <3>1 DEF Quiet
      <4>2. Trusted
        BY <4>1 DEF Trusted
      <4> QED BY <1>4, <3>1, <4>2 DEF ModelInv, CleanInv
    <3>2. Trusted' => Answer.ctx = Context
      BY <1>1, <1>5, <1>6 DEF Trusted
    <3> QED BY <1>2, <1>5, <3>1, <3>2 DEF CleanInv, ModelInv
  <2> QED BY <1>2, <1>3, <1>6, <2>2, <2>3 DEF ModelInv, ComingInv, ReadInv, TypeInv, Shape, Requests
<1> QED BY <1>9, <1>10, <1>11

LEMMA AcceptModel ==
  ASSUME TypeInv, WireInv, ClockInv, ModelInv, NEW i \in Slots, Accept(i)
  PROVE  ModelInv'
<1>1. CASE ctx' # ctx
  BY <1>1, NewModel
<1>2. CASE ctx' = ctx
  <2>1. Of(i).op \in {"select", "operate", "view"}
    BY <1>2, AcceptFacts
  <2>2. shown' = shown /\ (known => known') /\ Hears(i)
    <3>1. Of(i).op \notin {"open", "analyse", "automatic", "save", "approve", "accept", "reject", "undo",
                           "manual"}
      BY <2>1
    <3> QED BY <3>1, HearFacts DEF Accept, Shown
  <2> QED BY <1>2, <2>2, HeardNarrows DEF WouldBeFresh
<1> QED BY <1>1, <1>2

LEMMA SaveModel ==
  ASSUME TypeInv, WireInv, MatchInv, ClockInv, ModelInv, SaveSource
  PROVE  ModelInv'
<1>1. /\ src' = src + 1 /\ UNCHANGED <<queue, worker, toClient, project, head, life, ctx, pend, shown>>
      /\ unreported' = (unreported \/ Opened) /\ known' = (known \/ pend["sel"].op = "open")
  BY DEF SaveSource, wire
<1>2. src \in Nat /\ head \in Nat /\ head =< src
  BY Bounds DEF TypeInv, Types, Versions, ModelInv, CleanInv
<1>3. \A x : Opened \/ Of("sel").op = "open" => Excused(x)'
  BY <1>1 DEF Excused, Of
<1>4. \A i \in Slots : IsCurrent(Of(i).ticket) => Opened \/ Of("sel").op = "open"
  <2> SUFFICES ASSUME NEW i \in Slots, IsCurrent(Of(i).ticket), ~Opened PROVE Of("sel").op = "open"
    OBVIOUS
  <2>1. Of(i).op = "open" /\ i = "sel"
    BY DEF IsCurrent, Opened, ClockInv, TicketInv
  <2> QED BY <2>1
<1>5. /\ Context' = Context /\ (Up' <=> Up) /\ (WouldBeFresh' <=> WouldBeFresh)
      /\ \A i \in Slots : Of(i)' = Of(i) /\ (IsCurrent(Of(i).ticket)' <=> IsCurrent(Of(i).ticket))
      /\ \A i \in Slots : Expected(i)' => IsCurrent(Of(i).ticket) /\ Expected(i)
  <2>1. Context' = Context /\ (Up' <=> Up)
    BY <1>1 DEF Context, Up
  <2>2. \A i \in Slots : Of(i)' = Of(i) /\ (IsCurrent(Of(i).ticket)' <=> IsCurrent(Of(i).ticket))
    BY <1>1 DEF Of, IsCurrent
  <2>3. \A i \in Slots : Comes(i)' => Comes(i)
    BY <1>1, <2>2, SlotExpects
  <2>4. WouldBeFresh' <=> WouldBeFresh
    BY <1>1, <2>2, OpFacts DEF WouldBeFresh
  <2> QED BY <2>1, <2>2, <2>3, <2>4 DEF Expected
<1>6. ShownInv'
  BY <1>1, <1>3, <1>5 DEF ModelInv, ShownInv, Opened
<1>7. ComingInv'
  BY <1>1, <1>3, <1>4, <1>5 DEF ComingInv
<1>8. ReadInv'
  <2>1. worker.pc = "child" => worker.r.id \in Slots
    BY DEF TypeInv, Shape, Requests
  <2>2. worker.pc = "child" => (IsCurrent(Of(worker.r.id).ticket)' <=> IsCurrent(Of(worker.r.id).ticket))
    BY <1>1 DEF Of, IsCurrent
  <2> QED BY <1>1, <1>3, <1>4, <2>1, <2>2 DEF ReadInv
<1>9. CleanInv'
  <2>1. ~Clean' /\ head' =< src'
    BY <1>1, <1>2 DEF Clean
  <2> QED BY <2>1 DEF CleanInv
<1> QED BY <1>6, <1>7, <1>8, <1>9 DEF ModelInv

LEMMA ReportModel ==
  ASSUME TypeInv, WireInv, MatchInv, ClockInv, ModelInv, Reports
  PROVE  ModelInv'
<1>1. /\ UNCHANGED <<worker, toClient, project, src, head, life, ctx, known>>
      /\ unreported /\ shown'.of = shown.of /\ shown'.state # "fresh"
      /\ \A j \in Slots : /\ pend'[j].op = pend[j].op /\ pend'[j].ticket = pend[j].ticket
                          /\ pend'[j].saved = (pend[j].saved \/ pend[j].op \in Analyses \cup Decisions)
  BY DEF Reports, SameRequests, service, wire, disk
<1>2. ctx # NoContext
  BY <1>1 DEF TypeInv, Shape
<1>3. /\ Context' = Context /\ (Up' <=> Up) /\ (Clean' <=> Clean)
      /\ \A j \in Slots : Of(j)'.op = Of(j).op /\ Of(j)'.ticket = Of(j).ticket
      /\ \A j \in Slots : Expected(j)' => Expected(j)
  <2>1. Context' = Context /\ (Up' <=> Up) /\ (Clean' <=> Clean)
    BY <1>1 DEF Context, Up, Clean
  <2>2. \A j \in Slots : Of(j)'.op = Of(j).op /\ Of(j)'.ticket = Of(j).ticket
    BY <1>1 DEF Of
  <2>3. \A j \in Slots : Comes(j)' => Comes(j)
    BY <1>1, <2>2, SlotExpects
  <2> QED BY <1>1, <2>1, <2>2, <2>3 DEF Expected, IsCurrent
<1>4. ~WouldBeFresh'
  BY <1>1, OpFacts DEF WouldBeFresh, Of, Analyses
<1>5. ShownInv'
  BY <1>1, <1>3, <1>4 DEF ModelInv, ShownInv
<1>6. ComingInv'
  <2> SUFFICES ASSUME NEW i \in Slots, Of(i)'.op \in Loud, Expected(i)', ~Of(i)'.saved PROVE FALSE
    BY DEF ComingInv
  <2>1. Of(i).op = "open"
    BY <1>1 DEF Of, Loud
  <2> QED BY <1>2, <2>1 DEF ClockInv, TicketInv
<1>7. ReadInv'
  <2>1. worker.pc = "child" /\ Up => worker.r.op = Of(worker.r.id).op /\ worker.r.id \in Slots
    BY MatchFacts DEF TypeInv, Shape, Requests
  <2>2. worker.pc = "child" /\ Up /\ worker.r.op \in Analyses => Of(worker.r.id)'.saved
    BY <1>1, <2>1 DEF Of
  <2> QED BY <1>1, <1>3, <2>2 DEF ReadInv
<1>8. CleanInv'
  <2>1. Trusted' => Trusted
    BY <1>1, <1>3, <1>4 DEF Trusted
  <2> QED BY <1>1, <1>3, <2>1 DEF ModelInv, CleanInv
<1> QED BY <1>5, <1>6, <1>7, <1>8 DEF ModelInv

-----------------------------------------------------------------------------
(* Models: the service's steps.                                            *)

LEMMA NothingElse == {"cancelled", "stale", "error"} \cap {"ok", "failed", "saved"} = {}
OBVIOUS

LEMMA NoContextIs ==
  ASSUME TypeInv, ClockInv, project # NoProject
  PROVE  Context # NoContext
<1>1. project.session # 0
  BY DEF ClockInv, AnswerInv
<1> QED BY <1>1, ClockValues

(* After a move nothing that is known is current.                          *)
LEMMA MovedOn ==
  ASSUME TypeInv, ClockInv, Moves
  PROVE  ctx # Context' /\ \A a \in Elements(toClient) : a.ctx # Context'
<1>1. /\ Context' = ContextOf(project') /\ project' \in Projects
      /\ project'.session = project.session /\ project'.rev = project.rev + 1
  BY DEF Moves, Context
<1>2. Context'.session = project.session /\ Context'.rev = project.rev + 1
  BY <1>1, ContextFacts
<1>3. ctx.session = project.session => ctx.rev =< project.rev
  BY DEF ClockInv, ClientInv
<1>4. \A a \in Elements(toClient) : a.ctx.session = project.session => a.ctx.rev =< project.rev
  BY DEF ClockInv, AnswerInv
<1>5. ctx # Context'
  BY <1>2, <1>3, ClockValues
<1>6. ASSUME NEW a \in Elements(toClient) PROVE a.ctx # Context'
  BY <1>2, <1>4, ClockValues
<1> QED BY <1>5, <1>6

(* Who is still waited for holds the context of the request.               *)
LEMMA RequestCurrent ==
  ASSUME TypeInv, WireInv, MatchInv, NEW j \in Slots, IsCurrent(Of(j).ticket), NEW r,
         (r = Request /\ worker.pc = "idle" /\ queue # <<>>) \/ (r = worker.r /\ worker.pc # "idle"),
         j = r.id
  PROVE  Up /\ Of(j).op = r.op /\ r.ctx = ctx
<1>1. Of(j).ticket.live /\ Of(j).ticket.ctx = ctx
  BY DEF IsCurrent
<1>2. Up
  BY <1>1, StartValues DEF TypeInv, Shape
<1> QED BY <1>1, <1>2, MatchFacts

(* Nothing of the model is told. *)
Still ==
  /\ UNCHANGED <<client, project, src, head, life>>
  /\ \A j \in Slots : Expected(j)' =>
       Expected(j) \/ (ctx = Context /\ ctx # NoContext /\ Of(j).op \notin Loud)
  /\ worker'.pc = "child" /\ worker'.r.op \in Analyses /\ worker'.of # 0 =>
       worker'.of = src \/ worker' = worker

LEMMA StillStep ==
  ASSUME ModelInv, Still
  PROVE  ModelInv'
<1>1. /\ UNCHANGED <<ctx, pend, shown, unreported, known, src, head, project>>
      /\ Context' = Context /\ (Clean' <=> Clean) /\ (Up' <=> Up)
  BY DEF Still, client, Context, Clean, Up
<1>2. /\ WouldBeFresh' <=> WouldBeFresh
      /\ \A x : Excused(x)' <=> Excused(x)
      /\ \A j \in Slots : Of(j)' = Of(j)
  <2>1. \A j : Of(j)' = Of(j) /\ (IsCurrent(Of(j).ticket)' <=> IsCurrent(Of(j).ticket))
    BY <1>1 DEF Of, IsCurrent
  <2> QED BY <1>1, <2>1 DEF WouldBeFresh, Excused
<1>3. ShownInv'
  BY <1>1, <1>2 DEF ModelInv, ShownInv, Still
<1>4. ComingInv'
  <2> SUFFICES ASSUME NEW i \in Slots, Of(i).op \in Loud, Expected(i)', ~Of(i).saved, ~project.stale,
                      Of(i).op \in {"accept", "manual"} => WouldBeFresh
               PROVE  Excused(project.of)
    BY <1>1, <1>2 DEF ComingInv
  <2>1. Expected(i)
    BY DEF Still
  <2> QED BY <2>1 DEF ModelInv, ComingInv
<1>5. ReadInv'
  <2>1. CASE worker' = worker
    <3>1. Of(worker.r.id)' = Of(worker.r.id)
      BY <1>1, <2>1 DEF Of
    <3>2. IsCurrent(Of(worker.r.id).ticket)' <=> IsCurrent(Of(worker.r.id).ticket)
      BY <1>1, <3>1 DEF IsCurrent
    <3> QED BY <1>1, <1>2, <2>1, <3>1, <3>2 DEF ModelInv, ReadInv
  <2>2. CASE worker'.of = src
    BY <1>1, <2>2 DEF ReadInv, Excused
  <2> QED BY <2>1, <2>2 DEF ReadInv, Still
<1>6. CleanInv'
  <2>1. Trusted' => Trusted
    BY <1>1, <1>2 DEF Trusted, Still
  <2>2. worker'.pc = "child" /\ worker'.r.op \in Analyses /\ worker'.of # 0 /\ Clean => worker'.of = src
    BY DEF Still, ModelInv, CleanInv
  <2> QED BY <1>1, <2>1, <2>2 DEF ModelInv, CleanInv
<1> QED BY <1>3, <1>4, <1>5, <1>6 DEF ModelInv

(* The project moves on, and the request i is answered. *)
Answering(i) ==
  /\ UNCHANGED <<client, life>> /\ Moves /\ i \in Slots
  /\ \A j \in Slots : Expected(j)' => j = i /\ ctx = Context /\ ctx # NoContext
  /\ worker'.pc # "child"

LEMMA AnsweringStep ==
  ASSUME TypeInv, ClockInv, ModelInv, NEW i, Answering(i), head' =< src',
         Of(i).op \in Quiet =>
           (project'.of = project.of /\ project'.stale = project.stale /\ src' = src /\ head' = head),
         (Expected(i)' /\ Of(i).op \in Loud /\ ~Of(i).saved /\ ~project'.stale
           /\ (Of(i).op \in {"accept", "manual"} => WouldBeFresh))
           => (project'.of = src' \/ unreported \/ known),
         (Expected(i)' /\ (Of(i).op \in {"accept", "manual"} => WouldBeFresh)
           /\ ~project'.stale /\ src' = head')
           => (project'.of = src' \/ known)
  PROVE  ModelInv'
<1>1. /\ UNCHANGED <<ctx, pend, shown, unreported, known>> /\ ctx' # Context' /\ i \in Slots
      /\ worker'.pc # "child"
      /\ \A j \in Slots : Expected(j)' => j = i /\ ctx = Context /\ ctx # NoContext
  BY MovedOn DEF Answering, client
<1>2. /\ WouldBeFresh' <=> WouldBeFresh
      /\ \A j \in Slots : Of(j)' = Of(j)
  <2>1. \A j : Of(j)' = Of(j) /\ (IsCurrent(Of(j).ticket)' <=> IsCurrent(Of(j).ticket))
    BY <1>1 DEF Of, IsCurrent
  <2> QED BY <1>1, <2>1 DEF WouldBeFresh
<1>3. ShownInv'
  <2> SUFFICES ASSUME Expected(i)', Of(i).op \in Quiet
               PROVE  /\ shown.of = project'.of
                      /\ WouldBeFresh => (~project'.stale /\ (project'.of = src' \/ unreported \/ known))
    BY <1>1, <1>2 DEF ShownInv, Excused
  <2>1. shown.of = project.of /\ (WouldBeFresh => (~project.stale /\ Excused(project.of)))
    BY <1>1 DEF ModelInv, ShownInv
  <2> QED BY <1>1, <2>1 DEF Excused
<1>4. ComingInv'
  BY <1>1, <1>2 DEF ComingInv, Excused
<1>5. ReadInv'
  BY <1>1 DEF ReadInv
<1>6. CleanInv'
  <2>1. Trusted' => Expected(i)' /\ (Of(i).op \in {"accept", "manual"} => WouldBeFresh)
    BY <1>1, <1>2 DEF Trusted
  <2> QED BY <1>1, <2>1 DEF CleanInv, Clean
<1> QED BY <1>3, <1>4, <1>5, <1>6 DEF ModelInv

(* An answer that is written is expected by its request only, and only if  *)
(* it brings something.                                                    *)
LEMMA AddedExpects ==
  ASSUME TypeInv, NEW i \in Slots, NEW a, NEW kind \in Kinds, Adds(a, i, kind), UNCHANGED client,
         worker'.pc = "idle", NEW j \in Slots, Expected(j)'
  PROVE  /\ IsCurrent(Of(j).ticket)
         /\ \/ j = i /\ Carries(Of(j).op, kind)
            \/ \E b \in Elements(toClient) :
                 b.id = j /\ b.ctx = Context' /\ b.kind \in Kinds /\ Carries(Of(j).op, b.kind)
<1>1. UNCHANGED <<ctx, pend>>
  BY DEF client
<1>2. IsCurrent(Of(j).ticket)' /\ Comes(j)'
  BY DEF Expected
<1>3. IsCurrent(Of(j).ticket)
  BY <1>1, <1>2 DEF IsCurrent, Of
<1>4. PICK k \in Kinds : /\ Carries(Of(j).op, k)
                         /\ \E b \in Elements(toClient') : b.id = j /\ b.kind = k /\ b.ctx = Context'
  <2>1. \A k : Carries(Of(j)'.op, k) <=> Carries(Of(j).op, k)
    BY <1>1 DEF Of
  <2> QED BY <1>2, <2>1 DEF Comes, Carries
<1>5. PICK b \in Elements(toClient') : b.id = j /\ b.kind = k /\ b.ctx = Context'
  BY <1>4
<1>6. b \in Elements(toClient) \/ b = a
  BY DEF Adds
<1> QED BY <1>3, <1>4, <1>5, <1>6 DEF Adds

LEMMA UnmovedExpects ==
  ASSUME TypeInv, NEW j \in Slots, IsCurrent(Of(j).ticket),
         \E b \in Elements(toClient) :
           b.id = j /\ b.ctx = Context /\ b.kind \in Kinds /\ Carries(Of(j).op, b.kind)
  PROVE  Expected(j)
BY DEF Expected, Comes

-----------------------------------------------------------------------------
(* Models: what the service does with a request it has taken.              *)

(* The answer of a request that does not move the project. *)
LEMMA UnmovedAnswer ==
  ASSUME TypeInv, NEW i \in Slots, NEW a, NEW kind \in Kinds, Adds(a, i, kind),
         UNCHANGED <<client, project>>,
         worker'.pc = "idle", NEW j \in Slots, Expected(j)'
  PROVE  \/ Expected(j)
         \/ j = i /\ IsCurrent(Of(j).ticket) /\ Carries(Of(j).op, kind)
<1>1. UNCHANGED client /\ Context' = Context
  BY DEF Context
<1>2. /\ IsCurrent(Of(j).ticket)
      /\ \/ j = i /\ Carries(Of(j).op, kind)
         \/ \E b \in Elements(toClient) :
              b.id = j /\ b.ctx = Context' /\ b.kind \in Kinds /\ Carries(Of(j).op, b.kind)
  BY <1>1, AddedExpects
<1> QED BY <1>1, <1>2, UnmovedExpects

LEMMA TakenAnswer ==
  ASSUME TypeInv, WireInv, MatchInv, NEW kind \in Kinds, Takes(kind), UNCHANGED <<client, project>>,
         NEW j \in Slots, Expected(j)'
  PROVE  \/ Expected(j)
         \/ Up /\ Of(j).op = Request.op /\ Request.ctx = ctx /\ Carries(Of(j).op, kind)
<1>1. project' \in Projects
  BY DEF TypeInv, Types
<1>2. /\ worker.pc = "idle" /\ queue # <<>> /\ worker' = worker
      /\ Request.id \in Slots /\ \E a : Adds(a, Request.id, kind)
  BY <1>1, TakeFacts
<1>3. PICK a : Adds(a, Request.id, kind)
  BY <1>2
<1>4. \/ Expected(j)
      \/ j = Request.id /\ IsCurrent(Of(j).ticket) /\ Carries(Of(j).op, kind)
  BY <1>2, <1>3, UnmovedAnswer
<1>5. CASE j = Request.id /\ IsCurrent(Of(j).ticket) /\ Carries(Of(j).op, kind)
  <2>1. Up /\ Of(j).op = Request.op /\ Request.ctx = ctx
    BY <1>2, <1>5, RequestCurrent
  <2> QED BY <1>5, <2>1
<1> QED BY <1>4, <1>5

LEMMA RefusesModel ==
  ASSUME TypeInv, WireInv, MatchInv, ClockInv, ModelInv, UNCHANGED client, Refuses
  PROVE  ModelInv'
<1>1. PICK kind \in {"cancelled", "stale", "error"} : Takes(kind) /\ Unmoved
  BY DEF Refuses
<1>2. UNCHANGED <<project, src, head, life, worker>> /\ worker.pc = "idle"
  BY <1>1 DEF Unmoved, disk, Takes
<1>3. \A op : ~Carries(op, kind)
  BY NothingElse DEF Carries
<1>4. \A j \in Slots : Expected(j)' => Expected(j)
  BY <1>1, <1>2, <1>3, TakenAnswer, KindFacts
<1>5. Still
  BY <1>2, <1>4 DEF Still
<1> QED BY <1>5, StillStep

LEMMA LooksModel ==
  ASSUME TypeInv, WireInv, MatchInv, ClockInv, ModelInv, UNCHANGED client, Looks
  PROVE  ModelInv'
<1>1. PICK kind \in {"ok", "error"} : Takes(kind) /\ Unmoved
  BY DEF Looks
<1>2. UNCHANGED <<project, src, head, life, worker>> /\ worker.pc = "idle"
  BY <1>1 DEF Unmoved, disk, Takes
<1>3. Request.op \notin Loud /\ Request.ctx = Context /\ Context # NoContext
  BY NoContextIs, OpFacts DEF Looks, Loud, Analyses
<1>4. \A j \in Slots : Expected(j)' =>
        Expected(j) \/ (ctx = Context /\ ctx # NoContext /\ Of(j).op \notin Loud)
  BY <1>1, <1>2, <1>3, TakenAnswer, KindFacts
<1>5. Still
  BY <1>2, <1>4 DEF Still
<1> QED BY <1>5, StillStep

LEMMA BeginsModel ==
  ASSUME TypeInv, WireInv, MatchInv, ClockInv, ModelInv, UNCHANGED client, Begins
  PROVE  ModelInv'
<1>1. UNCHANGED <<client, toClient, project, src, head, life>> /\ worker'.pc = "child" /\ worker'.of = 0
  BY DEF Begins, disk
<1>2. ASSUME NEW j \in Slots, Expected(j)' PROVE Expected(j)
  <2>1. UNCHANGED <<ctx, pend, toClient>> /\ Context' = Context
    BY <1>1 DEF client, Context
  <2> QED BY <1>1, <1>2, <2>1 DEF Expected, Comes, IsCurrent, Of
<1>3. Still
  BY <1>1, <1>2 DEF Still
<1> QED BY <1>3, StillStep

LEMMA RepliesModel ==
  ASSUME TypeInv, WireInv, MatchInv, ClockInv, ModelInv, UNCHANGED client, NEW kind \in Kinds, Replies(kind)
  PROVE  ModelInv'
<1>1. /\ worker.pc = "reply" /\ worker' = IdleWorker /\ kind \in {worker.kind, "cancelled"}
      /\ UNCHANGED <<queue, project, disk, sessions, life>>
      /\ worker.r.id \in Slots /\ \E a : Adds(a, worker.r.id, kind)
  BY ReplyFacts
<1>2. PICK a : Adds(a, worker.r.id, kind)
  BY <1>1
<1>3. worker'.pc = "idle" /\ UNCHANGED <<project, src, head, life>>
  BY <1>1, StartValues DEF disk
<1>4. ASSUME NEW j \in Slots, Expected(j)' PROVE Expected(j)
  <2>1. \/ Expected(j)
        \/ j = worker.r.id /\ IsCurrent(Of(j).ticket) /\ Carries(Of(j).op, kind)
    BY <1>1, <1>2, <1>3, <1>4, UnmovedAnswer
  <2>2. CASE j = worker.r.id /\ IsCurrent(Of(j).ticket) /\ Carries(Of(j).op, kind)
    <3>1. kind # "cancelled"
      BY <2>2, NothingElse DEF Carries
    <3> QED BY <1>1, <2>2, <3>1 DEF Expected, Comes
  <2> QED BY <2>1, <2>2
<1>5. Still
  BY <1>3, <1>4 DEF Still
<1> QED BY <1>5, StillStep

LEMMA OpensModel ==
  ASSUME TypeInv, WireInv, MatchInv, ClockInv, ModelInv, UNCHANGED client, Opens
  PROVE  ModelInv'
<1>1. /\ Takes("ok") /\ Request.op = "open" /\ UNCHANGED <<src, head>> /\ project' \in Projects
      /\ project'.session = sessions + 1
      /\ ~project'.stale => project'.of = src
  BY DEF Opens, disk
<1>2. /\ worker.pc = "idle" /\ queue # <<>> /\ worker' = worker /\ life' = life
      /\ Request.id \in Slots /\ \E a : Adds(a, Request.id, "ok")
  BY <1>1, TakeFacts, KindFacts
<1>3. PICK a : Adds(a, Request.id, "ok")
  BY <1>2
<1>4. Context'.session = sessions + 1 /\ UNCHANGED <<ctx, pend, shown, unreported, known>>
  BY <1>1, ContextFacts DEF Context, client
<1>5. ctx # Context' /\ \A b \in Elements(toClient) : b.ctx # Context'
  <2>1. ctx.session =< sessions /\ \A b \in Elements(toClient) : b.ctx.session =< sessions
    BY DEF ClockInv, ClientInv, AnswerInv
  <2> QED BY <1>4, <2>1, ClockValues
<1>6. \A j \in Slots : Expected(j)' => Of(j).op = "open"
  <2> SUFFICES ASSUME NEW j \in Slots, Expected(j)' PROVE Of(j).op = "open"
    OBVIOUS
  <2>1. j = Request.id /\ IsCurrent(Of(j).ticket)
    BY <1>2, <1>3, <1>5, AddedExpects, KindFacts
  <2> QED BY <1>1, <1>2, <2>1, RequestCurrent
<1>7. \A j : Of(j)' = Of(j)
  BY <1>4 DEF Of
<1>8. "open" \notin Quiet
  BY DEF Quiet
<1>9. ShownInv'
  BY <1>4, <1>5, <1>6, <1>7, <1>8 DEF ShownInv
<1>10. ComingInv'
  BY <1>1, <1>4 DEF ComingInv, Excused
<1>11. ReadInv'
  BY <1>2 DEF ReadInv
<1>12. CleanInv'
  BY <1>1, <1>2 DEF CleanInv, ModelInv
<1> QED BY <1>9, <1>10, <1>11, <1>12 DEF ModelInv

-----------------------------------------------------------------------------
(* Models: decisions, and what a child leaves.                             *)

(* What is known of the present model when a request for it is at hand.    *)
LEMMA PresentModel ==
  ASSUME ModelInv, ctx = Context, ctx # NoContext
  PROVE  /\ shown.of = project.of
         /\ WouldBeFresh => ~project.stale /\ Excused(project.of)
         /\ ~project.stale /\ Clean => project.of = src \/ known
         /\ head =< src
BY DEF ModelInv, ShownInv, CleanInv, Trusted

(* Nothing but the request that moves the project is answered for its new  *)
(* revision.                                                               *)
LEMMA DecidesOne ==
  ASSUME TypeInv, WireInv, MatchInv, ClockInv, UNCHANGED client, Takes("ok"), Serves, Moves
  PROVE  /\ worker.pc = "idle" /\ Answering(Request.id)
         /\ Of(Request.id).op # "none" => Of(Request.id).op = Request.op
<1>1. project' \in Projects
  BY DEF Moves
<1>2. /\ worker.pc = "idle" /\ queue # <<>> /\ worker' = worker /\ life' = life
      /\ Request.id \in Slots /\ \E a : Adds(a, Request.id, "ok")
  BY <1>1, TakeFacts, KindFacts
<1>3. PICK a : Adds(a, Request.id, "ok")
  BY <1>2
<1>4. Request.ctx = Context /\ Context # NoContext
  BY NoContextIs DEF Serves
<1>5. ASSUME NEW j \in Slots, Expected(j)'
      PROVE  j = Request.id /\ ctx = Context /\ ctx # NoContext
  <2>1. IsCurrent(Of(j).ticket) /\ j = Request.id
    BY <1>2, <1>3, <1>5, AddedExpects, MovedOn, KindFacts
  <2>2. Request.ctx = ctx
    BY <1>2, <2>1, RequestCurrent
  <2> QED BY <1>4, <2>1, <2>2
<1>6. Of(Request.id).op # "none" => Of(Request.id).op = Request.op
  <2>1. Of(Request.id).op # "none" => Up
    BY <1>2, StartValues DEF TypeInv, Shape
  <2> QED BY <1>2, <2>1, MatchFacts
<1> QED BY <1>2, <1>5, <1>6 DEF Answering

LEMMA DecidedModel ==
  ASSUME TypeInv, WireInv, MatchInv, ClockInv, CacheInv, ModelInv, UNCHANGED client, Decided
  PROVE  ModelInv'
<1>1. Takes("ok") /\ Serves /\ project # NoProject /\ worker.pc = "idle"
  BY DEF Decided, Serves, Takes
<1>2. cache.of = project.of /\ head =< src /\ src \in Nat
  BY <1>1, Bounds DEF CacheInv, ModelInv, CleanInv, TypeInv, Types, Versions
<1>3. CASE Request.op = "select" /\ Unmoved
  <2>1. UNCHANGED <<project, src, head, life, worker>> /\ worker.pc = "idle"
    BY <1>1, <1>3 DEF Unmoved, disk, Takes
  <2>2. Request.op \notin Loud /\ Request.ctx = Context /\ Context # NoContext
    BY <1>1, <1>3, NoContextIs DEF Loud, Analyses, Quiet, Serves
  <2>3. \A j \in Slots : Expected(j)' =>
          Expected(j) \/ (ctx = Context /\ ctx # NoContext /\ Of(j).op \notin Loud)
    BY <1>1, <2>1, <2>2, TakenAnswer, KindFacts
  <2>4. Still
    BY <2>1, <2>3 DEF Still
  <2> QED BY <2>4, StillStep
<1>4. CASE Moves
  <2>0. PICK i \in Slots : i = Request.id
    BY <1>1, <1>4, DecidesOne DEF Answering
  <2>1. /\ Answering(i) /\ (Of(i).op # "none" => Of(i).op = Request.op)
    BY <1>1, <1>4, <2>0, DecidesOne
  <2>2. Expected(i)' => ctx = Context /\ ctx # NoContext
    BY <2>1 DEF Answering
  <2>3. \/ /\ Request.op \in {"select", "phase", "reject"}
           /\ UNCHANGED <<src, head>> /\ project'.of = project.of /\ project'.stale = project.stale
           /\ Request.op = "reject" => Clean
        \/ Request.op = "approve" /\ head' = src' /\ project'.of = src'
        \/ Request.op = "undo" /\ head' = src' /\ project'.stale = TRUE
        \/ /\ Request.op \in {"accept", "manual"} /\ Clean /\ UNCHANGED <<src, head>>
           /\ project'.of = project.of
        \/ Request.op = "manual" /\ head' = src /\ src' = src /\ project'.stale = TRUE
    <3>1. project' # project
      BY <1>4, ClockValues DEF Moves
    <3> QED BY <1>1, <1>2, <3>1 DEF Decided, Unmoved, disk
  <2>4. src' \in Nat /\ head' =< src'
    BY <1>2, <2>3, Bounds DEF Decided, Versions
  <2>5. Of(i).op \in Quiet => Request.op \in {"phase", "select", "refresh"}
    BY <2>1 DEF Quiet
  <2>6. Of(i).op \in Quiet =>
          (project'.of = project.of /\ project'.stale = project.stale /\ src' = src /\ head' = head)
    BY <2>3, <2>5
  <2>7. ASSUME Expected(i)', Of(i).op \in {"accept", "manual"} => WouldBeFresh, ~project'.stale
        PROVE  /\ src' = head' => (project'.of = src' \/ known)
               /\ Of(i).op \in Loud => (project'.of = src' \/ unreported \/ known)
    <3>1. /\ WouldBeFresh => ~project.stale /\ Excused(project.of)
          /\ ~project.stale /\ Clean => project.of = src \/ known
      BY <2>2, <2>7, PresentModel
    <3>2. Of(i).op = Request.op
      <4>1. IsCurrent(Of(i).ticket)'
        BY <2>7 DEF Expected
      <4>2. Of(i).ticket.live
        BY <2>1, <4>1 DEF IsCurrent, Of, Answering, client
      <4> QED BY <2>1, <4>2, StartValues DEF TypeInv, Shape
    <3>3. CASE /\ Request.op \in {"select", "phase", "reject"}
               /\ UNCHANGED <<src, head>> /\ project'.of = project.of /\ project'.stale = project.stale
               /\ Request.op = "reject" => Clean
      <4>1. Of(i).op \in Loud => Clean
        BY <3>2, <3>3 DEF Loud, Quiet, Analyses
      <4> QED BY <2>7, <3>1, <3>3, <4>1 DEF Clean
    <3>4. CASE Request.op \in {"accept", "manual"} /\ Clean /\ UNCHANGED <<src, head>>
               /\ project'.of = project.of
      <4>1. ~project.stale
        BY <2>7, <3>1, <3>2, <3>4
      <4> QED BY <3>1, <3>4, <4>1
    <3> QED BY <2>3, <2>7, <3>3, <3>4
  <2> QED BY <2>1, <2>4, <2>6, <2>7, AnsweringStep
<1> QED BY <1>3, <1>4 DEF Decided

(* The same of a child that publishes a revision.                          *)
LEMMA PublishesOne ==
  ASSUME TypeInv, MatchInv, ClockInv, UNCHANGED client, Works, Moves, worker'.pc = "reply"
  PROVE  /\ Answering(worker.r.id) /\ UNCHANGED <<src, head>>
         /\ Of(worker.r.id).op # "none" => Of(worker.r.id).op = worker.r.op
         /\ \A j \in Slots : Expected(j)' => Up /\ IsCurrent(Of(j).ticket)
<1>1. /\ worker.pc \in {"child", "failed"} /\ worker'.r = worker.r
      /\ UNCHANGED <<toClient, life, src, head, ctx, pend>>
  BY DEF Works, client
<1>2. /\ worker.r.id \in Slots /\ worker.r.ctx = Context /\ project # NoProject
  BY <1>1 DEF TypeInv, Shape, Requests
<1>3. ASSUME NEW j \in Slots, Expected(j)'
      PROVE  j = worker.r.id /\ ctx = Context /\ ctx # NoContext /\ Up /\ IsCurrent(Of(j).ticket)
  <2>1. Of(j)' = Of(j) /\ IsCurrent(Of(j).ticket)' /\ Comes(j)'
    BY <1>1, <1>3 DEF Expected, Of
  <2>2. IsCurrent(Of(j).ticket)
    BY <1>1, <2>1 DEF IsCurrent
  <2>3. j = worker.r.id
    BY <1>1, <2>1, MovedOn DEF Comes
  <2>4. Of(j).ticket.live /\ Of(j).ticket.ctx = ctx
    BY <2>2 DEF IsCurrent
  <2>5. Up
    BY <2>4, StartValues DEF TypeInv, Shape
  <2>6. worker.r.ctx = ctx
    BY <1>1, <2>3, <2>4, <2>5, MatchFacts
  <2> QED BY <1>2, <2>2, <2>3, <2>5, <2>6, NoContextIs
<1>4. Of(worker.r.id).op # "none" => Of(worker.r.id).op = worker.r.op
  <2>1. Of(worker.r.id).op # "none" => Up
    BY <1>2, StartValues DEF TypeInv, Shape
  <2> QED BY <1>1, <2>1, MatchFacts
<1> QED BY <1>1, <1>2, <1>3, <1>4 DEF Answering

LEMMA WorksModel ==
  ASSUME TypeInv, WireInv, MatchInv, ClockInv, ModelInv, UNCHANGED client, Works
  PROVE  ModelInv'
<1>1. /\ worker.pc \in {"child", "failed"} /\ worker'.r = worker.r
      /\ UNCHANGED <<toClient, life, src, head, ctx, pend>>
  BY DEF Works, client
<1>2. worker.r.ctx = Context /\ project # NoProject /\ Context # NoContext /\ worker.r.id \in Slots
  BY <1>1, NoContextIs DEF TypeInv, Shape, Requests
<1>3. ASSUME project' = project, NEW j \in Slots, Expected(j)'
      PROVE  \/ Expected(j)
             \/ /\ worker'.pc = "reply" /\ j = worker.r.id /\ Carries(Of(j).op, worker'.kind)
                /\ Of(j).op = worker.r.op /\ ctx = Context /\ ctx # NoContext
  <2>1. Of(j)' = Of(j) /\ IsCurrent(Of(j).ticket)' /\ Comes(j)' /\ Context' = Context
    BY <1>1, <1>3 DEF Expected, Of, Context
  <2>2. IsCurrent(Of(j).ticket) /\ Of(j).ticket.live /\ Of(j).ticket.ctx = ctx
    BY <1>1, <2>1 DEF IsCurrent
  <2>3. \/ Comes(j)
        \/ worker'.pc = "reply" /\ j = worker.r.id /\ Carries(Of(j).op, worker'.kind)
    BY <1>1, <2>1 DEF Comes, Carries
  <2>4. Up
    BY <2>2, StartValues DEF TypeInv, Shape
  <2>5. j = worker.r.id => Of(j).op = worker.r.op /\ worker.r.ctx = ctx
    BY <1>1, <2>2, <2>4, MatchFacts
  <2> QED BY <1>2, <2>2, <2>3, <2>5 DEF Expected
<1>4. CASE /\ worker.pc = "child" /\ worker.r.op \in Analyses /\ worker'.pc \in {"child", "failed"}
           /\ worker'.of # 0 => worker'.of = src
           /\ UNCHANGED project
  <2>1. \A j \in Slots : Expected(j)' => Expected(j)
    BY <1>3, <1>4
  <2>2. UNCHANGED <<client, project, src, head, life>>
    BY <1>4 DEF Works
  <2>3. Still
    BY <1>4, <2>1, <2>2 DEF Still
  <2> QED BY <2>3, StillStep
<1>5. CASE /\ worker'.pc = "reply" /\ UNCHANGED project /\ worker'.kind \in {"ok", "error", "cancelled"}
           /\ worker'.kind = "ok" => worker.r.op = "operate"
  <2>1. "operate" \notin Loud
    BY OpFacts DEF Loud, Analyses
  <2>2. ASSUME NEW j \in Slots, Expected(j)'
        PROVE  Expected(j) \/ (ctx = Context /\ ctx # NoContext /\ Of(j).op \notin Loud)
    <3>1. Carries(Of(j).op, worker'.kind) => worker'.kind = "ok"
      BY <1>5, NothingElse DEF Carries
    <3> QED BY <1>3, <1>5, <2>1, <2>2, <3>1
  <2>3. UNCHANGED <<client, project, src, head, life>>
    BY <1>5 DEF Works
  <2>4. Still
    BY <1>5, <2>2, <2>3 DEF Still
  <2> QED BY <2>4, StillStep
<1>6. CASE /\ worker'.pc = "reply" /\ Moves
           /\ \/ /\ worker.r.op = "refresh" /\ project'.of = project.of
                 /\ project'.stale = project.stale
              \/ /\ worker.r.op \in Analyses
                 /\ \/ project'.stale = TRUE
                    \/ worker.pc = "child" /\ worker.of # 0 /\ project'.of = worker.of
  <2>0. PICK i \in Slots : i = worker.r.id
    BY <1>2
  <2>1. /\ Answering(i) /\ UNCHANGED <<src, head>> /\ (Of(i).op # "none" => Of(i).op = worker.r.op)
        /\ Expected(i)' => Up /\ IsCurrent(Of(i).ticket)
    BY <1>6, <2>0, PublishesOne
  <2>2. Expected(i)' => ctx = Context /\ ctx # NoContext
    BY <2>1 DEF Answering
  <2>3. head' =< src'
    BY <2>1 DEF ModelInv, CleanInv
  <2>4. worker.r.op \in Analyses => Of(i).op \notin Quiet
    BY <2>1 DEF Analyses, Quiet
  <2>5. Of(i).op \in Quiet =>
          (project'.of = project.of /\ project'.stale = project.stale /\ src' = src /\ head' = head)
    BY <1>6, <2>1, <2>4
  <2>6. ASSUME Expected(i)', Of(i).op \in Loud, ~Of(i).saved, ~project'.stale
        PROVE  project'.of = src' \/ unreported \/ known
    <3>1. worker.r.op # "refresh"
      <4>1. "refresh" \notin Loud /\ "none" \notin Loud
        BY OpFacts DEF Loud, Quiet, Analyses
      <4> QED BY <2>1, <2>6, <4>1
    <3>2. worker.pc = "child" /\ worker.of # 0 /\ project'.of = worker.of /\ worker.r.op \in Analyses
      BY <1>6, <2>6, <3>1
    <3>3. Excused(worker.of)
      BY <2>0, <2>1, <2>6, <3>2 DEF ModelInv, ReadInv
    <3> QED BY <2>1, <3>2, <3>3 DEF Excused
  <2>7. ASSUME Expected(i)', ~project'.stale, src' = head'
        PROVE  project'.of = src' \/ known
    <3>1. Clean /\ (~project.stale /\ Clean => project.of = src \/ known)
      BY <2>1, <2>2, <2>7, PresentModel DEF Clean
    <3>2. worker.pc = "child" /\ worker.of # 0 /\ worker.r.op \in Analyses => worker.of = src
      BY <3>1 DEF ModelInv, CleanInv
    <3> QED BY <1>6, <2>1, <2>7, <3>1, <3>2
  <2> QED BY <2>1, <2>3, <2>5, <2>6, <2>7, AnsweringStep
<1> QED BY <1>4, <1>5, <1>6 DEF Works

-----------------------------------------------------------------------------
(* The invariant.                                                          *)

LEMMA ModelStep ==
  ASSUME Inv, Next
  PROVE  ModelInv'
<1>1. TypeInv /\ WireInv /\ MatchInv /\ ClockInv /\ CacheInv /\ ModelInv
  BY DEF Inv
<1>2. CASE \E i \in Slots, p \in Pendings : Asks(i, p)
  BY <1>1, <1>2, AskModel
<1>3. CASE \E p \in Pendings : GoesTo(p) \/ Selects(p)
  BY <1>1, <1>3, OpenModel, SelectModel
<1>4. CASE \E i \in Slots : Accept(i) \/ Drop(i)
  BY <1>1, <1>4, AcceptModel, DropModel
<1>5. CASE Tweaks \/ SaveSource \/ Reports
  BY <1>1, <1>5, TweakModel, SaveModel, ReportModel
<1>6. CASE Quits \/ (Exit /\ UNCHANGED client)
  BY <1>1, <1>6, QuitModel
<1>7. CASE UNCHANGED client /\ (Refuses \/ Looks \/ Opens)
  BY <1>1, <1>7, RefusesModel, LooksModel, OpensModel
<1>8. CASE UNCHANGED client /\ (Decided \/ Begins \/ Works \/ \E kind \in Kinds : Replies(kind))
  BY <1>1, <1>8, DecidedModel, BeginsModel, WorksModel, RepliesModel
<1> QED BY <1>1, <1>2, <1>3, <1>4, <1>5, <1>6, <1>7, <1>8, NextFacts

LEMMA InitInv == Init => Inv
<1> SUFFICES ASSUME Init PROVE Inv
  OBVIOUS
<1>1. /\ queue = <<>> /\ toClient = <<>> /\ worker = IdleWorker /\ ops = [i \in Ids |-> "none"]
      /\ project = NoProject /\ sessions = 0 /\ life = "up" /\ cache = [of |-> 0, stale |-> TRUE]
      /\ src = 1 /\ head = 1 /\ ctx = NoContext /\ shown = NoModel
      /\ pend = [i \in Slots |-> NoPending] /\ unreported = FALSE /\ refresh = FALSE /\ known = FALSE
  BY DEF Init, InitService
<1>2. \A i \in Slots : Of(i) = NoPending /\ ~IsCurrent(Of(i).ticket)
  BY <1>1, StartValues DEF Of, IsCurrent
<1>3. Context = NoContext
  BY <1>1, StartValues DEF Context
<1>4. Elements(queue) = {} /\ Elements(toClient) = {} /\ Undone = {}
      /\ Idents(queue) = {} /\ Idents(toClient) = {} /\ OneEach(queue) /\ OneEach(toClient)
  BY <1>1, Emptied, StartValues DEF Undone
<1>5. Types
  <2>1. queue \in Seq(Requests) /\ toClient \in Seq(Frames)
    BY <1>1
  <2>2. worker \in Workers /\ ops \in [Ids -> {"none", "live", "cancelled"}] /\ project \in Projects
    BY <1>1, StartValues
  <2>3. cache \in [of : Versions, stale : BOOLEAN]
    BY <1>1, Bounds
  <2>4. src \in Versions \ {0} /\ head \in Versions /\ sessions \in 0 .. MaxSessions
    BY <1>1, Bounds
  <2>5. ctx \in Contexts /\ pend \in [Slots -> Pendings] /\ shown \in [state : States, of : Versions]
    BY <1>1, StartValues
  <2> QED BY <1>1, <2>1, <2>2, <2>3, <2>4, <2>5 DEF Types
<1>6. Shape
  <2>1. Up /\ worker.pc = "idle" /\ ~unreported
    BY <1>1, StartValues DEF Up
  <2>2. \A i \in Slots : Of(i).op \notin {"analyse", "automatic"} /\ ~Of(i).saved
    BY <1>2, StartValues
  <2> QED BY <1>1, <1>2, <2>1, <2>2 DEF Shape
<1>7. WireInv
  BY <1>1, <1>2, <1>4, StartValues, OpFacts DEF WireInv, Up
<1>8. MatchInv
  BY <1>4 DEF MatchInv
<1>9. ClockInv
  BY <1>1, <1>2, <1>3, <1>4, StartValues, OpFacts, Bounds
  DEF ClockInv, AnswerInv, ClientInv, TicketInv, OpenInv
<1>10. CacheInv
  BY <1>1 DEF CacheInv
<1>11. ModelInv
  BY <1>1, <1>2, <1>3, StartValues, Bounds
  DEF ModelInv, ShownInv, ComingInv, ReadInv, CleanInv, Expected, Trusted
<1> QED BY <1>5, <1>6, <1>7, <1>8, <1>9, <1>10, <1>11 DEF Inv, TypeInv

LEMMA NextInv ==
  ASSUME Inv, [Next]_vars
  PROVE  Inv'
<1>1. CASE Next
  <2>1. TypeInv /\ WireInv /\ MatchInv /\ ClockInv /\ CacheInv
    BY DEF Inv
  <2>2. TypeInv' /\ WireInv' /\ MatchInv' /\ ClockInv' /\ CacheInv'
    BY <1>1, <2>1, TypeStep, WireStep, MatchStep, ClockStep, CacheStep
  <2> QED BY <1>1, <2>2, ModelStep DEF Inv
<1>2. CASE UNCHANGED vars
  <2>1. UNCHANGED <<queue, worker, ops, toClient, project, cache, src, head, sessions, life,
                    ctx, pend, shown, unreported, refresh, known>>
    BY <1>2 DEF vars, service, client, wire, disk
  <2>2. /\ Context' = Context /\ (Clean' <=> Clean) /\ (Up' <=> Up) /\ Undone' = Undone
        /\ \A i : Of(i)' = Of(i)
        /\ Elements(toClient)' = Elements(toClient)
    BY <2>1 DEF Context, Clean, Up, Undone, Of, Elements
  <2>3. \A i \in Slots : (IsCurrent(Of(i).ticket)' <=> IsCurrent(Of(i).ticket))
                         /\ (Comes(i)' <=> Comes(i)) /\ (Expected(i)' <=> Expected(i))
    BY <2>1, <2>2 DEF IsCurrent, Comes, Expected
  <2>4. TypeInv'
    BY <2>1 DEF Inv, TypeInv, Types, Shape, Of, Up, Context
  <2>5. WireInv'
    BY <2>1 DEF Inv, WireInv, Idents, Elements, OneEach, Up, Of
  <2>6. MatchInv' /\ CacheInv'
    BY <2>1, <2>2 DEF Inv, MatchInv, CacheInv
  <2>7. AnswerInv' /\ ClientInv'
    BY <2>1, <2>2 DEF Inv, ClockInv, AnswerInv, ClientInv
  <2>8. TicketInv' /\ OpenInv'
    BY <2>1, <2>2 DEF Inv, ClockInv, TicketInv, OpenInv
  <2>9. Still
    BY <1>2, <2>1, <2>3 DEF Still, vars
  <2> QED BY <2>4, <2>5, <2>6, <2>7, <2>8, <2>9, StillStep DEF Inv, ClockInv
<1> QED BY <1>1, <1>2

THEOREM Invariant == Spec => []Inv
BY InitInv, NextInv, PTL DEF Spec

-----------------------------------------------------------------------------
(* What follows from it.                                                   *)

(* The variables of the extension and of the service have their types.     *)
THEOREM TypeCorrect == Spec => []TypeOK
<1>1. Inv => TypeOK
  <2> SUFFICES ASSUME Inv PROVE TypeOK
    OBVIOUS
  <2>1. Types
    BY DEF Inv, TypeInv
  <2>2. ContextOf(project) \in Contexts
    BY <2>1, ContextFacts DEF Types
  <2>3. \A k \in DOMAIN toClient : toClient[k].kind \in Kinds
    <3>1. toClient \in Seq(Frames) /\ \A a \in Frames : a.kind \in Kinds
      BY <2>1 DEF Types, Frames
    <3> QED BY <3>1
  <2>4. worker.pc \in {"idle", "child", "failed", "reply"} /\ worker.kind \in Kinds
    BY <2>1 DEF Types, Workers
  <2>5. shown \in [state : {"none", "fresh", "stale", "analysing"}, of : 0 .. MaxSource]
    BY <2>1 DEF Types, States, Versions
  <2> QED BY <2>1, <2>2, <2>3, <2>4, <2>5 DEF Types, TypeOK
<1> QED BY <1>1, Invariant, PTL

(* A request the extension waits for is queued, handled or answered, in    *)
(* one place: route_frame and the worker neither lose one nor answer it    *)
(* twice, whatever supersedes or cancels it.                               *)
THEOREM RequestsConserved == Spec => []Conserved
<1>1. Inv => Conserved
  <2> SUFFICES ASSUME Inv, Up, NEW i \in Slots
               PROVE  Places(i) = IF Waiting(i) THEN 1 ELSE 0
    BY DEF Conserved
  <2>1. WireInv
    BY DEF Inv
  <2>2. Waiting(i) <=> Of(i).op # "none"
    BY StartValues DEF Inv, TypeInv, Shape, Waiting
  <2>3. Waiting(i) <=> i \in Idents(queue) \cup Idents(toClient) \cup {worker.r.id}
    BY <2>1, <2>2 DEF WireInv
  <2>4. OneEach(queue) /\ OneEach(toClient)
    BY <2>1 DEF WireInv
  <2>5. Cardinality({k \in DOMAIN queue : queue[k].id = i}) = IF i \in Idents(queue) THEN 1 ELSE 0
    BY <2>4, CountOne
  <2>6. Cardinality({k \in DOMAIN toClient : toClient[k].id = i}) = IF i \in Idents(toClient) THEN 1 ELSE 0
    BY <2>4, CountOne
  <2>7. /\ ~(i \in Idents(queue) /\ i \in Idents(toClient))
        /\ worker.r.id = i => i \notin Idents(queue) /\ i \notin Idents(toClient)
    BY <2>1 DEF WireInv
  <2> QED BY <2>3, <2>5, <2>6, <2>7 DEF Places
<1> QED BY <1>1, Invariant, PTL

(* While the extension holds the identity of the service's project it      *)
(* shows the model the service has, and as fresh only one that is not      *)
(* known to be stale.                                                      *)
THEOREM AgreementAlways == Spec => []Agreement
<1>1. Inv => Agreement
  BY DEF Inv, ModelInv, ShownInv, WouldBeFresh, Agreement, InStep, Opened
<1> QED BY <1>1, Invariant, PTL

(* A model shown as fresh is that of the sources on disk, unless a save is *)
(* within its debounce or was lost in one of the known ways.               *)
THEOREM FreshIsCurrentAlways == Spec => []FreshIsCurrent
<1>1. Inv => FreshIsCurrent
  BY DEF Inv, ModelInv, ShownInv, WouldBeFresh, Excused, FreshIsCurrent, InStep, Opened
<1> QED BY <1>1, Invariant, PTL

(* Between requests the cache on disk is the model the service holds,      *)
(* whichever analysis was cancelled or failed over it.                     *)
THEOREM CacheKeptAlways == Spec => []CacheKept
<1>1. Inv => CacheKept
  BY DEF Inv, CacheInv, CacheKept
<1> QED BY <1>1, Invariant, PTL
=============================================================================
