--------------------------- MODULE RetargetProofs ---------------------------
(***************************************************************************)
(* Theorems about Retarget, for any clients, cases, versions and number of *)
(* runs: the pinned version is the one of the active manifest, whose       *)
(* artifacts are there, and what passes, or is done, has passed as that    *)
(* version states it.                                                      *)
(***************************************************************************)
EXTENDS Retarget, TLAPS

Versions == 0 .. MaxVersion
Contract == Texts \cup {Same, None}

Attaches   == {"manifest", "attach"}
Retargets  == {"revision", "impact", "check", "commit", "publish"}
Artifacts  == [kind : {"manifest", "revision", "impact"}, v : Versions, from : Versions]

Ops == [name : {None, "attach", "retarget"}, at : {"end"} \cup Attaches \cup Retargets,
        v : Versions, from : Versions, revision : Nat]
Workers ==
  [at : {"idle", "load", "agent", "verify", "execute", "record"}, v : Versions,
   known : SUBSET Cases, todo : SUBSET Cases, case : Cases \cup {None}, attempt : Nat, run : Nat]
Controllers ==
  [at : {"idle", "read", "write", "summarize", "decide"}, v : Versions,
   known : SUBSET Cases, run : Nat]

ManifestType ==
  /\ contract \in [Approved -> [Cases -> Contract]]
  /\ job \in [status : {"active", "done", "dead"}, pin : Versions]
  /\ base \in Versions /\ revisions \in Seq(Approved)
  /\ files \subseteq Artifacts /\ lost \subseteq Artifacts
OpType == op \in [Clients -> Ops]
LoopType ==
  /\ state \in [Cases -> [status : {None, "open", "passing", "retired"}, offset : Nat]]
  /\ rep \in [Cases -> [attempt : Nat, passed : BOOLEAN, run : Nat]]
  /\ tasks \in Seq(SUBSET Cases)
  /\ wkr \in Workers /\ ctl \in Controllers /\ runs \in 0 .. MaxRuns
  /\ raced \in BOOLEAN
  /\ wkr.at # "idle" => wkr.run \in 1 .. MaxRuns
  /\ wkr.at \in {"execute", "record"} => wkr.case \in Cases
  /\ ctl.at # "idle" => ctl.run \in 1 .. MaxRuns

Committed(v) == \E i \in 1 .. Len(revisions) : revisions[i] = v

(* Nothing is verified before there is a manifest.                         *)
BaseInv ==
  base = 0 => /\ revisions = <<>> /\ tasks = <<>> /\ wkr.at = "idle" /\ ctl.at = "idle"
              /\ \A c \in Cases : rep[c].attempt = 0
              /\ job.status = "active"

(* What a client has written is there, and what it is about to commit      *)
(* follows on what it was computed from, unless its number is taken.       *)
OpInv ==
  \A p \in Clients :
    /\ op[p].at \in Attaches \cup Retargets => op[p].v \in Approved
    /\ op[p].at = "attach" => base = 0
    /\ op[p].at \in Retargets => base # 0
    /\ op[p].at \in Retargets \ {"publish"} =>
         /\ op[p].revision =< Len(revisions) + 1
         /\ op[p].revision = Len(revisions) + 1 => op[p].from = Active
    /\ op[p].at \in {"impact", "check", "commit"} => ~Committed(op[p].v)
    /\ Written(p) \subseteq files

(* Nobody else writes, and so unlinks, the artifacts of an operation.      *)
AloneInv ==
  \A p, q \in Clients : p # q => Written(p) \cap Written(q) = {}

(* Unless a retarget has come in between, worker and controller work with  *)
(* the active manifest.                                                    *)
UseInv ==
  ~raced =>
    /\ wkr.at \in {"load", "verify", "execute", "record"} => wkr.v = Active
    /\ ctl.at \in {"write", "summarize", "decide"} => ctl.v = Active

Passed(c, run) == <<c, contract[Active][c], run>> \in passes
PassedOnce(c) == \E run \in 1 .. MaxRuns : Passed(c, run)

KnownInv ==
  ~raced =>
    /\ wkr.at = "load" => \A c \in wkr.known : PassedOnce(c)
    /\ ctl.at = "write" => \A c \in ctl.known : PassedOnce(c)
    /\ ctl.at = "decide" => \A c \in ctl.known : Passed(c, ctl.run)
    /\ wkr.at = "record" /\ rep[wkr.case].passed = TRUE => Passed(wkr.case, wkr.run)

(* What counts after the offset has been run as the active manifest has it. *)
RepInv ==
  base # 0 /\ ~raced => \A c \in Of(Active) :
    rep[c].passed = TRUE /\ rep[c].attempt > state[c].offset => Passed(c, rep[c].run)

Inv ==
  /\ ManifestType /\ OpType /\ LoopType /\ BaseInv /\ OpInv /\ AloneInv /\ PinIsManifest
  /\ UseInv /\ KnownInv /\ RepInv /\ PassingIsCurrent /\ DoneIsVerified

-----------------------------------------------------------------------------
(* Artifacts.                                                              *)

LEMMA ArtifactFacts ==
  /\ Manifest \in Artifacts
  /\ \A v \in Approved : Artifact("revision", v, 0) \in Artifacts
  /\ \A v \in Approved, w \in Versions : Artifact("impact", v, w) \in Artifacts
  /\ \A v \in Approved : Manifest # Artifact("revision", v, 0)
  /\ \A v \in Approved, w \in Versions : Manifest # Artifact("impact", v, w)
BY RetargetAssumption DEF Manifest, Artifact, Artifacts, Versions, Approved

LEMMA ArtifactFields ==
  ASSUME NEW kind, NEW v, NEW w
  PROVE  /\ Artifact(kind, v, w).kind = kind /\ Artifact(kind, v, w).v = v
         /\ Artifact(kind, v, w).from = w
BY DEF Artifact

(* What an operation has written, at each of its points.                   *)
LEMMA WrittenAt ==
  ASSUME NEW p \in Clients
  PROVE  /\ op[p].at = "attach" => Written(p) = {Manifest}
         /\ op[p].at = "impact" => Written(p) = {Revision(p)}
         /\ op[p].at \in {"check", "commit"} => Written(p) = {Revision(p), Impact(p)}
         /\ op[p].at \in {"end", "manifest", "revision", "publish"} => Written(p) = {}
BY DEF Written

LEMMA WrittenFrame ==
  ASSUME NEW q \in Clients, op'[q] = op[q]
  PROVE  Written(q)' = Written(q)
BY DEF Written, Revision, Impact

LEMMA IdleOp == Idle \in Ops /\ Idle.at = "end"
BY RetargetAssumption DEF Idle, Ops, Versions, None

LEMMA ActiveType == ManifestType => Active \in Versions
<1> SUFFICES ASSUME ManifestType PROVE Active \in Versions OBVIOUS
<1>1. base \in Versions /\ revisions \in Seq(Approved)
  BY DEF ManifestType
<1>2. CASE revisions = <<>>
  BY <1>1, <1>2 DEF Active
<1>3. CASE revisions # <<>>
  <2>1. revisions[Len(revisions)] \in Approved
    BY <1>1, <1>3
  <2>2. revisions[Len(revisions)] \in Versions
    BY <2>1, RetargetAssumption DEF Approved, Versions
  <2> QED BY <1>3, <2>2 DEF Active
<1> QED BY <1>2, <1>3

(* A client goes to another point of its operation, or ends it.            *)
LEMMA StepOp ==
  ASSUME OpType, NEW p \in Clients, NEW place \in {"end"} \cup Attaches \cup Retargets,
         Step(p, place)
  PROVE  /\ OpType'
         /\ op'[p].at = place /\ op'[p].v = op[p].v /\ op'[p].from = op[p].from
         /\ op'[p].revision = op[p].revision
         /\ \A q \in Clients : q # p => op'[q] = op[q]
<1>1. op \in [Clients -> Ops] /\ op' = [op EXCEPT ![p].at = place]
  BY DEF OpType, Step
<1>2. op'[p] = [op[p] EXCEPT !.at = place] /\ op[p] \in Ops
  BY <1>1
<1>3. op'[p] \in Ops /\ op'[p].at = place /\ op'[p].v = op[p].v
  BY <1>2 DEF Ops
<1>4. op'[p].from = op[p].from /\ op'[p].revision = op[p].revision
  BY <1>2 DEF Ops
<1>5. \A q \in Clients : q # p => op'[q] = op[q]
  BY <1>1
<1>6. op' = [q \in Clients |-> op'[q]]
  BY <1>1
<1>7. OpType'
  BY <1>1, <1>3, <1>5, <1>6 DEF OpType
<1> QED BY <1>3, <1>4, <1>5, <1>7

LEMMA EndOp ==
  ASSUME OpType, NEW p \in Clients, End(p)
  PROVE  /\ OpType' /\ op'[p] = Idle /\ \A q \in Clients : q # p => op'[q] = op[q]
BY IdleOp DEF OpType, End

-----------------------------------------------------------------------------
(* The initial states.                                                     *)

LEMMA InitInv == Init => Inv
<1> SUFFICES ASSUME Init PROVE Inv OBVIOUS
<1>1. ManifestType
  <2>1. contract \in [Approved -> [Cases -> Contract]]
    BY DEF Init, Contracts, Contract
  <2>2. job \in [status : {"active", "done", "dead"}, pin : Versions]
    BY RetargetAssumption DEF Init, Versions
  <2>3. base \in Versions /\ revisions \in Seq(Approved) /\ files \subseteq Artifacts
        /\ lost \subseteq Artifacts
    BY RetargetAssumption DEF Init, Versions
  <2> QED BY <2>1, <2>2, <2>3 DEF ManifestType
<1>2. OpType
  BY IdleOp DEF Init, OpType
<1>3. LoopType
  <2>1. state \in [Cases -> [status : {None, "open", "passing", "retired"}, offset : Nat]]
    BY DEF Init
  <2>2. rep \in [Cases -> [attempt : Nat, passed : BOOLEAN, run : Nat]]
    BY DEF Init
  <2>3. wkr \in Workers /\ wkr.at = "idle"
    BY RetargetAssumption DEF Init, Resting, Workers, Versions
  <2>4. ctl \in Controllers /\ ctl.at = "idle"
    BY RetargetAssumption DEF Init, Waiting, Controllers, Versions
  <2>5. tasks \in Seq(SUBSET Cases) /\ runs \in 0 .. MaxRuns /\ raced \in BOOLEAN
    <3>1. tasks = <<>> /\ runs = 0 /\ raced = FALSE
      BY DEF Init
    <3>2. tasks \in Seq(SUBSET Cases)
      BY <3>1
    <3>3. runs \in 0 .. MaxRuns
      BY <3>1, RetargetAssumption
    <3>4. raced \in BOOLEAN
      BY <3>1
    <3> QED BY <3>2, <3>3, <3>4
  <2>6. /\ wkr.at # "idle" => wkr.run \in 1 .. MaxRuns
        /\ wkr.at \in {"execute", "record"} => wkr.case \in Cases
        /\ ctl.at # "idle" => ctl.run \in 1 .. MaxRuns
    BY <2>3, <2>4
  <2> QED BY <2>1, <2>2, <2>3, <2>4, <2>5, <2>6 DEF LoopType
<1>4. BaseInv
  <2>1. wkr.at = "idle" /\ ctl.at = "idle"
    BY DEF Init, Resting, Waiting
  <2>2. \A c \in Cases : rep[c].attempt = 0
    BY DEF Init
  <2>3. job.status = "active" /\ revisions = <<>> /\ tasks = <<>>
    BY DEF Init
  <2> QED BY <2>1, <2>2, <2>3 DEF BaseInv
<1>5. \A p \in Clients : op[p].at = "end" /\ Written(p) = {}
  <2> TAKE p \in Clients
  <2>1. op[p].at = "end"
    BY IdleOp DEF Init
  <2> QED BY <2>1, WrittenAt
<1>6. OpInv /\ AloneInv
  BY <1>5 DEF OpInv, AloneInv, Attaches, Retargets
<1>7. PinIsManifest
  BY DEF Init, PinIsManifest
<1>8. UseInv /\ KnownInv
  BY DEF Init, UseInv, KnownInv, Resting, Waiting
<1>9. RepInv /\ PassingIsCurrent /\ DoneIsVerified
  BY DEF Init, RepInv, PassingIsCurrent, DoneIsVerified
<1> QED BY <1>1, <1>2, <1>3, <1>4, <1>6, <1>7, <1>8, <1>9 DEF Inv

-----------------------------------------------------------------------------
(* Clients and their artifacts.                                            *)

(* What an artifact among those of an operation under way says of it.      *)
LEMMA WhoseArtifact ==
  ASSUME Inv, NEW p \in Clients
  PROVE  /\ Manifest \in Written(p) => op[p].at = "attach" /\ base = 0
         /\ \A v \in Approved : Artifact("revision", v, 0) \in Written(p)
              => op[p].v = v /\ ~Committed(v)
<1>1. op[p] \in Ops
  BY DEF Inv, OpType
<1>2. op[p].at \in {"impact", "check", "commit"} => op[p].v \in Approved /\ op[p].from \in Versions
  BY <1>1 DEF Inv, OpInv, Retargets, Ops
<1>3. op[p].at \in {"impact", "check", "commit"} => Manifest \notin {Revision(p), Impact(p)}
  BY <1>2, ArtifactFacts DEF Revision, Impact
<1>4. Manifest \in Written(p) => op[p].at = "attach"
  BY <1>1, <1>3, WrittenAt DEF Ops, Attaches, Retargets
<1>5. Manifest \in Written(p) => base = 0
  BY <1>4 DEF Inv, OpInv
<1>6. ASSUME NEW v \in Approved, Artifact("revision", v, 0) \in Written(p)
      PROVE  op[p].v = v /\ ~Committed(v)
  <2>1. op[p].at # "attach"
    BY <1>6, WrittenAt, ArtifactFacts
  <2>2. op[p].at \in {"impact", "check", "commit"}
    BY <1>1, <1>6, <2>1, WrittenAt DEF Ops, Attaches, Retargets
  <2>3. Artifact("revision", v, 0) = Revision(p) \/ Artifact("revision", v, 0) = Impact(p)
    BY <1>6, <2>2, WrittenAt
  <2>4. Artifact("revision", v, 0) # Impact(p)
    <3>1. Artifact("revision", v, 0).kind = "revision" /\ Impact(p).kind = "impact"
      BY ArtifactFields DEF Impact
    <3> QED BY <3>1
  <2>5. op[p].v = v
    <3>1. Artifact("revision", v, 0).v = v /\ Revision(p).v = op[p].v
      BY ArtifactFields DEF Revision
    <3> QED BY <2>3, <2>4, <3>1
  <2>6. ~Committed(op[p].v)
    BY <2>2 DEF Inv, OpInv
  <2> QED BY <2>5, <2>6
<1> QED BY <1>4, <1>5, <1>6

(* A client writes an artifact nobody has, or unlinks its own; or it dies, *)
(* and what it has written is lost.                                        *)
LEMMA OwnArtifacts ==
  ASSUME Inv, NEW p \in Clients, \A q \in Clients : q # p => op'[q] = op[q],
         base' = base, revisions' = revisions, job'.pin = job.pin, lost \subseteq lost',
         \A a \in Written(p)' : a \in files' /\ (a \in Written(p) \/ a \notin files),
         \A a \in files' : a \in files \/ a \in Written(p)',
         \A a \in files : a \in files' \/ a \in Written(p),
         \A a \in files' : a \in Written(p) => a \in Written(p)' \/ a \in lost'
  PROVE  /\ AloneInv' /\ PinIsManifest'
         /\ \A q \in Clients : Written(q)' \subseteq files'
<1>1. \A q \in Clients : q # p => Written(q)' = Written(q)
  BY WrittenFrame
<1>2. \A q \in Clients : q # p => Written(q) \subseteq files /\ Written(p) \cap Written(q) = {}
  BY DEF Inv, OpInv, AloneInv
<1>3. \A q \in Clients : q # p => Written(p)' \cap Written(q)' = {}
  BY <1>1, <1>2
<1>4. AloneInv'
  <2>1. \A q, r \in Clients : q # r /\ q # p /\ r # p => Written(q)' \cap Written(r)' = {}
    BY <1>1 DEF Inv, AloneInv
  <2> QED BY <1>3, <2>1 DEF AloneInv
<1>5. \A q \in Clients : Written(q)' \subseteq files'
  BY <1>1, <1>2
<1>6. Active' = Active
  BY DEF Active
<1>7. base # 0 => Manifest \in files'
  BY WhoseArtifact DEF Inv, PinIsManifest
<1>8. \A v \in Approved : Committed(v) => Artifact("revision", v, 0) \in files'
  <2> SUFFICES ASSUME NEW v \in Approved, Committed(v)
               PROVE Artifact("revision", v, 0) \in files'
    OBVIOUS
  <2>1. Artifact("revision", v, 0) \in files
    BY DEF Inv, PinIsManifest, Committed
  <2>2. Artifact("revision", v, 0) \notin Written(p)
    BY WhoseArtifact
  <2> QED BY <2>1, <2>2
<1>9. ASSUME NEW f \in files'
      PROVE  \/ f = Manifest /\ base # 0
             \/ \E i \in 1 .. Len(revisions) :
                  /\ f.v = revisions[i]
                  /\ f.kind = "impact" => f.from = IF i = 1 THEN base ELSE revisions[i - 1]
             \/ f \in lost' \/ \E q \in Clients : f \in Written(q)'
  <2>1. CASE f \in Written(p)'
    BY <2>1
  <2>2. CASE f \notin Written(p)'
    <3>1. f \in files
      BY <1>9, <2>2
    <3>2. f \in Written(p) => f \in lost'
      BY <1>9, <2>2
    <3>3. \A q \in Clients : f \in Written(q) => f \in lost' \/ f \in Written(q)'
      BY <1>1, <3>2
    <3> QED BY <3>1, <3>3 DEF Inv, PinIsManifest
  <2> QED BY <2>1, <2>2
<1>10. base # 0 => job.pin = Active /\ Active \in Approved
  BY DEF Inv, PinIsManifest
<1>11. PinIsManifest'
  BY <1>6, <1>7, <1>8, <1>9, <1>10 DEF PinIsManifest, Committed
<1> QED BY <1>4, <1>5, <1>11

(* The other clients see neither.                                          *)
LEMMA OthersGoOn ==
  ASSUME Inv, NEW p \in Clients, NEW q \in Clients, q # p, op'[q] = op[q],
         base' = base, revisions' = revisions
  PROVE  /\ op'[q].at \in Attaches \cup Retargets => op'[q].v \in Approved
         /\ op'[q].at = "attach" => base' = 0
         /\ op'[q].at \in Retargets => base' # 0
         /\ op'[q].at \in Retargets \ {"publish"} =>
              /\ op'[q].revision =< Len(revisions') + 1
              /\ op'[q].revision = Len(revisions') + 1 => op'[q].from = Active'
         /\ op'[q].at \in {"impact", "check", "commit"} => ~Committed(op[q].v)
BY DEF Inv, OpInv, Active

(* The artifacts part of a step of client p that leaves the rows alone.    *)
ClientKeeps(p) ==
  /\ op'[p].at \in Attaches \cup Retargets => op'[p].v \in Approved
  /\ op'[p].at = "attach" => base = 0
  /\ op'[p].at \in Retargets => base # 0
  /\ op'[p].at \in Retargets \ {"publish"} =>
       /\ op'[p].revision =< Len(revisions) + 1
       /\ op'[p].revision = Len(revisions) + 1 => op'[p].from = Active
  /\ op'[p].at \in {"impact", "check", "commit"} => ~Committed(op'[p].v)

LEMMA ClientStep ==
  ASSUME Inv, NEW p \in Clients, \A q \in Clients : q # p => op'[q] = op[q],
         base' = base, revisions' = revisions, ClientKeeps(p),
         \A q \in Clients : Written(q)' \subseteq files'
  PROVE  OpInv'
<1>1. Active' = Active
  BY DEF Active
<1>2. \A v : Committed(v)' <=> Committed(v)
  BY DEF Committed
<1> SUFFICES ASSUME NEW q \in Clients
             PROVE  /\ op'[q].at \in Attaches \cup Retargets => op'[q].v \in Approved
                    /\ op'[q].at = "attach" => base' = 0
                    /\ op'[q].at \in Retargets => base' # 0
                    /\ op'[q].at \in Retargets \ {"publish"} =>
                         /\ op'[q].revision =< Len(revisions') + 1
                         /\ op'[q].revision = Len(revisions') + 1 => op'[q].from = Active'
                    /\ op'[q].at \in {"impact", "check", "commit"} => ~(Committed(op[q].v))'
                    /\ Written(q)' \subseteq files'
  BY DEF OpInv
<1>3. CASE q = p
  BY <1>1, <1>3 DEF ClientKeeps, Committed
<1>4. CASE q # p
  BY <1>4, OthersGoOn DEF Committed
<1> QED BY <1>3, <1>4

LEMMA WrittenNext ==
  ASSUME NEW p \in Clients
  PROVE  /\ op'[p].at = "attach" => Written(p)' = {Manifest}
         /\ op'[p].at = "impact" => Written(p)' = {Artifact("revision", op'[p].v, 0)}
         /\ op'[p].at \in {"check", "commit"} =>
              Written(p)' = {Artifact("revision", op'[p].v, 0),
                             Artifact("impact", op'[p].v, op'[p].from)}
         /\ op'[p].at \in {"end", "manifest", "revision", "publish"} => Written(p)' = {}
BY DEF Written, Revision, Impact, Manifest

ArtifactInv == OpType /\ OpInv /\ AloneInv /\ PinIsManifest

LEMMA OwnStep ==
  ASSUME Inv, OpType', NEW p \in Clients, \A q \in Clients : q # p => op'[q] = op[q],
         base' = base, revisions' = revisions, job'.pin = job.pin, lost \subseteq lost',
         ClientKeeps(p),
         \A a \in Written(p)' : a \in files' /\ (a \in Written(p) \/ a \notin files),
         \A a \in files' : a \in files \/ a \in Written(p)',
         \A a \in files : a \in files' \/ a \in Written(p),
         \A a \in files' : a \in Written(p) => a \in Written(p)' \/ a \in lost'
  PROVE  ArtifactInv'
BY OwnArtifacts, ClientStep DEF ArtifactInv

(* An operation that ends without a row takes back what it has written.    *)
LEMMA EndStep ==
  ASSUME Inv, NEW p \in Clients, End(p), base' = base, revisions' = revisions,
         job' = job, lost \subseteq lost',
         \/ files' = files \ Written(p)
         \/ files' = files /\ Written(p) \subseteq lost'
  PROVE  ArtifactInv'
<1>1. /\ OpType' /\ op'[p].at = "end"
      /\ \A q \in Clients : q # p => op'[q] = op[q]
  BY EndOp, IdleOp DEF Inv
<1>2. Written(p)' = {}
  BY <1>1, WrittenNext
<1>3. ClientKeeps(p)
  BY <1>1 DEF ClientKeeps, Attaches, Retargets
<1> QED BY <1>1, <1>2, <1>3, OwnStep

(* An operation goes on, with an artifact that nobody had written.         *)
LEMMA WriteStep ==
  ASSUME Inv, NEW p \in Clients, NEW place \in {"end"} \cup Attaches \cup Retargets,
         Step(p, place), base' = base, revisions' = revisions, job' = job, lost' = lost,
         ClientKeeps(p), NEW new, new \notin files, files' = files \cup {new},
         Written(p)' = Written(p) \cup {new}
  PROVE  ArtifactInv'
<1>1. /\ OpType'
      /\ \A q \in Clients : q # p => op'[q] = op[q]
  BY StepOp DEF Inv
<1>2. Written(p) \subseteq files
  BY DEF Inv, OpInv
<1> QED BY <1>1, <1>2, OwnStep

LEMMA AttachArtifacts ==
  ASSUME NEW p \in Clients PROVE Inv /\ Attach(p) => ArtifactInv'
<1> SUFFICES ASSUME Inv, Attach(p) PROVE ArtifactInv' OBVIOUS
<1>1. PICK v \in Approved :
        op' = [op EXCEPT ![p] = [Idle EXCEPT !.name = "attach", !.v = v, !.at = "manifest"]]
  BY DEF Attach
<1> DEFINE new == [Idle EXCEPT !.name = "attach", !.v = v, !.at = "manifest"]
<1>2. v \in Versions
  BY RetargetAssumption DEF Approved, Versions
<1>3. new \in Ops /\ new.at = "manifest" /\ new.v = v
  BY <1>2, IdleOp DEF Ops, Attaches, Retargets
<1>4. op' = [op EXCEPT ![p] = new] /\ op \in [Clients -> Ops]
  BY <1>1 DEF Inv, OpType
<1> HIDE DEF new
<1>5. OpType' /\ op'[p] = new /\ \A q \in Clients : q # p => op'[q] = op[q]
  BY <1>3, <1>4 DEF OpType
<1>6. Written(p) = {} /\ Written(p)' = {}
  <2>1. op[p].at = "end"
    BY IdleOp DEF Attach
  <2>2. op'[p].at = "manifest"
    BY <1>3, <1>5
  <2> QED BY <2>1, <2>2, WrittenAt, WrittenNext
<1>7. ClientKeeps(p)
  BY <1>3, <1>5 DEF ClientKeeps, Attaches, Retargets
<1>8. UNCHANGED <<base, revisions, job, files, lost>>
  BY DEF Attach, manifest, history
<1> QED BY <1>5, <1>6, <1>7, <1>8, OwnStep

LEMMA WriteManifestArtifacts ==
  ASSUME NEW p \in Clients PROVE Inv /\ WriteManifest(p) => ArtifactInv'
<1> SUFFICES ASSUME Inv, WriteManifest(p) PROVE ArtifactInv' OBVIOUS
<1>1. UNCHANGED <<base, revisions, job, lost>> /\ op[p].at = "manifest"
  BY DEF WriteManifest, manifest, history
<1>2. Written(p) = {}
  BY <1>1, WrittenAt
<1>3. CASE Manifest \in files
  BY <1>1, <1>2, <1>3, EndStep DEF WriteManifest
<1>4. CASE Manifest \notin files
  <2>1. Step(p, "attach") /\ files' = files \cup {Manifest}
    BY <1>4 DEF WriteManifest
  <2>2. op'[p].at = "attach" /\ op'[p].v = op[p].v
    BY <2>1, StepOp DEF Inv, Attaches
  <2>3. Written(p)' = Written(p) \cup {Manifest}
    BY <1>2, <2>2, WrittenNext
  <2>4. base = 0
    BY <1>4 DEF Inv, PinIsManifest
  <2>5. ClientKeeps(p)
    BY <1>1, <2>2, <2>4 DEF ClientKeeps, Inv, OpInv, Attaches, Retargets
  <2> QED BY <1>1, <1>4, <2>1, <2>3, <2>5, WriteStep DEF Attaches
<1> QED BY <1>3, <1>4

LEMMA RetargetArtifacts ==
  ASSUME NEW p \in Clients PROVE Inv /\ Retarget(p) => ArtifactInv'
<1> SUFFICES ASSUME Inv, Retarget(p) PROVE ArtifactInv' OBVIOUS
<1>1. PICK v \in Approved :
        op' = [op EXCEPT ![p] = [name |-> "retarget", at |-> "revision", v |-> v,
                                 from |-> Active, revision |-> Len(revisions) + 1]]
  BY DEF Retarget
<1> DEFINE new == [name |-> "retarget", at |-> "revision", v |-> v,
                   from |-> Active, revision |-> Len(revisions) + 1]
<1>2. v \in Versions /\ Active \in Versions /\ Len(revisions) + 1 \in Nat
  BY RetargetAssumption, ActiveType DEF Approved, Versions, Inv, ManifestType
<1>3. /\ new \in Ops /\ new.at = "revision" /\ new.v = v /\ new.from = Active
      /\ new.revision = Len(revisions) + 1
  BY <1>2 DEF Ops, Attaches, Retargets
<1>4. op' = [op EXCEPT ![p] = new] /\ op \in [Clients -> Ops]
  BY <1>1 DEF Inv, OpType
<1> HIDE DEF new
<1>5. OpType' /\ op'[p] = new /\ \A q \in Clients : q # p => op'[q] = op[q]
  BY <1>3, <1>4 DEF OpType
<1>6. Written(p) = {} /\ Written(p)' = {}
  <2>1. op[p].at = "end"
    BY IdleOp DEF Retarget
  <2>2. op'[p].at = "revision"
    BY <1>3, <1>5
  <2> QED BY <2>1, <2>2, WrittenAt, WrittenNext
<1>7. base # 0
  BY DEF Retarget
<1>8. ClientKeeps(p)
  BY <1>2, <1>3, <1>5, <1>7 DEF ClientKeeps, Attaches, Retargets
<1>9. UNCHANGED <<base, revisions, job, files, lost>>
  BY DEF Retarget, manifest, history
<1> QED BY <1>5, <1>6, <1>8, <1>9, OwnStep

(* A retarget that goes on keeps what it was computed from.                *)
LEMMA RetargetKeeps ==
  ASSUME Inv, NEW p \in Clients, op[p].at \in Retargets, Step(p, "impact") \/ Step(p, "check")
         \/ Step(p, "commit"), op[p].at \in {"revision", "impact", "check"},
         ~Committed(op[p].v)
  PROVE  ClientKeeps(p)
<1>1. /\ op'[p].at \in {"impact", "check", "commit"} /\ op'[p].v = op[p].v
      /\ op'[p].from = op[p].from /\ op'[p].revision = op[p].revision
  BY StepOp DEF Inv, Retargets
<1> QED BY <1>1 DEF ClientKeeps, Inv, OpInv, Attaches, Retargets

LEMMA WriteRevisionArtifacts ==
  ASSUME NEW p \in Clients PROVE Inv /\ WriteRevision(p) => ArtifactInv'
<1> SUFFICES ASSUME Inv, WriteRevision(p) PROVE ArtifactInv' OBVIOUS
<1>1. UNCHANGED <<base, revisions, job, lost>> /\ op[p].at = "revision"
  BY DEF WriteRevision, manifest, history
<1>2. Written(p) = {}
  BY <1>1, WrittenAt
<1>3. CASE Revision(p) \in files
  BY <1>1, <1>2, <1>3, EndStep DEF WriteRevision
<1>4. CASE Revision(p) \notin files
  <2>1. Step(p, "impact") /\ files' = files \cup {Revision(p)}
    BY <1>4 DEF WriteRevision
  <2>2. op'[p].at = "impact" /\ op'[p].v = op[p].v
    BY <2>1, StepOp DEF Inv, Retargets
  <2>3. Written(p)' = Written(p) \cup {Revision(p)}
    BY <1>2, <2>2, WrittenNext DEF Revision
  <2>4. op[p].v \in Approved
    BY <1>1 DEF Inv, OpInv, Retargets
  <2>5. ~Committed(op[p].v)
    BY <1>4, <2>4 DEF Inv, PinIsManifest, Committed, Revision
  <2>6. ClientKeeps(p)
    BY <1>1, <2>1, <2>5, RetargetKeeps DEF Retargets
  <2> QED BY <1>1, <1>4, <2>1, <2>3, <2>6, WriteStep DEF Retargets
<1> QED BY <1>3, <1>4

LEMMA WriteImpactArtifacts ==
  ASSUME NEW p \in Clients PROVE Inv /\ WriteImpact(p) => ArtifactInv'
<1> SUFFICES ASSUME Inv, WriteImpact(p) PROVE ArtifactInv' OBVIOUS
<1>1. UNCHANGED <<base, revisions, job, lost>> /\ op[p].at = "impact"
  BY DEF WriteImpact, manifest, history
<1>2. Written(p) = {Revision(p)}
  BY <1>1, WrittenAt
<1>3. CASE Impact(p) \in files
  BY <1>1, <1>2, <1>3, EndStep DEF WriteImpact
<1>4. CASE Impact(p) \notin files
  <2>1. Step(p, "check") /\ files' = files \cup {Impact(p)}
    BY <1>4 DEF WriteImpact
  <2>2. op'[p].at = "check" /\ op'[p].v = op[p].v /\ op'[p].from = op[p].from
    BY <2>1, StepOp DEF Inv, Retargets
  <2>3. Written(p)' = Written(p) \cup {Impact(p)}
    BY <1>2, <2>2, WrittenNext DEF Revision, Impact
  <2>4. ~Committed(op[p].v)
    BY <1>1 DEF Inv, OpInv
  <2>5. ClientKeeps(p)
    BY <1>1, <2>1, <2>4, RetargetKeeps DEF Retargets
  <2> QED BY <1>1, <1>4, <2>1, <2>3, <2>5, WriteStep DEF Retargets
<1> QED BY <1>3, <1>4

LEMMA CheckPinArtifacts ==
  ASSUME NEW p \in Clients PROVE Inv /\ (CheckPin(p) \/ RefuseRetarget(p)) => ArtifactInv'
<1> SUFFICES ASSUME Inv, CheckPin(p) \/ RefuseRetarget(p) PROVE ArtifactInv' OBVIOUS
<1>1. UNCHANGED <<base, revisions, job, lost>> /\ op[p].at \in {"check", "commit"}
  BY DEF CheckPin, RefuseRetarget, manifest, history
<1>2. Written(p) = {Revision(p), Impact(p)}
  BY <1>1, WrittenAt
<1>3. CASE Unlinked(p)
  BY <1>1, <1>2, <1>3, EndStep DEF Unlinked
<1>4. CASE CheckPin(p) /\ Step(p, "commit") /\ files' = files
  <2>1. op'[p].at = "commit" /\ op'[p].v = op[p].v /\ op'[p].from = op[p].from
    BY <1>4, StepOp DEF Inv, Retargets
  <2>2. Written(p)' = Written(p)
    BY <1>2, <2>1, WrittenNext DEF Revision, Impact
  <2>3. ~Committed(op[p].v)
    BY <1>1 DEF Inv, OpInv
  <2>4. op[p].at = "check"
    BY <1>4 DEF CheckPin
  <2>5. ClientKeeps(p)
    BY <1>4, <2>3, <2>4, RetargetKeeps DEF Retargets
  <2>6. OpType' /\ \A q \in Clients : q # p => op'[q] = op[q]
    BY <1>4, StepOp DEF Inv, Retargets
  <2>7. Written(p) \subseteq files
    BY DEF Inv, OpInv
  <2> QED BY <1>1, <1>4, <2>2, <2>5, <2>6, <2>7, OwnStep
<1> QED BY <1>3, <1>4 DEF CheckPin, RefuseRetarget

LEMMA EndingArtifacts ==
  ASSUME NEW p \in Clients PROVE Inv /\ (Publish(p) \/ Die(p)) => ArtifactInv'
<1> SUFFICES ASSUME Inv, Publish(p) \/ Die(p) PROVE ArtifactInv' OBVIOUS
<1>1. UNCHANGED <<base, revisions, job, files>> /\ End(p)
  BY DEF Publish, Die, manifest, history
<1>2. CASE Publish(p)
  <2>1. Written(p) = {}
    BY <1>2, WrittenAt DEF Publish
  <2> QED BY <1>1, <1>2, <2>1, EndStep DEF Publish, history
<1>3. CASE Die(p)
  BY <1>1, <1>3, EndStep DEF Die
<1> QED BY <1>2, <1>3

LEMMA CommitAttachArtifacts ==
  ASSUME NEW p \in Clients PROVE Inv /\ CommitAttach(p) => ArtifactInv'
<1> SUFFICES ASSUME Inv, CommitAttach(p) PROVE ArtifactInv' OBVIOUS
<1>1. op[p].at = "attach" /\ End(p) /\ lost' = lost
  BY DEF CommitAttach, history
<1>2. Written(p) = {Manifest} /\ base = 0
  BY <1>1, WrittenAt DEF Inv, OpInv
<1>3. CASE files' = files \ {Manifest} /\ UNCHANGED <<manifest, state, tasks>>
  BY <1>1, <1>2, <1>3, EndStep DEF manifest
<1>4. CASE Attached(p)
  <2>1. /\ base' = op[p].v /\ revisions' = revisions /\ files' = files
        /\ job' = [job EXCEPT !.pin = op[p].v]
    BY <1>4 DEF Attached
  <2>2. op[p].v \in Approved /\ revisions = <<>>
    BY <1>1, <1>2 DEF Inv, OpInv, BaseInv, Attaches
  <2>3. job'.pin = op[p].v /\ base' # 0 /\ Active' = op[p].v
    <3>1. job'.pin = op[p].v
      BY <2>1 DEF Inv, ManifestType
    <3>2. op[p].v # 0
      BY <2>2 DEF Approved
    <3> QED BY <2>1, <2>2, <3>1, <3>2 DEF Active
  <2>4. OpType' /\ op'[p] = Idle /\ \A q \in Clients : q # p => op'[q] = op[q]
    BY <1>1, EndOp DEF Inv
  <2>5. Written(p)' = {}
    BY <2>4, IdleOp, WrittenNext
  <2>6. \A q \in Clients : q # p => Written(q)' = Written(q)
    BY <2>4, WrittenFrame
  <2>7. \A q \in Clients : q # p => Written(q) \subseteq files /\ op[q].at \notin Retargets
    BY <1>2 DEF Inv, OpInv
  <2>8. \A q \in Clients : q # p => op[q].at # "attach"
    BY <1>2, WrittenAt DEF Inv, AloneInv
  <2>9. AloneInv'
    BY <2>5, <2>6 DEF Inv, AloneInv
  <2>10. OpInv'
    <3>1. \A q \in Clients : Written(q)' \subseteq files'
      BY <2>1, <2>5, <2>6, <2>7
    <3>2. \A q \in Clients : op'[q].at \notin Retargets /\ op'[q].at # "attach"
      BY <2>4, <2>7, <2>8, IdleOp DEF Retargets
    <3>3. \A q \in Clients : op'[q].at \in Attaches => op'[q].v \in Approved
      BY <2>4, IdleOp DEF Inv, OpInv, Attaches
    <3> QED BY <3>1, <3>2, <3>3 DEF OpInv, Retargets
  <2>11. PinIsManifest'
    <3>1. Manifest \in files
      BY <1>2, <1>1 DEF Inv, OpInv
    <3>2. \A f \in files : f = Manifest \/ f \in lost \/ \E q \in Clients : q # p /\ f \in Written(q)
      <4>1. \A f \in files : f \in lost \/ \E q \in Clients : f \in Written(q)
        BY <1>2, <2>2 DEF Inv, PinIsManifest
      <4> QED BY <1>2, <4>1
    <3>3. \A f \in files' : f = Manifest \/ f \in lost' \/ \E q \in Clients : f \in Written(q)'
      BY <1>1, <2>1, <2>6, <3>2
    <3> QED BY <2>1, <2>2, <2>3, <3>1, <3>3 DEF PinIsManifest
  <2> QED BY <2>4, <2>9, <2>10, <2>11 DEF ArtifactInv
<1> QED BY <1>3, <1>4 DEF CommitAttach

(* The active manifest after a retarget is the one of its version.         *)
LEMMA RetargetedRows ==
  ASSUME Inv, NEW p \in Clients, CommitRetarget(p)
  PROVE  /\ op[p].v \in Approved /\ op[p].from = Active /\ base # 0 /\ base' = base
         /\ revisions \in Seq(Approved) /\ Len(revisions) \in Nat
         /\ Len(revisions') = Len(revisions) + 1
         /\ revisions'[Len(revisions) + 1] = op[p].v
         /\ \A i \in 1 .. Len(revisions) : revisions'[i] = revisions[i]
         /\ Active' = op[p].v /\ job'.pin = op[p].v
         /\ Active = IF Len(revisions) + 1 = 1 THEN base ELSE revisions[Len(revisions)]
<1>1. /\ op[p].at = "commit" /\ revisions' = Append(revisions, op[p].v)
      /\ op[p].revision = Len(revisions) + 1 /\ base' = base
  BY DEF CommitRetarget, Revised
<1>2. op[p].v \in Approved /\ op[p].from = Active /\ base # 0
  BY <1>1 DEF Inv, OpInv, Retargets
<1>3. revisions \in Seq(Approved) /\ Len(revisions) \in Nat
  BY DEF Inv, ManifestType
<1>4. /\ Len(revisions') = Len(revisions) + 1
      /\ revisions'[Len(revisions) + 1] = op[p].v
      /\ \A i \in 1 .. Len(revisions) : revisions'[i] = revisions[i]
  BY <1>1, <1>2, <1>3
<1>5. Active' = op[p].v
  <2>1. revisions' # <<>>
    BY <1>3, <1>4
  <2> QED BY <1>4, <2>1 DEF Active
<1>6. job'.pin = op[p].v
  BY DEF CommitRetarget
<1>7. Active = IF Len(revisions) + 1 = 1 THEN base ELSE revisions[Len(revisions)]
  <2>1. CASE revisions = <<>>
    BY <2>1 DEF Active
  <2>2. CASE revisions # <<>>
    <3>1. Len(revisions) # 0
      BY <1>3, <2>2
    <3> QED BY <1>3, <2>2, <3>1 DEF Active
  <2> QED BY <2>1, <2>2
<1> QED BY <1>1, <1>2, <1>3, <1>4, <1>5, <1>6, <1>7

LEMMA CommitRetargetArtifacts ==
  ASSUME NEW p \in Clients PROVE Inv /\ CommitRetarget(p) => ArtifactInv'
<1> SUFFICES ASSUME Inv, CommitRetarget(p) PROVE ArtifactInv' OBVIOUS
<1> DEFINE n == Len(revisions) + 1
<1>1. /\ op[p].at = "commit" /\ files' = files /\ lost' = lost
      /\ End(p) \/ Step(p, "publish")
  BY DEF CommitRetarget
<1>2. /\ OpType' /\ op'[p].at \in {"end", "publish"} /\ op[p] \in Ops
      /\ op'[p].at = "publish" => op'[p].v = op[p].v
      /\ \A q \in Clients : q # p => op'[q] = op[q]
  BY <1>1, StepOp, EndOp, IdleOp DEF Inv, OpType, Retargets
<1>3. Written(p)' = {} /\ Written(p) = {Revision(p), Impact(p)}
  BY <1>1, <1>2, WrittenNext, WrittenAt
<1>4. \A q \in Clients : q # p => Written(q)' = Written(q)
  BY <1>2, WrittenFrame
<1>5. AloneInv'
  BY <1>3, <1>4 DEF Inv, AloneInv
<1>6. \A v \in Approved : Committed(v)' => Committed(v) \/ v = op[p].v
  <2> SUFFICES ASSUME NEW v \in Approved, Committed(v)' PROVE Committed(v) \/ v = op[p].v
    OBVIOUS
  <2>1. PICK i \in 1 .. n : revisions'[i] = v
    BY RetargetedRows DEF Committed
  <2>2. i \in 1 .. Len(revisions) \/ i = n
    BY RetargetedRows, <2>1
  <2> QED BY RetargetedRows, <2>1, <2>2 DEF Committed
<1>7. OpInv'
  <2>1. \A q \in Clients : Written(q)' \subseteq files'
    BY <1>1, <1>3, <1>4 DEF Inv, OpInv
  <2>2. op'[p].at = "publish" => op'[p].v \in Approved
    BY <1>2, RetargetedRows
  <2>3. ASSUME NEW q \in Clients, q # p
        PROVE  /\ op[q].at \in Attaches \cup Retargets => op[q].v \in Approved
               /\ op[q].at # "attach"
               /\ op[q].at \in Retargets \ {"publish"} => op[q].revision < n + 1
    <3>1. op[q].revision \in Nat
      BY DEF Inv, OpType, Ops
    <3> QED BY <2>3, <3>1, RetargetedRows DEF Inv, OpInv
  <2>4. ASSUME NEW q \in Clients, q # p, op[q].at \in {"impact", "check", "commit"}
        PROVE  ~Committed(op[q].v)'
    <3>1. op[q].v \in Approved /\ ~Committed(op[q].v)
      BY <2>4 DEF Inv, OpInv, Retargets
    <3>2. Revision(p) \in Written(p) /\ Revision(q) \in Written(q)
      BY <1>3, <2>4, WrittenAt
    <3>3. Revision(p) # Revision(q)
      BY <2>4, <3>2 DEF Inv, AloneInv
    <3>4. op[q].v # op[p].v
      BY <3>3 DEF Revision
    <3>5. op[q].v \in Approved => (Committed(op[q].v)' => Committed(op[q].v) \/ op[q].v = op[p].v)
      <4>1. op'[q] = op[q]
        BY <1>2, <2>4
      <4> QED BY <1>6, <4>1 DEF Committed
    <3> QED BY <3>1, <3>4, <3>5
  <2>5. base' # 0 /\ Len(revisions') = n /\ n \in Nat
    BY RetargetedRows
  <2> SUFFICES ASSUME NEW q \in Clients
               PROVE  /\ op'[q].at \in Attaches \cup Retargets => op'[q].v \in Approved
                      /\ op'[q].at = "attach" => base' = 0
                      /\ op'[q].at \in Retargets => base' # 0
                      /\ op'[q].at \in Retargets \ {"publish"} =>
                           /\ op'[q].revision =< Len(revisions') + 1
                           /\ op'[q].revision = Len(revisions') + 1 => op'[q].from = Active'
                      /\ op'[q].at \in {"impact", "check", "commit"} => ~Committed(op[q].v)'
                      /\ Written(q)' \subseteq files'
    BY DEF OpInv
  <2>6. CASE q = p
    BY <1>2, <2>1, <2>2, <2>5, <2>6 DEF Attaches, Retargets
  <2>7. CASE q # p
    <3>1. op'[q] = op[q]
      BY <1>2, <2>7
    <3>2. op[q].revision \in Nat
      BY DEF Inv, OpType, Ops
    <3>3. op[q].at \in Retargets \ {"publish"} =>
            op[q].revision =< n + 1 /\ op[q].revision # n + 1
      BY <2>3, <2>5, <2>7, <3>2
    <3> HIDE DEF n
    <3> QED BY <2>1, <2>3, <2>4, <2>5, <2>7, <3>1, <3>3
  <2> QED BY <2>6, <2>7
<1>8. PinIsManifest'
  <2>1. base' # 0 => job'.pin = Active' /\ Active' \in Approved /\ Manifest \in files'
    BY <1>1, RetargetedRows DEF Inv, PinIsManifest
  <2>2. \A v \in Approved : Committed(v)' => Artifact("revision", v, 0) \in files'
    <3>1. Artifact("revision", op[p].v, 0) \in files
      BY <1>3 DEF Inv, OpInv, Revision
    <3>2. \A v \in Approved : Committed(v) => Artifact("revision", v, 0) \in files
      BY DEF Inv, PinIsManifest, Committed
    <3> QED BY <1>1, <1>6, <3>1, <3>2
  <2>3. ASSUME NEW f \in files
        PROVE  \/ f = Manifest /\ base' # 0
               \/ \E i \in 1 .. Len(revisions') :
                    /\ f.v = revisions'[i]
                    /\ f.kind = "impact" =>
                         f.from = IF i = 1 THEN base' ELSE revisions'[i - 1]
               \/ f \in lost' \/ \E q \in Clients : f \in Written(q)'
    <3>1. CASE f \in Written(p)
      <4>1. f.v = op[p].v /\ (f.kind = "impact" => f.from = Active)
        <5>1. f = Artifact("revision", op[p].v, 0) \/ f = Artifact("impact", op[p].v, op[p].from)
          BY <1>3, <3>1 DEF Revision, Impact
        <5>2. CASE f = Artifact("revision", op[p].v, 0)
          <6>1. f.kind = "revision" /\ f.v = op[p].v
            BY <5>2, ArtifactFields
          <6> QED BY <6>1
        <5>3. CASE f = Artifact("impact", op[p].v, op[p].from)
          BY <5>3, ArtifactFields, RetargetedRows
        <5> QED BY <5>1, <5>2, <5>3
      <4>2. n \in 1 .. Len(revisions') /\ revisions'[n] = op[p].v
        BY RetargetedRows
      <4>3. Active = IF n = 1 THEN base' ELSE revisions'[n - 1]
        <5>1. CASE Len(revisions) = 0
          BY <5>1, RetargetedRows
        <5>2. CASE Len(revisions) # 0
          <6>1. /\ n # 1 /\ n - 1 = Len(revisions)
                /\ Len(revisions) \in 1 .. Len(revisions)
            BY <5>2, RetargetedRows
          <6> QED BY <6>1, RetargetedRows
        <5> QED BY <5>1, <5>2
      <4> QED BY <4>1, <4>2, <4>3
    <3>2. CASE f \notin Written(p)
      <4>1. \/ f = Manifest /\ base # 0
            \/ \E i \in 1 .. Len(revisions) :
                 /\ f.v = revisions[i]
                 /\ f.kind = "impact" => f.from = IF i = 1 THEN base ELSE revisions[i - 1]
            \/ f \in lost \/ \E q \in Clients : f \in Written(q)
        BY <2>3 DEF Inv, PinIsManifest
      <4>2. CASE \E i \in 1 .. Len(revisions) :
                   /\ f.v = revisions[i]
                   /\ f.kind = "impact" => f.from = IF i = 1 THEN base ELSE revisions[i - 1]
        <5>1. PICK i \in 1 .. Len(revisions) :
                /\ f.v = revisions[i]
                /\ f.kind = "impact" => f.from = IF i = 1 THEN base ELSE revisions[i - 1]
          BY <4>2
        <5>2. i \in 1 .. Len(revisions') /\ revisions'[i] = revisions[i]
          BY RetargetedRows
        <5>3. i # 1 => i - 1 \in 1 .. Len(revisions)
          BY RetargetedRows
        <5>4. i # 1 => revisions'[i - 1] = revisions[i - 1]
          BY <5>3, RetargetedRows
        <5> QED BY <5>1, <5>2, <5>4, RetargetedRows
      <4>3. CASE \E q \in Clients : f \in Written(q)
        BY <1>4, <3>2, <4>3
      <4> QED BY <1>1, <4>1, <4>2, <4>3, RetargetedRows
    <3> QED BY <3>1, <3>2
  <2> QED BY <1>1, <2>1, <2>2, <2>3 DEF PinIsManifest, Committed
<1> QED BY <1>2, <1>5, <1>7, <1>8 DEF ArtifactInv

(* Worker and controller touch neither the rows nor the artifacts.         *)
LEMMA LoopArtifacts ==
  ASSUME Inv, UNCHANGED <<base, revisions, files, op, lost>>, job'.pin = job.pin
  PROVE  ArtifactInv'
<1>1. \A q \in Clients : Written(q)' = Written(q)
  BY WrittenFrame
<1>2. Active' = Active
  BY DEF Active
<1>3. OpInv' /\ AloneInv'
  BY <1>1, <1>2 DEF Inv, OpInv, AloneInv, Committed
<1>4. PinIsManifest'
  BY <1>1, <1>2 DEF Inv, PinIsManifest
<1> QED BY <1>3, <1>4 DEF Inv, OpType, ArtifactInv

-----------------------------------------------------------------------------
(* Types.                                                                  *)

LEMMA OwnArtifactTypes ==
  ASSUME Inv, NEW p \in Clients
  PROVE  /\ Written(p) \subseteq Artifacts
         /\ op[p].at \in Retargets => Revision(p) \in Artifacts /\ Impact(p) \in Artifacts
<1>1. Written(p) \subseteq Artifacts
  BY DEF Inv, OpInv, ManifestType
<1>2. op[p] \in Ops
  BY DEF Inv, OpType
<1>3. op[p].at \in Retargets => op[p].v \in Approved /\ op[p].from \in Versions
  BY <1>2 DEF Inv, OpInv, Ops
<1> QED BY <1>1, <1>3, ArtifactFacts DEF Revision, Impact

LEMMA SameRows ==
  ASSUME Inv, contract' = contract, base' = base, revisions' = revisions,
         job' = job \/ job' = [job EXCEPT !.status = "dead"] \/ job' = [job EXCEPT !.status = "done"],
         files' \subseteq Artifacts, lost' \subseteq Artifacts
  PROVE  ManifestType'
<1>1. job' \in [status : {"active", "done", "dead"}, pin : Versions]
  BY DEF Inv, ManifestType
<1> QED BY <1>1 DEF Inv, ManifestType

LEMMA SameLoop ==
  ASSUME Inv, state' = state, rep' = rep, wkr' = wkr, ctl' = ctl, runs' = runs,
         tasks' \in Seq(SUBSET Cases), raced' = raced
  PROVE  LoopType'
BY DEF Inv, LoopType

(* The statuses after a look at the worktree.                              *)
LEMMA RefreshType ==
  ASSUME Inv, NEW v, NEW known, Refreshed(v, known)
  PROVE  /\ state' \in [Cases -> [status : {None, "open", "passing", "retired"}, offset : Nat]]
         /\ \A c \in Cases : state'[c].offset = state[c].offset
         /\ \A c \in Of(v) : state'[c].status = "passing" => c \in known
         /\ \A c \in Cases \ Of(v) : state'[c] = state[c]
<1> DEFINE status(c) == IF c \in known THEN "passing" ELSE "open"
<1> DEFINE new(c) == IF c \in Of(v) THEN [state[c] EXCEPT !.status = status(c)] ELSE state[c]
<1>1. state' = [c \in Cases |-> new(c)]
  BY DEF Refreshed
<1>2. \A c \in Cases : state[c] \in [status : {None, "open", "passing", "retired"}, offset : Nat]
  BY DEF Inv, LoopType
<1>3. ASSUME NEW c \in Cases
      PROVE  /\ new(c) \in [status : {None, "open", "passing", "retired"}, offset : Nat]
             /\ new(c).offset = state[c].offset
             /\ c \in Of(v) /\ new(c).status = "passing" => c \in known
             /\ c \notin Of(v) => new(c) = state[c]
  <2>1. CASE c \in Of(v) /\ c \in known
    BY <1>2, <2>1
  <2>2. CASE c \in Of(v) /\ c \notin known
    BY <1>2, <2>2
  <2>3. CASE c \notin Of(v)
    BY <1>2, <2>3
  <2> QED BY <2>1, <2>2, <2>3
<1>4. Of(v) \subseteq Cases
  BY DEF Of
<1> HIDE DEF new
<1> QED BY <1>1, <1>3, <1>4

LEMMA ClientTypes ==
  ASSUME NEW p \in Clients
  PROVE  Inv /\ (Attaching(p) \/ Retargeting(p) \/ Die(p)) => ManifestType' /\ LoopType'
<1> SUFFICES ASSUME Inv, Attaching(p) \/ Retargeting(p) \/ Die(p)
             PROVE ManifestType' /\ LoopType'
  OBVIOUS
<1>0. files \subseteq Artifacts /\ lost \subseteq Artifacts /\ tasks \in Seq(SUBSET Cases)
  BY DEF Inv, ManifestType, LoopType
<1>1. CASE Attach(p) \/ WriteManifest(p) \/ Retarget(p)
  <2>1. UNCHANGED <<contract, base, revisions, job, state, rep, tasks, wkr, ctl, runs,
                    lost, raced>>
    BY <1>1 DEF Attach, WriteManifest, Retarget, manifest, loop, history
  <2>2. files' \subseteq Artifacts
    BY <1>0, <1>1, ArtifactFacts DEF Attach, WriteManifest, Retarget
  <2> QED BY <1>0, <2>1, <2>2, SameRows, SameLoop
<1>2. CASE WriteRevision(p) \/ WriteImpact(p) \/ CheckPin(p) \/ RefuseRetarget(p)
  <2>1. UNCHANGED <<contract, base, revisions, job, state, rep, tasks, wkr, ctl, runs,
                    lost, raced>>
    BY <1>2 DEF WriteRevision, WriteImpact, CheckPin, RefuseRetarget, manifest, loop, history
  <2>2. files' \subseteq files \cup {Revision(p), Impact(p)} /\ op[p].at \in Retargets
    BY <1>2 DEF WriteRevision, WriteImpact, CheckPin, RefuseRetarget, Unlinked, Retargets
  <2>3. files' \subseteq Artifacts
    BY <1>0, <2>2, OwnArtifactTypes
  <2> QED BY <1>0, <2>1, <2>3, SameRows, SameLoop
<1>3. CASE Publish(p)
  <2>1. UNCHANGED <<contract, base, revisions, job, files, state, rep, wkr, ctl, runs,
                    lost, raced>>
    BY <1>3 DEF Publish, manifest, history
  <2>2. Affected(op[p].from, op[p].v) \in SUBSET Cases
    BY DEF Affected, Of
  <2>3. tasks' \in Seq(SUBSET Cases)
    BY <1>0, <1>3, <2>2 DEF Publish
  <2> QED BY <1>0, <2>1, <2>3, SameRows, SameLoop
<1>4. CASE Die(p)
  <2>1. UNCHANGED <<contract, base, revisions, job, files, state, rep, tasks, wkr, ctl,
                    runs, raced>>
    BY <1>4 DEF Die, manifest, loop
  <2>2. lost' \subseteq Artifacts
    BY <1>0, <1>4, OwnArtifactTypes DEF Die
  <2> QED BY <1>0, <2>1, <2>2, SameRows, SameLoop
<1>5. CASE CommitAttach(p)
  <2>1. UNCHANGED <<contract, rep, wkr, ctl, runs, lost, raced>>
    BY <1>5 DEF CommitAttach, history
  <2>2. CASE files' = files \ {Manifest} /\ UNCHANGED <<manifest, state, tasks>>
    <3>1. files' \subseteq Artifacts /\ UNCHANGED <<base, revisions, job, state, tasks>>
      BY <1>0, <2>2 DEF manifest
    <3> QED BY <1>0, <2>1, <3>1, SameRows, SameLoop
  <2>3. CASE Attached(p)
    <3>1. op[p].v \in Approved
      BY <1>5 DEF CommitAttach, Inv, OpInv, Attaches
    <3>2. op[p].v \in Versions
      BY <3>1, RetargetAssumption DEF Approved, Versions
    <3>3. job' \in [status : {"active", "done", "dead"}, pin : Versions]
      BY <2>3, <3>2 DEF Attached, Inv, ManifestType
    <3>4. ManifestType'
      BY <2>1, <2>3, <3>2, <3>3 DEF Attached, Inv, ManifestType
    <3>5. state' \in [Cases -> [status : {None, "open", "passing", "retired"}, offset : Nat]]
      <4> DEFINE status(c) == IF c \in Of(op[p].v) THEN "open" ELSE None
      <4>1. \A c \in Cases : status(c) \in {None, "open", "passing", "retired"}
        OBVIOUS
      <4>2. state' = [c \in Cases |-> [status |-> status(c), offset |-> 0]]
        BY <2>3 DEF Attached
      <4> HIDE DEF status
      <4> QED BY <4>1, <4>2
    <3>6. tasks' \in Seq(SUBSET Cases)
      <4>1. tasks' = <<Of(op[p].v)>> /\ Of(op[p].v) \in SUBSET Cases
        BY <2>3 DEF Attached, Of
      <4> QED BY <4>1
    <3>7. LoopType'
      BY <2>1, <3>5, <3>6 DEF Inv, LoopType
    <3> QED BY <3>4, <3>7
  <2> QED BY <1>5, <2>2, <2>3 DEF CommitAttach
<1>6. CASE CommitRetarget(p)
  <2> DEFINE affected == Affected(op[p].from, op[p].v)
  <2>1. UNCHANGED <<contract, base, files, rep, tasks, wkr, ctl, runs, lost>>
    BY <1>6 DEF CommitRetarget, loop
  <2>2. /\ op[p].v \in Approved /\ revisions \in Seq(Approved)
        /\ revisions' = Append(revisions, op[p].v)
    BY <1>6, RetargetedRows DEF CommitRetarget
  <2>3. op[p].v \in Versions /\ revisions' \in Seq(Approved)
    BY <2>2, RetargetAssumption DEF Approved, Versions
  <2>4. job' \in [status : {"active", "done", "dead"}, pin : Versions]
    <3> DEFINE status == IF affected = {} THEN job.status ELSE "active"
    <3>1. status \in {"active", "done", "dead"}
      BY DEF Inv, ManifestType
    <3>2. job' = [pin |-> op[p].v, status |-> status]
      BY <1>6 DEF CommitRetarget
    <3> HIDE DEF status
    <3> QED BY <2>3, <3>1, <3>2
  <2>5. ManifestType'
    BY <2>1, <2>3, <2>4 DEF Inv, ManifestType
  <2>6. state' \in [Cases -> [status : {None, "open", "passing", "retired"}, offset : Nat]]
    <3>1. state' = [c \in Cases |-> Retargeted(c, op[p].v, affected)]
      BY <1>6 DEF CommitRetarget
    <3>2. ASSUME NEW c \in Cases
          PROVE  Retargeted(c, op[p].v, affected)
                   \in [status : {None, "open", "passing", "retired"}, offset : Nat]
      <4>1. /\ state[c] \in [status : {None, "open", "passing", "retired"}, offset : Nat]
            /\ rep[c].attempt \in Nat
        BY DEF Inv, LoopType
      <4>2. [state[c] EXCEPT !.status = "retired"]
              \in [status : {None, "open", "passing", "retired"}, offset : Nat]
        BY <4>1
      <4>3. [status |-> "open", offset |-> rep[c].attempt]
              \in [status : {None, "open", "passing", "retired"}, offset : Nat]
        BY <4>1
      <4> QED BY <4>1, <4>2, <4>3 DEF Retargeted
    <3> HIDE DEF affected
    <3> QED BY <3>1, <3>2
  <2>7. raced' \in BOOLEAN
    BY <1>6 DEF CommitRetarget
  <2>8. LoopType'
    BY <2>1, <2>6, <2>7 DEF Inv, LoopType
  <2> QED BY <2>5, <2>8
<1> QED BY <1>1, <1>2, <1>3, <1>4, <1>5, <1>6 DEF Attaching, Retargeting

-----------------------------------------------------------------------------
(* The worker and the controller.                                          *)

Proven == UseInv /\ KnownInv /\ RepInv /\ PassingIsCurrent /\ DoneIsVerified

LoopInv == ManifestType /\ LoopType /\ BaseInv /\ Proven

LEMMA HasBase == Inv /\ (Worker \/ Controller) => base # 0
<1> SUFFICES ASSUME Inv, Worker \/ Controller PROVE base # 0 OBVIOUS
<1>1. wkr.at # "idle" \/ ctl.at # "idle" \/ tasks # <<>>
  BY DEF Worker, Controller, Take, Load, AgentDone, Begin, Executed, Recorded, Finish,
         ReadStates, WriteStates, Summarize, Done, Continue
<1> QED BY <1>1 DEF Inv, BaseInv

(* What has been passed stays so while the manifest does.                  *)
LEMMA PassedStays ==
  ASSUME contract' = contract, Active' = Active, passes \subseteq passes'
  PROVE  /\ \A c, run : Passed(c, run) => Passed(c, run)'
         /\ \A c : PassedOnce(c) => PassedOnce(c)'
BY DEF Passed, PassedOnce

LEMMA SameEvidence ==
  ASSUME Inv, UNCHANGED <<contract, base, revisions, state, rep, passes, raced>>,
         job'.status # "done" \/ job'.status = job.status
  PROVE  RepInv' /\ PassingIsCurrent' /\ DoneIsVerified'
<1>1. Active' = Active /\ Of(Active)' = Of(Active) /\ Passing(Active)' = Passing(Active)
  BY DEF Active, Of, Passing
<1>2. RepInv'
  BY <1>1 DEF Inv, RepInv, Passed
<1>3. PassingIsCurrent'
  BY <1>1 DEF Inv, PassingIsCurrent
<1>4. DoneIsVerified'
  BY <1>1 DEF Inv, DoneIsVerified
<1> QED BY <1>2, <1>3, <1>4

LEMMA PassingOnce ==
  Inv /\ base # 0 /\ ~raced => \A c \in Passing(Active) : PassedOnce(c)
BY DEF Inv, PassingIsCurrent, PassedOnce, Passed

LEMMA TakeInv == Inv /\ Take => LoopInv'
<1> SUFFICES ASSUME Inv, Take PROVE LoopInv' OBVIOUS
<1> DEFINE new == [Resting EXCEPT !.at = "load", !.v = Active, !.known = Passing(Active),
                                  !.todo = Head(tasks), !.run = runs + 1]
<1>0. base # 0
  BY HasBase DEF Worker
<1>1. /\ UNCHANGED <<contract, base, revisions, job, files, state, rep, ctl, lost,
                     passes, raced>>
      /\ wkr' = new /\ runs' = runs + 1 /\ tasks' = Tail(tasks)
      /\ tasks # <<>> /\ runs < MaxRuns
  BY DEF Take, manifest, history
<1>2. Head(tasks) \in SUBSET Cases /\ tasks' \in Seq(SUBSET Cases)
  <2>1. tasks \in Seq(SUBSET Cases) /\ tasks # <<>>
    BY <1>1 DEF Inv, LoopType
  <2> QED BY <1>1, <2>1
<1>3. runs + 1 \in 1 .. MaxRuns /\ runs' \in 0 .. MaxRuns
  BY <1>1, RetargetAssumption DEF Inv, LoopType
<1>4. Active \in Versions /\ Passing(Active) \in SUBSET Cases
  BY ActiveType DEF Inv, Passing, Of
<1>5. /\ new \in Workers /\ new.at = "load" /\ new.v = Active /\ new.known = Passing(Active)
      /\ new.run = runs + 1
  <2>1. runs + 1 \in Nat /\ Head(tasks) \in SUBSET Cases
    BY <1>2, <1>3
  <2> QED BY <1>4, <2>1 DEF Resting, Workers
<1> HIDE DEF new
<1>6. ManifestType'
  BY <1>1, SameRows DEF Inv, ManifestType
<1>7. LoopType'
  BY <1>1, <1>2, <1>3, <1>5 DEF Inv, LoopType
<1>8. Active' = Active
  BY <1>1 DEF Active
<1>9. UseInv'
  BY <1>1, <1>5, <1>8 DEF Inv, UseInv
<1>10. KnownInv'
  <2>1. ~raced => \A c \in new.known : PassedOnce(c)
    BY <1>0, <1>5, PassingOnce
  <2>2. \A c : PassedOnce(c)' <=> PassedOnce(c)
    BY <1>1, <1>8 DEF PassedOnce, Passed
  <2>3. \A c, run : Passed(c, run)' <=> Passed(c, run)
    BY <1>1, <1>8 DEF Passed
  <2> QED BY <1>1, <1>5, <2>1, <2>2, <2>3 DEF Inv, KnownInv
<1>11. BaseInv'
  BY <1>0, <1>1 DEF BaseInv
<1> QED BY <1>1, <1>6, <1>7, <1>9, <1>10, <1>11, SameEvidence DEF LoopInv, Proven

(* A look at the worktree writes back what was known of the cases.         *)
LEMMA RefreshEvidence ==
  ASSUME Inv, NEW v, NEW known, Refreshed(v, known), base # 0,
         UNCHANGED <<contract, base, revisions, rep, passes, raced, job>>,
         ~raced => v = Active /\ \A c \in known : PassedOnce(c)
  PROVE  RepInv' /\ PassingIsCurrent' /\ DoneIsVerified'
<1>1. Active' = Active /\ Of(Active)' = Of(Active) /\ Of(Active) \subseteq Cases
  BY DEF Active, Of
<1>2. /\ \A c \in Cases : state'[c].offset = state[c].offset
      /\ \A c \in Of(v) : state'[c].status = "passing" => c \in known
  BY RefreshType
<1>3. \A c, run : Passed(c, run)' <=> Passed(c, run)
  BY <1>1 DEF Passed
<1>4. RepInv'
  BY <1>1, <1>2, <1>3 DEF Inv, RepInv
<1>5. PassingIsCurrent'
  <2> SUFFICES ASSUME ~raced, NEW c \in Of(Active), state'[c].status = "passing"
               PROVE  PassedOnce(c)
    BY <1>1 DEF PassingIsCurrent, Passing, PassedOnce, Passed
  <2> QED BY <1>2
<1>6. DoneIsVerified'
  BY <1>1 DEF Inv, DoneIsVerified
<1> QED BY <1>4, <1>5, <1>6

LEMMA LoadInv == Inv /\ Load => LoopInv'
<1> SUFFICES ASSUME Inv, Load PROVE LoopInv' OBVIOUS
<1>0. base # 0
  BY HasBase DEF Worker
<1>1. /\ UNCHANGED <<contract, base, revisions, job, files, rep, tasks, ctl, runs,
                     lost, passes, raced>>
      /\ wkr.at = "load" /\ wkr' = [wkr EXCEPT !.at = "agent", !.known = {}]
      /\ Refreshed(wkr.v, wkr.known)
  BY DEF Load, manifest, history
<1>2. wkr' \in Workers /\ wkr'.at = "agent" /\ wkr'.run = wkr.run
  BY <1>1 DEF Inv, LoopType, Workers
<1>3. ManifestType'
  BY <1>1, SameRows DEF Inv, ManifestType
<1>4. LoopType'
  BY <1>1, <1>2, RefreshType DEF Inv, LoopType
<1>5. Active' = Active /\ \A c, run : Passed(c, run)' <=> Passed(c, run)
  BY <1>1 DEF Active, Passed
<1>6. \A c : PassedOnce(c)' <=> PassedOnce(c)
  BY <1>5 DEF PassedOnce
<1>7. UseInv' /\ KnownInv' /\ BaseInv'
  BY <1>0, <1>1, <1>2, <1>5, <1>6 DEF Inv, UseInv, KnownInv, BaseInv
<1>8. ~raced => wkr.v = Active /\ \A c \in wkr.known : PassedOnce(c)
  BY <1>1 DEF Inv, UseInv, KnownInv
<1> QED BY <1>0, <1>1, <1>3, <1>4, <1>7, <1>8, RefreshEvidence DEF LoopInv, Proven

LEMMA WriteStatesInv == Inv /\ WriteStates => LoopInv'
<1> SUFFICES ASSUME Inv, WriteStates PROVE LoopInv' OBVIOUS
<1>0. base # 0
  BY HasBase DEF Controller
<1>1. /\ UNCHANGED <<contract, base, revisions, job, files, rep, tasks, wkr, runs,
                     lost, passes, raced>>
      /\ ctl.at = "write" /\ ctl' = [ctl EXCEPT !.at = "summarize"]
      /\ Refreshed(ctl.v, ctl.known)
  BY DEF WriteStates, manifest, history
<1>2. ctl' \in Controllers /\ ctl'.at = "summarize" /\ ctl'.run = ctl.run /\ ctl'.v = ctl.v
  BY <1>1 DEF Inv, LoopType, Controllers
<1>3. ManifestType'
  BY <1>1, SameRows DEF Inv, ManifestType
<1>4. LoopType'
  BY <1>1, <1>2, RefreshType DEF Inv, LoopType
<1>5. Active' = Active /\ \A c, run : Passed(c, run)' <=> Passed(c, run)
  BY <1>1 DEF Active, Passed
<1>6. \A c : PassedOnce(c)' <=> PassedOnce(c)
  BY <1>5 DEF PassedOnce
<1>7. UseInv' /\ KnownInv' /\ BaseInv'
  BY <1>0, <1>1, <1>2, <1>5, <1>6 DEF Inv, UseInv, KnownInv, BaseInv
<1>8. ~raced => ctl.v = Active /\ \A c \in ctl.known : PassedOnce(c)
  BY <1>1 DEF Inv, UseInv, KnownInv
<1> QED BY <1>0, <1>1, <1>3, <1>4, <1>7, <1>8, RefreshEvidence DEF LoopInv, Proven

(* Steps of the worker, or of the controller, that change neither evidence *)
(* nor manifest.                                                           *)
LEMMA QuietStep ==
  ASSUME Inv, base # 0, UNCHANGED <<contract, base, revisions, files, state, rep, lost,
                                    passes, raced, runs>>,
         job' = job \/ job' = [job EXCEPT !.status = "dead"],
         tasks' \in Seq(SUBSET Cases), wkr' \in Workers, ctl' \in Controllers,
         wkr'.at # "idle" => wkr'.run \in 1 .. MaxRuns,
         wkr'.at \in {"execute", "record"} => wkr'.case \in Cases,
         ctl'.at # "idle" => ctl'.run \in 1 .. MaxRuns,
         UseInv', KnownInv'
  PROVE  LoopInv'
<1>1. ManifestType'
  BY SameRows DEF Inv, ManifestType
<1>2. LoopType' /\ BaseInv'
  BY DEF Inv, LoopType, BaseInv
<1>3. job'.status # "done" \/ job'.status = job.status
  BY DEF Inv, ManifestType
<1> QED BY <1>1, <1>2, <1>3, SameEvidence DEF LoopInv, Proven

LEMMA SamePassed ==
  ASSUME UNCHANGED <<contract, base, revisions, passes>>
  PROVE  /\ Active' = Active
         /\ \A c, run : Passed(c, run)' <=> Passed(c, run)
         /\ \A c : PassedOnce(c)' <=> PassedOnce(c)
BY DEF Active, Passed, PassedOnce

LEMMA RestingValues ==
  /\ Resting \in Workers /\ Resting.at = "idle"
  /\ Waiting \in Controllers /\ Waiting.at = "idle"
BY RetargetAssumption DEF Resting, Waiting, Workers, Controllers, Versions, None

LEMMA AgentDoneInv == Inv /\ AgentDone => LoopInv'
<1> SUFFICES ASSUME Inv, AgentDone PROVE LoopInv' OBVIOUS
<1>0. base # 0
  BY HasBase DEF Worker
<1>1. /\ UNCHANGED <<contract, base, revisions, files, state, rep, tasks, ctl, runs,
                     lost, passes, raced>>
      /\ wkr.at = "agent"
  BY DEF AgentDone, history
<1>2. /\ tasks' \in Seq(SUBSET Cases) /\ ctl' \in Controllers /\ wkr \in Workers
      /\ ctl'.at # "idle" => ctl'.run \in 1 .. MaxRuns
      /\ wkr.run \in 1 .. MaxRuns
  BY <1>1 DEF Inv, LoopType
<1>3. CASE /\ wkr.v = Active /\ wkr' = [wkr EXCEPT !.at = "verify"] /\ job' = job
  <2>1. wkr' \in Workers /\ wkr'.at = "verify" /\ wkr'.v = wkr.v /\ wkr'.run = wkr.run
    BY <1>2, <1>3 DEF Workers
  <2>2. UseInv' /\ KnownInv'
    BY <1>1, <1>3, <2>1, SamePassed DEF Inv, UseInv, KnownInv
  <2> QED BY <1>0, <1>1, <1>2, <1>3, <2>1, <2>2, QuietStep
<1>4. CASE wkr' = Resting /\ job' = [job EXCEPT !.status = "dead"]
  <2>1. UseInv' /\ KnownInv'
    BY <1>1, <1>4, SamePassed, RestingValues DEF Inv, UseInv, KnownInv
  <2> QED BY <1>0, <1>1, <1>2, <1>4, <2>1, QuietStep, RestingValues
<1> QED BY <1>3, <1>4 DEF AgentDone

LEMMA BeginInv == Inv /\ Begin => LoopInv'
<1> SUFFICES ASSUME Inv, Begin PROVE LoopInv' OBVIOUS
<1>0. base # 0
  BY HasBase DEF Worker
<1> DEFINE c == CHOOSE c \in wkr.todo : TRUE
<1>1. /\ UNCHANGED <<contract, base, revisions, job, files, state, rep, tasks, ctl,
                     runs, lost, passes, raced>>
      /\ wkr.at = "verify" /\ wkr.todo # {}
      /\ wkr' = [wkr EXCEPT !.at = "execute", !.case = c, !.attempt = rep[c].attempt + 1,
                            !.todo = @ \ {c}]
  BY DEF Begin, manifest, history
<1>2. /\ tasks' \in Seq(SUBSET Cases) /\ ctl' \in Controllers /\ wkr \in Workers
      /\ ctl'.at # "idle" => ctl'.run \in 1 .. MaxRuns
      /\ wkr.run \in 1 .. MaxRuns
  BY <1>1 DEF Inv, LoopType
<1>3. c \in Cases
  <2>1. c \in wkr.todo
    BY <1>1
  <2> QED BY <1>2, <2>1 DEF Workers
<1>4. rep[c].attempt + 1 \in Nat
  BY <1>3 DEF Inv, LoopType
<1> HIDE DEF c
<1>5. wkr' \in Workers
  BY <1>1, <1>2, <1>3, <1>4 DEF Workers
<1>6. wkr'.at = "execute" /\ wkr'.case = c /\ wkr'.v = wkr.v /\ wkr'.run = wkr.run
  BY <1>1, <1>2 DEF Workers
<1>7. UseInv' /\ KnownInv'
  BY <1>1, <1>6, SamePassed DEF Inv, UseInv, KnownInv
<1> QED BY <1>0, <1>1, <1>2, <1>3, <1>5, <1>6, <1>7, QuietStep

LEMMA FinishInv == Inv /\ Finish => LoopInv'
<1> SUFFICES ASSUME Inv, Finish PROVE LoopInv' OBVIOUS
<1>0. base # 0
  BY HasBase DEF Worker
<1>1. /\ UNCHANGED <<contract, base, revisions, job, files, state, rep, tasks, runs,
                     lost, passes, raced>>
      /\ wkr.at = "verify" /\ wkr' = Resting
      /\ ctl' = [Waiting EXCEPT !.at = "read", !.run = wkr.run]
  BY DEF Finish, manifest, history
<1>2. tasks' \in Seq(SUBSET Cases) /\ wkr \in Workers /\ wkr.run \in 1 .. MaxRuns
  BY <1>1 DEF Inv, LoopType
<1>3. wkr.run \in Nat
  BY <1>2 DEF Workers
<1>4. ctl' \in Controllers /\ ctl'.at = "read" /\ ctl'.run = wkr.run
  BY <1>1, <1>3, RestingValues DEF Controllers
<1>5. UseInv' /\ KnownInv'
  BY <1>1, <1>4, RestingValues, SamePassed DEF Inv, UseInv, KnownInv
<1> QED BY <1>0, <1>1, <1>2, <1>4, <1>5, QuietStep, RestingValues

LEMMA ReadStatesInv == Inv /\ ReadStates => LoopInv'
<1> SUFFICES ASSUME Inv, ReadStates PROVE LoopInv' OBVIOUS
<1>0. base # 0
  BY HasBase DEF Controller
<1>1. /\ UNCHANGED <<contract, base, revisions, job, files, state, rep, tasks, wkr,
                     runs, lost, passes, raced>>
      /\ ctl.at = "read"
      /\ ctl' = [ctl EXCEPT !.at = "write", !.v = Active, !.known = Passing(Active)]
  BY DEF ReadStates, manifest, history
<1>2. /\ tasks' \in Seq(SUBSET Cases) /\ wkr' \in Workers /\ ctl \in Controllers
      /\ wkr'.at # "idle" => wkr'.run \in 1 .. MaxRuns
      /\ wkr'.at \in {"execute", "record"} => wkr'.case \in Cases
      /\ ctl.run \in 1 .. MaxRuns
  BY <1>1 DEF Inv, LoopType
<1>3. Active \in Versions /\ Passing(Active) \in SUBSET Cases
  BY ActiveType DEF Inv, Passing, Of
<1>4. /\ ctl' \in Controllers /\ ctl'.at = "write" /\ ctl'.v = Active
      /\ ctl'.known = Passing(Active) /\ ctl'.run = ctl.run
  BY <1>1, <1>2, <1>3 DEF Controllers
<1>5. UseInv'
  BY <1>1, <1>4, SamePassed DEF Inv, UseInv
<1>6. KnownInv'
  <2>1. ~raced => \A c \in ctl'.known : PassedOnce(c)
    BY <1>0, <1>4, PassingOnce
  <2> QED BY <1>1, <1>4, <2>1, SamePassed DEF Inv, KnownInv
<1> QED BY <1>0, <1>1, <1>2, <1>4, <1>5, <1>6, QuietStep

LEMMA SummarizeInv == Inv /\ Summarize => LoopInv'
<1> SUFFICES ASSUME Inv, Summarize PROVE LoopInv' OBVIOUS
<1>0. base # 0
  BY HasBase DEF Controller
<1> DEFINE fresh == {c \in Of(ctl.v) : Fresh(c)}
<1>1. /\ UNCHANGED <<contract, base, revisions, job, files, state, rep, tasks, wkr,
                     runs, lost, passes, raced>>
      /\ ctl.at = "summarize"
      /\ ctl' = [ctl EXCEPT !.at = "decide", !.known = fresh]
  BY DEF Summarize, manifest, history
<1>2. /\ tasks' \in Seq(SUBSET Cases) /\ wkr' \in Workers /\ ctl \in Controllers
      /\ wkr'.at # "idle" => wkr'.run \in 1 .. MaxRuns
      /\ wkr'.at \in {"execute", "record"} => wkr'.case \in Cases
      /\ ctl.run \in 1 .. MaxRuns
  BY <1>1 DEF Inv, LoopType
<1>3. fresh \in SUBSET Cases
  BY DEF Of
<1>4. ~raced => ctl.v = Active /\ \A c \in fresh : Passed(c, ctl.run)
  <2> SUFFICES ASSUME ~raced PROVE ctl.v = Active /\ \A c \in fresh : Passed(c, ctl.run)
    OBVIOUS
  <2>1. ctl.v = Active
    BY <1>1 DEF Inv, UseInv
  <2>2. ASSUME NEW c \in fresh PROVE Passed(c, ctl.run)
    <3>1. c \in Of(Active) /\ rep[c].passed = TRUE /\ rep[c].attempt > state[c].offset
          /\ rep[c].run = ctl.run
      <4>1. c \in Cases /\ rep[c].passed \in BOOLEAN
        BY <1>3 DEF Inv, LoopType
      <4> QED BY <2>1, <4>1 DEF Fresh
    <3> QED BY <1>0, <3>1 DEF Inv, RepInv
  <2> QED BY <2>1, <2>2
<1> HIDE DEF fresh
<1>5. /\ ctl' \in Controllers /\ ctl'.at = "decide" /\ ctl'.v = ctl.v
      /\ ctl'.known = fresh /\ ctl'.run = ctl.run
  BY <1>1, <1>2, <1>3 DEF Controllers
<1>6. UseInv'
  BY <1>1, <1>4, <1>5, SamePassed DEF Inv, UseInv
<1>7. KnownInv'
  BY <1>1, <1>4, <1>5, SamePassed DEF Inv, KnownInv
<1> QED BY <1>0, <1>1, <1>2, <1>5, <1>6, <1>7, QuietStep

LEMMA ContinueInv == Inv /\ Continue => LoopInv'
<1> SUFFICES ASSUME Inv, Continue PROVE LoopInv' OBVIOUS
<1>0. base # 0
  BY HasBase DEF Controller
<1>1. /\ UNCHANGED <<contract, base, revisions, job, files, state, rep, wkr, runs,
                     lost, passes, raced>>
      /\ ctl' = Waiting
  BY DEF Continue, manifest, history
<1>2. PICK cases \in SUBSET Of(ctl.v) : tasks' = Append(tasks, cases)
  BY DEF Continue
<1>3. tasks' \in Seq(SUBSET Cases)
  <2>1. cases \in SUBSET Cases /\ tasks \in Seq(SUBSET Cases)
    BY DEF Of, Inv, LoopType
  <2> QED BY <1>2, <2>1
<1>4. /\ wkr' \in Workers
      /\ wkr'.at # "idle" => wkr'.run \in 1 .. MaxRuns
      /\ wkr'.at \in {"execute", "record"} => wkr'.case \in Cases
  BY <1>1 DEF Inv, LoopType
<1>5. UseInv' /\ KnownInv'
  BY <1>1, RestingValues, SamePassed DEF Inv, UseInv, KnownInv
<1> QED BY <1>0, <1>1, <1>3, <1>4, <1>5, QuietStep, RestingValues

LEMMA DoneInv == Inv /\ Done => LoopInv'
<1> SUFFICES ASSUME Inv, Done PROVE LoopInv' OBVIOUS
<1>0. base # 0
  BY HasBase DEF Controller
<1>1. /\ UNCHANGED <<contract, base, revisions, files, state, rep, tasks, wkr, runs,
                     lost, passes, raced>>
      /\ ctl' = Waiting /\ ctl.at = "decide" /\ Of(ctl.v) \subseteq ctl.known
      /\ job' = [job EXCEPT !.status = "done"]
  BY DEF Done, history
<1>2. UseInv' /\ KnownInv'
  BY <1>1, RestingValues, SamePassed DEF Inv, UseInv, KnownInv
<1>3. ManifestType'
  BY <1>1, SameRows DEF Inv, ManifestType
<1>4. LoopType' /\ BaseInv'
  BY <1>0, <1>1, RestingValues DEF Inv, LoopType, BaseInv
<1>5. Active' = Active /\ Of(Active)' = Of(Active) /\ Passing(Active)' = Passing(Active)
  BY <1>1 DEF Active, Of, Passing
<1>6. RepInv' /\ PassingIsCurrent'
  BY <1>1, <1>5 DEF Inv, RepInv, Passed, PassingIsCurrent
<1>7. DoneIsVerified'
  <2> SUFFICES ASSUME ~raced
               PROVE  \E run \in 1 .. MaxRuns : \A c \in Of(Active) : Passed(c, run)
    BY <1>1, <1>5 DEF DoneIsVerified, Passed
  <2>1. ctl.v = Active /\ \A c \in ctl.known : Passed(c, ctl.run)
    BY <1>1 DEF Inv, UseInv, KnownInv
  <2>2. ctl.run \in 1 .. MaxRuns
    BY <1>1 DEF Inv, LoopType
  <2> QED BY <1>1, <2>1, <2>2
<1> QED BY <1>2, <1>3, <1>4, <1>6, <1>7 DEF LoopInv, Proven

LEMMA ExecutedInv == Inv /\ Executed => LoopInv'
<1> SUFFICES ASSUME Inv, Executed PROVE LoopInv' OBVIOUS
<1>0. base # 0
  BY HasBase DEF Worker
<1>1. /\ UNCHANGED <<contract, base, revisions, job, files, state, tasks, ctl, runs,
                     lost, raced>>
      /\ wkr.at = "execute" /\ wkr' = [wkr EXCEPT !.at = "record"]
  BY DEF Executed, manifest
<1>2. /\ wkr \in Workers /\ wkr.run \in 1 .. MaxRuns /\ wkr.case \in Cases
      /\ wkr.attempt \in Nat /\ wkr.run \in Nat
  BY <1>1 DEF Inv, LoopType, Workers
<1>3. PICK passed \in BOOLEAN :
        /\ rep' = [rep EXCEPT ![wkr.case] =
             [attempt |-> wkr.attempt, passed |-> passed, run |-> wkr.run]]
        /\ passes' = passes \cup IF passed
             THEN {<<wkr.case, contract[wkr.v][wkr.case], wkr.run>>} ELSE {}
  BY DEF Executed
<1> DEFINE new == [attempt |-> wkr.attempt, passed |-> passed, run |-> wkr.run]
<1>4. /\ new \in [attempt : Nat, passed : BOOLEAN, run : Nat]
      /\ new.run = wkr.run /\ new.passed = passed
  BY <1>2
<1>5. rep' = [rep EXCEPT ![wkr.case] = new]
  BY <1>3
<1>6. /\ rep' \in [Cases -> [attempt : Nat, passed : BOOLEAN, run : Nat]]
      /\ rep'[wkr.case] = new /\ \A c \in Cases : c # wkr.case => rep'[c] = rep[c]
  BY <1>2, <1>4, <1>5 DEF Inv, LoopType
<1> HIDE DEF new
<1>7. /\ wkr' \in Workers /\ wkr'.at = "record" /\ wkr'.case = wkr.case /\ wkr'.v = wkr.v
      /\ wkr'.run = wkr.run
  BY <1>1, <1>2 DEF Workers
<1>8. ManifestType' /\ BaseInv'
  BY <1>0, <1>1, SameRows DEF Inv, ManifestType, BaseInv
<1>9. LoopType'
  BY <1>1, <1>2, <1>6, <1>7 DEF Inv, LoopType
<1>10. Active' = Active /\ Of(Active)' = Of(Active) /\ Passing(Active)' = Passing(Active)
  BY <1>1 DEF Active, Of, Passing
<1>11. passes \subseteq passes'
  BY <1>3
<1>12. UseInv'
  BY <1>1, <1>7, <1>10 DEF Inv, UseInv
<1>13. ~raced /\ passed = TRUE => <<wkr.case, contract[Active][wkr.case], wkr.run>> \in passes'
  <2>1. ~raced => wkr.v = Active
    BY <1>1 DEF Inv, UseInv
  <2> QED BY <1>3, <2>1
<1>14. ~raced =>
         /\ ctl.at = "write" => \A c \in ctl.known : \E run \in 1 .. MaxRuns :
              <<c, contract[Active][c], run>> \in passes'
         /\ ctl.at = "decide" => \A c \in ctl.known :
              <<c, contract[Active][c], ctl.run>> \in passes'
  BY <1>11 DEF Inv, KnownInv, PassedOnce, Passed
<1>15. KnownInv'
  <2>1. rep'[wkr'.case].passed = passed
    BY <1>4, <1>6, <1>7
  <2> QED BY <1>1, <1>7, <1>10, <1>13, <1>14, <2>1 DEF KnownInv, PassedOnce, Passed
<1>16. RepInv'
  <2> SUFFICES ASSUME ~raced, NEW c \in Of(Active), rep'[c].passed = TRUE,
                      rep'[c].attempt > state[c].offset
               PROVE  <<c, contract'[Active'][c], rep'[c].run>> \in passes'
    BY <1>1, <1>10 DEF RepInv, Passed
  <2>0. c \in Cases
    BY DEF Of
  <2>1. CASE c = wkr.case
    <3>1. passed = TRUE /\ rep'[c].run = wkr.run
      BY <1>4, <1>6, <2>1
    <3>2. wkr.v = Active
      BY <1>1 DEF Inv, UseInv
    <3>3. <<wkr.case, contract[Active][wkr.case], wkr.run>> \in passes'
      BY <1>3, <3>1, <3>2
    <3> QED BY <1>1, <1>10, <2>1, <3>1, <3>3
  <2>2. CASE c # wkr.case
    <3>1. rep'[c] = rep[c]
      BY <1>6, <2>0, <2>2
    <3>2. <<c, contract[Active][c], rep[c].run>> \in passes
      BY <1>0, <3>1 DEF Inv, RepInv, Passed
    <3> QED BY <1>1, <1>10, <1>11, <3>1, <3>2
  <2> QED BY <2>1, <2>2
<1>17. PassingIsCurrent' /\ DoneIsVerified'
  BY <1>1, <1>10, <1>11 DEF Inv, PassingIsCurrent, DoneIsVerified
<1> QED BY <1>8, <1>9, <1>12, <1>15, <1>16, <1>17 DEF LoopInv, Proven

LEMMA RecordedInv == Inv /\ Recorded => LoopInv'
<1> SUFFICES ASSUME Inv, Recorded PROVE LoopInv' OBVIOUS
<1>0. base # 0
  BY HasBase DEF Worker
<1> DEFINE status == IF rep[wkr.case].passed THEN "passing" ELSE "open"
<1>1. /\ UNCHANGED <<contract, base, revisions, job, files, rep, tasks, ctl, runs,
                     lost, passes, raced>>
      /\ wkr.at = "record" /\ wkr' = [wkr EXCEPT !.at = "verify", !.case = None, !.attempt = 0]
      /\ state' = [state EXCEPT ![wkr.case].status = status]
  BY DEF Recorded, manifest, history
<1>2. wkr \in Workers /\ wkr.run \in 1 .. MaxRuns /\ wkr.case \in Cases
  BY <1>1 DEF Inv, LoopType
<1>3. wkr' \in Workers /\ wkr'.at = "verify" /\ wkr'.v = wkr.v /\ wkr'.run = wkr.run
  BY <1>1, <1>2 DEF Workers
<1>4. /\ status \in {"passing", "open"}
      /\ status = "passing" => rep[wkr.case].passed = TRUE
  <2>1. rep[wkr.case].passed \in BOOLEAN
    BY <1>2 DEF Inv, LoopType
  <2> QED BY <2>1
<1> HIDE DEF status
<1>5. /\ state' \in [Cases -> [status : {None, "open", "passing", "retired"}, offset : Nat]]
      /\ state'[wkr.case].status = status /\ state'[wkr.case].offset = state[wkr.case].offset
      /\ \A c \in Cases : c # wkr.case => state'[c] = state[c]
  <2>1. state[wkr.case] \in [status : {None, "open", "passing", "retired"}, offset : Nat]
    BY <1>2 DEF Inv, LoopType
  <2> DEFINE new == [state[wkr.case] EXCEPT !.status = status]
  <2>2. /\ new \in [status : {None, "open", "passing", "retired"}, offset : Nat]
        /\ new.status = status /\ new.offset = state[wkr.case].offset
    BY <1>4, <2>1
  <2>3. state' = [state EXCEPT ![wkr.case] = new]
    BY <1>1
  <2> HIDE DEF new
  <2> QED BY <1>2, <2>2, <2>3 DEF Inv, LoopType
<1>6. ManifestType' /\ BaseInv'
  BY <1>0, <1>1, SameRows DEF Inv, ManifestType, BaseInv
<1>7. LoopType'
  BY <1>1, <1>2, <1>3, <1>5 DEF Inv, LoopType
<1>8. /\ Active' = Active /\ Of(Active)' = Of(Active) /\ Of(Active) \subseteq Cases
  BY <1>1 DEF Active, Of
<1>9. UseInv' /\ KnownInv'
  BY <1>1, <1>3, SamePassed DEF Inv, UseInv, KnownInv
<1>10. RepInv'
  <2>1. \A c \in Cases : state'[c].offset = state[c].offset
    BY <1>5
  <2> QED BY <1>1, <1>8, <2>1, SamePassed DEF Inv, RepInv
<1>11. PassingIsCurrent'
  <2> SUFFICES ASSUME ~raced, NEW c \in Of(Active), state'[c].status = "passing"
               PROVE  PassedOnce(c)
    BY <1>1, <1>8 DEF PassingIsCurrent, Passing, PassedOnce, Passed
  <2>1. CASE c = wkr.case
    <3>1. rep[wkr.case].passed = TRUE
      BY <1>4, <1>5, <2>1
    <3>2. Passed(wkr.case, wkr.run)
      BY <1>1, <3>1 DEF Inv, KnownInv
    <3> QED BY <1>2, <2>1, <3>2 DEF PassedOnce
  <2>2. CASE c # wkr.case
    <3>1. c \in Passing(Active)
      BY <1>5, <1>8, <2>2 DEF Passing
    <3> QED BY <1>0, <3>1, PassingOnce
  <2> QED BY <2>1, <2>2
<1>12. DoneIsVerified'
  BY <1>1, <1>8 DEF Inv, DoneIsVerified
<1> QED BY <1>6, <1>7, <1>9, <1>10, <1>11, <1>12 DEF LoopInv, Proven

-----------------------------------------------------------------------------
(* What clients do to the evidence.                                        *)

LEMMA ClientQuiet ==
  ASSUME Inv, UNCHANGED <<contract, base, revisions, job, state, rep, wkr, ctl, passes,
                          raced>>,
         base = 0 => tasks' = tasks
  PROVE  BaseInv' /\ Proven'
<1>1. BaseInv'
  BY DEF Inv, BaseInv
<1>2. UseInv' /\ KnownInv'
  BY SamePassed DEF Inv, UseInv, KnownInv
<1> QED BY <1>1, <1>2, SameEvidence DEF Proven

LEMMA CommitAttachProven ==
  ASSUME NEW p \in Clients PROVE Inv /\ CommitAttach(p) => BaseInv' /\ Proven'
<1> SUFFICES ASSUME Inv, CommitAttach(p) PROVE BaseInv' /\ Proven' OBVIOUS
<1>1. UNCHANGED <<contract, rep, wkr, ctl, runs, lost, passes, raced>>
  BY DEF CommitAttach, history
<1>2. CASE files' = files \ {Manifest} /\ UNCHANGED <<manifest, state, tasks>>
  BY <1>1, <1>2, ClientQuiet DEF manifest
<1>3. CASE Attached(p)
  <2>1. op[p].v \in Approved /\ base = 0
    BY DEF CommitAttach, Inv, OpInv, Attaches
  <2>2. base' # 0
    BY <1>3, <2>1 DEF Attached, Approved
  <2>3. /\ wkr'.at = "idle" /\ ctl'.at = "idle" /\ job.status = "active"
        /\ \A c \in Cases : rep[c].attempt = 0
    BY <1>1, <2>1 DEF Inv, BaseInv
  <2>4. BaseInv' /\ UseInv' /\ KnownInv'
    BY <2>2, <2>3 DEF BaseInv, UseInv, KnownInv
  <2>5. \A c \in Cases : state'[c].status # "passing" /\ state'[c].offset = 0
    BY <1>3 DEF Attached, None
  <2>6. RepInv' /\ PassingIsCurrent'
    <3>1. \A c \in Cases : ~(rep'[c].attempt > state'[c].offset)
      BY <1>1, <2>3, <2>5
    <3> QED BY <2>5, <3>1 DEF RepInv, PassingIsCurrent, Passing, Of
  <2>7. DoneIsVerified'
    <3>1. job'.status = "active"
      BY <1>3, <2>3 DEF Attached, Inv, ManifestType
    <3> QED BY <3>1 DEF DoneIsVerified
  <2> QED BY <2>4, <2>6, <2>7 DEF Proven
<1> QED BY <1>2, <1>3 DEF CommitAttach

(* A retarget keeps a case that it did not change, and has it run again if *)
(* it did.                                                                 *)
LEMMA CommitRetargetProven ==
  ASSUME NEW p \in Clients PROVE Inv /\ CommitRetarget(p) => BaseInv' /\ Proven'
<1> SUFFICES ASSUME Inv, CommitRetarget(p) PROVE BaseInv' /\ Proven' OBVIOUS
<1>0. PICK v \in Approved : v = op[p].v
  BY RetargetedRows
<1> DEFINE affected == Affected(Active, v)
<1>1. /\ UNCHANGED <<contract, base, rep, tasks, wkr, ctl, runs, passes>>
      /\ raced' = (raced \/ MidUse)
  BY DEF CommitRetarget, loop
<1>2. base # 0 /\ op[p].from = Active /\ Active' = v
  BY <1>0, RetargetedRows
<1>3. state' = [c \in Cases |-> Retargeted(c, v, affected)]
  BY <1>0, <1>2 DEF CommitRetarget
<1>4. affected # {} => job'.status = "active"
  BY <1>0, <1>2 DEF CommitRetarget
<1>5. affected = {} => job'.status = job.status
  BY <1>0, <1>2 DEF CommitRetarget
<1>6. Of(v)' = Of(v) /\ Of(v) \subseteq Cases
  BY <1>1 DEF Of
<1>7. \A c \in Of(v) : c \notin affected => c \in Of(Active) /\ contract[v][c] = contract[Active][c]
  BY DEF Affected, Of
<1>8. BaseInv'
  BY <1>1, <1>2 DEF BaseInv
<1>9. ~raced' => ~raced /\ wkr.at \notin {"load", "verify", "execute", "record"} /\ ctl = Waiting
  BY <1>1 DEF MidUse
<1>10. UseInv' /\ KnownInv'
  BY <1>1, <1>9, RestingValues DEF UseInv, KnownInv
<1>11. ASSUME NEW c \in Of(v)
       PROVE  \/ state'[c].status = "open" /\ state'[c].offset = rep[c].attempt
              \/ c \notin affected /\ state'[c] = state[c]
  <2>1. c \in Cases /\ state'[c] = Retargeted(c, v, affected)
    BY <1>3, <1>6
  <2> QED BY <2>1 DEF Retargeted
<1>12. RepInv'
  <2> SUFFICES ASSUME ~raced', NEW c \in Of(v), rep[c].passed = TRUE,
                      rep[c].attempt > state'[c].offset
               PROVE  <<c, contract[v][c], rep[c].run>> \in passes
    BY <1>1, <1>2, <1>6 DEF RepInv, Passed
  <2>1. rep[c].attempt \in Nat
    BY <1>6 DEF Inv, LoopType
  <2>2. c \notin affected /\ state'[c] = state[c]
    BY <1>11, <2>1
  <2>3. c \in Of(Active) /\ contract[v][c] = contract[Active][c]
    BY <1>7, <2>2
  <2> QED BY <1>2, <1>9, <2>2, <2>3 DEF Inv, RepInv, Passed
<1>13. PassingIsCurrent'
  <2> SUFFICES ASSUME ~raced', NEW c \in Of(v), state'[c].status = "passing"
               PROVE  \E run \in 1 .. MaxRuns : <<c, contract[v][c], run>> \in passes
    BY <1>1, <1>2, <1>6 DEF PassingIsCurrent, Passing
  <2>1. c \notin affected /\ state'[c] = state[c]
    BY <1>11
  <2>2. c \in Of(Active) /\ contract[v][c] = contract[Active][c]
    BY <1>7, <2>1
  <2>3. c \in Passing(Active)
    BY <2>1, <2>2 DEF Passing
  <2> QED BY <1>2, <1>9, <2>2, <2>3 DEF Inv, PassingIsCurrent
<1>14. DoneIsVerified'
  <2> SUFFICES ASSUME ~raced', job'.status = "done"
               PROVE  \E run \in 1 .. MaxRuns : \A c \in Of(v) : <<c, contract[v][c], run>> \in passes
    BY <1>1, <1>2, <1>6 DEF DoneIsVerified
  <2>1. affected = {} /\ job.status = "done"
    BY <1>4, <1>5
  <2>2. PICK run \in 1 .. MaxRuns : \A c \in Of(Active) : <<c, contract[Active][c], run>> \in passes
    BY <1>9, <2>1 DEF Inv, DoneIsVerified
  <2>3. \A c \in Of(v) : c \in Of(Active) /\ contract[v][c] = contract[Active][c]
    BY <1>7, <2>1
  <2> HIDE DEF affected
  <2> QED BY <2>2, <2>3
<1> QED BY <1>8, <1>10, <1>12, <1>13, <1>14 DEF Proven

-----------------------------------------------------------------------------
(* Steps and behaviours.                                                   *)

LEMMA ClientInv ==
  ASSUME NEW p \in Clients
  PROVE  Inv /\ (Attaching(p) \/ Retargeting(p) \/ Die(p)) => Inv'
<1> SUFFICES ASSUME Inv, Attaching(p) \/ Retargeting(p) \/ Die(p) PROVE Inv' OBVIOUS
<1>1. ManifestType' /\ LoopType'
  BY ClientTypes
<1>2. ArtifactInv'
  BY AttachArtifacts, WriteManifestArtifacts, CommitAttachArtifacts, RetargetArtifacts,
     WriteRevisionArtifacts, WriteImpactArtifacts, CheckPinArtifacts, CommitRetargetArtifacts,
     EndingArtifacts DEF Attaching, Retargeting
<1>3. BaseInv' /\ Proven'
  <2>1. CASE Attach(p) \/ WriteManifest(p) \/ Retarget(p) \/ Die(p)
    BY <2>1, ClientQuiet DEF Attach, WriteManifest, Retarget, Die, manifest, loop, history
  <2>2. CASE WriteRevision(p) \/ WriteImpact(p) \/ CheckPin(p) \/ RefuseRetarget(p)
    BY <2>2, ClientQuiet DEF WriteRevision, WriteImpact, CheckPin, RefuseRetarget,
       manifest, loop, history
  <2>3. CASE Publish(p)
    <3>1. base # 0
      BY <2>3 DEF Publish, Inv, OpInv, Retargets
    <3> QED BY <2>3, <3>1, ClientQuiet DEF Publish, manifest, history
  <2>4. CASE CommitAttach(p) \/ CommitRetarget(p)
    BY <2>4, CommitAttachProven, CommitRetargetProven
  <2> QED BY <2>1, <2>2, <2>3, <2>4 DEF Attaching, Retargeting
<1> QED BY <1>1, <1>2, <1>3 DEF Inv, ArtifactInv, Proven

LEMMA WorkInv == Inv /\ (Worker \/ Controller) => Inv'
<1> SUFFICES ASSUME Inv, Worker \/ Controller PROVE Inv' OBVIOUS
<1>1. LoopInv'
  BY TakeInv, LoadInv, AgentDoneInv, BeginInv, ExecutedInv, RecordedInv, FinishInv,
     ReadStatesInv, WriteStatesInv, SummarizeInv, DoneInv, ContinueInv DEF Worker, Controller
<1>2. UNCHANGED <<base, revisions, files, op, lost>>
  BY DEF Worker, Controller, Take, Load, AgentDone, Begin, Executed, Recorded, Finish,
         ReadStates, WriteStates, Summarize, Done, Continue, manifest, history
<1>3. job'.pin = job.pin
  <2>1. \/ job' = job
        \/ job' = [job EXCEPT !.status = "dead"]
        \/ job' = [job EXCEPT !.status = "done"]
    BY DEF Worker, Controller, Take, Load, AgentDone, Begin, Executed, Recorded, Finish,
           ReadStates, WriteStates, Summarize, Done, Continue, manifest
  <2> QED BY <2>1 DEF Inv, ManifestType
<1>4. ArtifactInv'
  BY <1>2, <1>3, LoopArtifacts
<1> QED BY <1>1, <1>4 DEF Inv, ArtifactInv, LoopInv, Proven

LEMMA NextInv == Inv /\ [Next]_vars => Inv'
<1> SUFFICES ASSUME Inv, [Next]_vars PROVE Inv' OBVIOUS
<1>1. CASE \E p \in Clients : Attaching(p) \/ Retargeting(p) \/ Die(p)
  BY <1>1, ClientInv
<1>2. CASE Worker \/ Controller
  BY <1>2, WorkInv
<1>3. CASE UNCHANGED vars
  <2>1. UNCHANGED <<contract, job, base, revisions, files, state, rep, tasks, op, wkr, ctl, runs,
                    lost, passes, raced>>
    BY <1>3 DEF vars, manifest, loop, history
  <2>2. ManifestType' /\ LoopType'
    BY <2>1 DEF Inv, ManifestType, LoopType
  <2>3. ArtifactInv'
    BY <2>1, LoopArtifacts
  <2>4. BaseInv' /\ Proven'
    BY <2>1, ClientQuiet
  <2> QED BY <2>2, <2>3, <2>4 DEF Inv, ArtifactInv, Proven
<1> QED BY <1>1, <1>2, <1>3 DEF Next

LEMMA Inductive == Spec => []Inv
BY InitInv, NextInv, PTL DEF Spec

(* Whatever clients, worker and controller do, and wherever a client dies, *)
(* the job is pinned to the version of its active manifest; the artifacts  *)
(* of every row are there, and no others but those of an operation.        *)
THEOREM PinHolds == Spec => []PinIsManifest
<1>1. Inv => PinIsManifest
  BY DEF Inv
<1> QED BY <1>1, Inductive, PTL

(* A case that counts as passing has passed as the pinned version states   *)
(* it, unless a retarget came while the evidence was being made.           *)
THEOREM PassingHolds == Spec => []PassingIsCurrent
<1>1. Inv => PassingIsCurrent
  BY DEF Inv
<1> QED BY <1>1, Inductive, PTL

(* A job is done only with every case of the pinned version passed in one  *)
(* run, with the same exception.                                           *)
THEOREM DoneHolds == Spec => []DoneIsVerified
<1>1. Inv => DoneIsVerified
  BY DEF Inv
<1> QED BY <1>1, Inductive, PTL

(* No two clients hold the same artifact: what one unlinks is its own.     *)
THEOREM ArtifactsAlone == Spec => []AloneInv
<1>1. Inv => AloneInv
  BY DEF Inv
<1> QED BY <1>1, Inductive, PTL

(* Rows, operations, statuses and evidence keep their types.               *)
THEOREM TypeCorrect == Spec => [](ManifestType /\ OpType /\ LoopType)
<1>1. Inv => ManifestType /\ OpType /\ LoopType
  BY DEF Inv
<1> QED BY <1>1, Inductive, PTL

=============================================================================
