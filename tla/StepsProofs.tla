------------------------------ MODULE StepsProofs ------------------------------
(***************************************************************************)
(* Theorems about Steps, in two layers.                                    *)
(* Inv holds whatever fails: types, how far an operation has come (OpInv), *)
(* what is under review (ReviewInv), the state of an approval (ApproveInv) *)
(* and that every approach anywhere is for the next target (FitsInv).      *)
(* HistoryInv holds unless an undo dies half way: files, step log and the  *)
(* commits in effect agree at HEAD (HeadInv), and in what an approval, a   *)
(* manual commit, an undo and the candidate are about to add to them.      *)
(* Lists of writes are named, so that the prover never unfolds a tuple.    *)
(***************************************************************************)
EXTENDS Steps, TLAPS, WellFoundedInduction, SequenceTheorems

(* The lists of writes an operation may have left.                         *)
ToFinish == <<"finish">>
ToClear == <<"clear", "finish">>
ToCommit == <<"commit", "clear", "finish">>
ToStage == <<"stage", "commit", "clear", "finish">>
ToState == <<"state", "stage", "commit", "clear", "finish">>
ToLog == <<"log", "state", "stage", "commit", "clear", "finish">>
ToGates == <<"gates", "log", "state", "stage", "commit", "clear", "finish">>
ToPromote == <<"promote", "gates", "log", "state", "stage", "commit", "clear", "finish">>
ToLogNext == <<"log", "stage", "commit", "clear", "finish">>
ToGatesNext == <<"gates", "log", "stage", "commit", "clear", "finish">>
ToPromoteNext == <<"promote", "gates", "log", "stage", "commit", "clear", "finish">>
ToRecord == <<"log", "clear", "finish">>
ToDecide == <<"state", "log", "clear", "finish">>
ToEnd == <<"commit", "finish">>
ToAdd == <<"stage", "commit", "finish">>
ToEntry == <<"log", "stage", "commit", "finish">>
ToAppend == <<"append", "log", "stage", "commit", "finish">>
ToRevert == <<"revert", "append", "log", "stage", "commit", "finish">>
ToCheckout == <<"checkout", "revert", "append", "log", "stage", "commit", "finish">>
ToQueue == <<"queue">>
ToLogPhase == <<"log", "queue">>
ToPhase == <<"state", "log", "queue">>

Lists(name) ==
  CASE name = "approve" ->
         {ToPromote, ToGates, ToLog, ToState, ToPromoteNext, ToGatesNext, ToLogNext,
          ToStage, ToCommit, ToClear, ToFinish}
    [] name = "approach" -> {ToDecide, ToRecord, ToClear, ToFinish}
    [] name = "reject" -> {ToRecord, ToClear, ToFinish}
    [] name = "undo" ->
         {ToCheckout, ToRevert, ToAppend, ToEntry, ToAdd, ToEnd, ToFinish}
    [] name = "manual" -> {ToEntry, ToAdd, ToEnd, ToFinish}
    [] name = "phase" -> {ToPhase, ToLogPhase, ToQueue}
    [] OTHER -> {<<>>}

(* The operations that make a write. *)
Names(step) ==
  CASE step \in {"promote", "gates"} -> {"approve"}
    [] step \in {"checkout", "revert", "append"} -> {"undo"}
    [] step = "state" -> {"approve", "approach", "phase"}
    [] step = "log" -> {"approve", "approach", "reject", "undo", "manual", "phase"}
    [] step \in {"stage", "commit"} -> {"approve", "undo", "manual"}
    [] step = "clear" -> {"approve", "approach", "reject"}
    [] step = "queue" -> {"phase"}
    [] OTHER -> {"approve", "approach", "reject", "undo", "manual"}

(* The writes that come after it.    *)
Following(name, step) ==
  CASE step = "promote" -> {"gates"}
    [] step = "gates" -> {"log"}
    [] step = "checkout" -> {"revert"}
    [] step = "revert" -> {"append"}
    [] step = "append" -> {"log"}
    [] step = "state" -> IF name = "approve" THEN {"stage"} ELSE {"log"}
    [] step = "log" -> CASE name = "approve" -> {"state", "stage"}
                         [] name \in {"undo", "manual"} -> {"stage"}
                         [] name = "phase" -> {"queue"}
                         [] OTHER -> {"clear"}
    [] step = "stage" -> {"commit"}
    [] step = "commit" -> IF name = "approve" THEN {"clear"} ELSE {"finish"}
    [] OTHER -> {"finish"}

OpNames == {"approve", "approach", "reject", "undo", "manual", "phase"}
Now == IF op.todo = <<>> THEN None ELSE Head(op.todo)

(* The writes before an operation has taken effect. *)
Early == {"promote", "gates", "log", "state", "stage", "commit", "checkout", "revert", "append"}

-----------------------------------------------------------------------------
(* Whatever fails.                                                         *)

OpInv ==
  /\ op.todo \in Lists(op.name)
  /\ op.name = None => op = Idle
  /\ op.name # None => op.state \in States /\ op.before \in Trees /\ op.entry \in Records
  /\ Now = "commit" => index = Tree
  /\ commits[1].number = 0 /\ (op.name = "undo" => Len(commits) > 1)

ReviewInv ==
  /\ op.name # None => job.state # "running"
  /\ Candidate \/ job.state = "running" => journal.round # None
  /\ Candidate => job.phase \in Phases
  /\ journal.round # None => journal.phase \in Phases
  /\ op.name \in {"undo", "manual", "phase"} => ~Candidate
  /\ op.name \in {"approve", "approach", "reject"} => Candidate
  /\ job.round = "code" /\ Now # "finish" => worktree.base # 0 /\ job.base = worktree.base

ApproveInv ==
  op.name = "approve" =>
    /\ job.round = "code" /\ job.ok
    /\ Now \in Early =>
         /\ worktree.code = job.checked /\ worktree.code = op.shown
         /\ op.before.code = Committed.code
         /\ op.entry.touched = Changed(Committed.code, worktree.code)
         /\ Now # "commit" => index.code = Committed.code
         /\ Now = "promote" => code = op.before.code /\ log = op.before.log /\ state = op.before.state
         /\ Now # "promote" => code = worktree.code

Fits(s) == s.approach # 0 => s.approach = Target(s)
FitsInv ==
  /\ Fits(state) /\ \A i \in DOMAIN commits : Fits(commits[i].tree.state)
  /\ op.name # None => Fits(op.state) /\ Fits(op.before.state)

-----------------------------------------------------------------------------
(* Log and commits, unless an undo dies half way.                          *)

(* Approved steps and manual commits are numbered, the latter after the    *)
(* former; the numbers of a log grow, every numbered commit in effect has  *)
(* its record, and before the first crash every approved record its step.  *)
Counts(r) == r.round = "code" /\ r.decision \in {"approved", "manual"}
IsStep(r) == r.round = "code" /\ r.decision = "approved"
Below(L, n) == \A i \in DOMAIN L : Counts(L[i]) => L[i].number < n
Increasing(L) ==
  \A i, j \in DOMAIN L : i < j /\ Counts(L[i]) /\ Counts(L[j]) => L[i].number < L[j].number
Covers(L, E) ==
  \A k \in DOMAIN E : E[k].kind # "external" =>
    \E i \in DOMAIN L :
      /\ Counts(L[i]) /\ L[i].number = E[k].number
      /\ L[i].decision = IF E[k].kind = "step" THEN "approved" ELSE "manual"
Exact(L, E) ==
  \A i \in DOMAIN L : IsStep(L[i]) =>
    \E k \in DOMAIN E : E[k].kind = "step" /\ E[k].number = L[i].number
(* A log that a commit has, and one in use, which has grown from it.       *)
Agrees(L, E) == Covers(L, E) /\ (crashes = 0 => Exact(L, E))
Extends(L, M) == Len(M) <= Len(L) /\ \A i \in 1 .. Len(M) : L[i] = M[i]
LogIn(L, C, E, c) == Increasing(L) /\ Extends(L, C) /\ (c = 0 => Exact(L, E))
LogOK(L) == LogIn(L, Committed.log, effect, crashes)

(* HEAD, and what an undo of it would go back to.                          *)
HeadInv ==
  /\ effect # <<>> /\ effect[1].kind = "step"
  /\ \A k \in DOMAIN effect : effect[k].kind = "external" => effect[k].number = 0
  /\ Increasing(Committed.log) /\ Agrees(Committed.log, effect)
  /\ Last(effect).code = Committed.code
  /\ HEAD.kind # "undo" => Last(effect).kind = HEAD.kind /\ Last(effect).number = HEAD.number
  /\ HEAD.kind = "undo" => HEAD.number \in Undone(Committed.log)
  /\ HEAD.kind = "step" /\ HEAD.number # 0 =>
       /\ Len(commits) > 1 /\ Len(effect) > 1
       /\ effect[Len(effect) - 1].code = Parent.code
       /\ Increasing(Parent.log) /\ Below(Parent.log, HEAD.number)
       /\ Agrees(Parent.log, Front(effect))

(* The log while an operation writes, against the one it began with.       *)
ApproveLog ==
  op.name = "approve" =>
    /\ IsStep(op.entry)
    /\ Now \in Early =>
         /\ LogOK(op.before.log) /\ Below(op.before.log, op.entry.number)
         /\ op.entry.number = job.number
         /\ Now \in {"promote", "gates", "log"} => log = op.before.log
         /\ Now \notin {"promote", "gates", "log"} => log = Append(op.before.log, op.entry)
ManualLog ==
  op.name = "manual" =>
    /\ Counts(op.entry) /\ ~IsStep(op.entry)
    /\ Now \in Early =>
         /\ LogOK(op.before.log) /\ Below(op.before.log, op.entry.number)
         /\ log = IF Now = "log" THEN op.before.log ELSE Append(op.before.log, op.entry)
UndoLog ==
  op.name = "undo" =>
    /\ op.entry.decision = "undone"
    /\ Now \in Early =>
         /\ HEAD.kind = "step" /\ HEAD.number = op.entry.number /\ HEAD.number # 0
         /\ LogOK(op.before.log) /\ op.before.log = Committed.log \o op.pending
         /\ Now \in {"checkout", "revert"} => index = Committed
         /\ Now \notin {"checkout", "revert"} => code = Parent.code
         /\ Now = "revert" => log = Committed.log
         /\ Now = "append" => log = Parent.log
         /\ Now = "log" => log = Parent.log \o op.pending
         /\ Now \in {"stage", "commit"} => log = Append(Parent.log \o op.pending, op.entry)
LogInv ==
  /\ ~(op.name \in {"approve", "undo"} /\ Now \in Early) => LogOK(log)
  /\ op.name \in {"approach", "reject", "phase"} => ~Counts(op.entry)

(* A candidate's number is new, and so is that of a round under way.       *)
NumberInv ==
  /\ op.name # "approve" /\ Candidate => Below(log, job.number)
  /\ job.state = "running" /\ job.kind \in Rounds => Below(log, journal.number)

Inv == TypeOK /\ OpInv /\ ReviewInv /\ ApproveInv /\ FitsInv
HistoryInv == HeadInv /\ ApproveLog /\ ManualLog /\ UndoLog /\ LogInv /\ NumberInv

-----------------------------------------------------------------------------
(* The lists.                                                              *)

LEMMA ListFacts ==
  /\ ToFinish \in Seq(Writes) /\ ToFinish # <<>> /\ Head(ToFinish) = "finish"
  /\ ToClear \in Seq(Writes) /\ ToClear # <<>> /\ Head(ToClear) = "clear"
     /\ Tail(ToClear) = ToFinish
  /\ ToCommit \in Seq(Writes) /\ ToCommit # <<>> /\ Head(ToCommit) = "commit"
     /\ Tail(ToCommit) = ToClear
  /\ ToStage \in Seq(Writes) /\ ToStage # <<>> /\ Head(ToStage) = "stage"
     /\ Tail(ToStage) = ToCommit
  /\ ToState \in Seq(Writes) /\ ToState # <<>> /\ Head(ToState) = "state"
     /\ Tail(ToState) = ToStage
  /\ ToLog \in Seq(Writes) /\ ToLog # <<>> /\ Head(ToLog) = "log"
     /\ Tail(ToLog) = ToState
  /\ ToGates \in Seq(Writes) /\ ToGates # <<>> /\ Head(ToGates) = "gates"
     /\ Tail(ToGates) = ToLog
  /\ ToPromote \in Seq(Writes) /\ ToPromote # <<>> /\ Head(ToPromote) = "promote"
     /\ Tail(ToPromote) = ToGates
  /\ ToLogNext \in Seq(Writes) /\ ToLogNext # <<>> /\ Head(ToLogNext) = "log"
     /\ Tail(ToLogNext) = ToStage
  /\ ToGatesNext \in Seq(Writes) /\ ToGatesNext # <<>> /\ Head(ToGatesNext) = "gates"
     /\ Tail(ToGatesNext) = ToLogNext
  /\ ToPromoteNext \in Seq(Writes) /\ ToPromoteNext # <<>> /\ Head(ToPromoteNext) = "promote"
     /\ Tail(ToPromoteNext) = ToGatesNext
  /\ ToRecord \in Seq(Writes) /\ ToRecord # <<>> /\ Head(ToRecord) = "log"
     /\ Tail(ToRecord) = ToClear
  /\ ToDecide \in Seq(Writes) /\ ToDecide # <<>> /\ Head(ToDecide) = "state"
     /\ Tail(ToDecide) = ToRecord
  /\ ToEnd \in Seq(Writes) /\ ToEnd # <<>> /\ Head(ToEnd) = "commit"
     /\ Tail(ToEnd) = ToFinish
  /\ ToAdd \in Seq(Writes) /\ ToAdd # <<>> /\ Head(ToAdd) = "stage"
     /\ Tail(ToAdd) = ToEnd
  /\ ToEntry \in Seq(Writes) /\ ToEntry # <<>> /\ Head(ToEntry) = "log"
     /\ Tail(ToEntry) = ToAdd
  /\ ToAppend \in Seq(Writes) /\ ToAppend # <<>> /\ Head(ToAppend) = "append"
     /\ Tail(ToAppend) = ToEntry
  /\ ToRevert \in Seq(Writes) /\ ToRevert # <<>> /\ Head(ToRevert) = "revert"
     /\ Tail(ToRevert) = ToAppend
  /\ ToCheckout \in Seq(Writes) /\ ToCheckout # <<>> /\ Head(ToCheckout) = "checkout"
     /\ Tail(ToCheckout) = ToRevert
  /\ ToQueue \in Seq(Writes) /\ ToQueue # <<>> /\ Head(ToQueue) = "queue"
  /\ ToLogPhase \in Seq(Writes) /\ ToLogPhase # <<>> /\ Head(ToLogPhase) = "log"
     /\ Tail(ToLogPhase) = ToQueue
  /\ ToPhase \in Seq(Writes) /\ ToPhase # <<>> /\ Head(ToPhase) = "state"
     /\ Tail(ToPhase) = ToLogPhase
<1>1. ToFinish \in Seq(Writes) /\ ToFinish # <<>> /\ Head(ToFinish) = "finish"
  BY DEF ToFinish, Writes
<1>2. ToClear \in Seq(Writes) /\ ToClear # <<>> /\ Head(ToClear) = "clear"
     /\ Tail(ToClear) = ToFinish
  BY DEF ToClear, ToFinish, Writes
<1>3. ToCommit \in Seq(Writes) /\ ToCommit # <<>> /\ Head(ToCommit) = "commit"
     /\ Tail(ToCommit) = ToClear
  BY DEF ToCommit, ToClear, Writes
<1>4. ToStage \in Seq(Writes) /\ ToStage # <<>> /\ Head(ToStage) = "stage"
     /\ Tail(ToStage) = ToCommit
  BY DEF ToStage, ToCommit, Writes
<1>5. ToState \in Seq(Writes) /\ ToState # <<>> /\ Head(ToState) = "state"
     /\ Tail(ToState) = ToStage
  BY DEF ToState, ToStage, Writes
<1>6. ToLog \in Seq(Writes) /\ ToLog # <<>> /\ Head(ToLog) = "log"
     /\ Tail(ToLog) = ToState
  BY DEF ToLog, ToState, Writes
<1>7. ToGates \in Seq(Writes) /\ ToGates # <<>> /\ Head(ToGates) = "gates"
     /\ Tail(ToGates) = ToLog
  BY DEF ToGates, ToLog, Writes
<1>8. ToPromote \in Seq(Writes) /\ ToPromote # <<>> /\ Head(ToPromote) = "promote"
     /\ Tail(ToPromote) = ToGates
  BY DEF ToPromote, ToGates, Writes
<1>9. ToLogNext \in Seq(Writes) /\ ToLogNext # <<>> /\ Head(ToLogNext) = "log"
     /\ Tail(ToLogNext) = ToStage
  BY DEF ToLogNext, ToStage, Writes
<1>10. ToGatesNext \in Seq(Writes) /\ ToGatesNext # <<>> /\ Head(ToGatesNext) = "gates"
     /\ Tail(ToGatesNext) = ToLogNext
  BY DEF ToGatesNext, ToLogNext, Writes
<1>11. ToPromoteNext \in Seq(Writes) /\ ToPromoteNext # <<>> /\ Head(ToPromoteNext) = "promote"
     /\ Tail(ToPromoteNext) = ToGatesNext
  BY DEF ToPromoteNext, ToGatesNext, Writes
<1>12. ToRecord \in Seq(Writes) /\ ToRecord # <<>> /\ Head(ToRecord) = "log"
     /\ Tail(ToRecord) = ToClear
  BY DEF ToRecord, ToClear, Writes
<1>13. ToDecide \in Seq(Writes) /\ ToDecide # <<>> /\ Head(ToDecide) = "state"
     /\ Tail(ToDecide) = ToRecord
  BY DEF ToDecide, ToRecord, Writes
<1>14. ToEnd \in Seq(Writes) /\ ToEnd # <<>> /\ Head(ToEnd) = "commit"
     /\ Tail(ToEnd) = ToFinish
  BY DEF ToEnd, ToFinish, Writes
<1>15. ToAdd \in Seq(Writes) /\ ToAdd # <<>> /\ Head(ToAdd) = "stage"
     /\ Tail(ToAdd) = ToEnd
  BY DEF ToAdd, ToEnd, Writes
<1>16. ToEntry \in Seq(Writes) /\ ToEntry # <<>> /\ Head(ToEntry) = "log"
     /\ Tail(ToEntry) = ToAdd
  BY DEF ToEntry, ToAdd, Writes
<1>17. ToAppend \in Seq(Writes) /\ ToAppend # <<>> /\ Head(ToAppend) = "append"
     /\ Tail(ToAppend) = ToEntry
  BY DEF ToAppend, ToEntry, Writes
<1>18. ToRevert \in Seq(Writes) /\ ToRevert # <<>> /\ Head(ToRevert) = "revert"
     /\ Tail(ToRevert) = ToAppend
  BY DEF ToRevert, ToAppend, Writes
<1>19. ToCheckout \in Seq(Writes) /\ ToCheckout # <<>> /\ Head(ToCheckout) = "checkout"
     /\ Tail(ToCheckout) = ToRevert
  BY DEF ToCheckout, ToRevert, Writes
<1>20. ToQueue \in Seq(Writes) /\ ToQueue # <<>> /\ Head(ToQueue) = "queue"
  BY DEF ToQueue, Writes
<1>21. ToLogPhase \in Seq(Writes) /\ ToLogPhase # <<>> /\ Head(ToLogPhase) = "log"
     /\ Tail(ToLogPhase) = ToQueue
  BY DEF ToLogPhase, ToQueue, Writes
<1>22. ToPhase \in Seq(Writes) /\ ToPhase # <<>> /\ Head(ToPhase) = "state"
     /\ Tail(ToPhase) = ToLogPhase
  BY DEF ToPhase, ToLogPhase, Writes
<1> QED BY <1>1, <1>2, <1>3, <1>4, <1>5, <1>6, <1>7, <1>8, <1>9, <1>10, <1>11, <1>12, <1>13, <1>14, <1>15, <1>16, <1>17, <1>18, <1>19, <1>20, <1>21, <1>22

LEMMA ListTypes ==
  ASSUME NEW name \in OpNames, NEW t \in Lists(name)
  PROVE  t \in Seq(Writes) /\ t # <<>>
<1>1. CASE name = "approve"
  <2>1. CASE t = ToPromote
    BY <2>1, ListFacts
  <2>2. CASE t = ToGates
    BY <2>2, ListFacts
  <2>3. CASE t = ToLog
    BY <2>3, ListFacts
  <2>4. CASE t = ToState
    BY <2>4, ListFacts
  <2>5. CASE t = ToPromoteNext
    BY <2>5, ListFacts
  <2>6. CASE t = ToGatesNext
    BY <2>6, ListFacts
  <2>7. CASE t = ToLogNext
    BY <2>7, ListFacts
  <2>8. CASE t = ToStage
    BY <2>8, ListFacts
  <2>9. CASE t = ToCommit
    BY <2>9, ListFacts
  <2>10. CASE t = ToClear
    BY <2>10, ListFacts
  <2>11. CASE t = ToFinish
    BY <2>11, ListFacts
  <2> QED BY <1>1, <2>1, <2>2, <2>3, <2>4, <2>5, <2>6, <2>7, <2>8, <2>9, <2>10, <2>11 DEF Lists
<1>2. CASE name = "approach"
  <2>1. CASE t = ToDecide
    BY <2>1, ListFacts
  <2>2. CASE t = ToRecord
    BY <2>2, ListFacts
  <2>3. CASE t = ToClear
    BY <2>3, ListFacts
  <2>4. CASE t = ToFinish
    BY <2>4, ListFacts
  <2> QED BY <1>2, <2>1, <2>2, <2>3, <2>4 DEF Lists
<1>3. CASE name = "reject"
  <2>1. CASE t = ToRecord
    BY <2>1, ListFacts
  <2>2. CASE t = ToClear
    BY <2>2, ListFacts
  <2>3. CASE t = ToFinish
    BY <2>3, ListFacts
  <2> QED BY <1>3, <2>1, <2>2, <2>3 DEF Lists
<1>4. CASE name = "undo"
  <2>1. CASE t = ToCheckout
    BY <2>1, ListFacts
  <2>2. CASE t = ToRevert
    BY <2>2, ListFacts
  <2>3. CASE t = ToAppend
    BY <2>3, ListFacts
  <2>4. CASE t = ToEntry
    BY <2>4, ListFacts
  <2>5. CASE t = ToAdd
    BY <2>5, ListFacts
  <2>6. CASE t = ToEnd
    BY <2>6, ListFacts
  <2>7. CASE t = ToFinish
    BY <2>7, ListFacts
  <2> QED BY <1>4, <2>1, <2>2, <2>3, <2>4, <2>5, <2>6, <2>7 DEF Lists
<1>5. CASE name = "manual"
  <2>1. CASE t = ToEntry
    BY <2>1, ListFacts
  <2>2. CASE t = ToAdd
    BY <2>2, ListFacts
  <2>3. CASE t = ToEnd
    BY <2>3, ListFacts
  <2>4. CASE t = ToFinish
    BY <2>4, ListFacts
  <2> QED BY <1>5, <2>1, <2>2, <2>3, <2>4 DEF Lists
<1>6. CASE name = "phase"
  <2>1. CASE t = ToPhase
    BY <2>1, ListFacts
  <2>2. CASE t = ToLogPhase
    BY <2>2, ListFacts
  <2>3. CASE t = ToQueue
    BY <2>3, ListFacts
  <2> QED BY <1>6, <2>1, <2>2, <2>3 DEF Lists
<1> QED BY <1>1, <1>2, <1>3, <1>4, <1>5, <1>6 DEF OpNames

LEMMA Heads ==
  ASSUME NEW name \in OpNames, NEW t \in Lists(name)
  PROVE  /\ name \in Names(Head(t))
         /\ Head(t) = "finish" <=> t = ToFinish
         /\ Head(t) \in Early \cup {"clear", "finish", "queue"}
<1>1. CASE name = "approve"
  <2>1. CASE t = ToPromote
    <3>1. Head(t) = "promote" /\ Head(ToFinish) = "finish"
      BY <2>1, ListFacts
    <3> QED BY <1>1, <2>1, <3>1 DEF Names, Early
  <2>2. CASE t = ToGates
    <3>1. Head(t) = "gates" /\ Head(ToFinish) = "finish"
      BY <2>2, ListFacts
    <3> QED BY <1>1, <2>2, <3>1 DEF Names, Early
  <2>3. CASE t = ToLog
    <3>1. Head(t) = "log" /\ Head(ToFinish) = "finish"
      BY <2>3, ListFacts
    <3> QED BY <1>1, <2>3, <3>1 DEF Names, Early
  <2>4. CASE t = ToState
    <3>1. Head(t) = "state" /\ Head(ToFinish) = "finish"
      BY <2>4, ListFacts
    <3> QED BY <1>1, <2>4, <3>1 DEF Names, Early
  <2>5. CASE t = ToPromoteNext
    <3>1. Head(t) = "promote" /\ Head(ToFinish) = "finish"
      BY <2>5, ListFacts
    <3> QED BY <1>1, <2>5, <3>1 DEF Names, Early
  <2>6. CASE t = ToGatesNext
    <3>1. Head(t) = "gates" /\ Head(ToFinish) = "finish"
      BY <2>6, ListFacts
    <3> QED BY <1>1, <2>6, <3>1 DEF Names, Early
  <2>7. CASE t = ToLogNext
    <3>1. Head(t) = "log" /\ Head(ToFinish) = "finish"
      BY <2>7, ListFacts
    <3> QED BY <1>1, <2>7, <3>1 DEF Names, Early
  <2>8. CASE t = ToStage
    <3>1. Head(t) = "stage" /\ Head(ToFinish) = "finish"
      BY <2>8, ListFacts
    <3> QED BY <1>1, <2>8, <3>1 DEF Names, Early
  <2>9. CASE t = ToCommit
    <3>1. Head(t) = "commit" /\ Head(ToFinish) = "finish"
      BY <2>9, ListFacts
    <3> QED BY <1>1, <2>9, <3>1 DEF Names, Early
  <2>10. CASE t = ToClear
    <3>1. Head(t) = "clear" /\ Head(ToFinish) = "finish"
      BY <2>10, ListFacts
    <3> QED BY <1>1, <2>10, <3>1 DEF Names, Early
  <2>11. CASE t = ToFinish
    <3>1. Head(t) = "finish" /\ Head(ToFinish) = "finish"
      BY <2>11, ListFacts
    <3> QED BY <1>1, <2>11, <3>1 DEF Names, Early
  <2> QED BY <1>1, <2>1, <2>2, <2>3, <2>4, <2>5, <2>6, <2>7, <2>8, <2>9, <2>10, <2>11 DEF Lists
<1>2. CASE name = "approach"
  <2>1. CASE t = ToDecide
    <3>1. Head(t) = "state" /\ Head(ToFinish) = "finish"
      BY <2>1, ListFacts
    <3> QED BY <1>2, <2>1, <3>1 DEF Names, Early
  <2>2. CASE t = ToRecord
    <3>1. Head(t) = "log" /\ Head(ToFinish) = "finish"
      BY <2>2, ListFacts
    <3> QED BY <1>2, <2>2, <3>1 DEF Names, Early
  <2>3. CASE t = ToClear
    <3>1. Head(t) = "clear" /\ Head(ToFinish) = "finish"
      BY <2>3, ListFacts
    <3> QED BY <1>2, <2>3, <3>1 DEF Names, Early
  <2>4. CASE t = ToFinish
    <3>1. Head(t) = "finish" /\ Head(ToFinish) = "finish"
      BY <2>4, ListFacts
    <3> QED BY <1>2, <2>4, <3>1 DEF Names, Early
  <2> QED BY <1>2, <2>1, <2>2, <2>3, <2>4 DEF Lists
<1>3. CASE name = "reject"
  <2>1. CASE t = ToRecord
    <3>1. Head(t) = "log" /\ Head(ToFinish) = "finish"
      BY <2>1, ListFacts
    <3> QED BY <1>3, <2>1, <3>1 DEF Names, Early
  <2>2. CASE t = ToClear
    <3>1. Head(t) = "clear" /\ Head(ToFinish) = "finish"
      BY <2>2, ListFacts
    <3> QED BY <1>3, <2>2, <3>1 DEF Names, Early
  <2>3. CASE t = ToFinish
    <3>1. Head(t) = "finish" /\ Head(ToFinish) = "finish"
      BY <2>3, ListFacts
    <3> QED BY <1>3, <2>3, <3>1 DEF Names, Early
  <2> QED BY <1>3, <2>1, <2>2, <2>3 DEF Lists
<1>4. CASE name = "undo"
  <2>1. CASE t = ToCheckout
    <3>1. Head(t) = "checkout" /\ Head(ToFinish) = "finish"
      BY <2>1, ListFacts
    <3> QED BY <1>4, <2>1, <3>1 DEF Names, Early
  <2>2. CASE t = ToRevert
    <3>1. Head(t) = "revert" /\ Head(ToFinish) = "finish"
      BY <2>2, ListFacts
    <3> QED BY <1>4, <2>2, <3>1 DEF Names, Early
  <2>3. CASE t = ToAppend
    <3>1. Head(t) = "append" /\ Head(ToFinish) = "finish"
      BY <2>3, ListFacts
    <3> QED BY <1>4, <2>3, <3>1 DEF Names, Early
  <2>4. CASE t = ToEntry
    <3>1. Head(t) = "log" /\ Head(ToFinish) = "finish"
      BY <2>4, ListFacts
    <3> QED BY <1>4, <2>4, <3>1 DEF Names, Early
  <2>5. CASE t = ToAdd
    <3>1. Head(t) = "stage" /\ Head(ToFinish) = "finish"
      BY <2>5, ListFacts
    <3> QED BY <1>4, <2>5, <3>1 DEF Names, Early
  <2>6. CASE t = ToEnd
    <3>1. Head(t) = "commit" /\ Head(ToFinish) = "finish"
      BY <2>6, ListFacts
    <3> QED BY <1>4, <2>6, <3>1 DEF Names, Early
  <2>7. CASE t = ToFinish
    <3>1. Head(t) = "finish" /\ Head(ToFinish) = "finish"
      BY <2>7, ListFacts
    <3> QED BY <1>4, <2>7, <3>1 DEF Names, Early
  <2> QED BY <1>4, <2>1, <2>2, <2>3, <2>4, <2>5, <2>6, <2>7 DEF Lists
<1>5. CASE name = "manual"
  <2>1. CASE t = ToEntry
    <3>1. Head(t) = "log" /\ Head(ToFinish) = "finish"
      BY <2>1, ListFacts
    <3> QED BY <1>5, <2>1, <3>1 DEF Names, Early
  <2>2. CASE t = ToAdd
    <3>1. Head(t) = "stage" /\ Head(ToFinish) = "finish"
      BY <2>2, ListFacts
    <3> QED BY <1>5, <2>2, <3>1 DEF Names, Early
  <2>3. CASE t = ToEnd
    <3>1. Head(t) = "commit" /\ Head(ToFinish) = "finish"
      BY <2>3, ListFacts
    <3> QED BY <1>5, <2>3, <3>1 DEF Names, Early
  <2>4. CASE t = ToFinish
    <3>1. Head(t) = "finish" /\ Head(ToFinish) = "finish"
      BY <2>4, ListFacts
    <3> QED BY <1>5, <2>4, <3>1 DEF Names, Early
  <2> QED BY <1>5, <2>1, <2>2, <2>3, <2>4 DEF Lists
<1>6. CASE name = "phase"
  <2>1. CASE t = ToPhase
    <3>1. Head(t) = "state" /\ Head(ToFinish) = "finish"
      BY <2>1, ListFacts
    <3> QED BY <1>6, <2>1, <3>1 DEF Names, Early
  <2>2. CASE t = ToLogPhase
    <3>1. Head(t) = "log" /\ Head(ToFinish) = "finish"
      BY <2>2, ListFacts
    <3> QED BY <1>6, <2>2, <3>1 DEF Names, Early
  <2>3. CASE t = ToQueue
    <3>1. Head(t) = "queue" /\ Head(ToFinish) = "finish"
      BY <2>3, ListFacts
    <3> QED BY <1>6, <2>3, <3>1 DEF Names, Early
  <2> QED BY <1>6, <2>1, <2>2, <2>3 DEF Lists
<1> QED BY <1>1, <1>2, <1>3, <1>4, <1>5, <1>6 DEF OpNames

LEMMA Follows ==
  ASSUME NEW name \in OpNames, NEW t \in Lists(name), Head(t) \notin {"finish", "queue"}
  PROVE  Tail(t) \in Lists(name) /\ Head(Tail(t)) \in Following(name, Head(t))
<1>1. CASE name = "approve"
  <2>1. CASE t = ToPromote
    <3>1. Head(t) = "promote" /\ Tail(t) = ToGates /\ Head(ToGates) = "gates"
      BY <2>1, ListFacts
    <3> QED BY <1>1, <3>1 DEF Lists, Following
  <2>2. CASE t = ToGates
    <3>1. Head(t) = "gates" /\ Tail(t) = ToLog /\ Head(ToLog) = "log"
      BY <2>2, ListFacts
    <3> QED BY <1>1, <3>1 DEF Lists, Following
  <2>3. CASE t = ToLog
    <3>1. Head(t) = "log" /\ Tail(t) = ToState /\ Head(ToState) = "state"
      BY <2>3, ListFacts
    <3> QED BY <1>1, <3>1 DEF Lists, Following
  <2>4. CASE t = ToState
    <3>1. Head(t) = "state" /\ Tail(t) = ToStage /\ Head(ToStage) = "stage"
      BY <2>4, ListFacts
    <3> QED BY <1>1, <3>1 DEF Lists, Following
  <2>5. CASE t = ToPromoteNext
    <3>1. Head(t) = "promote" /\ Tail(t) = ToGatesNext /\ Head(ToGatesNext) = "gates"
      BY <2>5, ListFacts
    <3> QED BY <1>1, <3>1 DEF Lists, Following
  <2>6. CASE t = ToGatesNext
    <3>1. Head(t) = "gates" /\ Tail(t) = ToLogNext /\ Head(ToLogNext) = "log"
      BY <2>6, ListFacts
    <3> QED BY <1>1, <3>1 DEF Lists, Following
  <2>7. CASE t = ToLogNext
    <3>1. Head(t) = "log" /\ Tail(t) = ToStage /\ Head(ToStage) = "stage"
      BY <2>7, ListFacts
    <3> QED BY <1>1, <3>1 DEF Lists, Following
  <2>8. CASE t = ToStage
    <3>1. Head(t) = "stage" /\ Tail(t) = ToCommit /\ Head(ToCommit) = "commit"
      BY <2>8, ListFacts
    <3> QED BY <1>1, <3>1 DEF Lists, Following
  <2>9. CASE t = ToCommit
    <3>1. Head(t) = "commit" /\ Tail(t) = ToClear /\ Head(ToClear) = "clear"
      BY <2>9, ListFacts
    <3> QED BY <1>1, <3>1 DEF Lists, Following
  <2>10. CASE t = ToClear
    <3>1. Head(t) = "clear" /\ Tail(t) = ToFinish /\ Head(ToFinish) = "finish"
      BY <2>10, ListFacts
    <3> QED BY <1>1, <3>1 DEF Lists, Following
  <2>11. CASE t = ToFinish
    BY <2>11, ListFacts
  <2> QED BY <1>1, <2>1, <2>2, <2>3, <2>4, <2>5, <2>6, <2>7, <2>8, <2>9, <2>10, <2>11 DEF Lists
<1>2. CASE name = "approach"
  <2>1. CASE t = ToDecide
    <3>1. Head(t) = "state" /\ Tail(t) = ToRecord /\ Head(ToRecord) = "log"
      BY <2>1, ListFacts
    <3> QED BY <1>2, <3>1 DEF Lists, Following
  <2>2. CASE t = ToRecord
    <3>1. Head(t) = "log" /\ Tail(t) = ToClear /\ Head(ToClear) = "clear"
      BY <2>2, ListFacts
    <3> QED BY <1>2, <3>1 DEF Lists, Following
  <2>3. CASE t = ToClear
    <3>1. Head(t) = "clear" /\ Tail(t) = ToFinish /\ Head(ToFinish) = "finish"
      BY <2>3, ListFacts
    <3> QED BY <1>2, <3>1 DEF Lists, Following
  <2>4. CASE t = ToFinish
    BY <2>4, ListFacts
  <2> QED BY <1>2, <2>1, <2>2, <2>3, <2>4 DEF Lists
<1>3. CASE name = "reject"
  <2>1. CASE t = ToRecord
    <3>1. Head(t) = "log" /\ Tail(t) = ToClear /\ Head(ToClear) = "clear"
      BY <2>1, ListFacts
    <3> QED BY <1>3, <3>1 DEF Lists, Following
  <2>2. CASE t = ToClear
    <3>1. Head(t) = "clear" /\ Tail(t) = ToFinish /\ Head(ToFinish) = "finish"
      BY <2>2, ListFacts
    <3> QED BY <1>3, <3>1 DEF Lists, Following
  <2>3. CASE t = ToFinish
    BY <2>3, ListFacts
  <2> QED BY <1>3, <2>1, <2>2, <2>3 DEF Lists
<1>4. CASE name = "undo"
  <2>1. CASE t = ToCheckout
    <3>1. Head(t) = "checkout" /\ Tail(t) = ToRevert /\ Head(ToRevert) = "revert"
      BY <2>1, ListFacts
    <3> QED BY <1>4, <3>1 DEF Lists, Following
  <2>2. CASE t = ToRevert
    <3>1. Head(t) = "revert" /\ Tail(t) = ToAppend /\ Head(ToAppend) = "append"
      BY <2>2, ListFacts
    <3> QED BY <1>4, <3>1 DEF Lists, Following
  <2>3. CASE t = ToAppend
    <3>1. Head(t) = "append" /\ Tail(t) = ToEntry /\ Head(ToEntry) = "log"
      BY <2>3, ListFacts
    <3> QED BY <1>4, <3>1 DEF Lists, Following
  <2>4. CASE t = ToEntry
    <3>1. Head(t) = "log" /\ Tail(t) = ToAdd /\ Head(ToAdd) = "stage"
      BY <2>4, ListFacts
    <3> QED BY <1>4, <3>1 DEF Lists, Following
  <2>5. CASE t = ToAdd
    <3>1. Head(t) = "stage" /\ Tail(t) = ToEnd /\ Head(ToEnd) = "commit"
      BY <2>5, ListFacts
    <3> QED BY <1>4, <3>1 DEF Lists, Following
  <2>6. CASE t = ToEnd
    <3>1. Head(t) = "commit" /\ Tail(t) = ToFinish /\ Head(ToFinish) = "finish"
      BY <2>6, ListFacts
    <3> QED BY <1>4, <3>1 DEF Lists, Following
  <2>7. CASE t = ToFinish
    BY <2>7, ListFacts
  <2> QED BY <1>4, <2>1, <2>2, <2>3, <2>4, <2>5, <2>6, <2>7 DEF Lists
<1>5. CASE name = "manual"
  <2>1. CASE t = ToEntry
    <3>1. Head(t) = "log" /\ Tail(t) = ToAdd /\ Head(ToAdd) = "stage"
      BY <2>1, ListFacts
    <3> QED BY <1>5, <3>1 DEF Lists, Following
  <2>2. CASE t = ToAdd
    <3>1. Head(t) = "stage" /\ Tail(t) = ToEnd /\ Head(ToEnd) = "commit"
      BY <2>2, ListFacts
    <3> QED BY <1>5, <3>1 DEF Lists, Following
  <2>3. CASE t = ToEnd
    <3>1. Head(t) = "commit" /\ Tail(t) = ToFinish /\ Head(ToFinish) = "finish"
      BY <2>3, ListFacts
    <3> QED BY <1>5, <3>1 DEF Lists, Following
  <2>4. CASE t = ToFinish
    BY <2>4, ListFacts
  <2> QED BY <1>5, <2>1, <2>2, <2>3, <2>4 DEF Lists
<1>6. CASE name = "phase"
  <2>1. CASE t = ToPhase
    <3>1. Head(t) = "state" /\ Tail(t) = ToLogPhase /\ Head(ToLogPhase) = "log"
      BY <2>1, ListFacts
    <3> QED BY <1>6, <3>1 DEF Lists, Following
  <2>2. CASE t = ToLogPhase
    <3>1. Head(t) = "log" /\ Tail(t) = ToQueue /\ Head(ToQueue) = "queue"
      BY <2>2, ListFacts
    <3> QED BY <1>6, <3>1 DEF Lists, Following
  <2>3. CASE t = ToQueue
    BY <2>3, ListFacts
  <2> QED BY <1>6, <2>1, <2>2, <2>3 DEF Lists
<1> QED BY <1>1, <1>2, <1>3, <1>4, <1>5, <1>6 DEF OpNames

-----------------------------------------------------------------------------
(* Numbers.                                                                *)

LEMMA Least ==
  ASSUME NEW S \in SUBSET Nat, S # {}
  PROVE  \E m \in S : \A n \in S : m <= n
<1> DEFINE R == {p \in Nat \X Nat : p[1] < p[2]}
<1>1. IsWellFoundedOn(R, Nat)
  <2>1. R = OpToRel(<, Nat)
    BY Zenon DEF OpToRel
  <2> QED BY <2>1, NatLessThanWellFounded, Zenon
<1>2. PICK m \in S : \A n \in S : ~ (<<n, m>> \in R)
  BY <1>1, WFMin
<1>3. \A n \in S : <<n, m>> \in Nat \X Nat /\ <<n, m>>[1] = n /\ <<n, m>>[2] = m
  OBVIOUS
<1>4. \A n \in S : ~(n < m)
  BY <1>2, <1>3
<1> QED BY <1>4

LEMMA Greatest ==
  ASSUME NEW S \in SUBSET Nat, S # {}, NEW b \in Nat, \A n \in S : n <= b
  PROVE  Max(S) \in S /\ \A n \in S : n <= Max(S)
<1> DEFINE U == {k \in Nat : \A n \in S : n <= k}
<1>1. PICK m \in U : \A n \in U : m <= n
  <2>1. b \in U OBVIOUS
  <2> HIDE DEF U
  <2> QED BY <2>1, Least DEF U
<1>2. m \in Nat /\ \A n \in S : n <= m
  BY <1>1
<1>3. ASSUME m \notin S PROVE FALSE
  <2>1. PICK s \in S : TRUE OBVIOUS
  <2>2. \A n \in S : n <= m /\ n # m /\ n \in Nat
    BY <1>2, <1>3
  <2>3. m # 0 BY <2>1, <2>2, <1>2
  <2>4. m - 1 \in Nat /\ \A n \in S : n <= m - 1
    BY <2>2, <2>3, <1>2
  <2> QED BY <2>4, <1>1
<1>4. m \in S /\ \A n \in S : m >= n
  BY <1>2, <1>3
<1> HIDE DEF U
<1>5. Max(S) \in S /\ \A n \in S : Max(S) >= n
  BY <1>4 DEF Max
<1> QED BY <1>5

(* A log has a largest number: by induction over its length.               *)
LEMMA Bounded ==
  ASSUME NEW L \in Seq(Records)
  PROVE  \E b \in Nat : \A i \in DOMAIN L : L[i].number <= b
<1> DEFINE Bad == {n \in Nat : ~ \E b \in Nat : \A i \in 1 .. n : i \in DOMAIN L => L[i].number <= b}
<1>1. \A i \in DOMAIN L : L[i].number \in Nat
  <2>1. \A i \in DOMAIN L : L[i] \in Records
    OBVIOUS
  <2> QED BY <2>1 DEF Records
<1>2. Bad = {}
  <2> SUFFICES ASSUME Bad # {} PROVE FALSE OBVIOUS
  <2>1. PICK m \in Bad : \A n \in Bad : m <= n
    <3>1. Bad \in SUBSET Nat OBVIOUS
    <3> HIDE DEF Bad
    <3> QED BY <3>1, Least
  <2>2. m \in Nat /\ ~ \E b \in Nat : \A i \in 1 .. m : i \in DOMAIN L => L[i].number <= b
    OBVIOUS
  <2>3. m # 0
    BY <2>2
  <2>4. m - 1 \in Nat /\ m - 1 \notin Bad
    <3> HIDE DEF Bad
    <3>1. m - 1 \in Nat /\ ~(m <= m - 1)
      BY <2>2, <2>3
    <3> QED BY <2>1, <3>1
  <2>5. PICK b \in Nat : \A i \in 1 .. m - 1 : i \in DOMAIN L => L[i].number <= b
    BY <2>4
  <2> HIDE DEF Bad
  <2>6. PICK c \in Nat : b <= c /\ (m \in DOMAIN L => L[m].number <= c)
    <3>1. CASE m \in DOMAIN L /\ b < L[m].number
      BY <1>1, <3>1
    <3>2. CASE ~(m \in DOMAIN L /\ b < L[m].number)
      BY <1>1, <3>2
    <3> QED BY <3>1, <3>2
  <2>7. ASSUME NEW i \in 1 .. m, i \in DOMAIN L PROVE L[i].number <= c
    <3>1. L[i].number \in Nat
      BY <1>1, <2>7
    <3>2. CASE i = m
      BY <2>6, <2>7, <3>2
    <3>3. CASE i # m
      <4>1. i \in 1 .. m - 1
        BY <2>2, <3>3
      <4>2. L[i].number <= b
        BY <2>5, <2>7, <4>1
      <4> QED BY <2>6, <3>1, <4>2
    <3> QED BY <3>2, <3>3
  <2> QED BY <2>2, <2>7
<1>3. Len(L) \in Nat /\ DOMAIN L = 1 .. Len(L)
  OBVIOUS
<1> QED BY <1>2, <1>3

(* The next number is larger than all that count.                          *)
LEMMA NextIsLarger ==
  ASSUME NEW L \in Seq(Records)
  PROVE  NextNumber(L) \in Nat /\ Below(L, NextNumber(L))
<1> DEFINE counting == {j \in DOMAIN L :
             L[j].round = "code" /\ L[j].decision \in {"approved", "manual"}}
           numbers == {L[i].number : i \in counting}
<1>1. NextNumber(L) = IF numbers = {} THEN 0 ELSE Max(numbers) + 1
  BY DEF NextNumber
<1>2. numbers \in SUBSET Nat
  <2>1. \A i \in DOMAIN L : L[i] \in Records
    OBVIOUS
  <2> QED BY <2>1 DEF Records
<1>3. \A i \in DOMAIN L : Counts(L[i]) => L[i].number \in numbers
  BY DEF Counts
<1>4. PICK b \in Nat : \A n \in numbers : n <= b
  BY Bounded
<1> HIDE DEF numbers
<1>5. CASE numbers = {}
  BY <1>1, <1>3, <1>5 DEF Below
<1>6. CASE numbers # {}
  <2>1. Max(numbers) \in numbers /\ \A n \in numbers : n <= Max(numbers)
    BY <1>2, <1>4, <1>6, Greatest
  <2> DEFINE max == Max(numbers)
  <2> HIDE DEF max
  <2>4. max \in numbers /\ \A n \in numbers : n <= max
    BY <2>1 DEF max
  <2>2. max \in Nat /\ \A n \in numbers : n \in Nat /\ n < max + 1
    BY <1>2, <2>4
  <2>3. NextNumber(L) = max + 1
    BY <1>1, <1>6 DEF max
  <2> QED BY <1>3, <2>2, <2>3 DEF Below
<1> QED BY <1>5, <1>6

-----------------------------------------------------------------------------
(* The queue exists and holds files: by induction over them.               *)

QueueStep(g, n) ==
  IF n = 0 THEN <<>> ELSE IF Pending(n) THEN Append(g[n - 1], n) ELSE g[n - 1]
IsQueue(g, n) ==
  g \in [0 .. n -> Seq(Files)] /\ \A k \in 0 .. n : g[k] = QueueStep(g, k)

LEMMA QueueExists == \E g : IsQueue(g, N)
<1> DEFINE Bad == {n \in 0 .. N : ~ \E g : IsQueue(g, n)}
<1>1. N \in Nat /\ Files = 1 .. N
  BY StepsAssumption DEF Files
<1>2. Bad = {}
  <2> SUFFICES ASSUME Bad # {} PROVE FALSE OBVIOUS
  <2>1. PICK m \in Bad : \A n \in Bad : m <= n
    <3>1. Bad \in SUBSET Nat BY <1>1
    <3> HIDE DEF Bad
    <3> QED BY <3>1, Least
  <2>2. m \in 0 .. N /\ ~ \E g : IsQueue(g, m)
    OBVIOUS
  <2>3. ASSUME m = 0 PROVE FALSE
    <3>1. IsQueue([k \in 0 .. 0 |-> <<>>], 0)
      BY DEF IsQueue, QueueStep
    <3> QED BY <2>2, <2>3, <3>1
  <2>4. m - 1 \in 0 .. N /\ m \in Nat /\ m \in Files
    BY <1>1, <2>2, <2>3
  <2>5. m - 1 \notin Bad
    <3>1. ~(m <= m - 1)
      BY <2>4
    <3> HIDE DEF Bad
    <3> QED BY <2>1, <3>1
  <2>6. PICK g : IsQueue(g, m - 1)
    BY <2>4, <2>5
  <2> DEFINE h == [k \in 0 .. m |-> IF k = m THEN QueueStep(g, m) ELSE g[k]]
  <2> HIDE DEF Bad
  <2>7. g[m - 1] \in Seq(Files) /\ \A k \in 0 .. m - 1 : g[k] \in Seq(Files)
    BY <2>4, <2>6 DEF IsQueue
  <2>8. QueueStep(g, m) \in Seq(Files)
    BY <2>3, <2>4, <2>7 DEF QueueStep
  <2>9. \A k \in 0 .. m : k = m \/ k \in 0 .. m - 1
    BY <2>4
  <2>10. h \in [0 .. m -> Seq(Files)]
    BY <2>7, <2>8, <2>9
  <2>11. ASSUME NEW k \in 0 .. m PROVE h[k] = QueueStep(h, k)
    <3>1. k # 0 => k - 1 \in 0 .. m /\ k - 1 # m /\ h[k - 1] = g[k - 1]
      BY <2>4
    <3>2. QueueStep(h, k) = QueueStep(g, k)
      BY <3>1 DEF QueueStep
    <3>3. CASE k = m
      BY <3>2, <3>3
    <3>4. CASE k # m
      BY <2>6, <2>9, <3>2, <3>4 DEF IsQueue
    <3> QED BY <3>3, <3>4
  <2> HIDE DEF h
  <2>12. IsQueue(h, m)
    BY <2>10, <2>11 DEF IsQueue
  <2> QED BY <2>2, <2>12
<1>3. N \in 0 .. N
  BY <1>1
<1>4. N \notin Bad
  BY <1>2
<1> QED BY <1>3, <1>4

LEMMA QueueDef == Queue = [n \in 0 .. N |-> QueueStep(Queue, n)]
<1> DEFINE Fixed(g) == g = [n \in 0 .. N |->
      IF n = 0 THEN <<>> ELSE IF Pending(n) THEN Append(g[n - 1], n) ELSE g[n - 1]]
<1>1. PICK g : IsQueue(g, N)
  BY QueueExists
<1>2. Fixed(g)
  BY <1>1 DEF IsQueue, QueueStep
<1>3. Queue = CHOOSE q : Fixed(q)
  BY DEF Queue
<1> HIDE DEF Fixed
<1>4. Fixed(Queue)
  BY <1>2, <1>3
<1> QED BY <1>4 DEF Fixed, QueueStep

LEMMA QueueType == Queue[N] \in Seq(Files)
<1> DEFINE Bad == {n \in 0 .. N : Queue[n] \notin Seq(Files)}
<1>1. N \in Nat /\ Files = 1 .. N
  BY StepsAssumption DEF Files
<1>2. \A n \in 0 .. N : Queue[n] = QueueStep(Queue, n)
  <2> DEFINE q == Queue
  <2> HIDE DEF q
  <2>1. q = [n \in 0 .. N |-> QueueStep(q, n)]
    BY QueueDef DEF q
  <2>2. \A n \in 0 .. N : q[n] = QueueStep(q, n)
    BY <2>1
  <2> QED BY <2>2 DEF q
<1>3. Bad = {}
  <2> SUFFICES ASSUME Bad # {} PROVE FALSE OBVIOUS
  <2>1. PICK m \in Bad : \A n \in Bad : m <= n
    <3>1. Bad \in SUBSET Nat BY <1>1
    <3> HIDE DEF Bad
    <3> QED BY <3>1, Least
  <2>2. m \in 0 .. N /\ Queue[m] \notin Seq(Files)
    OBVIOUS
  <2>3. ASSUME m = 0 PROVE FALSE
    <3>1. QueueStep(Queue, 0) = <<>> /\ <<>> \in Seq(Files)
      BY DEF QueueStep
    <3> QED BY <1>2, <2>2, <2>3, <3>1
  <2>4. m - 1 \in 0 .. N /\ m \in Nat /\ m \in Files /\ ~(m <= m - 1)
    BY <1>1, <2>2, <2>3
  <2>5. m - 1 \notin Bad
    <3> HIDE DEF Bad
    <3> QED BY <2>1, <2>4
  <2>6. Queue[m - 1] \in Seq(Files)
    BY <2>4, <2>5
  <2>7. QueueStep(Queue, m) \in Seq(Files)
    BY <2>3, <2>4, <2>6 DEF QueueStep
  <2> QED BY <1>2, <2>2, <2>7
<1> QED BY <1>1, <1>3

LEMMA EnsuredType ==
  ASSUME NEW s \in States
  PROVE  Ensured(s) \in States
BY QueueType DEF Ensured, States

LEMMA TargetType ==
  ASSUME NEW s \in States
  PROVE  Target(s) \in 0 .. N
<1>1. N \in Nat /\ Files = 1 .. N /\ s.queue \in Seq(Files) /\ s.cursor \in Nat
  BY StepsAssumption DEF Files, States
<1>2. CASE s.cursor < Len(s.queue)
  <2>1. s.cursor + 1 \in DOMAIN s.queue
    BY <1>1, <1>2
  <2>2. s.queue[s.cursor + 1] \in Files
    BY <1>1, <2>1
  <2> QED BY <1>1, <2>2 DEF Target
<1>3. CASE ~(s.cursor < Len(s.queue))
  BY <1>1, <1>3 DEF Target
<1> QED BY <1>2, <1>3

(* What is fit stays so when the queue is built.                           *)
LEMMA EnsuredFits ==
  ASSUME NEW s \in States, Fits(s)
  PROVE  Fits(Ensured(s))
<1>1. CASE s.phase = "implementation" /\ s.queue = <<>> /\ s.cursor = 0
  <2>1. Target(s) = 0
    BY <1>1 DEF Target
  <2>2. s.approach = 0 /\ Ensured(s).approach = s.approach
    BY <1>1, <2>1 DEF Fits, Ensured, States
  <2> QED BY <2>2 DEF Fits
<1>2. CASE ~(s.phase = "implementation" /\ s.queue = <<>> /\ s.cursor = 0)
  BY <1>2 DEF Ensured
<1> QED BY <1>1, <1>2

-----------------------------------------------------------------------------
(* Types.                                                                  *)

LEMMA TypeFacts ==
  ASSUME TypeOK
  PROVE  /\ code \in Contents /\ log \in Seq(Records) /\ state \in States
         /\ Len(commits) \in Nat \ {0} /\ Len(commits) \in DOMAIN commits
         /\ HEAD \in Commits /\ Committed \in Trees
         /\ Committed.code \in Contents /\ Committed.log \in Seq(Records)
         /\ Committed.state \in States
         /\ index.code \in Contents /\ index.log \in Seq(Records) /\ index.state \in States
<1>1. code = Tree.code /\ log = Tree.log /\ state = Tree.state
  BY DEF Tree
<1>2. Len(commits) \in Nat \ {0} /\ Len(commits) \in DOMAIN commits
  BY DEF TypeOK
<1>3. HEAD \in Commits
  BY <1>2 DEF TypeOK, HEAD
<1>4. Committed \in Trees
  BY <1>3 DEF Commits, Committed
<1> QED BY <1>1, <1>2, <1>3, <1>4 DEF TypeOK, Trees

LEMMA TreeType ==
  ASSUME code \in Contents, log \in Seq(Records), state \in States
  PROVE  Tree \in Trees
BY DEF Tree, Trees

LEMMA EntryType ==
  ASSUME NEW number \in Nat, NEW phase \in Phases \cup {"manual"}, NEW round \in Rounds,
         NEW decision \in {"approved", "rejected", "manual", "undone", "phase_transition"},
         NEW touched \in SUBSET Files
  PROVE  Entry(number, phase, decision, round, touched) \in Records
BY DEF Entry, Records

LEMMA CommitType ==
  ASSUME TypeOK, NEW kind \in Kinds, NEW number \in Nat, NEW tree \in Trees,
         Committing(kind, number, tree)
  PROVE  /\ commits' \in Seq(Commits) /\ commits' # <<>>
         /\ Len(commits') = Len(commits) + 1 /\ effect' \in Seq(Effects)
<1>1. [kind |-> kind, number |-> number, tree |-> tree] \in Commits
  BY DEF Commits
<1>2. commits' \in Seq(Commits) /\ commits' # <<>> /\ Len(commits') = Len(commits) + 1
  BY <1>1 DEF TypeOK, Committing
<1>5. effect \in Seq(Effects)
  BY DEF TypeOK
<1>3. CASE kind = "undo"
  BY <1>2, <1>3, <1>5 DEF Committing, Front
<1>4. CASE kind # "undo"
  <2>1. [kind |-> kind, number |-> number, code |-> tree.code] \in Effects
    BY <1>4 DEF Effects, Kinds, Trees
  <2>2. effect' = Append(effect, [kind |-> kind, number |-> number, code |-> tree.code])
    BY <1>4 DEF Committing
  <2> QED BY <1>2, <1>5, <2>1, <2>2
<1> QED BY <1>2, <1>3, <1>4

LEMMA BeginType ==
  ASSUME TypeOK, NEW name \in OpNames, NEW todo \in Lists(name), NEW entry \in Records,
         NEW after \in States, Begin(name, todo, entry, after)
  PROVE  /\ op' \in Ops /\ op'.name = name /\ op'.todo = todo /\ op'.entry = entry
         /\ op'.state = after /\ op'.before \in Trees /\ op'.shown = reviewed.code
         /\ op'.before.code = code /\ op'.before.log = log /\ op'.before.state = Ensured(state)
<1>1. todo \in Seq(Writes)
  BY ListTypes
<1>2. [code |-> code, log |-> log, state |-> Ensured(state)] \in Trees
  BY TypeFacts, EnsuredType DEF Trees
<1>3. reviewed.code \in Contents \cup Unset
  BY DEF TypeOK
<1>4. op' = [name |-> name, todo |-> todo, entry |-> entry, state |-> after,
            before |-> [code |-> code, log |-> log, state |-> Ensured(state)],
            pending |-> <<>>, shown |-> reviewed.code]
  BY DEF Begin
<1> QED BY <1>1, <1>2, <1>3, <1>4 DEF Ops, OpNames

LEMMA IdleType == Idle \in Ops /\ Idle.name = None /\ Idle.todo = <<>>
<1>1. <<>> \in Seq(Writes) /\ <<>> \in Seq(Records)
  OBVIOUS
<1> QED BY <1>1 DEF Idle, Ops, Unset

LEMMA NoJobType ==
  /\ NoJob \in Jobs /\ NoJournal \in Journals
  /\ NoWorktree.base = 0 /\ NoWorktree.code \in Unset /\ Unseen.code \in Unset
BY StepsAssumption DEF NoJob, NoJournal, NoWorktree, Unseen, Jobs, Journals, Unset, Rounds, Phases, None

LEMMA AtFacts ==
  ASSUME TypeOK, OpInv, NEW step, At(step)
  PROVE  /\ op.name \in OpNames /\ op.todo \in Lists(op.name)
         /\ Now = step /\ op.name \in Names(step)
         /\ op.state \in States /\ op.before \in Trees /\ op.entry \in Records
         /\ op.pending \in Seq(Records) /\ op.shown \in Contents \cup Unset
         /\ op # Idle
<1>1. op.todo # <<>> /\ Head(op.todo) = step
  BY DEF At
<1>2. op.name # None
  BY <1>1 DEF OpInv, Idle
<1>3. op.name \in OpNames /\ op.pending \in Seq(Records) /\ op.shown \in Contents \cup Unset
  BY <1>2 DEF TypeOK, Ops, OpNames
<1>4. op.todo \in Lists(op.name)
  BY DEF OpInv
<1>5. op.name \in Names(step)
  BY <1>1, <1>3, <1>4, Heads
<1>6. op.state \in States /\ op.before \in Trees /\ op.entry \in Records
  BY <1>2 DEF OpInv
<1>7. op # Idle
  BY <1>2 DEF Idle
<1> QED BY <1>1, <1>3, <1>4, <1>5, <1>6, <1>7 DEF Now

LEMMA DoneFacts ==
  ASSUME TypeOK, OpInv, NEW step, Done(step), step \notin {"finish", "queue"}
  PROVE  /\ op' \in Ops /\ op'.todo \in Lists(op.name) /\ op'.todo # <<>>
         /\ op'.name = op.name /\ op'.entry = op.entry /\ op'.state = op.state
         /\ op'.before = op.before /\ op'.pending = op.pending /\ op'.shown = op.shown
         /\ Now' \in Following(op.name, step)
         /\ op'.todo = ToFinish <=> Now' = "finish"
<1>1. /\ op.name \in OpNames /\ op.todo \in Lists(op.name) /\ Head(op.todo) = step
      /\ op.todo # <<>> /\ op' = [op EXCEPT !.todo = Tail(@)] /\ op \in Ops
  BY AtFacts DEF Done, At, TypeOK
<1>2. Tail(op.todo) \in Lists(op.name) /\ Head(Tail(op.todo)) \in Following(op.name, step)
  BY <1>1, Follows
<1>3. Tail(op.todo) \in Seq(Writes) /\ Tail(op.todo) # <<>>
  BY <1>1, <1>2, ListTypes
<1>4. /\ op' \in Ops /\ op'.todo = Tail(op.todo)
      /\ op'.name = op.name /\ op'.entry = op.entry /\ op'.state = op.state
      /\ op'.before = op.before /\ op'.pending = op.pending /\ op'.shown = op.shown
  BY <1>1, <1>3 DEF Ops
<1>5. Now' = Head(op'.todo)
  BY <1>3, <1>4 DEF Now
<1>6. Head(op'.todo) = "finish" <=> op'.todo = ToFinish
  BY <1>1, <1>2, <1>4, Heads
<1> QED BY <1>2, <1>3, <1>4, <1>5, <1>6

LEMMA BeginNow ==
  ASSUME NEW name \in OpNames, NEW todo \in Lists(name), op'.todo = todo
  PROVE  Now' = Head(todo)
BY ListTypes DEF Now

LEMMA StartLists ==
  /\ <<"promote", "gates", "log", "state", "stage", "commit", "clear", "finish">> = ToPromote
  /\ <<"promote", "gates", "log", "stage", "commit", "clear", "finish">> = ToPromoteNext
  /\ <<"state", "log", "clear", "finish">> = ToDecide
  /\ <<"log", "clear", "finish">> = ToRecord
  /\ <<"log", "stage", "commit", "finish">> = ToEntry
  /\ <<"state", "log", "queue">> = ToPhase
  /\ <<"checkout", "revert", "append", "log", "stage", "commit", "finish">> = ToCheckout
  /\ {ToPromote, ToPromoteNext} \subseteq Lists("approve") /\ ToDecide \in Lists("approach")
  /\ ToRecord \in Lists("reject") /\ ToEntry \in Lists("manual") /\ ToPhase \in Lists("phase")
  /\ ToCheckout \in Lists("undo")
BY DEF Lists, ToPromote, ToPromoteNext, ToDecide, ToRecord, ToEntry, ToPhase, ToCheckout

LEMMA EnsuredFrame ==
  ASSUME NEW s \in States
  PROVE  /\ Ensured(s).phase = s.phase /\ Ensured(s).cursor = s.cursor
         /\ Ensured(s).approach = s.approach
BY DEF Ensured, States

(* What the operations begin with.                                         *)
Opened(name, todo, entry, after) ==
  /\ name \in OpNames /\ todo \in Lists(name) /\ entry \in Records /\ after \in States
  /\ Begin(name, todo, entry, after)

LEMMA AdvancedType ==
  ASSUME NEW s \in States
  PROVE  Advanced(s) \in States /\ Advanced(s).approach = 0
<1>1. N \in Nat /\ 0 \in 0 .. N
  BY StepsAssumption
<1>2. s.phase \in Phases /\ s.queue \in Seq(Files) /\ s.cursor + 1 \in Nat
  BY DEF States
<1>3. ASSUME NEW c \in Nat
      PROVE  LET t == [s EXCEPT !.cursor = c, !.approach = 0] IN t \in States /\ t.approach = 0
  BY <1>1 DEF States
<1>4. Advanced(s) = [s EXCEPT !.cursor = s.cursor + 1, !.approach = 0]
  BY DEF Advanced
<1> QED BY <1>2, <1>3, <1>4

LEMMA ApproveOpens ==
  ASSUME TypeOK, ReviewInv, Approve
  PROVE  \E todo \in {ToPromote, ToPromoteNext}, after \in {Advanced(Ensured(state)), state} :
           Opened("approve", todo, Entry(job.number, job.phase, "approved", "code",
             Changed(commits[worktree.base].tree.code, worktree.code)), after)
<1>1. state \in States /\ Ensured(state) \in States /\ Advanced(Ensured(state)) \in States
  BY TypeFacts, EnsuredType, AdvancedType
<1>2. job.number \in Nat /\ job.phase \in Phases
  BY DEF TypeOK, Jobs, ReviewInv, Approve, Deciding
<1>3. Changed(commits[worktree.base].tree.code, worktree.code) \in SUBSET Files
  BY DEF Changed
<1> DEFINE entry == Entry(job.number, job.phase, "approved", "code",
             Changed(commits[worktree.base].tree.code, worktree.code))
<1>4. entry \in Records
  BY <1>2, <1>3, EntryType DEF Rounds
<1> HIDE DEF entry
<1>5. CASE state.phase = "implementation"
  <2>1. Begin("approve", ToPromote, entry, Advanced(Ensured(state)))
    BY <1>5, StartLists DEF Approve, entry
  <2> QED BY <1>1, <1>4, <2>1, StartLists DEF Opened, OpNames, entry
<1>6. CASE state.phase # "implementation"
  <2>1. Begin("approve", ToPromoteNext, entry, state)
    BY <1>6, StartLists DEF Approve, entry
  <2> QED BY <1>1, <1>4, <2>1, StartLists DEF Opened, OpNames, entry
<1> QED BY <1>5, <1>6

LEMMA ApproachOpens ==
  ASSUME TypeOK, ApproveApproach
  PROVE  Opened("approach", ToDecide, Entry(job.number, "implementation", "approved", "approach", {}),
                [Ensured(state) EXCEPT !.approach = job.target])
<1>1. Ensured(state) \in States /\ job.number \in Nat /\ job.target \in 0 .. N
  BY TypeFacts, EnsuredType DEF TypeOK, Jobs
<1>2. [Ensured(state) EXCEPT !.approach = job.target] \in States
  BY <1>1 DEF States
<1>3. Entry(job.number, "implementation", "approved", "approach", {}) \in Records
  BY <1>1, EntryType DEF Rounds, Phases
<1>4. Begin("approach", ToDecide, Entry(job.number, "implementation", "approved", "approach", {}),
            [Ensured(state) EXCEPT !.approach = job.target])
  BY StartLists DEF ApproveApproach
<1> QED BY <1>2, <1>3, <1>4, StartLists DEF Opened, OpNames

LEMMA RejectOpens ==
  ASSUME TypeOK, ReviewInv, Reject
  PROVE  Opened("reject", ToRecord, Entry(job.number, job.phase, "rejected", job.round, {}), state)
<1>1. job.number \in Nat /\ job.phase \in Phases /\ job.round \in Rounds
  BY DEF TypeOK, Jobs, ReviewInv, Reject, Deciding, Candidate
<1>2. Entry(job.number, job.phase, "rejected", job.round, {}) \in Records
  BY <1>1, EntryType
<1>3. Begin("reject", ToRecord, Entry(job.number, job.phase, "rejected", job.round, {}), state)
  BY StartLists DEF Reject
<1> QED BY <1>2, <1>3, TypeFacts, StartLists DEF Opened, OpNames

LEMMA ManualOpens ==
  ASSUME TypeOK, CommitManual
  PROVE  Opened("manual", ToEntry,
           Entry(NextNumber(log), "manual", "manual", "code", Changed(Committed.code, code)), state)
<1>1. NextNumber(log) \in Nat
  BY TypeFacts, NextIsLarger
<1>2. Entry(NextNumber(log), "manual", "manual", "code", Changed(Committed.code, code)) \in Records
  BY <1>1, EntryType DEF Rounds, Changed
<1>3. Begin("manual", ToEntry,
        Entry(NextNumber(log), "manual", "manual", "code", Changed(Committed.code, code)), state)
  BY StartLists DEF CommitManual
<1> QED BY <1>2, <1>3, TypeFacts, StartLists DEF Opened, OpNames

LEMMA PhaseOpens ==
  ASSUME TypeOK, NEW phase \in Phases, Transition(phase)
  PROVE  Opened("phase", ToPhase, Entry(NextNumber(log), phase, "phase_transition", "code", {}),
                [Architecture EXCEPT !.phase = phase])
<1>1. NextNumber(log) \in Nat
  BY TypeFacts, NextIsLarger
<1>2. Entry(NextNumber(log), phase, "phase_transition", "code", {}) \in Records
  BY <1>1, EntryType DEF Rounds
<1>3. [Architecture EXCEPT !.phase = phase] \in States
  <2>1. N \in Nat /\ 0 \in 0 .. N /\ 0 \in Nat /\ <<>> \in Seq(Files)
    BY StepsAssumption
  <2>2. [Architecture EXCEPT !.phase = phase]
          = [phase |-> phase, queue |-> <<>>, cursor |-> 0, approach |-> 0]
    BY DEF Architecture
  <2> QED BY <2>1, <2>2 DEF States
<1>4. Begin("phase", ToPhase, Entry(NextNumber(log), phase, "phase_transition", "code", {}),
            [Architecture EXCEPT !.phase = phase])
  BY StartLists DEF Transition
<1> QED BY <1>2, <1>3, <1>4, StartLists DEF Opened, OpNames

LEMMA LastApproved ==
  ASSUME NEW L \in Seq(Records), Approved(L) # {}
  PROVE  /\ Max(Approved(L)) \in Approved(L) /\ Max(Approved(L)) \in DOMAIN L
         /\ \A i \in Approved(L) : i <= Max(Approved(L))
         /\ L[Max(Approved(L))] \in Records
<1>1. Approved(L) \in SUBSET Nat /\ \A i \in Approved(L) : i <= Len(L)
  BY DEF Approved
<1>2. Max(Approved(L)) \in Approved(L) /\ \A i \in Approved(L) : i <= Max(Approved(L))
  <2>1. Len(L) \in Nat
    OBVIOUS
  <2> QED BY <1>1, <2>1, Greatest
<1>3. Max(Approved(L)) \in DOMAIN L
  BY <1>2 DEF Approved
<1> QED BY <1>2, <1>3

LEMMA UndoOpens ==
  ASSUME TypeOK, OpInv, Undo
  PROVE  LET step == log[Max(Approved(log))] IN
         /\ op' \in Ops /\ op'.name = "undo" /\ op'.todo = ToCheckout
         /\ op'.entry = Entry(step.number, step.phase, "undone", "code", {}) /\ op'.entry \in Records
         /\ step.number = HEAD.number /\ HEAD.number # 0 /\ Len(commits) > 1
         /\ op'.state = state /\ op'.before \in Trees
         /\ op'.before.code = code /\ op'.before.log = log /\ op'.before.state = state
         /\ op'.pending = PendingLog
<1> DEFINE step == log[Max(Approved(log))]
<1>1. log \in Seq(Records) /\ code \in Contents /\ state \in States
  BY TypeFacts
<1>2. step \in Records
  BY <1>1, LastApproved DEF Undo
<1> HIDE DEF step
<1>3. step.number \in Nat /\ step.phase \in Phases \cup {"manual"}
  BY <1>2 DEF Records
<1>4. Entry(step.number, step.phase, "undone", "code", {}) \in Records
  BY <1>3, EntryType DEF Rounds
<1>5. PendingLog \in Seq(Records)
  <2>1. SubSeq(log, Len(Committed.log) + 1, Len(log)) \in Seq(Records)
    BY <1>1, TypeFacts
  <2>2. <<>> \in Seq(Records)
    OBVIOUS
  <2> QED BY <2>1, <2>2 DEF PendingLog
<1>6. [code |-> code, log |-> log, state |-> state] \in Trees
  BY <1>1 DEF Trees
<1>7. /\ step.number # 0 /\ HeadIs(step.number)
      /\ op' = [name |-> "undo", todo |-> ToCheckout,
                entry |-> Entry(step.number, step.phase, "undone", "code", {}),
                state |-> state, before |-> [code |-> code, log |-> log, state |-> state],
                pending |-> PendingLog, shown |-> <<>>]
  BY StartLists DEF Undo, step
<1>8. ToCheckout \in Seq(Writes)
  BY ListFacts
<1>9. op' \in Ops
  BY <1>1, <1>4, <1>5, <1>6, <1>7, <1>8 DEF Ops, Unset
<1>10. step.number = HEAD.number /\ HEAD.number # 0
  BY <1>7 DEF HeadIs
<1>11. Len(commits) > 1
  BY <1>10, TypeFacts DEF HEAD, OpInv
<1> QED BY <1>4, <1>6, <1>7, <1>9, <1>10, <1>11 DEF step

LEMMA OpenedFacts ==
  ASSUME TypeOK, NEW name, NEW todo, NEW entry, NEW after, Opened(name, todo, entry, after)
  PROVE  /\ op' \in Ops /\ op'.name = name /\ op'.todo = todo /\ op'.entry = entry
         /\ op'.state = after /\ op'.before \in Trees /\ op'.shown = reviewed.code
         /\ op'.before.code = code /\ op'.before.log = log /\ op'.before.state = Ensured(state)
         /\ entry \in Records /\ after \in States /\ name \in OpNames
         /\ todo \in Lists(name) /\ Now' = Head(todo)
BY BeginType, BeginNow DEF Opened

-----------------------------------------------------------------------------
(* The types are kept.                                                     *)

DiskOK ==
  /\ Tree \in Trees /\ index \in Trees
  /\ commits \in Seq(Commits) /\ commits # <<>> /\ effect \in Seq(Effects)
WorktreeOK ==
  /\ worktree \in [base : 0 .. Len(commits), code : Contents \cup Unset]
  /\ worktree.base # 0 => worktree.code \in Contents
ReviewOK ==
  WorktreeOK /\ journal \in Journals /\ job \in Jobs /\ reviewed.code \in Contents \cup Unset
BoundsOK == version \in Nat /\ faults \in Nat /\ crashes \in Nat

LEMMA TypeParts == TypeOK <=> DiskOK /\ ReviewOK /\ op \in Ops /\ BoundsOK
BY DEF TypeOK, DiskOK, WorktreeOK, ReviewOK, BoundsOK

LEMMA TypePartsNext == TypeOK' <=> DiskOK' /\ ReviewOK' /\ op' \in Ops /\ BoundsOK'
BY DEF TypeOK, DiskOK, WorktreeOK, ReviewOK, BoundsOK

LEMMA Kept ==
  ASSUME TypeOK
  PROVE  /\ UNCHANGED disk => DiskOK'
         /\ UNCHANGED <<commits, review>> => ReviewOK'
         /\ UNCHANGED op => op' \in Ops
         /\ UNCHANGED bounds => BoundsOK'
         /\ UNCHANGED <<commits, worktree>> => WorktreeOK'
<1>1. UNCHANGED disk => UNCHANGED <<Tree, index, commits, effect>>
  BY DEF disk, git, Tree
<1>2. UNCHANGED disk => DiskOK'
  BY <1>1 DEF DiskOK, TypeOK
<1>3. UNCHANGED <<commits, review>> => ReviewOK'
  BY DEF review, ReviewOK, WorktreeOK, TypeOK
<1>4. UNCHANGED op => op' \in Ops
  BY DEF TypeOK
<1>5. UNCHANGED bounds => BoundsOK'
  BY DEF bounds, BoundsOK, TypeOK
<1>6. UNCHANGED <<commits, worktree>> => WorktreeOK'
  BY DEF WorktreeOK, TypeOK
<1> QED BY <1>2, <1>3, <1>4, <1>5, <1>6

LEMMA DiskStep ==
  ASSUME TypeOK, code' \in Contents, log' \in Seq(Records), state' \in States,
         index' \in Trees, UNCHANGED git
  PROVE  DiskOK'
<1>1. Tree' \in Trees
  BY DEF Tree, Trees
<1> QED BY <1>1 DEF DiskOK, TypeOK, git

(* A commit leaves the worktree as it was.                                 *)
LEMMA CommitKeeps ==
  ASSUME TypeOK, NEW kind \in Kinds, NEW number \in Nat, NEW tree \in Trees,
         Committing(kind, number, tree), UNCHANGED review
  PROVE  ReviewOK'
<1>1. Len(commits') = Len(commits) + 1 /\ Len(commits) \in Nat
  BY CommitType, TypeFacts
<1>2. worktree' = worktree /\ worktree \in [base : 0 .. Len(commits), code : Contents \cup Unset]
  BY DEF review, TypeOK
<1>3. 0 .. Len(commits) \subseteq 0 .. Len(commits')
  BY <1>1
<1>4. worktree' \in [base : 0 .. Len(commits'), code : Contents \cup Unset]
  BY <1>2, <1>3
<1> QED BY <1>2, <1>4 DEF review, ReviewOK, WorktreeOK, TypeOK

LEMMA VersionType ==
  ASSUME TypeOK
  PROVE  version \in Nat /\ version + 1 \in Nat
BY DEF TypeOK

LEMMA TypeDeveloper ==
  ASSUME TypeOK, Developer
  PROVE  TypeOK'
<1>1. ASSUME NEW f \in Files, Edit(f) PROVE TypeOK'
  <2>1. code' \in Contents
    BY <1>1, TypeFacts, VersionType DEF Edit, Contents
  <2>2. DiskOK'
    BY <1>1, <2>1, TypeFacts, DiskStep DEF Edit, TypeOK
  <2>3. BoundsOK'
    BY <1>1, VersionType DEF Edit, BoundsOK, TypeOK
  <2> QED BY <1>1, <2>2, <2>3, Kept, TypePartsNext DEF Edit, git
<1>2. ASSUME NEW f \in Files, EditWorktree(f) PROVE TypeOK'
  <2>1. worktree.code \in Contents /\ worktree.base \in 0 .. Len(commits)
    BY <1>2 DEF EditWorktree, TypeOK
  <2>2. worktree' = [base |-> worktree.base, code |-> [worktree.code EXCEPT ![f] = version + 1]]
    BY <1>2 DEF EditWorktree, TypeOK
  <2>3. [worktree.code EXCEPT ![f] = version + 1] \in Contents
    BY <2>1, VersionType DEF Contents
  <2>4. WorktreeOK'
    BY <1>2, <2>1, <2>2, <2>3 DEF EditWorktree, WorktreeOK, disk, git
  <2>5. ReviewOK'
    BY <1>2, <2>4 DEF EditWorktree, ReviewOK, TypeOK
  <2>6. BoundsOK'
    BY <1>2, VersionType DEF EditWorktree, BoundsOK, TypeOK
  <2> QED BY <1>2, <2>5, <2>6, Kept, TypePartsNext DEF EditWorktree
<1>3. CASE CommitByHand
  <2>1. Committing("external", 0, Tree) /\ Tree \in Trees /\ "external" \in Kinds
    BY <1>3 DEF CommitByHand, TypeOK, Kinds
  <2>2. commits' \in Seq(Commits) /\ commits' # <<>> /\ effect' \in Seq(Effects)
    BY <2>1, CommitType
  <2>3. DiskOK'
    BY <1>3, <2>1, <2>2 DEF CommitByHand, DiskOK, Tree
  <2>4. ReviewOK'
    BY <1>3, <2>1, CommitKeeps DEF CommitByHand
  <2> QED BY <1>3, <2>3, <2>4, Kept, TypePartsNext DEF CommitByHand
<1> QED BY <1>1, <1>2, <1>3 DEF Developer

LEMMA CheckpointType ==
  ASSUME TypeOK, NEW round \in Rounds
  PROVE  Checkpoint(round, FALSE) \in Journals /\ Checkpoint(round, FALSE).round = round
<1>1. NextNumber(log) \in Nat /\ state.phase \in Phases /\ Len(commits) \in Nat
  BY TypeFacts, NextIsLarger DEF States
<1>2. Target(Ensured(state)) \in 0 .. N
  BY TypeFacts, EnsuredType, TargetType
<1> QED BY <1>1, <1>2 DEF Checkpoint, Journals

LEMMA TypeAsk ==
  ASSUME TypeOK, NEW round \in Rounds, NEW candidate \in Jobs, Ask(round, candidate)
  PROVE  /\ DiskOK' /\ WorktreeOK' /\ journal' \in Journals /\ job' \in Jobs
<1>1. state' \in States
  BY TypeFacts, EnsuredType DEF Ask
<1>2. DiskOK'
  BY <1>1, TypeFacts, DiskStep DEF Ask, TypeOK
<1>3. journal' \in Journals
  BY CheckpointType DEF Ask
<1>4. job' \in Jobs
  BY DEF Ask, Asking, Jobs
<1>5. WorktreeOK'
  <2>1. CASE round = "code"
    BY <2>1, TypeFacts DEF Ask, WorktreeOK, git
  <2>2. CASE round # "code"
    BY <2>2, Kept DEF Ask, git
  <2> QED BY <2>1, <2>2
<1> QED BY <1>2, <1>3, <1>4, <1>5

LEMMA TypeWorking ==
  ASSUME TypeOK, Working
  PROVE  TypeOK'
<1>1. ASSUME NEW round \in Rounds, Propose(round) PROVE TypeOK'
  <2>1. DiskOK' /\ WorktreeOK' /\ journal' \in Journals /\ job' \in Jobs
    BY <1>1, TypeAsk, NoJobType DEF Propose
  <2>2. ReviewOK'
    BY <1>1, <2>1, NoJobType DEF Propose, ReviewOK
  <2> QED BY <1>1, <2>1, <2>2, Kept, TypePartsNext DEF Propose, Ask
<1>2. ASSUME NEW changes \in SUBSET Files, NEW ok \in BOOLEAN, CodeProposed(changes, ok) PROVE TypeOK'
  <2> DEFINE written == [f \in Files |-> IF f \in changes THEN version + 1 ELSE Committed.code[f]]
  <2>1. written \in Contents
    BY TypeFacts, VersionType DEF Contents
  <2> HIDE DEF written
  <2>2. /\ worktree' = [base |-> Len(commits), code |-> written]
        /\ job' = [NoJob EXCEPT !.state = "completed", !.round = "code",
                      !.number = journal.number, !.phase = journal.phase,
                      !.target = journal.target, !.ok = ok, !.base = Len(commits),
                      !.checked = written]
        /\ journal' = [journal EXCEPT !.base = Len(commits), !.reply = TRUE]
        /\ version' = version + 1 /\ UNCHANGED <<disk, reviewed, op, faults, crashes>>
    BY <1>2 DEF CodeProposed, written
  <2>3. WorktreeOK'
    BY <2>1, <2>2, TypeFacts DEF WorktreeOK, disk, git
  <2>4. journal \in Journals /\ journal' \in Journals
    BY <2>2, TypeFacts DEF TypeOK, Journals
  <2>5. job' \in Jobs
    BY <2>1, <2>2, <2>4, TypeFacts, NoJobType DEF Jobs, Journals, Rounds
  <2>6. ReviewOK'
    BY <2>2, <2>3, <2>4, <2>5 DEF ReviewOK, TypeOK
  <2>7. BoundsOK'
    BY <2>2, VersionType DEF BoundsOK, TypeOK
  <2> QED BY <2>2, <2>6, <2>7, Kept, TypePartsNext
<1>3. ASSUME NEW ok \in BOOLEAN, ApproachProposed(ok) PROVE TypeOK'
  <2>1. journal \in Journals /\ journal' \in Journals
    BY <1>3, TypeFacts DEF ApproachProposed, TypeOK, Journals
  <2>2. job' \in Jobs
    BY <1>3, <2>1, TypeFacts, NoJobType DEF ApproachProposed, Jobs, Journals, Rounds
  <2>3. ReviewOK'
    BY <1>3, <2>1, <2>2, Kept DEF ApproachProposed, ReviewOK, TypeOK, disk, git
  <2> QED BY <1>3, <2>3, Kept, TypePartsNext DEF ApproachProposed
<1>4. ASSUME NEW ok \in BOOLEAN, Rebuilt(ok) PROVE TypeOK'
  <2>1. worktree.base \in Nat /\ worktree.code \in Contents \cup Unset /\ job \in Jobs
    BY TypeFacts DEF TypeOK
  <2>2. job' \in Jobs
    BY <1>4, <2>1 DEF Rebuilt, Jobs
  <2>3. ReviewOK'
    BY <1>4, <2>2, Kept DEF Rebuilt, ReviewOK, TypeOK, disk, git
  <2> QED BY <1>4, <2>3, Kept, TypePartsNext DEF Rebuilt
<1>5. CASE WorkFails
  <2>1. job' \in Jobs
    BY <1>5 DEF WorkFails, Jobs, TypeOK
  <2>2. ReviewOK'
    BY <1>5, <2>1, Kept DEF WorkFails, ReviewOK, TypeOK, disk, git
  <2> QED BY <1>5, <2>2, Kept, TypePartsNext DEF WorkFails
<1>6. CASE Resume
  <2>1. journal \in Journals /\ worktree.code \in Contents \cup Unset /\ Len(commits) \in Nat
    BY TypeFacts DEF TypeOK
  <2>2. Resumed \in Jobs
    BY <2>1, NoJobType DEF Resumed, Jobs, Journals
  <2>3. job' \in Jobs
    BY <1>6, <2>1, <2>2 DEF Resume, Asking, Jobs
  <2>4. ReviewOK'
    BY <1>6, <2>3, Kept, NoJobType DEF Resume, ReviewOK, TypeOK, disk, git
  <2> QED BY <1>6, <2>4, Kept, TypePartsNext DEF Resume
<1>7. CASE Discard
  <2>1. worktree' = NoWorktree /\ UNCHANGED commits
    BY <1>7 DEF Discard, disk, git
  <2>2. WorktreeOK'
    BY <2>1, TypeFacts DEF WorktreeOK, NoWorktree, Unset
  <2>3. ReviewOK'
    BY <1>7, <2>2, NoJobType DEF Discard, ReviewOK
  <2> QED BY <1>7, <2>3, Kept, TypePartsNext DEF Discard
<1> QED BY <1>1, <1>2, <1>3, <1>4, <1>5, <1>6, <1>7 DEF Working

LEMMA TypeDecisions ==
  ASSUME TypeOK, OpInv, ReviewInv, Decisions
  PROVE  TypeOK'
<1>0. state \in States /\ Ensured(state) \in States /\ code \in Contents /\ log \in Seq(Records)
  BY TypeFacts, EnsuredType
<1>1. CASE View
  <2>1. worktree.code \in Contents \cup Unset
    BY DEF TypeOK
  <2>2. reviewed'.code \in Contents \cup Unset
    BY <1>1, <2>1 DEF View, Evidence
  <2>3. ReviewOK'
    BY <1>1, <2>2, Kept DEF View, ReviewOK, TypeOK, disk, git
  <2> QED BY <1>1, <2>3, Kept, TypePartsNext DEF View
<1>2. CASE Approve
  <2>1. op' \in Ops
    BY <1>2, ApproveOpens, OpenedFacts
  <2>2. DiskOK'
    BY <1>0, <1>2, DiskStep DEF Approve, TypeOK
  <2> QED BY <1>2, <2>1, <2>2, Kept, TypePartsNext DEF Approve, git
<1>3. CASE ApproveApproach
  <2>1. op' \in Ops
    BY <1>3, ApproachOpens, OpenedFacts
  <2>2. DiskOK'
    BY <1>0, <1>3, DiskStep DEF ApproveApproach, TypeOK
  <2> QED BY <1>3, <2>1, <2>2, Kept, TypePartsNext DEF ApproveApproach, git
<1>4. CASE Reject
  <2>1. op' \in Ops
    BY <1>4, RejectOpens, OpenedFacts
  <2> QED BY <1>4, <2>1, Kept, TypePartsNext DEF Reject, disk, git
<1>5. CASE Rebuild
  <2>1. job' \in Jobs
    BY <1>5 DEF Rebuild, Asking, Jobs, TypeOK
  <2>2. ReviewOK'
    BY <1>5, <2>1, Kept, NoJobType DEF Rebuild, ReviewOK, TypeOK, disk, git
  <2> QED BY <1>5, <2>2, Kept, TypePartsNext DEF Rebuild
<1>6. CASE Adapt
  <2>0. job.round \in Rounds /\ job \in Jobs
    BY <1>6 DEF Adapt, Deciding, Candidate, TypeOK, Jobs
  <2>1. DiskOK' /\ WorktreeOK' /\ journal' \in Journals /\ job' \in Jobs
    BY <1>6, <2>0, TypeAsk DEF Adapt
  <2>2. ReviewOK'
    BY <1>6, <2>1, NoJobType DEF Adapt, ReviewOK
  <2> QED BY <1>6, <2>1, <2>2, Kept, TypePartsNext DEF Adapt, Ask
<1>7. CASE Undo
  <2>1. op' \in Ops
    BY <1>7, UndoOpens
  <2> QED BY <1>7, <2>1, Kept, TypePartsNext DEF Undo, disk, git
<1>8. CASE CommitManual
  <2>1. op' \in Ops
    BY <1>8, ManualOpens, OpenedFacts
  <2> QED BY <1>8, <2>1, Kept, TypePartsNext DEF CommitManual, disk, git
<1>9. ASSUME NEW phase \in Phases, Transition(phase) PROVE TypeOK'
  <2>1. op' \in Ops
    BY <1>9, PhaseOpens, OpenedFacts
  <2> QED BY <1>9, <2>1, Kept, TypePartsNext DEF Transition, disk, git
<1> QED BY <1>1, <1>2, <1>3, <1>4, <1>5, <1>6, <1>7, <1>8, <1>9 DEF Decisions

LEMMA ParentType ==
  ASSUME TypeOK, Len(commits) > 1
  PROVE  /\ Len(commits) - 1 \in DOMAIN commits /\ Parent \in Trees
         /\ Parent.code \in Contents /\ Parent.log \in Seq(Records) /\ Parent.state \in States
<1>1. Len(commits) - 1 \in DOMAIN commits
  BY DEF TypeOK
<1>2. commits[Len(commits) - 1] \in Commits
  BY <1>1 DEF TypeOK
<1> QED BY <1>1, <1>2 DEF Commits, Parent, Trees

LEMMA TypeWriting ==
  ASSUME TypeOK, OpInv, ReviewInv, ApproveInv, Writing
  PROVE  TypeOK'
<1>0. /\ state \in States /\ Ensured(state) \in States /\ code \in Contents /\ log \in Seq(Records)
      /\ index \in Trees
  BY TypeFacts, EnsuredType DEF TypeOK
<1>1. CASE Promote
  <2>1. op' \in Ops /\ op.name \in Names("promote") /\ Now = "promote"
    BY <1>1, DoneFacts, AtFacts DEF Promote, Done
  <2>2. job.round = "code" /\ worktree.base # 0
    BY <2>1 DEF ReviewInv, ApproveInv, Names
  <2>3. worktree.code \in Contents
    BY <2>2 DEF TypeOK
  <2>4. code' \in Contents
    BY <1>0, <1>1, <2>3 DEF Promote, Contents
  <2>5. DiskOK'
    BY <1>0, <1>1, <2>4, DiskStep DEF Promote
  <2> QED BY <1>1, <2>1, <2>5, Kept, TypePartsNext DEF Promote, git
<1>2. CASE Gates
  <2>1. op' \in Ops
    BY <1>2, DoneFacts DEF Gates
  <2> QED BY <1>2, <2>1, Kept, TypePartsNext DEF Gates, disk, git
<1>3. CASE AppendLog
  <2>1. op' \in Ops /\ op.entry \in Records
    BY <1>3, DoneFacts, AtFacts DEF AppendLog, Done
  <2>2. DiskOK'
    BY <1>0, <1>3, <2>1, DiskStep DEF AppendLog
  <2> QED BY <1>3, <2>1, <2>2, Kept, TypePartsNext DEF AppendLog, git
<1>4. CASE SaveState
  <2>1. op' \in Ops /\ op.state \in States
    BY <1>4, DoneFacts, AtFacts DEF SaveState, Done
  <2>2. DiskOK'
    BY <1>0, <1>4, <2>1, DiskStep DEF SaveState
  <2> QED BY <1>4, <2>1, <2>2, Kept, TypePartsNext DEF SaveState, git
<1>5. CASE EnsureQueue
  <2>1. op' \in Ops
    BY <1>5, IdleType DEF EnsureQueue
  <2>2. DiskOK'
    BY <1>0, <1>5, DiskStep DEF EnsureQueue
  <2> QED BY <1>5, <2>1, <2>2, Kept, TypePartsNext DEF EnsureQueue, git
<1>6. CASE Stage
  <2>1. op' \in Ops
    BY <1>6, DoneFacts DEF Stage
  <2>2. DiskOK'
    BY <1>0, <1>6, TreeType, DiskStep DEF Stage
  <2> QED BY <1>6, <2>1, <2>2, Kept, TypePartsNext DEF Stage, git
<1>7. CASE Commit
  <2>1. op' \in Ops /\ op.entry \in Records
    BY <1>7, DoneFacts, AtFacts DEF Commit, Done
  <2> DEFINE kind == CASE op.name = "approve" -> "step" [] op.name = "manual" -> "manual"
                       [] OTHER -> "undo"
  <2>2. kind \in Kinds /\ op.entry.number \in Nat
    BY <2>1 DEF Kinds, Records
  <2>3. Committing(kind, op.entry.number, index)
    BY <1>7 DEF Commit
  <2> HIDE DEF kind
  <2>4. commits' \in Seq(Commits) /\ commits' # <<>> /\ effect' \in Seq(Effects)
    BY <1>0, <2>2, <2>3, CommitType
  <2>5. ReviewOK'
    BY <1>0, <1>7, <2>2, <2>3, CommitKeeps DEF Commit
  <2>6. DiskOK'
    BY <1>7, <2>4, Kept DEF Commit, DiskOK, TypeOK, Tree
  <2> QED BY <1>7, <2>1, <2>5, <2>6, Kept, TypePartsNext DEF Commit
<1>8. CASE Clear
  <2>1. op' \in Ops
    BY <1>8, DoneFacts DEF Clear
  <2>2. WorktreeOK'
    BY <1>8, TypeFacts DEF Clear, WorktreeOK, NoWorktree, Unset, disk, git
  <2>3. ReviewOK'
    BY <1>8, <2>2 DEF Clear, ReviewOK, TypeOK
  <2> QED BY <1>8, <2>1, <2>3, Kept, TypePartsNext DEF Clear
<1>9. CASE Finish
  <2>1. op' \in Ops
    BY <1>9, IdleType DEF Finish
  <2>2. ReviewOK'
    BY <1>9, Kept, NoJobType DEF Finish, ReviewOK, disk, git
  <2> QED BY <1>9, <2>1, <2>2, Kept, TypePartsNext DEF Finish
<1>10. CASE Checkout
  <2>1. op' \in Ops
    BY <1>10, DoneFacts DEF Checkout
  <2>2. DiskOK'
    BY <1>0, <1>10, TypeFacts, DiskStep DEF Checkout
  <2> QED BY <1>10, <2>1, <2>2, Kept, TypePartsNext DEF Checkout, git
<1>11. CASE Revert
  <2>0. op.name \in Names("revert")
    BY <1>11, AtFacts DEF Revert, Done
  <2>1. op' \in Ops /\ op.name = "undo"
    BY <1>11, <2>0, DoneFacts DEF Revert, Names
  <2>2. /\ Parent \in Trees /\ Parent.code \in Contents /\ Parent.log \in Seq(Records)
        /\ Parent.state \in States
    BY <2>1, ParentType DEF OpInv
  <2>3. DiskOK'
    BY <1>0, <1>11, <2>2, DiskStep DEF Revert, Reverted
  <2> QED BY <1>11, <2>1, <2>3, Kept, TypePartsNext DEF Revert, git
<1>12. CASE RevertRefused
  <2>1. op' \in Ops
    BY <1>12, IdleType DEF RevertRefused
  <2> QED BY <1>12, <2>1, Kept, TypePartsNext DEF RevertRefused, disk, git
<1>13. CASE WriteBack
  <2>1. op' \in Ops /\ op.pending \in Seq(Records)
    BY <1>13, DoneFacts, AtFacts DEF WriteBack, Done
  <2>2. log' \in Seq(Records)
    BY <1>0, <1>13, <2>1 DEF WriteBack, AppendPending
  <2>3. DiskOK'
    BY <1>0, <1>13, <2>2, DiskStep DEF WriteBack
  <2> QED BY <1>13, <2>1, <2>3, Kept, TypePartsNext DEF WriteBack, git
<1> QED BY <1>1, <1>2, <1>3, <1>4, <1>5, <1>6, <1>7, <1>8, <1>9, <1>10, <1>11, <1>12, <1>13 DEF Writing

LEMMA FailsFacts ==
  ASSUME TypeOK, OpInv, NEW step, Fails(step)
  PROVE  /\ op' = Idle /\ op' \in Ops /\ faults' \in Nat /\ Now = step
         /\ op.name \in OpNames /\ op.name \in Names(step) /\ op.name \in Fragile
         /\ op.before \in Trees
         /\ op.before.log \in Seq(Records) /\ op.before.state \in States
BY AtFacts, IdleType DEF Fails, TypeOK, Trees

LEMMA TypeFailing ==
  ASSUME TypeOK, OpInv, ReviewInv, Failing
  PROVE  TypeOK'
<1>0. /\ state \in States /\ code \in Contents /\ log \in Seq(Records) /\ index \in Trees
      /\ Committed \in Trees /\ crashes \in Nat
  BY TypeFacts DEF TypeOK
<1>1. CASE PromoteFails
  <2>1. PICK f \in op.entry.touched, torn \in BOOLEAN :
          /\ version' = IF torn THEN version + 1 ELSE version
          /\ code' = IF torn THEN [code EXCEPT ![f] = version + 1] ELSE code
    BY <1>1 DEF PromoteFails
  <2>2. code' \in Contents /\ version' \in Nat
    BY <1>0, <2>1, VersionType DEF Contents
  <2>3. DiskOK'
    BY <1>0, <1>1, <2>2, DiskStep DEF PromoteFails
  <2>4. BoundsOK'
    BY <1>0, <1>1, <2>2, FailsFacts DEF PromoteFails, BoundsOK
  <2> QED BY <1>1, <2>3, <2>4, FailsFacts, Kept, TypePartsNext DEF PromoteFails, git
<1>2. CASE ApproveFails
  <2>1. PICK step \in {"gates", "log", "state", "stage", "commit"} : Fails(step)
    BY <1>2 DEF ApproveFails
  <2>2. op' \in Ops /\ faults' \in Nat /\ op.before.log \in Seq(Records) /\ op.before.state \in States
    BY <2>1, FailsFacts
  <2>3. RolledBack \in Contents
    BY <1>0, TypeFacts DEF RolledBack, Contents
  <2>4. DiskOK'
    BY <1>0, <1>2, <2>2, <2>3, DiskStep DEF ApproveFails, Restored_log, Restored_state
  <2>5. BoundsOK'
    BY <1>0, <1>2, <2>2, VersionType DEF ApproveFails, BoundsOK
  <2> QED BY <1>2, <2>2, <2>4, <2>5, Kept, TypePartsNext DEF ApproveFails, git
<1>3. CASE DecisionFails
  <2>1. op' \in Ops /\ faults' \in Nat /\ op.before.state \in States
    BY <1>3, FailsFacts DEF DecisionFails
  <2>2. state' \in States
    BY <1>0, <1>3, <2>1 DEF DecisionFails, Restored_state
  <2>3. DiskOK'
    BY <1>0, <1>3, <2>2, DiskStep DEF DecisionFails
  <2>4. BoundsOK'
    BY <1>0, <1>3, <2>1, VersionType DEF DecisionFails, BoundsOK
  <2> QED BY <1>3, <2>1, <2>3, <2>4, Kept, TypePartsNext DEF DecisionFails, git
<1>4. CASE OtherFails
  <2>1. op' \in Ops /\ faults' \in Nat
    BY <1>4, FailsFacts DEF OtherFails
  <2>2. BoundsOK'
    BY <1>0, <1>4, <2>1, VersionType DEF OtherFails, BoundsOK
  <2> QED BY <1>4, <2>1, <2>2, Kept, TypePartsNext DEF OtherFails, disk, git
<1>5. CASE Crash
  <2>1. ReviewOK'
    BY <1>5, Kept, NoJobType DEF Crash, ReviewOK, TypeOK, disk, git
  <2>2. BoundsOK'
    BY <1>5 DEF Crash, BoundsOK, TypeOK
  <2> QED BY <1>5, <2>1, <2>2, IdleType, Kept, TypePartsNext DEF Crash
<1> QED BY <1>1, <1>2, <1>3, <1>4, <1>5 DEF Failing

LEMMA TypeStep ==
  ASSUME Inv, Next
  PROVE  TypeOK'
BY TypeDeveloper, TypeWorking, TypeDecisions, TypeWriting, TypeFailing DEF Inv, Next

-----------------------------------------------------------------------------
(* The transaction under way.                                              *)

(* What happens only while no transaction is under way, and begins none.   *)
Quiet == Developer \/ Working \/ View \/ Rebuild \/ Adapt
Opening ==
  \/ Approve \/ ApproveApproach \/ Reject \/ Undo \/ CommitManual
  \/ \E phase \in Phases : Transition(phase)

LEMMA NextParts == Next <=> Quiet \/ Opening \/ Writing \/ Failing
BY DEF Next, Quiet, Opening, Decisions

LEMMA QuietFacts ==
  ASSUME OpInv, ReviewInv, Quiet
  PROVE  op = Idle /\ op' = Idle
<1>1. job.state = "running" => op = Idle
  BY DEF OpInv, ReviewInv
<1>2. CASE Developer
  BY <1>2 DEF Developer, Edit, EditWorktree, CommitByHand
<1>3. CASE Working
  <2>1. ASSUME NEW round \in Rounds, Propose(round) PROVE op = Idle /\ op' = Idle
    BY <2>1 DEF Propose, Free, Ask
  <2>2. ASSUME NEW changes \in SUBSET Files, NEW ok \in BOOLEAN, CodeProposed(changes, ok)
        PROVE  op = Idle /\ op' = Idle
    BY <1>1, <2>2 DEF CodeProposed
  <2>3. ASSUME NEW ok \in BOOLEAN, ApproachProposed(ok) \/ Rebuilt(ok)
        PROVE  op = Idle /\ op' = Idle
    BY <1>1, <2>3 DEF ApproachProposed, Rebuilt
  <2>4. CASE WorkFails
    BY <1>1, <2>4 DEF WorkFails
  <2>5. CASE Resume \/ Discard
    BY <2>5 DEF Resume, Discard, Recovering, Free
  <2> QED BY <1>3, <2>1, <2>2, <2>3, <2>4, <2>5 DEF Working
<1>4. CASE View \/ Rebuild
  BY <1>4 DEF View, Rebuild, Deciding, Free
<1>5. CASE Adapt
  BY <1>5 DEF Adapt, Deciding, Free, Ask
<1> QED BY <1>2, <1>3, <1>4, <1>5 DEF Quiet

LEMMA OpeningFacts ==
  ASSUME Opening
  PROVE  /\ op = Idle /\ job.state # "running" /\ UNCHANGED <<code, log, index, commits, effect>>
         /\ UNCHANGED <<worktree, journal, job, reviewed>> /\ UNCHANGED bounds
         /\ state' \in {state, Ensured(state)}
BY DEF Opening, Approve, ApproveApproach, Reject, Undo, CommitManual, Transition, Deciding, Free,
       review, disk, git

(* Only these two commit.                                                  *)
LEMMA OthersCommitNot ==
  ASSUME Next, ~CommitByHand, ~Commit
  PROVE  commits' = commits /\ effect' = effect
<1>0. UNCHANGED git => commits' = commits /\ effect' = effect
  BY DEF git
<1>1. UNCHANGED disk => UNCHANGED git
  BY DEF disk
<1>2. CASE Quiet
  <2>1. CASE Developer
    <3>1. ASSUME NEW f \in Files, Edit(f) \/ EditWorktree(f) PROVE UNCHANGED git
      BY <1>1, <3>1 DEF Edit, EditWorktree
    <3> QED BY <1>0, <2>1, <3>1 DEF Developer
  <2>2. CASE Working
    <3>1. ASSUME NEW round \in Rounds, Propose(round) PROVE UNCHANGED git
      BY <3>1 DEF Propose, Ask
    <3>2. ASSUME NEW changes \in SUBSET Files, NEW ok \in BOOLEAN, CodeProposed(changes, ok)
          PROVE  UNCHANGED git
      BY <1>1, <3>2 DEF CodeProposed
    <3>3. ASSUME NEW ok \in BOOLEAN, ApproachProposed(ok) \/ Rebuilt(ok) PROVE UNCHANGED git
      BY <1>1, <3>3 DEF ApproachProposed, Rebuilt
    <3>4. CASE WorkFails \/ Resume \/ Discard
      BY <1>0, <1>1, <3>4 DEF WorkFails, Resume, Discard
    <3> QED BY <1>0, <2>2, <3>1, <3>2, <3>3, <3>4 DEF Working
  <2>3. CASE View \/ Rebuild
    BY <1>0, <1>1, <2>3 DEF View, Rebuild
  <2>4. CASE Adapt
    BY <1>0, <2>4 DEF Adapt, Ask
  <2> QED BY <1>2, <2>1, <2>2, <2>3, <2>4 DEF Quiet
<1>3. CASE Opening
  BY <1>3, OpeningFacts
<1>4. CASE Writing
  BY <1>0, <1>1, <1>4 DEF Writing, Promote, Gates, AppendLog, SaveState, EnsureQueue, Stage, Clear,
                      Finish, Checkout, Revert, RevertRefused, WriteBack
<1>5. CASE Failing
  BY <1>0, <1>1, <1>5 DEF Failing, PromoteFails, ApproveFails, DecisionFails, OtherFails, Crash
<1> QED BY <1>2, <1>3, <1>4, <1>5, NextParts

LEMMA FirstCommit ==
  ASSUME TypeOK, Next
  PROVE  /\ commits'[1] = commits[1]
         /\ Len(commits') = Len(commits) \/ Len(commits') = Len(commits) + 1
<1>1. ASSUME NEW kind, NEW number, NEW tree, Committing(kind, number, tree)
      PROVE  commits'[1] = commits[1] /\ Len(commits') = Len(commits) + 1
  BY <1>1, TypeFacts DEF Committing, TypeOK
<1>2. CASE CommitByHand
  BY <1>1, <1>2 DEF CommitByHand
<1>3. CASE Commit
  BY <1>1, <1>3 DEF Commit
<1>4. CASE ~CommitByHand /\ ~Commit
  BY <1>4, OthersCommitNot
<1> QED BY <1>2, <1>3, <1>4

LEMMA OpIdle ==
  ASSUME op' = Idle, commits'[1].number = 0
  PROVE  OpInv'
<1>1. op'.name = None /\ op'.todo = <<>> /\ <<>> \in Lists(None)
  BY IdleType DEF Lists, None
<1> QED BY <1>1 DEF OpInv, Now, None

LEMMA OpStep ==
  ASSUME Inv, Next
  PROVE  OpInv'
<1>0. TypeOK /\ OpInv /\ ReviewInv /\ ApproveInv
  BY DEF Inv
<1>1. commits'[1].number = 0 /\ (Len(commits) > 1 => Len(commits') > 1)
  BY <1>0, FirstCommit, TypeFacts DEF OpInv
<1>2. CASE op' = Idle
  BY <1>1, <1>2, OpIdle
<1>3. ASSUME NEW name, NEW todo \in {ToPromote, ToPromoteNext, ToDecide, ToRecord, ToEntry, ToPhase},
             NEW entry, NEW after, Opened(name, todo, entry, after), name # "undo"
      PROVE  OpInv'
  <2>1. /\ op'.name = name /\ op'.todo = todo /\ todo \in Lists(name) /\ name \in OpNames
        /\ op'.state \in States /\ op'.before \in Trees /\ op'.entry \in Records
        /\ Now' = Head(todo)
    BY <1>0, <1>3, OpenedFacts
  <2>2. Now' # "commit"
    BY <2>1, ListFacts
  <2> QED BY <1>1, <1>3, <2>1, <2>2 DEF OpInv, OpNames, None
<1>4. CASE Opening
  <2>1. CASE Approve
    BY <1>0, <1>3, <2>1, ApproveOpens
  <2>2. CASE ApproveApproach
    BY <1>0, <1>3, <2>2, ApproachOpens
  <2>3. CASE Reject
    BY <1>0, <1>3, <2>3, RejectOpens
  <2>4. CASE Undo
    <3>1. /\ op'.name = "undo" /\ op'.todo = ToCheckout /\ op'.state = state /\ state \in States
          /\ op'.before \in Trees /\ op'.entry \in Records /\ Len(commits) > 1
      BY <1>0, <2>4, UndoOpens, TypeFacts
    <3>2. Now' = "checkout" /\ ToCheckout \in Lists("undo")
      BY <3>1, ListFacts, StartLists DEF Now
    <3> QED BY <1>1, <3>1, <3>2 DEF OpInv, None
  <2>5. CASE CommitManual
    BY <1>0, <1>3, <2>5, ManualOpens
  <2>6. ASSUME NEW phase \in Phases, Transition(phase) PROVE OpInv'
    BY <1>0, <1>3, <2>6, PhaseOpens
  <2> QED BY <1>4, <2>1, <2>2, <2>3, <2>4, <2>5, <2>6 DEF Opening
<1>5. ASSUME NEW step, Done(step), step \notin {"finish", "queue"},
             step = "stage" => index' = Tree'
      PROVE  OpInv'
  <2>1. /\ op'.todo \in Lists(op'.name) /\ op'.name = op.name /\ op.name \in OpNames
        /\ op'.state \in States /\ op'.before \in Trees /\ op'.entry \in Records
        /\ Now' \in Following(op.name, step)
    <3>1. At(step)
      BY <1>5 DEF Done
    <3> QED BY <1>0, <1>5, <3>1, DoneFacts, AtFacts
  <2>2. step # "stage" => Now' # "commit"
    BY <2>1 DEF Following
  <2> QED BY <1>0, <1>1, <1>5, <2>1, <2>2 DEF OpInv, OpNames, None
<1>6. CASE Writing
  <2>1. CASE EnsureQueue \/ Finish \/ RevertRefused
    BY <1>2, <2>1 DEF EnsureQueue, Finish, RevertRefused
  <2>2. CASE Stage
    <3>1. Done("stage") /\ index' = Tree'
      BY <2>2 DEF Stage, Tree
    <3> QED BY <1>5, <3>1
  <2>3. CASE ~(EnsureQueue \/ Finish \/ RevertRefused \/ Stage)
    BY <1>5, <1>6, <2>3 DEF Writing, Promote, Gates, AppendLog, SaveState, Commit, Clear,
                            Checkout, Revert, WriteBack
  <2> QED BY <2>1, <2>2, <2>3
<1>7. CASE Failing
  BY <1>2, <1>7 DEF Failing, PromoteFails, ApproveFails, DecisionFails, OtherFails, Crash, Fails
<1>8. CASE Quiet
  BY <1>0, <1>2, <1>8, QuietFacts
<1> QED BY <1>4, <1>6, <1>7, <1>8, NextParts

-----------------------------------------------------------------------------
(* The review.                                                             *)

LEMMA ReviewKept ==
  ASSUME ReviewInv, UNCHANGED review, op' = Idle, Now # "finish"
  PROVE  ReviewInv'
<1>1. op'.name = None /\ UNCHANGED <<worktree, journal, job>>
  BY IdleType DEF review
<1> QED BY <1>1 DEF ReviewInv, Candidate, None

LEMMA ReviewAsk ==
  ASSUME TypeOK, OpInv, ReviewInv, NEW round \in Rounds, NEW candidate, Ask(round, candidate),
         op = Idle,
         candidate.round # None => candidate.round = round /\ candidate.phase \in Phases,
         candidate.round = "code" => candidate.base = Len(commits)
  PROVE  ReviewInv'
<1>1. /\ journal' = Checkpoint(round, FALSE) /\ job' = Asking(round, candidate) /\ op' = Idle
      /\ worktree' = IF round = "code" THEN [base |-> Len(commits), code |-> Committed.code]
                     ELSE worktree
  BY DEF Ask
<1>2. journal'.round = round /\ journal'.phase \in Phases /\ round # None
  BY <1>1, TypeFacts DEF Checkpoint, States, Rounds, None
<1>3. /\ job'.round = candidate.round /\ job'.phase = candidate.phase /\ job'.base = candidate.base
  BY <1>1 DEF Asking
<1> QED BY <1>1, <1>2, <1>3, IdleType, TypeFacts DEF ReviewInv, Candidate, None

LEMMA IdleNow == op = Idle => Now = None /\ op.name = None
BY IdleType DEF Now

LEMMA ReviewQuiet ==
  ASSUME TypeOK, OpInv, ReviewInv, Quiet
  PROVE  ReviewInv'
<1>0. op = Idle /\ op' = Idle /\ op'.name = None /\ Now = None /\ None # "finish"
  BY QuietFacts, IdleType, IdleNow DEF None
<1>1. ASSUME NEW f \in Files, Edit(f) PROVE ReviewInv'
  BY <1>0, <1>1, ReviewKept DEF Edit
<1>2. CASE CommitByHand
  BY <1>0, <1>2, ReviewKept DEF CommitByHand
<1>3. ASSUME NEW f \in Files, EditWorktree(f) PROVE ReviewInv'
  <2>1. worktree'.base = worktree.base /\ UNCHANGED <<journal, job>>
    BY <1>3 DEF EditWorktree, TypeOK
  <2> QED BY <1>0, <2>1 DEF ReviewInv, Candidate, None
<1>4. ASSUME NEW round \in Rounds, Propose(round) PROVE ReviewInv'
  BY <1>0, <1>4, ReviewAsk DEF Propose, NoJob, None
<1>5. ASSUME NEW changes \in SUBSET Files, NEW ok \in BOOLEAN, CodeProposed(changes, ok)
      PROVE  ReviewInv'
  <2>1. journal.round # None /\ journal.phase \in Phases
    BY <1>5 DEF CodeProposed, ReviewInv
  <2>2. /\ worktree'.base = Len(commits) /\ journal'.round = journal.round
        /\ journal'.phase = journal.phase /\ job'.round = "code" /\ job'.phase = journal.phase
        /\ job'.base = Len(commits)
    BY <1>5 DEF CodeProposed, NoJob, TypeOK, Journals
  <2> QED BY <1>0, <2>1, <2>2, TypeFacts DEF ReviewInv, Candidate, None
<1>6. ASSUME NEW ok \in BOOLEAN, ApproachProposed(ok) PROVE ReviewInv'
  <2>1. journal.round # None /\ journal.phase \in Phases
    BY <1>6 DEF ApproachProposed, ReviewInv
  <2>2. /\ journal'.round = journal.round /\ journal'.phase = journal.phase
        /\ job'.round = "approach" /\ job'.phase = journal.phase
    BY <1>6 DEF ApproachProposed, NoJob, TypeOK, Journals
  <2> QED BY <1>0, <2>1, <2>2 DEF ReviewInv, Candidate, None
<1>7. ASSUME NEW ok \in BOOLEAN, Rebuilt(ok) PROVE ReviewInv'
  <2>1. /\ job'.round = job.round /\ job'.phase = job.phase /\ job'.base = worktree.base
        /\ job.state = "running" /\ UNCHANGED <<worktree, journal>>
    BY <1>7 DEF Rebuilt, TypeOK, Jobs
  <2> QED BY <1>0, <2>1 DEF ReviewInv, Candidate, None
<1>8. CASE WorkFails
  <2>1. /\ job'.round = job.round /\ job'.phase = job.phase /\ job'.base = job.base
        /\ job.state = "running" /\ job'.state = "failed" /\ UNCHANGED <<worktree, journal>>
    BY <1>8 DEF WorkFails, TypeOK, Jobs
  <2> QED BY <1>0, <2>1 DEF ReviewInv, Candidate, None
<1>9. CASE Resume
  <2>1. /\ journal.round # None /\ UNCHANGED <<worktree, journal>>
        /\ job'.round = journal.round /\ job'.phase = journal.phase /\ job'.base = Len(commits)
        /\ journal.round = "code" => worktree.base = Len(commits)
    BY <1>9 DEF Resume, Asking, Resumed, Restorable, NoJob
  <2> QED BY <1>0, <2>1, TypeFacts DEF ReviewInv, Candidate, None
<1>10. CASE Discard
  <2>1. journal'.round = None /\ job'.round = None /\ job'.state = None
    BY <1>10 DEF Discard, NoJob, NoJournal
  <2> QED BY <1>0, <2>1 DEF ReviewInv, Candidate, None
<1>11. CASE View
  BY <1>0, <1>11 DEF View, ReviewInv, Candidate, None
<1>12. CASE Rebuild
  <2>1. /\ job'.round = job.round /\ job'.phase = job.phase /\ job'.base = job.base
        /\ Candidate /\ UNCHANGED <<worktree, journal>>
    BY <1>12 DEF Rebuild, Deciding, Asking
  <2> QED BY <1>0, <2>1 DEF ReviewInv, Candidate, None
<1>13. CASE Adapt
  <2>1. Ask(job.round, job) /\ job.round \in Rounds /\ job.phase \in Phases /\ job.base = Len(commits)
    BY <1>13 DEF Adapt, Deciding, Candidate, Based, TypeOK, Jobs, ReviewInv
  <2> QED BY <1>0, <2>1, ReviewAsk
<1> QED BY <1>1, <1>2, <1>3, <1>4, <1>5, <1>6, <1>7, <1>8, <1>9, <1>10, <1>11, <1>12, <1>13
        DEF Quiet, Developer, Working

LEMMA ReviewStep ==
  ASSUME Inv, Next
  PROVE  ReviewInv'
<1>0. TypeOK /\ OpInv /\ ReviewInv /\ ApproveInv
  BY DEF Inv
<1>1. CASE Quiet
  BY <1>0, <1>1, ReviewQuiet
<1>2. CASE Opening
  <2>1. /\ Now = None /\ None # "finish" /\ job.state # "running"
        /\ UNCHANGED <<worktree, journal, job>>
    BY <1>2, OpeningFacts, IdleNow DEF None
  <2>2. ASSUME op'.name \in {"approve", "approach", "reject"} /\ Candidate PROVE ReviewInv'
    BY <1>0, <2>1, <2>2 DEF ReviewInv, Candidate, None
  <2>3. ASSUME op'.name \in {"undo", "manual", "phase"} /\ ~Waiting PROVE ReviewInv'
    BY <1>0, <2>1, <2>3 DEF ReviewInv, Candidate, Waiting, None
  <2>4. CASE Approve
    <3>1. op'.name = "approve" BY <1>0, <2>4, ApproveOpens, OpenedFacts
    <3> QED BY <2>2, <2>4, <3>1 DEF Approve, Deciding
  <2>5. CASE ApproveApproach
    <3>1. op'.name = "approach" BY <1>0, <2>5, ApproachOpens, OpenedFacts
    <3> QED BY <2>2, <2>5, <3>1 DEF ApproveApproach, Deciding
  <2>6. CASE Reject
    <3>1. op'.name = "reject" BY <1>0, <2>6, RejectOpens, OpenedFacts
    <3> QED BY <2>2, <2>6, <3>1 DEF Reject, Deciding
  <2>7. CASE Undo
    <3>1. op'.name = "undo" BY <1>0, <2>7, UndoOpens
    <3> QED BY <2>3, <2>7, <3>1 DEF Undo
  <2>8. CASE CommitManual
    <3>1. op'.name = "manual" BY <1>0, <2>8, ManualOpens, OpenedFacts
    <3> QED BY <2>3, <2>8, <3>1 DEF CommitManual
  <2>9. ASSUME NEW phase \in Phases, Transition(phase) PROVE ReviewInv'
    <3>1. op'.name = "phase" BY <1>0, <2>9, PhaseOpens, OpenedFacts
    <3> QED BY <2>3, <2>9, <3>1 DEF Transition
  <2> QED BY <1>2, <2>4, <2>5, <2>6, <2>7, <2>8, <2>9 DEF Opening
<1>3. CASE Writing
  <2>1. CASE Finish
    <3>1. /\ op'.name = None /\ journal'.round = None /\ job'.round = None /\ job'.state = None
      BY <2>1, IdleType DEF Finish, NoJob, NoJournal
    <3> QED BY <3>1 DEF ReviewInv, Candidate, None
  <2>2. CASE EnsureQueue \/ RevertRefused
    <3>1. UNCHANGED review /\ op' = Idle /\ (At("queue") \/ At("revert"))
      BY <2>2 DEF EnsureQueue, RevertRefused
    <3>2. Now # "finish"
      BY <3>1 DEF At, Now
    <3> QED BY <1>0, <3>1, <3>2, ReviewKept
  <2>3. CASE Clear
    <3>1. op'.name = op.name /\ Now' \in Following(op.name, "clear") /\ UNCHANGED <<journal, job>>
      BY <1>0, <2>3, DoneFacts DEF Clear
    <3>2. Now' = "finish" /\ op.name # None
      BY <1>0, <2>3, <3>1, AtFacts DEF Clear, Done, Following, OpNames, None
    <3> QED BY <1>0, <3>1, <3>2 DEF ReviewInv, Candidate, None
  <2>4. CASE ~(Finish \/ EnsureQueue \/ RevertRefused \/ Clear)
    <3>1. /\ UNCHANGED review
          /\ \E step \in Early : Done(step)
      BY <1>3, <2>4 DEF Writing, Promote, Gates, AppendLog, SaveState, Stage, Commit, Checkout,
                        Revert, WriteBack, Early
    <3>2. PICK step \in Early : Done(step)
      BY <3>1
    <3>3. op'.name = op.name /\ Now = step /\ step # "finish"
      <4>1. At(step) /\ step \notin {"finish", "queue"}
        BY <3>2 DEF Done, Early
      <4> QED BY <1>0, <3>2, <4>1, DoneFacts, AtFacts
    <3>4. UNCHANGED <<worktree, journal, job>>
      BY <3>1 DEF review
    <3> QED BY <1>0, <3>3, <3>4 DEF ReviewInv, Candidate, None
  <2> QED BY <2>1, <2>2, <2>3, <2>4
<1>4. CASE Failing
  <2>1. CASE Crash
    <3>1. op'.name = None /\ job'.round = None /\ job'.state = None /\ UNCHANGED journal
      BY <2>1, IdleType DEF Crash, NoJob
    <3> QED BY <1>0, <3>1 DEF ReviewInv, Candidate, None
  <2>2. CASE ~Crash
    <3>1. UNCHANGED review /\ \E step \in Early : Fails(step)
      BY <1>4, <2>2 DEF Failing, PromoteFails, ApproveFails, DecisionFails, OtherFails, Early
    <3>2. Now # "finish" /\ op' = Idle
      BY <1>0, <3>1, FailsFacts DEF Early
    <3> QED BY <1>0, <3>1, <3>2, ReviewKept
  <2> QED BY <2>1, <2>2
<1> QED BY <1>1, <1>2, <1>3, <1>4, NextParts

-----------------------------------------------------------------------------
(* An approval copies the candidate that was checked and shown.            *)

LEMMA ApproveStep ==
  ASSUME Inv, Next
  PROVE  ApproveInv'
<1>0. TypeOK /\ OpInv /\ ReviewInv /\ ApproveInv
  BY DEF Inv
<1>1. CASE op' = Idle
  BY <1>1, IdleType DEF ApproveInv, None
<1>2. CASE Quiet
  BY <1>0, <1>1, <1>2, QuietFacts
<1>3. CASE Approve
  <2>1. PICK todo \in {ToPromote, ToPromoteNext}, after \in {Advanced(Ensured(state)), state} :
          Opened("approve", todo, Entry(job.number, job.phase, "approved", "code",
             Changed(commits[worktree.base].tree.code, worktree.code)), after)
    BY <1>0, <1>3, ApproveOpens
  <2> DEFINE entry == Entry(job.number, job.phase, "approved", "code",
             Changed(commits[worktree.base].tree.code, worktree.code))
  <2> HIDE DEF entry
  <2>2. /\ op'.todo = todo /\ op'.entry = entry /\ op'.shown = reviewed.code
        /\ op'.before.code = code /\ op'.before.log = log /\ op'.before.state = Ensured(state)
        /\ Now' = Head(todo) /\ op'.name = "approve"
    BY <1>0, <2>1, OpenedFacts DEF entry
  <2>3. Now' = "promote"
    BY <2>2, ListFacts
  <2>4. /\ job.round = "code" /\ job.ok /\ job.checked = worktree.code
        /\ reviewed.code = worktree.code /\ code = Committed.code /\ index.code = code
        /\ job.base = Len(commits) /\ state' = Ensured(state)
    BY <1>3 DEF Approve, Deciding, Checked, Seen, Evidence, Clean, Based
  <2>5. UNCHANGED <<code, log, index, commits, worktree, job>>
    BY <1>3, OpeningFacts DEF Opening
  <2>6. worktree.base = Len(commits)
    <3>1. op = Idle
      BY <1>3, OpeningFacts DEF Opening
    <3>2. Now # "finish"
      BY <3>1, IdleNow DEF None
    <3> QED BY <1>0, <2>4, <3>2 DEF ReviewInv
  <2>7. entry.touched = Changed(Committed.code, worktree.code)
    BY <2>6 DEF entry, Entry, Committed, HEAD
  <2>8. Committed' = Committed /\ Changed(Committed.code, worktree.code)' = Changed(Committed.code, worktree.code)
    BY <2>5 DEF Committed, HEAD, Changed
  <2> QED BY <2>2, <2>3, <2>4, <2>5, <2>7, <2>8 DEF ApproveInv
<1>4. CASE Opening /\ ~Approve
  <2>1. op'.name # "approve"
    <3>1. CASE ApproveApproach
      BY <1>0, <3>1, ApproachOpens, OpenedFacts
    <3>2. CASE Reject
      BY <1>0, <3>2, RejectOpens, OpenedFacts
    <3>3. CASE Undo
      BY <1>0, <3>3, UndoOpens
    <3>4. CASE CommitManual
      BY <1>0, <3>4, ManualOpens, OpenedFacts
    <3>5. ASSUME NEW phase \in Phases, Transition(phase) PROVE op'.name # "approve"
      <4>1. op'.name = "phase"
        BY <1>0, <3>5, PhaseOpens, OpenedFacts
      <4> QED BY <4>1
    <3> QED BY <1>4, <3>1, <3>2, <3>3, <3>4, <3>5 DEF Opening
  <2> QED BY <2>1 DEF ApproveInv
<1>5. CASE Writing
  <2>1. CASE Finish \/ EnsureQueue \/ RevertRefused
    BY <1>1, <2>1 DEF Finish, EnsureQueue, RevertRefused
  <2>2. CASE Checkout \/ Revert \/ WriteBack
    <3>1. \E step \in {"checkout", "revert", "append"} : Done(step)
      BY <2>2 DEF Checkout, Revert, WriteBack
    <3>2. PICK step \in {"checkout", "revert", "append"} : Done(step)
      BY <3>1
    <3>3. op.name \in Names(step)
      BY <1>0, <3>2, AtFacts DEF Done
    <3>4. op.name = "undo"
      BY <3>2, <3>3 DEF Names
    <3>5. op'.name = "undo"
      BY <1>0, <3>2, <3>4, DoneFacts
    <3> QED BY <3>5 DEF ApproveInv
  <2>3. CASE op.name # "approve" /\ ~(Finish \/ EnsureQueue \/ RevertRefused)
    <3>1. PICK step : Done(step) /\ step \notin {"finish", "queue"}
      BY <1>5, <2>3 DEF Writing, Promote, Gates, AppendLog, SaveState, Stage, Commit, Clear,
                        Checkout, Revert, WriteBack
    <3>2. op'.name # "approve"
      BY <1>0, <2>3, <3>1, DoneFacts
    <3> QED BY <3>2 DEF ApproveInv
  <2>4. CASE op.name = "approve" /\ (Promote \/ Gates \/ AppendLog \/ SaveState \/ Stage)
    <3>1. PICK step \in {"promote", "gates", "log", "state", "stage"} : Done(step)
      BY <2>4 DEF Promote, Gates, AppendLog, SaveState, Stage
    <3>2. /\ op'.name = op.name /\ op'.entry = op.entry /\ op'.before = op.before
          /\ op'.shown = op.shown /\ Now' \in Following("approve", step)
      BY <1>0, <2>4, <3>1, DoneFacts
    <3>3. Now = step /\ Now \in Early
      BY <1>0, <3>1, AtFacts DEF Done, Early
    <3>4. UNCHANGED <<commits, worktree, job>>
      <4>1. UNCHANGED review
        BY <2>4 DEF Promote, Gates, AppendLog, SaveState, Stage
      <4>2. ~CommitByHand /\ ~Commit
        <5>1. op # Idle /\ ~At("commit")
          BY <1>0, <3>1, AtFacts DEF Done, At
        <5> QED BY <5>1 DEF CommitByHand, Commit, Done
      <4> QED BY <1>5, <4>1, <4>2, OthersCommitNot, NextParts DEF review
    <3>5. /\ job.round = "code" /\ job.ok
          /\ worktree.code = job.checked /\ worktree.code = op.shown
          /\ op.before.code = Committed.code
          /\ op.entry.touched = Changed(Committed.code, worktree.code)
          /\ index.code = Committed.code
      BY <1>0, <2>4, <3>1, <3>3 DEF ApproveInv
    <3>6. Committed' = Committed /\ Changed(Committed.code, worktree.code)' = Changed(Committed.code, worktree.code)
      BY <3>4 DEF Committed, HEAD, Changed
    <3>7. Now' # "promote" /\ (step # "stage" => Now' # "commit")
      BY <3>1, <3>2 DEF Following
    <3>8. code' = worktree.code
      <4>1. CASE Promote
        <5>1. code = op.before.code
          BY <1>0, <2>4, <4>1, AtFacts DEF Promote, Done, ApproveInv, Early
        <5>2. worktree.code \in Contents
          <6>1. worktree.base # 0
            BY <1>0, <3>3, <3>5 DEF ReviewInv, Early
          <6> QED BY <1>0, <6>1 DEF TypeOK
        <5>3. code' = [f \in Files |-> IF Committed.code[f] # worktree.code[f]
                                       THEN worktree.code[f] ELSE Committed.code[f]]
          BY <3>5, <4>1, <5>1 DEF Promote, Changed
        <5>4. worktree.code = [f \in Files |-> worktree.code[f]]
          BY <5>2 DEF Contents
        <5>5. code' = [f \in Files |-> worktree.code[f]]
          BY <5>3
        <5> QED BY <5>4, <5>5
      <4>2. CASE ~Promote
        <5>1. Done("gates") \/ Done("log") \/ Done("state") \/ Done("stage")
          BY <2>4, <4>2 DEF Gates, AppendLog, SaveState, Stage
        <5>2. Now # "promote" /\ code' = code
          BY <2>4, <4>2, <5>1 DEF Gates, AppendLog, SaveState, Stage, Done, At, Now, disk
        <5> QED BY <1>0, <2>4, <3>3, <5>2 DEF ApproveInv
      <4> QED BY <4>1, <4>2
    <3>9. Now' # "commit" => index' = index
      <4>1. CASE Stage
        BY <1>0, <2>4, <4>1, DoneFacts DEF Stage, Following
      <4>2. CASE ~Stage
        BY <2>4, <4>2 DEF Promote, Gates, AppendLog, SaveState, disk
      <4> QED BY <4>1, <4>2
    <3> QED BY <3>2, <3>4, <3>5, <3>6, <3>7, <3>8, <3>9 DEF ApproveInv
  <2>5. CASE op.name = "approve" /\ (Commit \/ Clear)
    <3>1. PICK step \in {"commit", "clear"} : Done(step)
      BY <2>5 DEF Commit, Clear
    <3>2. op'.name = op.name /\ Now' \in Following("approve", step) /\ UNCHANGED job
      BY <1>0, <2>5, <3>1, DoneFacts DEF Commit, Clear, review
    <3>3. Now' \notin Early
      BY <3>1, <3>2 DEF Following, Early
    <3> QED BY <1>0, <2>5, <3>2, <3>3 DEF ApproveInv
  <2> QED BY <1>5, <2>1, <2>2, <2>3, <2>4, <2>5 DEF Writing
<1>6. CASE Failing
  BY <1>1, <1>6 DEF Failing, PromoteFails, ApproveFails, DecisionFails, OtherFails, Crash, Fails
<1> QED BY <1>2, <1>3, <1>4, <1>5, <1>6, NextParts

-----------------------------------------------------------------------------
(* The plan is for the function that is implemented next.                  *)

LEMMA FitsState ==
  ASSUME Inv, Next
  PROVE  Fits(state')
<1>0. TypeOK /\ OpInv /\ FitsInv /\ state \in States /\ Fits(state)
  BY TypeFacts DEF Inv, FitsInv
<1>1. Fits(Ensured(state))
  BY <1>0, EnsuredFits
<1>2. ASSUME state' = state PROVE Fits(state')
  BY <1>0, <1>2
<1>3. CASE Quiet
  <2>1. state' = state \/ state' = Ensured(state)
    BY <1>3 DEF Quiet, Developer, Working, Edit, EditWorktree, CommitByHand, Propose, CodeProposed,
                ApproachProposed, Rebuilt, WorkFails, Resume, Discard, View, Rebuild, Adapt, Ask, disk
  <2> QED BY <1>1, <1>2, <2>1
<1>4. CASE Opening
  BY <1>1, <1>2, <1>4, OpeningFacts
<1>5. CASE Writing
  <2>1. CASE SaveState
    <3>1. state' = op.state /\ op.name # None
      BY <1>0, <2>1, AtFacts DEF SaveState, Done, OpNames, None
    <3> QED BY <1>0, <3>1 DEF FitsInv
  <2>2. CASE EnsureQueue
    BY <1>1, <2>2 DEF EnsureQueue
  <2>3. CASE Revert
    <3>1. op.name \in Names("revert")
      BY <1>0, <2>3, AtFacts DEF Revert, Done
    <3>2. Len(commits) > 1
      BY <1>0, <3>1 DEF OpInv, Names
    <3>3. Fits(Parent.state)
      BY <1>0, <3>2, ParentType DEF FitsInv, Parent
    <3> QED BY <1>0, <2>3, <3>3 DEF Revert
  <2>4. CASE ~(SaveState \/ EnsureQueue \/ Revert)
    <3>1. state' = state
      BY <1>5, <2>4 DEF Writing, Promote, Gates, AppendLog, Stage, Commit, Clear, Finish, Checkout,
                        RevertRefused, WriteBack, disk
    <3> QED BY <1>2, <3>1
  <2> QED BY <2>1, <2>2, <2>3, <2>4
<1>6. CASE Failing
  <2>1. ASSUME NEW step, Fails(step), state' = Restored_state PROVE Fits(state')
    <3>1. op.name # None
      BY <1>0, <2>1, FailsFacts DEF OpNames, None
    <3> QED BY <1>0, <2>1, <3>1 DEF FitsInv, Restored_state
  <2>2. CASE ApproveFails
    BY <2>1, <2>2 DEF ApproveFails
  <2>3. CASE DecisionFails
    BY <1>2, <2>1, <2>3 DEF DecisionFails
  <2>4. CASE PromoteFails \/ OtherFails \/ Crash
    <3>1. state' = state
      BY <2>4 DEF PromoteFails, OtherFails, Crash, disk
    <3> QED BY <1>2, <3>1
  <2> QED BY <1>6, <2>2, <2>3, <2>4 DEF Failing
<1> QED BY <1>3, <1>4, <1>5, <1>6, NextParts

LEMMA FitsCommits ==
  ASSUME Inv, Next
  PROVE  \A i \in DOMAIN commits' : Fits(commits'[i].tree.state)
<1>0. TypeOK /\ OpInv /\ FitsInv /\ Fits(state)
  BY DEF Inv, FitsInv
<1>1. ASSUME NEW kind, NEW number, Committing(kind, number, Tree)
      PROVE  \A i \in DOMAIN commits' : Fits(commits'[i].tree.state)
  <2>1. /\ DOMAIN commits' = 1 .. Len(commits) + 1
        /\ \A i \in DOMAIN commits : commits'[i] = commits[i]
        /\ commits'[Len(commits) + 1].tree = Tree
        /\ \A i \in 1 .. Len(commits) + 1 : i \in DOMAIN commits \/ i = Len(commits) + 1
    BY <1>0, <1>1 DEF Committing, TypeOK
  <2>2. Tree.state = state
    BY DEF Tree
  <2> QED BY <1>0, <2>1, <2>2 DEF FitsInv
<1>2. CASE CommitByHand
  BY <1>1, <1>2 DEF CommitByHand
<1>3. CASE Commit
  <2>1. index = Tree
    BY <1>0, <1>3, AtFacts DEF Commit, Done, OpInv
  <2> QED BY <1>1, <1>3, <2>1 DEF Commit
<1>4. CASE ~CommitByHand /\ ~Commit
  BY <1>0, <1>4, OthersCommitNot DEF FitsInv
<1> QED BY <1>2, <1>3, <1>4

LEMMA FitsOpened ==
  ASSUME Inv, NEW name, NEW todo, NEW entry, NEW after, Opened(name, todo, entry, after), Fits(after)
  PROVE  Fits(op'.state) /\ Fits(op'.before.state)
<1>1. TypeOK /\ state \in States /\ Fits(state)
  BY TypeFacts DEF Inv, FitsInv
<1>2. op'.state = after /\ op'.before.state = Ensured(state)
  BY <1>1, OpenedFacts
<1> QED BY <1>1, <1>2, EnsuredFits

LEMMA FitsOp ==
  ASSUME Inv, Next
  PROVE  op'.name # None => Fits(op'.state) /\ Fits(op'.before.state)
<1>0. /\ TypeOK /\ OpInv /\ FitsInv /\ ReviewInv /\ state \in States /\ Ensured(state) \in States
      /\ Fits(state)
  BY TypeFacts, EnsuredType DEF Inv, FitsInv
<1>1. CASE op' = Idle
  BY <1>1, IdleType
<1>2. CASE Quiet
  BY <1>0, <1>1, <1>2, QuietFacts
<1>3. CASE Opening
  <2>1. CASE Approve
    <3>1. Fits(Advanced(Ensured(state)))
      BY <1>0, AdvancedType DEF Fits
    <3> QED BY <1>0, <2>1, <3>1, ApproveOpens, FitsOpened
  <2>2. CASE ApproveApproach
    <3> DEFINE after == [Ensured(state) EXCEPT !.approach = job.target]
    <3>1. job.target = Target(Ensured(state))
      BY <2>2 DEF ApproveApproach
    <3>2. Target(after) = Target(Ensured(state)) /\ after.approach = job.target
      BY <1>0 DEF Target, States
    <3>3. Fits(after)
      BY <3>1, <3>2 DEF Fits
    <3> QED BY <1>0, <2>2, <3>3, ApproachOpens, FitsOpened
  <2>3. CASE Reject
    BY <1>0, <2>3, RejectOpens, FitsOpened
  <2>4. CASE Undo
    <3>1. op'.state = state /\ op'.before.state = state
      BY <1>0, <2>4, UndoOpens
    <3> QED BY <1>0, <3>1
  <2>5. CASE CommitManual
    BY <1>0, <2>5, ManualOpens, FitsOpened
  <2>6. ASSUME NEW phase \in Phases, Transition(phase)
        PROVE  Fits(op'.state) /\ Fits(op'.before.state)
    <3>1. Fits([Architecture EXCEPT !.phase = phase])
      BY DEF Fits, Architecture
    <3> QED BY <1>0, <2>6, <3>1, PhaseOpens, FitsOpened
  <2> QED BY <1>3, <2>1, <2>2, <2>3, <2>4, <2>5, <2>6 DEF Opening
<1>4. CASE Writing
  <2>1. CASE Finish \/ EnsureQueue \/ RevertRefused
    BY <1>1, <2>1 DEF Finish, EnsureQueue, RevertRefused
  <2>2. CASE ~(Finish \/ EnsureQueue \/ RevertRefused)
    <3>1. PICK step : Done(step) /\ step \notin {"finish", "queue"}
      BY <1>4, <2>2 DEF Writing, Promote, Gates, AppendLog, SaveState, Stage, Commit, Clear,
                        Checkout, Revert, WriteBack
    <3>2. op'.name = op.name /\ op'.state = op.state /\ op'.before = op.before
      BY <1>0, <3>1, DoneFacts
    <3> QED BY <1>0, <3>2 DEF FitsInv
  <2> QED BY <2>1, <2>2
<1>5. CASE Failing
  BY <1>1, <1>5 DEF Failing, PromoteFails, ApproveFails, DecisionFails, OtherFails, Crash, Fails
<1> QED BY <1>2, <1>3, <1>4, <1>5, NextParts

LEMMA InvStep ==
  ASSUME Inv, [Next]_vars
  PROVE  Inv'
<1>1. CASE Next
  BY <1>1, TypeStep, OpStep, ReviewStep, ApproveStep, FitsState, FitsCommits, FitsOp DEF Inv, FitsInv, Fits
<1>2. CASE UNCHANGED vars
  BY <1>2 DEF vars, disk, git, review, bounds, Inv, TypeOK, OpInv, ReviewInv, ApproveInv, FitsInv,
              Tree, Now, Candidate, Committed, HEAD, Changed
<1> QED BY <1>1, <1>2

LEMMA InitInv ==
  ASSUME Init
  PROVE  Inv
<1>1. N \in Nat /\ 0 \in 0 .. N /\ 0 \in Nat /\ 1 \in Nat /\ <<>> \in Seq(Files)
  BY StepsAssumption
<1>2. code \in Contents
  BY <1>1 DEF Init, Contents
<1>3. Entry(0, "architecture", "approved", "code", Files \ Missing) \in Records
  BY <1>1, EntryType DEF Phases, Rounds
<1>4. log \in Seq(Records)
  BY <1>3 DEF Init
<1>5. Architecture \in States /\ Architecture.approach = 0 /\ state = Architecture
  BY <1>1 DEF Architecture, States, Phases, Init
<1>6. Tree \in Trees /\ index = Tree /\ Tree.state = state
  BY <1>2, <1>4, <1>5, TreeType DEF Init, Tree
<1>7. [kind |-> "step", number |-> 0, tree |-> Tree] \in Commits
  BY <1>1, <1>6 DEF Commits, Kinds
<1>8. commits \in Seq(Commits) /\ commits # <<>> /\ DOMAIN commits = {1}
      /\ commits[1].number = 0 /\ commits[1].tree = Tree
  BY <1>7 DEF Init
<1>9. [kind |-> "step", number |-> 0, code |-> code] \in Effects
  BY <1>1, <1>2 DEF Effects, Kinds
<1>10. effect \in Seq(Effects)
  BY <1>9 DEF Init
<1>11. DiskOK
  BY <1>6, <1>8, <1>10 DEF DiskOK
<1>12. Len(commits) \in Nat
  BY <1>8
<1>13. ReviewOK
  BY <1>12, NoJobType DEF Init, ReviewOK, WorktreeOK, NoWorktree
<1>14. op = Idle /\ op.name = None /\ Now = None /\ op \in Ops /\ op.todo = <<>>
  BY IdleType, IdleNow DEF Init
<1>15. TypeOK
  BY <1>1, <1>11, <1>13, <1>14, TypeParts DEF Init, BoundsOK
<1>16. OpInv
  BY <1>8, <1>14 DEF OpInv, Lists, None
<1>17. ReviewInv
  BY <1>14 DEF ReviewInv, Init, NoJob, NoJournal, Candidate, None
<1>18. ApproveInv
  BY <1>14 DEF ApproveInv, None
<1>19. FitsInv
  BY <1>5, <1>6, <1>8, <1>14 DEF FitsInv, Fits
<1> QED BY <1>15, <1>16, <1>17, <1>18, <1>19 DEF Inv

(* Types, operations, reviews, approvals and approaches, whatever fails.   *)
THEOREM Invariant == Spec => []Inv
BY InitInv, InvStep, PTL DEF Spec

(* The variables keep their types.                                         *)
THEOREM TypeCorrect == Spec => []TypeOK
<1>1. Inv => TypeOK
  BY DEF Inv
<1> QED BY <1>1, Invariant, PTL

(* No approval, undo, phase or recovery leaves the plan for another        *)
(* function than the one implemented next.                                 *)
THEOREM ApproachFitsAlways == Spec => []ApproachFits
<1>1. Inv => ApproachFits
  BY DEF Inv, FitsInv, Fits, ApproachFits
<1> QED BY <1>1, Invariant, PTL

-----------------------------------------------------------------------------
(* What an approval commits, and what it takes back.                       *)

(* An approval commits the candidate that passed its gates and that the    *)
(* developer was shown, whatever is edited, committed, rebuilt, adapted or *)
(* recovered before it.                                                    *)
THEOREM ReviewedAlways == Spec => CommitsWhatWasReviewed
<1> DEFINE A == commits' # commits /\ op.name = "approve" =>
      /\ job.ok
      /\ commits'[Len(commits')].tree.code = job.checked
      /\ commits'[Len(commits')].tree.code = op.shown
<1>1. ASSUME Inv, [Next]_vars PROVE A
  <2>1. SUFFICES ASSUME commits' # commits, op.name = "approve" PROVE A
    OBVIOUS
  <2>2. TypeOK /\ OpInv /\ ApproveInv /\ op # Idle
    BY <1>1, <2>1, IdleType DEF Inv, None
  <2>3. Next
    BY <1>1, <2>1 DEF vars, disk, git
  <2>4. Commit
    BY <2>1, <2>2, <2>3, OthersCommitNot DEF CommitByHand
  <2>5. Now = "commit" /\ index = Tree
    BY <2>2, <2>4, AtFacts DEF Commit, Done, OpInv
  <2>6. /\ job.ok /\ worktree.code = job.checked /\ worktree.code = op.shown
        /\ code = worktree.code
    BY <2>1, <2>2, <2>5 DEF ApproveInv, Early
  <2>7. commits'[Len(commits')].tree = index
    BY <2>2, <2>4 DEF Commit, Committing, TypeOK
  <2> QED BY <2>5, <2>6, <2>7 DEF Tree
<1>2. Inv /\ [Next]_vars => [A]_vars
  BY <1>1
<1> QED BY <1>2, Invariant, PTL DEF Spec, CommitsWhatWasReviewed

(* An approval that fails takes sources, log, state and index back to what *)
(* they were, unless it was the copy or the commit that failed: the first  *)
(* may leave half a file, and the second has everything in the index, from *)
(* which the rollback takes the files.                                     *)
THEOREM RestoresAlways ==
  ASSUME Faults \cap {"copy", "commit"} = {}
  PROVE  Spec => ApprovalRestores
<1> DEFINE A == op.name = "approve" /\ ~At("finish") /\ op' = Idle /\ crashes' = crashes =>
      /\ code' = op.before.code /\ log' = op.before.log /\ state' = op.before.state
      /\ index' = Committed /\ commits' = commits
<1>1. ASSUME Inv, [Next]_vars PROVE A
  <2>1. SUFFICES ASSUME op.name = "approve", ~At("finish"), op' = Idle, crashes' = crashes PROVE A
    OBVIOUS
  <2>2. TypeOK /\ OpInv /\ ReviewInv /\ ApproveInv /\ op # Idle
    BY <1>1, <2>1, IdleType DEF Inv, None
  <2>3. Next
    BY <1>1, <2>1, <2>2 DEF vars
  <2>4. ~Quiet /\ ~Opening
    BY <2>2, QuietFacts, OpeningFacts
  <2>5. ~Writing
    <3>1. ASSUME NEW step, Done(step), step \notin {"finish", "queue"} PROVE FALSE
      BY <2>1, <2>2, <3>1, DoneFacts, IdleType DEF None
    <3>2. ~EnsureQueue /\ ~RevertRefused
      <4>1. ~At("queue") /\ ~At("revert")
        <5>1. "approve" \notin Names("queue") /\ "approve" \notin Names("revert")
          BY DEF Names
        <5> QED BY <2>1, <2>2, <5>1, AtFacts
      <4> QED BY <4>1 DEF EnsureQueue, RevertRefused
    <3> QED BY <2>1, <3>1, <3>2 DEF Writing, Promote, Gates, AppendLog, SaveState, Stage, Commit,
                 Clear, Finish, Checkout, Revert, WriteBack
  <2>6. ~DecisionFails /\ ~OtherFails /\ ~Crash
    BY <2>1, <2>2 DEF DecisionFails, OtherFails, Crash, TypeOK
  <2>7. commits' = commits
    BY <2>3, <2>4, <2>5, OthersCommitNot DEF Quiet, Developer, Writing
  <2>8. CASE PromoteFails
    <3>1. /\ code' = code /\ index' = Committed /\ log' = log /\ state' = state
          /\ Now = "promote"
      BY <1>1, <2>2, <2>8, FailsFacts DEF PromoteFails
    <3>2. code = op.before.code /\ log = op.before.log /\ state = op.before.state
      BY <2>1, <2>2, <3>1 DEF ApproveInv, Early
    <3> QED BY <2>7, <3>1, <3>2
  <2>9. CASE ApproveFails
    <3>1. PICK step \in {"gates", "log", "state", "stage", "commit"} : Fails(step)
      BY <2>9 DEF ApproveFails
    <3>2. Now = step /\ step # "commit"
      BY <1>1, <2>2, <3>1, FailsFacts DEF Fails
    <3>3. /\ op.before.code = Committed.code /\ index.code = Committed.code
          /\ op.entry.touched = Changed(Committed.code, worktree.code) /\ code = worktree.code
          /\ worktree.base # 0
      BY <2>1, <2>2, <3>1, <3>2 DEF ApproveInv, Early, ReviewInv
    <3>4. Committed.code \in Contents /\ code \in Contents
      BY <2>2, TypeFacts
    <3>5. \A f \in Files : RolledBack[f] = Committed.code[f]
      BY <3>3 DEF RolledBack, Changed
    <3>6. RolledBack = Committed.code
      <4>1. RolledBack = [f \in Files |-> RolledBack[f]]
        BY DEF RolledBack
      <4>2. Committed.code = [f \in Files |-> Committed.code[f]]
        BY <3>4 DEF Contents
      <4>3. [f \in Files |-> RolledBack[f]] = [f \in Files |-> Committed.code[f]]
        BY <3>5
      <4> QED BY <4>1, <4>2, <4>3
    <3> QED BY <2>7, <2>9, <3>3, <3>6 DEF ApproveFails, Restored_log, Restored_state
  <2> QED BY <2>3, <2>4, <2>5, <2>6, <2>8, <2>9, NextParts DEF Failing
<1>2. Inv /\ [Next]_vars => [A]_vars
  BY <1>1
<1> QED BY <1>2, Invariant, PTL DEF Spec, ApprovalRestores

-----------------------------------------------------------------------------
(* Logs.                                                                   *)

LEMMA NumberType ==
  ASSUME NEW L \in Seq(Records), NEW i \in DOMAIN L
  PROVE  L[i] \in Records /\ L[i].number \in Nat
<1>1. L[i] \in Records
  OBVIOUS
<1> QED BY <1>1 DEF Records

LEMMA AppendFacts ==
  ASSUME NEW L \in Seq(Records), NEW e \in Records
  PROVE  /\ Append(L, e) \in Seq(Records)
         /\ DOMAIN Append(L, e) = DOMAIN L \cup {Len(L) + 1}
         /\ Len(Append(L, e)) = Len(L) + 1 /\ Len(L) \in Nat /\ DOMAIN L = 1 .. Len(L)
         /\ \A i \in DOMAIN L : Append(L, e)[i] = L[i] /\ i \in Nat /\ i < Len(L) + 1
         /\ Append(L, e)[Len(L) + 1] = e
OBVIOUS

LEMMA ExtendsSelf ==
  ASSUME NEW L \in Seq(Records)
  PROVE  Extends(L, L)
BY DEF Extends

LEMMA ExtendsAppend ==
  ASSUME NEW L \in Seq(Records), NEW M \in Seq(Records), NEW e \in Records, Extends(L, M)
  PROVE  Extends(Append(L, e), M)
BY DEF Extends

LEMMA ExtendsConcat ==
  ASSUME NEW L \in Seq(Records), NEW M \in Seq(Records)
  PROVE  Extends(L \o M, L)
BY DEF Extends

LEMMA IncreasingAppend ==
  ASSUME NEW L \in Seq(Records), NEW e \in Records, Increasing(L),
         Counts(e) => Below(L, e.number)
  PROVE  Increasing(Append(L, e))
<1> DEFINE M == Append(L, e)
<1>1. /\ DOMAIN M = DOMAIN L \cup {Len(L) + 1} /\ Len(L) \in Nat
      /\ \A i \in DOMAIN L : M[i] = L[i] /\ i \in Nat /\ i < Len(L) + 1
      /\ M[Len(L) + 1] = e
  BY AppendFacts
<1> HIDE DEF M
<1>2. ASSUME NEW i \in DOMAIN M, NEW j \in DOMAIN M, i < j, Counts(M[i]), Counts(M[j])
      PROVE  M[i].number < M[j].number
  <2>1. CASE j \in DOMAIN L
    <3>1. i \in DOMAIN L
      BY <1>1, <1>2, <2>1
    <3> QED BY <1>1, <1>2, <2>1, <3>1 DEF Increasing
  <2>2. CASE j = Len(L) + 1
    <3>1. i \in DOMAIN L
      BY <1>1, <1>2, <2>2
    <3> QED BY <1>1, <1>2, <2>2, <3>1 DEF Below
  <2> QED BY <1>1, <2>1, <2>2
<1>3. Increasing(M)
  BY <1>2 DEF Increasing
<1> QED BY <1>3 DEF M

LEMMA BelowAppend ==
  ASSUME NEW L \in Seq(Records), NEW e \in Records, NEW n, Below(L, n), ~Counts(e)
  PROVE  Below(Append(L, e), n)
<1> DEFINE M == Append(L, e)
<1>1. /\ DOMAIN M = DOMAIN L \cup {Len(L) + 1}
      /\ \A i \in DOMAIN L : M[i] = L[i]
      /\ M[Len(L) + 1] = e
  BY AppendFacts
<1> HIDE DEF M
<1>2. Below(M, n)
  BY <1>1 DEF Below
<1> QED BY <1>2 DEF M

LEMMA BelowPrefix ==
  ASSUME NEW L \in Seq(Records), NEW M \in Seq(Records), NEW n, Extends(L, M), Below(L, n)
  PROVE  Below(M, n)
<1>1. \A i \in DOMAIN M : i \in DOMAIN L /\ L[i] = M[i]
  BY DEF Extends
<1> QED BY <1>1 DEF Below

LEMMA IncreasingPrefix ==
  ASSUME NEW L \in Seq(Records), NEW M \in Seq(Records), Extends(L, M), Increasing(L)
  PROVE  Increasing(M)
<1>1. \A i \in DOMAIN M : i \in DOMAIN L /\ L[i] = M[i]
  BY DEF Extends
<1> QED BY <1>1 DEF Increasing

LEMMA CoversPrefix ==
  ASSUME NEW L \in Seq(Records), NEW M \in Seq(Records), NEW E, Extends(L, M), Covers(M, E)
  PROVE  Covers(L, E)
<1>1. \A i \in DOMAIN M : i \in DOMAIN L /\ L[i] = M[i]
  BY DEF Extends
<1>2. ASSUME NEW k \in DOMAIN E, E[k].kind # "external"
      PROVE  \E i \in DOMAIN L : /\ Counts(L[i]) /\ L[i].number = E[k].number
               /\ L[i].decision = IF E[k].kind = "step" THEN "approved" ELSE "manual"
  <2>1. PICK i \in DOMAIN M : /\ Counts(M[i]) /\ M[i].number = E[k].number
               /\ M[i].decision = IF E[k].kind = "step" THEN "approved" ELSE "manual"
    BY <1>2 DEF Covers
  <2> QED BY <1>1, <2>1
<1> QED BY <1>2 DEF Covers

LEMMA UndonePrefix ==
  ASSUME NEW L \in Seq(Records), NEW M \in Seq(Records), Extends(L, M)
  PROVE  Undone(M) \subseteq Undone(L)
<1>1. \A i \in DOMAIN M : i \in DOMAIN L /\ L[i] = M[i]
  BY DEF Extends
<1> QED BY <1>1 DEF Undone

LEMMA ExactAppend ==
  ASSUME NEW L \in Seq(Records), NEW e \in Records, NEW E, Exact(L, E),
         IsStep(e) => \E k \in DOMAIN E : E[k].kind = "step" /\ E[k].number = e.number
  PROVE  Exact(Append(L, e), E)
<1> DEFINE M == Append(L, e)
<1>1. /\ DOMAIN M = DOMAIN L \cup {Len(L) + 1}
      /\ \A i \in DOMAIN L : M[i] = L[i]
      /\ M[Len(L) + 1] = e
  BY AppendFacts
<1> HIDE DEF M
<1>2. ASSUME NEW i \in DOMAIN M, IsStep(M[i])
      PROVE  \E k \in DOMAIN E : E[k].kind = "step" /\ E[k].number = M[i].number
  <2>1. CASE i \in DOMAIN L
    BY <1>1, <1>2, <2>1 DEF Exact
  <2>2. CASE i = Len(L) + 1
    BY <1>1, <1>2, <2>2
  <2> QED BY <1>1, <2>1, <2>2
<1>3. Exact(M, E)
  BY <1>2 DEF Exact
<1> QED BY <1>3 DEF M

(* What the effect of a commit grows by.                                   *)
Grown(E, F) ==
  /\ DOMAIN F = DOMAIN E \cup {Len(E) + 1}
  /\ \A k \in DOMAIN E : F[k] = E[k]

LEMMA GrownExact ==
  ASSUME NEW L, NEW E, NEW F, Exact(L, E), Grown(E, F)
  PROVE  Exact(L, F)
<1>1. ASSUME NEW i \in DOMAIN L, IsStep(L[i])
      PROVE  \E k \in DOMAIN F : F[k].kind = "step" /\ F[k].number = L[i].number
  <2>1. PICK k \in DOMAIN E : E[k].kind = "step" /\ E[k].number = L[i].number
    BY <1>1 DEF Exact
  <2> QED BY <2>1 DEF Grown
<1> QED BY <1>1 DEF Exact

LEMMA GrownCovers ==
  ASSUME NEW L, NEW E, NEW F, Covers(L, E), Grown(E, F),
         F[Len(E) + 1].kind # "external" =>
           \E i \in DOMAIN L :
             /\ Counts(L[i]) /\ L[i].number = F[Len(E) + 1].number
             /\ L[i].decision = IF F[Len(E) + 1].kind = "step" THEN "approved" ELSE "manual"
  PROVE  Covers(L, F)
<1>1. ASSUME NEW k \in DOMAIN F, F[k].kind # "external"
      PROVE  \E i \in DOMAIN L : /\ Counts(L[i]) /\ L[i].number = F[k].number
               /\ L[i].decision = IF F[k].kind = "step" THEN "approved" ELSE "manual"
  <2>1. CASE k \in DOMAIN E
    <3>1. F[k] = E[k]
      BY <2>1 DEF Grown
    <3> QED BY <1>1, <2>1, <3>1 DEF Covers
  <2>2. CASE k = Len(E) + 1
    BY <1>1, <2>2
  <2> QED BY <2>1, <2>2 DEF Grown
<1> QED BY <1>1 DEF Covers

Joined(L, M, R) ==
  /\ Len(L) \in Nat /\ DOMAIN L = 1 .. Len(L)
  /\ \A i \in DOMAIN L : i \in DOMAIN R /\ R[i] = L[i]
  /\ \A j \in DOMAIN M : Len(L) + j \in DOMAIN R /\ R[Len(L) + j] = M[j]
  /\ \A i \in DOMAIN R : i \in DOMAIN L \/ \E j \in DOMAIN M : i = Len(L) + j
  /\ \A i \in DOMAIN L, j \in DOMAIN M : i < Len(L) + j
  /\ \A i \in DOMAIN L, j \in DOMAIN M : ~(Len(L) + j < i)
  /\ \A i, j \in DOMAIN M : Len(L) + i < Len(L) + j <=> i < j

LEMMA ConcatFacts ==
  ASSUME NEW L \in Seq(Records), NEW M \in Seq(Records)
  PROVE  L \o M \in Seq(Records) /\ Joined(L, M, L \o M)
<1>1. /\ L \o M \in Seq(Records) /\ Len(L) \in Nat /\ DOMAIN L = 1 .. Len(L)
      /\ \A i \in DOMAIN L : i \in DOMAIN (L \o M) /\ (L \o M)[i] = L[i]
      /\ \A j \in DOMAIN M : Len(L) + j \in DOMAIN (L \o M) /\ (L \o M)[Len(L) + j] = M[j]
      /\ \A i \in DOMAIN L, j \in DOMAIN M : i < Len(L) + j
      /\ \A i \in DOMAIN L, j \in DOMAIN M : ~(Len(L) + j < i)
      /\ \A i, j \in DOMAIN M : Len(L) + i < Len(L) + j <=> i < j
  OBVIOUS
<1>2. ASSUME NEW i \in DOMAIN (L \o M), i \notin DOMAIN L
      PROVE  \E j \in DOMAIN M : i = Len(L) + j
  <2>1. i \in 1 .. Len(L) + Len(M) /\ Len(M) \in Nat /\ Len(L) \in Nat
    OBVIOUS
  <2>2. i - Len(L) \in DOMAIN M /\ i = Len(L) + (i - Len(L))
    BY <1>1, <1>2, <2>1
  <2> QED BY <2>2
<1>3. \A i \in DOMAIN (L \o M) : i \in DOMAIN L \/ \E j \in DOMAIN M : i = Len(L) + j
  BY <1>2
<1> QED BY <1>1, <1>3 DEF Joined

(* The records written back after an undo have larger numbers than all     *)
(* before: those of the step undone lie between.                           *)
LEMMA WrittenBack ==
  ASSUME NEW L \in Seq(Records), NEW P \in Seq(Records), NEW Q \in Seq(Records),
         NEW m \in DOMAIN L, Counts(L[m]),
         Increasing(L \o Q), Increasing(P), Below(P, L[m].number)
  PROVE  Increasing(P \o Q)
<1>0. L[m].number \in Nat
  BY NumberType
<1>1. ASSUME NEW i \in DOMAIN Q, NEW j \in DOMAIN Q, i < j, Counts(Q[i]), Counts(Q[j])
      PROVE  Q[i].number < Q[j].number
  <2> DEFINE M == L \o Q
             a == Len(L) + i
             b == Len(L) + j
  <2>0. Joined(L, Q, M)
    BY ConcatFacts
  <2> HIDE DEF M
  <2>1. a \in DOMAIN M /\ b \in DOMAIN M /\ M[a] = Q[i] /\ M[b] = Q[j] /\ a < b
    BY <1>1, <2>0 DEF Joined
  <2> HIDE DEF a, b
  <2>2. Increasing(M)
    BY DEF M
  <2> QED BY <1>1, <2>1, <2>2 DEF Increasing
<1>2. ASSUME NEW j \in DOMAIN Q, Counts(Q[j]) PROVE L[m].number < Q[j].number
  <2> DEFINE M == L \o Q
             b == Len(L) + j
  <2>0. Joined(L, Q, M)
    BY ConcatFacts
  <2> HIDE DEF M
  <2>1. m \in DOMAIN M /\ b \in DOMAIN M /\ M[m] = L[m] /\ M[b] = Q[j] /\ m < b
    BY <2>0 DEF Joined
  <2> HIDE DEF b
  <2>2. Increasing(M)
    BY DEF M
  <2> QED BY <1>2, <2>1, <2>2 DEF Increasing
<1> DEFINE R == P \o Q
<1>3. Joined(P, Q, R)
  BY ConcatFacts
<1> HIDE DEF R
<1>4. ASSUME NEW i \in DOMAIN R, NEW j \in DOMAIN R, i < j, Counts(R[i]), Counts(R[j])
      PROVE  R[i].number < R[j].number
  <2>1. CASE i \in DOMAIN P /\ j \in DOMAIN P
    BY <1>3, <1>4, <2>1 DEF Increasing, Joined
  <2>2. CASE i \in DOMAIN P /\ j \notin DOMAIN P
    <3>1. PICK k \in DOMAIN Q : j = Len(P) + k
      BY <1>3, <2>2 DEF Joined
    <3>2. P[i].number < L[m].number /\ L[m].number < Q[k].number
      BY <1>2, <1>3, <1>4, <2>2, <3>1 DEF Below, Joined
    <3>3. P[i].number \in Nat /\ Q[k].number \in Nat
      BY <2>2, NumberType
    <3>4. R[i] = P[i] /\ R[j] = Q[k]
      BY <1>3, <2>2, <3>1 DEF Joined
    <3> QED BY <1>0, <3>2, <3>3, <3>4
  <2>3. CASE i \notin DOMAIN P
    <3>1. PICK h \in DOMAIN Q : i = Len(P) + h
      BY <1>3, <2>3 DEF Joined
    <3>2. j \notin DOMAIN P
      BY <1>3, <1>4, <3>1 DEF Joined
    <3>3. PICK k \in DOMAIN Q : j = Len(P) + k
      BY <1>3, <3>2 DEF Joined
    <3>4. R[i] = Q[h] /\ R[j] = Q[k] /\ h < k
      BY <1>3, <1>4, <3>1, <3>3 DEF Joined
    <3> QED BY <1>1, <1>4, <3>4
  <2> QED BY <2>1, <2>2, <2>3
<1>5. Increasing(R)
  BY <1>4 DEF Increasing
<1> QED BY <1>5 DEF R

(* No approved step is among them, unless the service has died: it would   *)
(* be in effect, and so in the committed log under the same number.        *)
LEMMA NothingPending ==
  ASSUME NEW L \in Seq(Records), NEW P \in Seq(Records), NEW Q \in Seq(Records), NEW E, NEW F,
         Increasing(L \o Q), Covers(L, E), Exact(L \o Q, E), Exact(P, F)
  PROVE  Exact(P \o Q, F)
<1> DEFINE M == L \o Q
<1>1. Joined(L, Q, M) /\ M \in Seq(Records) /\ Increasing(M) /\ Exact(M, E)
  BY ConcatFacts
<1> HIDE DEF M
<1>2. ASSUME NEW j \in DOMAIN Q, IsStep(Q[j]) PROVE FALSE
  <2> DEFINE b == Len(L) + j
  <2>1. b \in DOMAIN M /\ M[b] = Q[j]
    BY <1>1 DEF Joined
  <2>2. PICK k \in DOMAIN E : E[k].kind = "step" /\ E[k].number = Q[j].number
    BY <1>1, <1>2, <2>1 DEF Exact
  <2>3. PICK i \in DOMAIN L : Counts(L[i]) /\ L[i].number = E[k].number
    BY <2>2 DEF Covers
  <2>4. i \in DOMAIN M /\ M[i] = L[i] /\ i < b
    BY <1>1 DEF Joined
  <2> HIDE DEF b
  <2>5. M[i].number < M[b].number
    BY <1>1, <1>2, <2>1, <2>3, <2>4 DEF Increasing, Counts, IsStep
  <2>6. Q[j].number \in Nat
    BY NumberType
  <2> QED BY <2>1, <2>2, <2>3, <2>4, <2>5, <2>6
<1> DEFINE R == P \o Q
<1>3. Joined(P, Q, R)
  BY ConcatFacts
<1> HIDE DEF R
<1>4. ASSUME NEW i \in DOMAIN R, IsStep(R[i])
      PROVE  \E k \in DOMAIN F : F[k].kind = "step" /\ F[k].number = R[i].number
  <2>1. i \in DOMAIN P /\ R[i] = P[i]
    BY <1>2, <1>3, <1>4 DEF Joined
  <2> QED BY <1>4, <2>1 DEF Exact
<1>5. Exact(R, F)
  BY <1>4 DEF Exact
<1> QED BY <1>5 DEF R

LEMMA PendingFacts ==
  ASSUME NEW L \in Seq(Records), NEW M \in Seq(Records), Extends(L, M)
  PROVE  IsPrefix(M, L) /\ L = M \o SubSeq(L, Len(M) + 1, Len(L))
<1>1. Len(M) \in Nat /\ Len(L) \in Nat /\ Len(M) <= Len(L) /\ \A i \in 1 .. Len(M) : L[i] = M[i]
  BY DEF Extends
<1>2. SubSeq(M, 1, Len(M)) = SubSeq(L, 1, Len(M))
  <2>1. Len(SubSeq(M, 1, Len(M))) = Len(M) /\ Len(SubSeq(L, 1, Len(M))) = Len(M)
    BY <1>1
  <2>2. \A i \in 1 .. Len(M) : SubSeq(M, 1, Len(M))[i] = SubSeq(L, 1, Len(M))[i]
    BY <1>1
  <2>3. SubSeq(M, 1, Len(M)) \in Seq(Records) /\ SubSeq(L, 1, Len(M)) \in Seq(Records)
    BY <1>1
  <2> QED BY <2>1, <2>2, <2>3, SeqEqual
<1>3. IsPrefix(M, L)
  BY <1>1, <1>2 DEF IsPrefix
<1> DEFINE S == SubSeq(L, Len(M) + 1, Len(L))
<1>4. S \in Seq(Records) /\ Len(S) = Len(L) - Len(M)
      /\ \A i \in 1 .. Len(L) - Len(M) : S[i] = L[i + Len(M)]
  BY <1>1
<1> HIDE DEF S
<1>5. M \o S \in Seq(Records) /\ Len(M \o S) = Len(L)
  BY <1>1, <1>4
<1>6. ASSUME NEW i \in 1 .. Len(L) PROVE (M \o S)[i] = L[i]
  <2>1. CASE i <= Len(M)
    BY <1>1, <1>4, <2>1
  <2>2. CASE ~(i <= Len(M))
    <3>1. i - Len(M) \in 1 .. Len(L) - Len(M) /\ (M \o S)[i] = S[i - Len(M)]
      BY <1>1, <1>4, <2>2
    <3>2. S[i - Len(M)] = L[(i - Len(M)) + Len(M)]
      BY <1>4, <3>1
    <3>3. (i - Len(M)) + Len(M) = i
      BY <1>1
    <3> QED BY <3>1, <3>2, <3>3
  <2> QED BY <2>1, <2>2
<1>7. L = M \o S
  BY <1>5, <1>6, SeqEqual
<1> QED BY <1>3, <1>7 DEF S

-----------------------------------------------------------------------------
(* The commits and what is in effect.                                      *)

LEMMA LogLater ==
  ASSUME NEW L, NEW C, NEW E, NEW c, NEW d, LogIn(L, C, E, c), d = 0 => c = 0
  PROVE  LogIn(L, C, E, d)
BY DEF LogIn

LEMMA NoneComesBack ==
  ASSUME TypeOK, Next
  PROVE  /\ crashes' = 0 => crashes = 0
         /\ ~Crash => crashes' = crashes
<1>1. CASE Crash
  BY <1>1 DEF Crash, TypeOK
<1>2. CASE ~Crash
  <2>0. UNCHANGED bounds => crashes' = crashes
    BY DEF bounds
  <2>1. CASE Quiet
    <3>1. CASE Developer
      BY <2>0, <3>1 DEF Developer, Edit, EditWorktree, CommitByHand
    <3>2. CASE Working
      BY <2>0, <3>2 DEF Working, Propose, Ask, CodeProposed, ApproachProposed, Rebuilt, WorkFails,
                        Resume, Discard
    <3>3. CASE View \/ Rebuild \/ Adapt
      BY <2>0, <3>3 DEF View, Rebuild, Adapt, Ask
    <3> QED BY <2>1, <3>1, <3>2, <3>3 DEF Quiet
  <2>2. CASE Opening
    BY <2>0, <2>2, OpeningFacts
  <2>3. CASE Writing
    BY <2>0, <2>3 DEF Writing, Promote, Gates, AppendLog, SaveState, EnsureQueue, Stage, Commit, Clear,
                      Finish, Checkout, Revert, RevertRefused, WriteBack
  <2>4. CASE Failing
    BY <1>2, <2>4 DEF Failing, PromoteFails, ApproveFails, DecisionFails, OtherFails
  <2>5. crashes' = crashes
    BY <1>2, <2>1, <2>2, <2>3, <2>4, NextParts
  <2> QED BY <1>2, <2>5
<1> QED BY <1>1, <1>2

LEMMA HeadKept ==
  ASSUME HeadInv, commits' = commits, effect' = effect, crashes' = 0 => crashes = 0
  PROVE  HeadInv'
<1>1. HEAD' = HEAD /\ Committed' = Committed /\ Parent' = Parent
  BY DEF HEAD, Committed, Parent
<1> QED BY <1>1 DEF HeadInv, Agrees

LEMMA CommitFacts ==
  ASSUME TypeOK, NEW kind \in Kinds, NEW number \in Nat, NEW tree \in Trees,
         Committing(kind, number, tree)
  PROVE  /\ HEAD' = [kind |-> kind, number |-> number, tree |-> tree] /\ Committed' = tree
         /\ Parent' = Committed /\ Len(commits') > 1
<1>1. /\ Len(commits) \in Nat \ {0} /\ Len(commits') = Len(commits) + 1
      /\ commits'[Len(commits) + 1] = [kind |-> kind, number |-> number, tree |-> tree]
      /\ commits'[Len(commits)] = commits[Len(commits)]
  BY TypeFacts DEF Committing, TypeOK
<1>2. HEAD' = [kind |-> kind, number |-> number, tree |-> tree]
  BY <1>1 DEF HEAD
<1>3. Parent' = Committed
  BY <1>1 DEF Parent, Committed, HEAD
<1> QED BY <1>1, <1>2, <1>3 DEF Committed

LEMMA EffectGrows ==
  ASSUME TypeOK, NEW kind \in Kinds \ {"undo"}, NEW number \in Nat, NEW tree \in Trees,
         Committing(kind, number, tree)
  PROVE  /\ Last(effect') \in Effects /\ effect' = Append(effect, Last(effect'))
         /\ Grown(effect, effect') /\ effect'[Len(effect) + 1] = Last(effect')
         /\ Last(effect').kind = kind /\ Last(effect').number = number
         /\ Last(effect').code = tree.code /\ effect' # <<>> /\ Front(effect') = effect
         /\ Len(effect) \in Nat /\ Len(effect') = Len(effect) + 1
         /\ effect # <<>> => /\ effect'[1] = effect[1] /\ Len(effect') > 1
                             /\ effect'[Len(effect') - 1] = Last(effect)
<1> DEFINE new == [kind |-> kind, number |-> number, code |-> tree.code]
<1>1. new \in Effects
  BY DEF Effects, Trees
<1>2. effect \in Seq(Effects) /\ effect' = Append(effect, new)
  BY DEF TypeOK, Committing
<1> HIDE DEF new
<1>3. /\ Grown(effect, effect') /\ effect'[Len(effect) + 1] = new /\ effect' # <<>>
      /\ Len(effect) \in Nat /\ Len(effect') = Len(effect) + 1 /\ effect' \in Seq(Effects)
  BY <1>1, <1>2 DEF Grown
<1>4. Last(effect') = new
  BY <1>3 DEF Last
<1>5. Front(effect') = effect
  <2>1. Front(effect') \in Seq(Effects) /\ Len(Front(effect')) = Len(effect)
        /\ \A i \in 1 .. Len(effect) : Front(effect')[i] = effect'[i]
    BY <1>3 DEF Front
  <2>2. \A i \in 1 .. Len(effect) : effect'[i] = effect[i]
    BY <1>1, <1>2
  <2> QED BY <1>2, <2>1, <2>2, SeqEqual
<1>6. effect # <<>> => /\ effect'[1] = effect[1] /\ Len(effect') > 1
                       /\ effect'[Len(effect') - 1] = Last(effect)
  BY <1>1, <1>2, <1>3 DEF Last
<1> QED BY <1>1, <1>2, <1>3, <1>4, <1>5, <1>6 DEF new

LEMMA HeadGrows ==
  ASSUME TypeOK, HeadInv, NEW kind \in Kinds \ {"undo"}, NEW number \in Nat, NEW tree \in Trees,
         Committing(kind, number, tree), crashes' = crashes,
         LogIn(tree.log, Committed.log, effect', crashes), Covers(tree.log, effect'),
         kind = "external" => number = 0,
         kind = "step" => Below(Committed.log, number)
  PROVE  HeadInv'
<1>1. /\ Grown(effect, effect') /\ effect'[Len(effect) + 1] = Last(effect')
      /\ effect' # <<>> /\ Front(effect') = effect
      /\ effect'[1] = effect[1] /\ Len(effect') > 1
      /\ effect'[Len(effect') - 1] = Last(effect)
  BY EffectGrows DEF HeadInv
<1>2. /\ Last(effect').kind = kind /\ Last(effect').number = number
      /\ Last(effect').code = tree.code
  BY EffectGrows
<1>3. /\ HEAD'.kind = kind /\ HEAD'.number = number /\ Committed' = tree /\ Parent' = Committed
      /\ Len(commits') > 1
  BY CommitFacts
<1>4. \A k \in DOMAIN effect' : effect'[k].kind = "external" => effect'[k].number = 0
  BY <1>1, <1>2 DEF Grown, HeadInv
<1>5. Increasing(Committed'.log) /\ Agrees(Committed.log, effect)'
  BY <1>3 DEF LogIn, Agrees
<1>6. Last(effect').code = Committed'.code
  BY <1>1, <1>2, <1>3
<1>7. HEAD'.kind = "step" /\ HEAD'.number # 0 =>
       /\ effect'[Len(effect') - 1].code = Parent'.code
       /\ Increasing(Parent'.log) /\ Below(Parent'.log, HEAD'.number)
       /\ Agrees(Parent.log, Front(effect))'
  BY <1>1, <1>3 DEF HeadInv, Agrees
<1> QED BY <1>1, <1>2, <1>3, <1>4, <1>5, <1>6, <1>7 DEF HeadInv

(* What the last step's commit was made of is in the log of that commit.   *)
LEMMA LastLogged ==
  ASSUME TypeOK, HeadInv, HEAD.kind = "step"
  PROVE  \E m \in DOMAIN Committed.log :
           IsStep(Committed.log[m]) /\ Counts(Committed.log[m]) /\ Committed.log[m].number = HEAD.number
<1>1. Len(effect) \in DOMAIN effect /\ Last(effect) = effect[Len(effect)]
  BY DEF TypeOK, HeadInv, Last
<1>2. effect[Len(effect)].kind = "step" /\ effect[Len(effect)].number = HEAD.number
  BY <1>1 DEF HeadInv
<1>3. Covers(Committed.log, effect)
  BY DEF HeadInv, Agrees
<1> QED BY <1>1, <1>2, <1>3 DEF Covers, Counts, IsStep

(* A number larger than those in the log is larger than those in effect.   *)
LEMMA NewNumber ==
  ASSUME TypeOK, HeadInv, NEW L \in Seq(Records), NEW n \in Nat,
         Extends(L, Committed.log), Below(L, n)
  PROVE  \A k \in DOMAIN effect : effect[k].number < n
<1>0. Committed.log \in Seq(Records) /\ effect \in Seq(Effects)
  BY TypeFacts DEF TypeOK
<1>1. Covers(Committed.log, effect)
  BY DEF HeadInv, Agrees
<1>2. Below(Committed.log, n)
  BY <1>0, BelowPrefix
<1>3. ASSUME NEW k \in DOMAIN effect, effect[k].kind # "external"
      PROVE  effect[k].number < n /\ effect[k].number \in Nat
  <2>1. PICK i \in DOMAIN Committed.log :
          Counts(Committed.log[i]) /\ Committed.log[i].number = effect[k].number
    BY <1>1, <1>3 DEF Covers
  <2>2. Committed.log[i].number < n
    BY <1>2, <2>1 DEF Below
  <2>3. Committed.log[i].number \in Nat
    BY <1>0, NumberType
  <2> QED BY <2>1, <2>2, <2>3
<1>4. 1 \in DOMAIN effect /\ effect[1].kind # "external"
  BY <1>0 DEF HeadInv
<1>5. 0 < n
  BY <1>3, <1>4
<1> QED BY <1>3, <1>5 DEF HeadInv

LEMMA HandCommits ==
  ASSUME Inv, HistoryInv, CommitByHand, crashes' = crashes
  PROVE  HeadInv' /\ log' = Committed'.log
<1>0. /\ TypeOK /\ HeadInv /\ log \in Seq(Records) /\ Committed.log \in Seq(Records) /\ Tree \in Trees
      /\ "external" \in Kinds \ {"undo"} /\ 0 \in Nat
  BY TypeFacts DEF Inv, HistoryInv, TypeOK, Kinds
<1>1. Committing("external", 0, Tree) /\ log' = log /\ Tree.log = log
  BY DEF CommitByHand, Tree
<1>2. LogIn(log, Committed.log, effect, crashes)
  <2>1. op.name = None
    BY IdleType DEF CommitByHand
  <2> QED BY <2>1 DEF HistoryInv, LogInv, LogOK, None
<1>3. Grown(effect, effect') /\ effect'[Len(effect) + 1].kind = "external"
  BY <1>0, <1>1, EffectGrows
<1>4. Covers(log, effect)
  BY <1>0, <1>2, CoversPrefix DEF LogIn, HeadInv, Agrees
<1>5. Covers(log, effect')
  BY <1>3, <1>4, GrownCovers
<1>6. LogIn(log, Committed.log, effect', crashes)
  BY <1>2, <1>3, GrownExact DEF LogIn
<1>7. HeadInv'
  BY <1>0, <1>1, <1>5, <1>6, HeadGrows
<1> QED BY <1>0, <1>1, <1>7, CommitFacts

(* The log with its entry.                                                 *)
LEMMA LogWithEntry ==
  ASSUME Inv, HistoryInv, op.name \in {"approve", "manual"}, Now \in Early
  PROVE  /\ op.before.log \in Seq(Records) /\ op.entry \in Records /\ Counts(op.entry)
         /\ LogOK(op.before.log) /\ Below(op.before.log, op.entry.number)
         /\ log \in {op.before.log, Append(op.before.log, op.entry)}
         /\ Increasing(Append(op.before.log, op.entry))
         /\ Extends(Append(op.before.log, op.entry), Committed.log)
<1>1. op.before \in Trees /\ op.entry \in Records
  BY DEF Inv, OpInv, None
<1>2. op.before.log \in Seq(Records)
  BY <1>1 DEF Trees
<1>3. /\ Counts(op.entry) /\ LogOK(op.before.log) /\ Below(op.before.log, op.entry.number)
      /\ log \in {op.before.log, Append(op.before.log, op.entry)}
  <2>1. CASE op.name = "approve"
    BY <2>1 DEF HistoryInv, ApproveLog, IsStep, Counts
  <2>2. CASE op.name = "manual"
    BY <2>2 DEF HistoryInv, ManualLog
  <2> QED BY <2>1, <2>2
<1>4. Committed.log \in Seq(Records)
  BY TypeFacts DEF Inv
<1>5. Increasing(op.before.log) /\ Extends(op.before.log, Committed.log)
  BY <1>3 DEF LogOK, LogIn
<1> QED BY <1>1, <1>2, <1>3, <1>4, <1>5, IncreasingAppend, ExtendsAppend

LEMMA EntryCommits ==
  ASSUME Inv, HistoryInv, op.name \in {"approve", "manual"}, Commit, crashes' = crashes
  PROVE  /\ HeadInv' /\ log' = Committed'.log
         /\ effect' = Append(effect, Last(effect')) /\ Last(effect').kind \in {"step", "manual"}
         /\ \A k \in DOMAIN effect : effect[k].number < Last(effect').number
<1> DEFINE kind == IF op.name = "approve" THEN "step" ELSE "manual"
           B == op.before.log
           e == op.entry
<1>0. TypeOK /\ OpInv /\ HeadInv /\ Committed.log \in Seq(Records)
  BY TypeFacts DEF Inv, HistoryInv
<1>1. Now = "commit" /\ index = Tree /\ Tree.log = log /\ log' = log
  BY <1>0, AtFacts DEF Commit, Done, OpInv, Tree
<1>2. /\ B \in Seq(Records) /\ e \in Records /\ Counts(e) /\ LogOK(B) /\ Below(B, e.number)
      /\ Increasing(Append(B, e)) /\ Extends(Append(B, e), Committed.log)
  BY <1>1, LogWithEntry DEF Early
<1>3. log = Append(B, e) /\ (kind = "step" => IsStep(e)) /\ (kind = "manual" => ~IsStep(e))
  <2>1. CASE op.name = "approve"
    BY <1>1, <2>1 DEF HistoryInv, ApproveLog, Early
  <2>2. CASE op.name = "manual"
    BY <1>1, <2>2 DEF HistoryInv, ManualLog, Early
  <2> QED BY <2>1, <2>2
<1>4. Committing(kind, e.number, index)
  BY DEF Commit
<1>5. index \in Trees /\ e.number \in Nat /\ kind \in Kinds \ {"undo"}
  BY <1>0, <1>2 DEF TypeOK, Records, Kinds
<1>6. e.decision = IF kind = "step" THEN "approved" ELSE "manual"
  BY <1>2, <1>3 DEF Counts, IsStep
<1> HIDE DEF kind, B, e
<1>7. /\ Grown(effect, effect') /\ effect'[Len(effect) + 1].kind = kind
      /\ effect'[Len(effect) + 1].number = e.number /\ effect' = Append(effect, Last(effect'))
      /\ Last(effect').kind = kind /\ Last(effect').number = e.number /\ Len(effect) \in Nat
  BY <1>0, <1>4, <1>5, EffectGrows
<1>8. Extends(B, Committed.log) /\ (crashes = 0 => Exact(B, effect))
  BY <1>2 DEF LogOK, LogIn
<1>9. crashes = 0 => Exact(log, effect')
  <2>1. ASSUME crashes = 0 PROVE Exact(Append(B, e), effect')
    <3>1. Exact(B, effect')
      BY <1>7, <1>8, <2>1, GrownExact
    <3>2. Len(effect) + 1 \in DOMAIN effect'
      BY <1>7 DEF Grown
    <3>3. IsStep(e) => kind = "step"
      BY <1>3 DEF kind
    <3> QED BY <1>2, <1>7, <3>1, <3>2, <3>3, ExactAppend
  <2> QED BY <1>3, <2>1
<1>10. Covers(log, effect')
  <2>1. Covers(Append(B, e), effect)
    BY <1>0, <1>2, AppendFacts, CoversPrefix DEF HeadInv, Agrees
  <2>2. /\ Len(B) + 1 \in DOMAIN Append(B, e) /\ Append(B, e)[Len(B) + 1] = e
    BY <1>2, AppendFacts
  <2>3. Covers(Append(B, e), effect')
    BY <1>2, <1>6, <1>7, <2>1, <2>2, GrownCovers
  <2> QED BY <1>3, <2>3
<1>11. LogIn(index.log, Committed.log, effect', crashes) /\ Covers(index.log, effect')
  BY <1>1, <1>2, <1>3, <1>9, <1>10 DEF LogIn
<1>12. Below(Committed.log, e.number)
  BY <1>0, <1>2, <1>8, BelowPrefix
<1>13. kind # "external"
  BY DEF kind
<1>14. HeadInv'
  BY <1>0, <1>4, <1>5, <1>11, <1>12, <1>13, HeadGrows
<1>15. log' = Committed'.log
  BY <1>0, <1>1, <1>4, <1>5, CommitFacts
<1>16. \A k \in DOMAIN effect : effect[k].number < e.number
  BY <1>0, <1>2, <1>5, <1>8, NewNumber
<1>17. kind \in {"step", "manual"}
  BY DEF kind
<1> QED BY <1>7, <1>14, <1>15, <1>16, <1>17

LEMMA UndoCommits ==
  ASSUME Inv, HistoryInv, op.name = "undo", Commit, crashes' = crashes
  PROVE  /\ HeadInv' /\ log' = Committed'.log
         /\ effect' = Front(effect) /\ Last(effect).kind = "step" /\ Last(effect).number # 0
<1> DEFINE L == Committed.log
           P == Parent.log
           Q == op.pending
           e == op.entry
<1>0. TypeOK /\ OpInv /\ HeadInv /\ L \in Seq(Records) /\ effect \in Seq(Effects)
  BY TypeFacts DEF Inv, HistoryInv, TypeOK
<1>1. /\ Now = "commit" /\ index = Tree /\ Tree.log = log /\ log' = log /\ Tree.code = code
      /\ Q \in Seq(Records) /\ e \in Records
  BY <1>0, AtFacts DEF Commit, Done, OpInv, Tree
<1>2. /\ e.decision = "undone" /\ HEAD.kind = "step" /\ HEAD.number = e.number /\ HEAD.number # 0
      /\ LogOK(L \o Q) /\ code = Parent.code /\ log = Append(P \o Q, e)
  BY <1>1 DEF HistoryInv, UndoLog, Early
<1>3. P \in Seq(Records)
  BY <1>0, ParentType DEF OpInv
<1>4. /\ Len(commits) > 1 /\ Len(effect) > 1
      /\ effect[Len(effect) - 1].code = Parent.code
      /\ Increasing(P) /\ Below(P, HEAD.number) /\ Agrees(P, Front(effect))
      /\ Last(effect).kind = "step" /\ Last(effect).number = HEAD.number
      /\ Covers(L, effect)
  BY <1>0, <1>2 DEF HeadInv, Agrees
<1>5. Committing("undo", e.number, index) /\ "undo" \in Kinds /\ index \in Trees /\ e.number \in Nat
  BY <1>0, <1>1 DEF Commit, TypeOK, Kinds, Records
<1>6. PICK m \in DOMAIN L : Counts(L[m]) /\ L[m].number = HEAD.number
  BY <1>0, <1>2, LastLogged
<1> HIDE DEF L, P, Q, e
<1>7. Increasing(L \o Q) /\ (crashes = 0 => Exact(L \o Q, effect))
  BY <1>2 DEF LogOK, LogIn
<1>8. P \o Q \in Seq(Records) /\ Increasing(P \o Q)
  BY <1>0, <1>1, <1>3, <1>4, <1>6, <1>7, WrittenBack, ConcatFacts
<1>9. ~Counts(e) /\ ~IsStep(e)
  BY <1>2 DEF Counts, IsStep
<1>10. Increasing(log)
  BY <1>1, <1>2, <1>8, <1>9, IncreasingAppend
<1>11. Covers(log, Front(effect))
  <2>1. Extends(P \o Q, P)
    BY <1>1, <1>3, ExtendsConcat
  <2>2. Extends(log, P)
    BY <1>1, <1>2, <1>3, <1>8, <2>1, ExtendsAppend
  <2>3. log \in Seq(Records)
    BY <1>0, TypeFacts
  <2> QED BY <1>3, <1>4, <2>2, <2>3, CoversPrefix DEF Agrees
<1>12. crashes = 0 => Exact(log, Front(effect))
  <2>1. ASSUME crashes = 0 PROVE Exact(P \o Q, Front(effect))
    BY <1>0, <1>1, <1>3, <1>4, <1>7, <2>1, NothingPending DEF Agrees
  <2> QED BY <1>1, <1>2, <1>8, <1>9, <2>1, ExactAppend
<1>13. effect' = Front(effect)
  BY <1>5 DEF Committing
<1>14. /\ Front(effect) # <<>> /\ Front(effect)[1] = effect[1]
       /\ Last(Front(effect)) = effect[Len(effect) - 1]
       /\ \A k \in DOMAIN Front(effect) : k \in DOMAIN effect /\ Front(effect)[k] = effect[k]
  <2>1. /\ Front(effect) \in Seq(Effects) /\ Len(Front(effect)) = Len(effect) - 1
        /\ \A i \in 1 .. Len(effect) - 1 : Front(effect)[i] = effect[i]
    BY <1>0, <1>4 DEF Front
  <2>2. Last(Front(effect)) = effect[Len(effect) - 1]
    BY <1>0, <1>4, <2>1 DEF Last
  <2>3. effect \in Seq(Effects) /\ Len(effect) \in Nat /\ Len(effect) > 1
    BY <1>0, <1>4
  <2>4. DOMAIN Front(effect) = 1 .. Len(effect) - 1 /\ DOMAIN effect = 1 .. Len(effect)
    BY <2>1, <2>3
  <2>5. 1 \in DOMAIN Front(effect) /\ Front(effect) # <<>>
    BY <2>1, <2>3, <2>4
  <2>6. \A k \in DOMAIN Front(effect) : k \in DOMAIN effect /\ Front(effect)[k] = effect[k]
    BY <2>1, <2>3, <2>4
  <2> QED BY <2>2, <2>5, <2>6
<1>15. HEAD'.kind = "undo" /\ HEAD'.number = e.number /\ Committed' = index
  BY <1>0, <1>5, CommitFacts
<1>16. e.number \in Undone(log)
  <2>1. /\ Len(P \o Q) + 1 \in DOMAIN log /\ log[Len(P \o Q) + 1] = e
    BY <1>1, <1>2, <1>8, AppendFacts
  <2> QED BY <1>2, <2>1 DEF Undone
<1>17. HeadInv'
  <2>1. effect' # <<>> /\ effect'[1].kind = "step"
        /\ \A k \in DOMAIN effect' : effect'[k].kind = "external" => effect'[k].number = 0
    BY <1>0, <1>13, <1>14 DEF HeadInv
  <2>2. Increasing(Committed'.log) /\ Agrees(Committed.log, effect)'
    BY <1>1, <1>10, <1>11, <1>12, <1>13, <1>15 DEF Agrees
  <2>3. Last(effect').code = Committed'.code
    BY <1>1, <1>2, <1>4, <1>13, <1>14, <1>15
  <2>4. HEAD'.number \in Undone(Committed'.log)
    BY <1>1, <1>15, <1>16
  <2> QED BY <1>15, <2>1, <2>2, <2>3, <2>4 DEF HeadInv
<1> QED BY <1>1, <1>2, <1>4, <1>13, <1>15, <1>17

-----------------------------------------------------------------------------
(* The writes, and what they leave alone.                                  *)

Written(step) ==
  /\ Done(step) /\ Now = step /\ op.name \in Names(step) /\ op.name \in OpNames
  /\ op'.name = op.name /\ op'.entry = op.entry /\ op'.before = op.before
  /\ op'.pending = op.pending /\ Now' \in Following(op.name, step)
  /\ UNCHANGED <<journal, job>> /\ crashes' = crashes
  /\ step = "log" => log' = Append(log, op.entry)
  /\ step = "checkout" => log' = index.log
  /\ step = "revert" => log' = Parent.log /\ code' = Parent.code
  /\ step = "append" => log' = log \o op.pending
  /\ step \notin {"log", "checkout", "revert", "append"} => log' = log
  /\ step \notin {"promote", "revert"} => code' = code
  /\ step \notin {"stage", "revert"} => index' = index
  /\ step = "commit" => Commit

LEMMA WriteFacts ==
  ASSUME TypeOK, OpInv, Writing
  PROVE  \/ /\ op' = Idle /\ log' = log /\ crashes' = crashes
            /\ \/ Finish /\ Now = "finish"
               \/ EnsureQueue /\ Now = "queue" /\ op.name = "phase"
               \/ RevertRefused /\ Now = "revert" /\ op.name = "undo"
         \/ \E step \in Early \cup {"clear"} : Written(step)
<1>0. /\ UNCHANGED bounds => crashes' = crashes
      /\ UNCHANGED review => UNCHANGED <<journal, job>>
      /\ UNCHANGED disk => UNCHANGED <<code, log, index>>
  BY DEF bounds, review, disk
<1>1. CASE Finish
  <2>1. Now = "finish"
    BY <1>1, AtFacts DEF Finish
  <2> QED BY <1>0, <1>1, <2>1 DEF Finish
<1>2. CASE EnsureQueue
  <2>1. Now = "queue" /\ op.name \in Names("queue")
    BY <1>2, AtFacts DEF EnsureQueue
  <2> QED BY <1>0, <1>2, <2>1 DEF EnsureQueue, Names
<1>3. CASE RevertRefused
  <2>1. Now = "revert" /\ op.name \in Names("revert")
    BY <1>3, AtFacts DEF RevertRefused
  <2> QED BY <1>0, <1>3, <2>1 DEF RevertRefused, Names
<1>4. ASSUME NEW step \in Early \cup {"clear"}, Done(step)
      PROVE  /\ Now = step /\ op.name \in Names(step) /\ op.name \in OpNames
             /\ op'.name = op.name /\ op'.entry = op.entry /\ op'.before = op.before
             /\ op'.pending = op.pending /\ Now' \in Following(op.name, step)
  <2>1. At(step) /\ step \notin {"finish", "queue"}
    BY <1>4 DEF Done, Early
  <2>2. Now = step /\ op.name \in Names(step) /\ op.name \in OpNames
    BY <2>1, AtFacts
  <2> QED BY <1>4, <2>1, <2>2, DoneFacts
<1>5. CASE Promote
  BY <1>0, <1>4, <1>5 DEF Promote, Written, Early
<1>6. CASE Gates
  BY <1>0, <1>4, <1>6 DEF Gates, Written, Early
<1>7. CASE AppendLog
  BY <1>0, <1>4, <1>7 DEF AppendLog, Written, Early
<1>8. CASE SaveState
  BY <1>0, <1>4, <1>8 DEF SaveState, Written, Early
<1>9. CASE Stage
  BY <1>0, <1>4, <1>9 DEF Stage, Written, Early
<1>10. CASE Commit
  <2>1. Done("commit") /\ UNCHANGED <<code, log, index>> /\ UNCHANGED review /\ UNCHANGED bounds
    BY <1>10 DEF Commit
  <2> QED BY <1>0, <1>4, <1>10, <2>1 DEF Written, Early
<1>11. CASE Clear
  BY <1>0, <1>4, <1>11 DEF Clear, Written
<1>12. CASE Checkout
  BY <1>0, <1>4, <1>12 DEF Checkout, Written, Early
<1>13. CASE Revert
  BY <1>0, <1>4, <1>13 DEF Revert, Reverted, Written, Early
<1>14. CASE WriteBack
  BY <1>0, <1>4, <1>14 DEF WriteBack, AppendPending, Written, Early
<1> QED BY <1>1, <1>2, <1>3, <1>5, <1>6, <1>7, <1>8, <1>9, <1>10, <1>11, <1>12, <1>13, <1>14 DEF Writing

LEMMA HistoryFrame ==
  ASSUME TypeOK, Next, ~CommitByHand, ~Commit
  PROVE  /\ HEAD' = HEAD /\ Committed' = Committed /\ Parent' = Parent
         /\ commits' = commits /\ effect' = effect
         /\ \A L : LogIn(L, Committed.log, effect, crashes)
                     => LogIn(L, Committed'.log, effect', crashes')
<1>1. commits' = commits /\ effect' = effect
  BY OthersCommitNot
<1>2. HEAD' = HEAD /\ Committed' = Committed /\ Parent' = Parent
  BY <1>1 DEF HEAD, Committed, Parent
<1>3. crashes' = 0 => crashes = 0
  BY NoneComesBack
<1>4. \A L : LogIn(L, Committed.log, effect, crashes)
               => LogIn(L, Committed'.log, effect', crashes')
  BY <1>1, <1>2, <1>3 DEF LogIn
<1> QED BY <1>1, <1>2, <1>4

(* A commit leaves the log as it is at HEAD, which is as it should be.     *)
LEMMA AnyCommit ==
  ASSUME Inv, HistoryInv, CommitByHand \/ Commit
  PROVE  HeadInv' /\ log' = Committed'.log /\ log' = log /\ crashes' = crashes
<1>1. UNCHANGED bounds /\ log' = log
  BY DEF CommitByHand, Commit
<1>2. crashes' = crashes
  BY <1>1 DEF bounds
<1>3. CASE CommitByHand
  BY <1>1, <1>2, <1>3, HandCommits
<1>4. CASE Commit
  <2>1. op.name \in Names("commit")
    BY <1>4, AtFacts DEF Inv, Commit, Done
  <2>2. CASE op.name = "undo"
    BY <1>1, <1>2, <1>4, <2>2, UndoCommits
  <2>3. CASE op.name \in {"approve", "manual"}
    BY <1>1, <1>2, <1>4, <2>3, EntryCommits
  <2> QED BY <2>1, <2>2, <2>3 DEF Names
<1> QED BY <1>3, <1>4

LEMMA HeadStep ==
  ASSUME Inv, HistoryInv, Next
  PROVE  HeadInv'
<1>1. CASE CommitByHand \/ Commit
  BY <1>1, AnyCommit
<1>2. CASE ~CommitByHand /\ ~Commit
  BY <1>2, HeadKept, OthersCommitNot, NoneComesBack DEF HistoryInv, Inv
<1> QED BY <1>1, <1>2

(* The log at HEAD is as it should be.                                     *)
LEMMA HeadLog ==
  ASSUME TypeOK, HeadInv
  PROVE  LogOK(Committed.log)
<1>1. Committed.log \in Seq(Records)
  BY TypeFacts
<1> QED BY <1>1, ExtendsSelf DEF HeadInv, Agrees, LogOK, LogIn

LEMMA HeadLogNext ==
  ASSUME TypeOK', HeadInv'
  PROVE  LogOK(Committed.log)'
<1>1. Committed'.log \in Seq(Records)
  <2>1. Len(commits') \in DOMAIN commits' /\ commits' \in Seq(Commits)
    BY DEF TypeOK
  <2>2. HEAD' \in Commits
    BY <2>1 DEF HEAD
  <2> QED BY <2>2 DEF Commits, Committed, Trees
<1> QED BY <1>1, ExtendsSelf DEF HeadInv, Agrees, LogOK, LogIn

-----------------------------------------------------------------------------
(* The log under way.                                                      *)

LEMMA LogAppended ==
  ASSUME NEW L \in Seq(Records), NEW C \in Seq(Records), NEW e \in Records, NEW E, NEW c,
         LogIn(L, C, E, c), ~IsStep(e), Counts(e) => Below(L, e.number)
  PROVE  LogIn(Append(L, e), C, E, c)
<1>1. Increasing(Append(L, e))
  BY IncreasingAppend DEF LogIn
<1>2. Extends(Append(L, e), C)
  BY ExtendsAppend DEF LogIn
<1>3. c = 0 => Exact(Append(L, e), E)
  BY ExactAppend DEF LogIn
<1> QED BY <1>1, <1>2, <1>3 DEF LogIn

LEMMA IdleLog ==
  ASSUME HistoryInv, op = Idle
  PROVE  LogOK(log)
BY IdleNow DEF HistoryInv, LogInv, None

LEMMA QuietLog ==
  ASSUME Quiet
  PROVE  log' = log
<1>0. UNCHANGED disk => log' = log
  BY DEF disk
<1>1. CASE Developer
  BY <1>0, <1>1 DEF Developer, Edit, EditWorktree, CommitByHand
<1>2. CASE Working
  BY <1>0, <1>2 DEF Working, Propose, Ask, CodeProposed, ApproachProposed, Rebuilt, WorkFails,
                    Resume, Discard
<1>3. CASE View \/ Rebuild \/ Adapt
  BY <1>0, <1>3 DEF View, Rebuild, Adapt, Ask
<1> QED BY <1>1, <1>2, <1>3 DEF Quiet

LEMMA LogWriting ==
  ASSUME Inv, HistoryInv, Writing, ~Commit
  PROVE  \/ op'.name \in {"approve", "undo"} /\ Now' \in Early
         \/ LogOK(log')
<1>0. /\ TypeOK /\ OpInv /\ HeadInv /\ log \in Seq(Records) /\ Committed.log \in Seq(Records)
      /\ op.name # None => op.entry \in Records
  BY TypeFacts DEF Inv, HistoryInv, OpInv
<1>1. CASE op' = Idle /\ log' = log
  <2>1. CASE Finish /\ Now = "finish"
    BY <1>1, <2>1 DEF HistoryInv, LogInv, Early
  <2>2. CASE EnsureQueue /\ Now = "queue" /\ op.name = "phase"
    BY <1>1, <2>2 DEF HistoryInv, LogInv, Early
  <2>3. CASE RevertRefused /\ Now = "revert" /\ op.name = "undo"
    <3>1. log = Committed.log
      BY <2>3 DEF HistoryInv, UndoLog, Early
    <3> QED BY <1>0, <1>1, <3>1, HeadLog
  <2>4. ASSUME NEW step \in Early \cup {"clear"}, Written(step) PROVE FALSE
    <3>1. op'.name \in OpNames
      BY <2>4 DEF Written
    <3> QED BY <1>1, <3>1, IdleType DEF OpNames, None
  <2> QED BY <1>0, <2>1, <2>2, <2>3, <2>4, WriteFacts
<1>2. ASSUME NEW step \in Early \cup {"clear"}, Written(step)
      PROVE  \/ op'.name \in {"approve", "undo"} /\ Now' \in Early
             \/ LogOK(log')
  <2>0. /\ op'.name = op.name /\ Now = step /\ op.name \in Names(step) /\ op.name \in OpNames
        /\ Now' \in Following(op.name, step) /\ step # "commit"
    BY <1>2 DEF Written
  <2>1. CASE op.name \in {"approve", "undo"}
    <3>1. step # "clear" => Now' \in Early
      BY <2>0, <2>1 DEF Following, Early
    <3>2. step = "clear" => log' = log /\ LogOK(log)
      BY <1>2, <2>0 DEF Written, HistoryInv, LogInv, Early
    <3> QED BY <2>0, <2>1, <3>1, <3>2
  <2>2. CASE op.name \notin {"approve", "undo"} /\ step # "log"
    <3>1. log' = log
      BY <1>2, <2>0, <2>2 DEF Written, Names
    <3> QED BY <2>2, <3>1 DEF HistoryInv, LogInv
  <2>3. CASE op.name \notin {"approve", "undo"} /\ step = "log"
    <3>1. log' = Append(log, op.entry) /\ LogOK(log) /\ op.entry \in Records
      BY <1>0, <1>2, <2>0, <2>3 DEF Written, HistoryInv, LogInv, OpNames, None
    <3>2. ~IsStep(op.entry) /\ (Counts(op.entry) => Below(log, op.entry.number))
      <4>1. CASE op.name = "manual"
        BY <2>0, <2>3, <4>1 DEF HistoryInv, ManualLog, Early
      <4>2. CASE op.name \in {"approach", "reject", "phase"}
        BY <4>2 DEF HistoryInv, LogInv, IsStep, Counts
      <4> QED BY <2>0, <2>3, <4>1, <4>2 DEF OpNames
    <3>3. LogIn(Append(log, op.entry), Committed.log, effect, crashes)
      BY <1>0, <3>1, <3>2, LogAppended DEF LogOK
    <3> QED BY <3>1, <3>3 DEF LogOK
  <2> QED BY <2>1, <2>2, <2>3
<1> QED BY <1>0, <1>1, <1>2, WriteFacts

LEMMA LogFailing ==
  ASSUME "undo" \notin Fragile, Inv, HistoryInv, Failing
  PROVE  LogIn(log', Committed.log, effect, crashes')
<1>0. TypeOK /\ OpInv /\ Next
  BY NextParts DEF Inv
<1>1. CASE PromoteFails
  <2>1. Now = "promote" /\ op.name \in Names("promote") /\ log' = log /\ crashes' = crashes
    BY <1>0, <1>1, FailsFacts DEF PromoteFails
  <2>2. op.name = "approve"
    BY <2>1 DEF Names
  <2>3. log = op.before.log /\ LogOK(op.before.log)
    BY <2>1, <2>2 DEF HistoryInv, ApproveLog, Early
  <2> QED BY <2>1, <2>3 DEF LogOK
<1>2. CASE ApproveFails
  <2>1. PICK step \in {"gates", "log", "state", "stage", "commit"} : Fails(step)
    BY <1>2 DEF ApproveFails
  <2>2. Now = step /\ op.name = "approve" /\ log' = op.before.log /\ crashes' = crashes
    BY <1>0, <1>2, <2>1, FailsFacts DEF ApproveFails, Restored_log
  <2>3. LogOK(op.before.log)
    BY <2>1, <2>2 DEF HistoryInv, ApproveLog, Early
  <2> QED BY <2>2, <2>3 DEF LogOK
<1>3. CASE DecisionFails
  <2>1. log' = log /\ op.name \in {"approach", "phase"} /\ crashes' = crashes
    BY <1>3 DEF DecisionFails
  <2>2. LogOK(log)
    BY <2>1 DEF HistoryInv, LogInv
  <2> QED BY <2>1, <2>2 DEF LogOK
<1>4. CASE OtherFails
  <2>1. op.name \in Fragile
    BY <1>0, <1>4, FailsFacts DEF OtherFails
  <2>2. op.name \in {"reject", "manual"} /\ log' = log /\ crashes' = crashes
    BY <1>4, <2>1 DEF OtherFails, disk
  <2>3. LogOK(log)
    BY <2>2 DEF HistoryInv, LogInv
  <2> QED BY <2>2, <2>3 DEF LogOK
<1>5. CASE Crash
  <2>1. log' = log /\ crashes' # 0 /\ (op # Idle => op.name # "undo")
    BY <1>0, <1>5 DEF Crash, TypeOK, disk
  <2>2. Increasing(log) /\ Extends(log, Committed.log)
    <3>1. CASE op.name = "approve" /\ Now \in Early
      BY <3>1, LogWithEntry DEF LogOK, LogIn
    <3>2. CASE ~(op.name = "approve" /\ Now \in Early)
      <4>1. op.name # "undo"
        BY <2>1, IdleType DEF None
      <4>2. LogOK(log)
        BY <3>2, <4>1 DEF HistoryInv, LogInv
      <4> QED BY <4>2 DEF LogOK, LogIn
    <3> QED BY <3>1, <3>2
  <2> QED BY <2>1, <2>2 DEF LogIn
<1> QED BY <1>1, <1>2, <1>3, <1>4, <1>5 DEF Failing

LEMMA LogInvStep ==
  ASSUME "undo" \notin Fragile, Inv, HistoryInv, Next
  PROVE  LogInv'
<1>0. TypeOK /\ OpInv /\ ReviewInv
  BY DEF Inv
<1>1. ~(op'.name \in {"approve", "undo"} /\ Now' \in Early) => LogOK(log)'
  <2>1. CASE CommitByHand \/ Commit
    <3>1. TypeOK' /\ HeadInv' /\ log' = Committed'.log
      BY <2>1, TypeStep, AnyCommit
    <3> QED BY <3>1, HeadLogNext DEF LogOK
  <2>2. CASE ~CommitByHand /\ ~Commit
    <3>0. /\ LogOK(log') => LogOK(log)'
          /\ Committed' = Committed /\ effect' = effect
      BY <1>0, <2>2, HistoryFrame DEF LogOK
    <3>1. CASE Quiet
      BY <1>0, <3>0, <3>1, QuietFacts, QuietLog, IdleLog
    <3>2. CASE Opening
      BY <3>0, <3>2, OpeningFacts, IdleLog
    <3>3. CASE Writing
      BY <2>2, <3>0, <3>3, LogWriting
    <3>4. CASE Failing
      BY <3>0, <3>4, LogFailing DEF LogOK
    <3> QED BY <3>1, <3>2, <3>3, <3>4, NextParts
  <2> QED BY <2>1, <2>2
<1>2. op'.name \in {"approach", "reject", "phase"} => ~Counts(op'.entry)
  <2>1. CASE op' = Idle
    BY <2>1, IdleType DEF None
  <2>2. CASE Quiet
    BY <1>0, <2>1, <2>2, QuietFacts
  <2>3. CASE Opening
    <3>1. CASE Approve
      BY <1>0, <3>1, ApproveOpens, OpenedFacts
    <3>2. CASE ApproveApproach
      <4>1. op'.entry = Entry(job.number, "implementation", "approved", "approach", {})
        BY <1>0, <3>2, ApproachOpens, OpenedFacts
      <4> QED BY <4>1 DEF Entry, Counts
    <3>3. CASE Reject
      <4>1. op'.entry = Entry(job.number, job.phase, "rejected", job.round, {})
        BY <1>0, <3>3, RejectOpens, OpenedFacts
      <4> QED BY <4>1 DEF Entry, Counts
    <3>4. CASE Undo
      BY <1>0, <3>4, UndoOpens
    <3>5. CASE CommitManual
      BY <1>0, <3>5, ManualOpens, OpenedFacts
    <3>6. ASSUME NEW phase \in Phases, Transition(phase) PROVE ~Counts(op'.entry)
      <4>1. op'.entry = Entry(NextNumber(log), phase, "phase_transition", "code", {})
        BY <1>0, <3>6, PhaseOpens, OpenedFacts
      <4> QED BY <4>1 DEF Entry, Counts
    <3> QED BY <2>3, <3>1, <3>2, <3>3, <3>4, <3>5, <3>6 DEF Opening
  <2>4. CASE Writing
    <3>1. CASE op' = Idle
      BY <2>1, <3>1
    <3>2. ASSUME NEW step \in Early \cup {"clear"}, Written(step)
          PROVE  op'.name = op.name /\ op'.entry = op.entry
      BY <3>2 DEF Written
    <3> QED BY <1>0, <2>4, <3>1, <3>2, WriteFacts DEF HistoryInv, LogInv
  <2>5. CASE Failing
    BY <2>1, <2>5 DEF Failing, PromoteFails, ApproveFails, DecisionFails, OtherFails, Crash, Fails
  <2> QED BY <2>2, <2>3, <2>4, <2>5, NextParts
<1> QED BY <1>1, <1>2 DEF LogInv

(* Which operation an opening begins.                                      *)
LEMMA OpeningNames ==
  ASSUME TypeOK, OpInv, ReviewInv, Opening
  PROVE  /\ op'.name = "approve" => Approve
         /\ op'.name = "manual" => CommitManual
         /\ op'.name = "undo" => Undo
<1>1. CASE Approve
  <2>1. op'.name = "approve"
    BY <1>1, ApproveOpens, OpenedFacts
  <2> QED BY <1>1, <2>1
<1>2. CASE ApproveApproach
  <2>1. op'.name = "approach"
    BY <1>2, ApproachOpens, OpenedFacts
  <2> QED BY <2>1
<1>3. CASE Reject
  <2>1. op'.name = "reject"
    BY <1>3, RejectOpens, OpenedFacts
  <2> QED BY <2>1
<1>4. CASE Undo
  <2>1. op'.name = "undo"
    BY <1>4, UndoOpens
  <2> QED BY <1>4, <2>1
<1>5. CASE CommitManual
  <2>1. op'.name = "manual"
    BY <1>5, ManualOpens, OpenedFacts
  <2> QED BY <1>5, <2>1
<1>6. ASSUME NEW phase \in Phases, Transition(phase) PROVE op'.name = "phase"
  BY <1>6, PhaseOpens, OpenedFacts
<1> QED BY <1>1, <1>2, <1>3, <1>4, <1>5, <1>6 DEF Opening

(* While a transaction is under way, only its writes go on with it.        *)
LEMMA OnlyWrites ==
  ASSUME TypeOK, OpInv, ReviewInv, Next, op'.name # None
  PROVE  Opening \/ \E step \in Early \cup {"clear"} : Written(step)
<1>1. op' # Idle
  BY IdleType
<1>2. ~Quiet
  BY <1>1, QuietFacts
<1>3. ~Failing
  BY <1>1 DEF Failing, PromoteFails, ApproveFails, DecisionFails, OtherFails, Crash, Fails
<1> QED BY <1>1, <1>2, <1>3, NextParts, WriteFacts

(* What Commit does not do, the next write finds as it was.                *)
LEMMA WrittenFrame ==
  ASSUME TypeOK, OpInv, Next, NEW step \in Early \cup {"clear"}, Written(step), step # "commit"
  PROVE  /\ HEAD' = HEAD /\ Committed' = Committed /\ Parent' = Parent
         /\ \A L : LogOK(L) => LogIn(L, Committed'.log, effect', crashes')
<1>1. op # Idle
  BY IdleType DEF Written, OpNames, None
<1>2. ~CommitByHand /\ ~Commit
  <2>1. ~Commit
    BY AtFacts DEF Written, Commit, Done
  <2> QED BY <1>1, <2>1 DEF CommitByHand
<1> QED BY <1>2, HistoryFrame DEF LogOK

LEMMA OpeningFrame ==
  ASSUME TypeOK, Next, Opening
  PROVE  /\ HEAD' = HEAD /\ Committed' = Committed /\ Parent' = Parent
         /\ \A L : LogOK(L) => LogIn(L, Committed'.log, effect', crashes')
<1>1. /\ UNCHANGED bounds => crashes' = crashes
  BY DEF bounds
<1>2. commits' = commits /\ effect' = effect /\ crashes' = crashes
  BY <1>1, OpeningFacts
<1> QED BY <1>2 DEF HEAD, Committed, Parent, LogOK

LEMMA ApproveLogStep ==
  ASSUME Inv, HistoryInv, Next
  PROVE  ApproveLog'
<1>0. TypeOK /\ OpInv /\ ReviewInv /\ HeadInv /\ log \in Seq(Records)
  BY TypeFacts DEF Inv, HistoryInv
<1> SUFFICES ASSUME op'.name = "approve" PROVE ApproveLog'
  BY DEF ApproveLog
<1>1. CASE Opening
  <2>1. Approve
    BY <1>0, <1>1, OpeningNames
  <2> DEFINE entry == Entry(job.number, job.phase, "approved", "code",
             Changed(commits[worktree.base].tree.code, worktree.code))
  <2>2. /\ op'.entry = entry /\ op'.before.log = log /\ Now' = "promote"
    <3>1. PICK todo \in {ToPromote, ToPromoteNext}, after \in {Advanced(Ensured(state)), state} :
            Opened("approve", todo, entry, after)
      BY <1>0, <2>1, ApproveOpens
    <3>2. op'.entry = entry /\ op'.before.log = log /\ Now' = Head(todo)
      BY <1>0, <3>1, OpenedFacts
    <3>3. Head(todo) = "promote"
      BY ListFacts
    <3> QED BY <3>2, <3>3
  <2>3. op'.entry.number = job.number /\ IsStep(op'.entry)
    BY <2>2 DEF Entry, IsStep
  <2>4. op = Idle /\ log' = log /\ job' = job
    BY <1>1, OpeningFacts
  <2>5. LogOK(log) /\ Below(log, job.number)
    BY <2>1, <2>4, IdleLog, IdleNow DEF HistoryInv, NumberInv, Approve, Deciding, None
  <2>6. LogIn(log, Committed'.log, effect', crashes')
    BY <1>0, <1>1, <2>5, OpeningFrame
  <2> HIDE DEF entry
  <2> QED BY <2>2, <2>3, <2>4, <2>5, <2>6 DEF ApproveLog, LogOK
<1>2. ASSUME NEW step \in Early \cup {"clear"}, Written(step) PROVE ApproveLog'
  <2>1. /\ op.name = "approve" /\ op'.entry = op.entry /\ op'.before = op.before /\ Now = step
        /\ Now' \in Following("approve", step) /\ op.name \in Names(step) /\ job' = job
    BY <1>2 DEF Written
  <2>2. IsStep(op.entry)
    BY <2>1 DEF HistoryInv, ApproveLog
  <2>3. CASE step \in {"commit", "clear"}
    BY <2>1, <2>2, <2>3 DEF ApproveLog, Following, Early
  <2>4. CASE step \notin {"commit", "clear"}
    <3>1. LogOK(op.before.log) => LogIn(op.before.log, Committed'.log, effect', crashes')
      BY <1>0, <1>2, <2>4, WrittenFrame
    <3>2. /\ LogOK(op.before.log) /\ Below(op.before.log, op.entry.number)
          /\ op.entry.number = job.number
          /\ Now \in {"promote", "gates", "log"} => log = op.before.log
          /\ Now \notin {"promote", "gates", "log"} => log = Append(op.before.log, op.entry)
      BY <2>1, <2>4 DEF HistoryInv, ApproveLog
    <3>3. step \in {"promote", "gates", "log", "state", "stage"}
      BY <2>1, <2>4 DEF Names, Early
    <3>4. CASE step \in {"promote", "gates"}
      <4>1. log' = log /\ Now' \in {"gates", "log"}
        BY <1>2, <2>1, <3>4 DEF Written, Following
      <4> QED BY <2>1, <2>2, <3>1, <3>2, <3>4, <4>1 DEF ApproveLog, LogOK
    <3>5. CASE step = "log"
      <4>1. log' = Append(log, op.entry) /\ Now' \in {"state", "stage"}
        BY <1>2, <2>1, <3>5 DEF Written, Following
      <4> QED BY <2>1, <2>2, <3>1, <3>2, <3>5, <4>1 DEF ApproveLog, LogOK
    <3>6. CASE step \in {"state", "stage"}
      <4>1. log' = log /\ Now' \in {"stage", "commit"}
        BY <1>2, <2>1, <3>6 DEF Written, Following
      <4> QED BY <2>1, <2>2, <3>1, <3>2, <3>6, <4>1 DEF ApproveLog, LogOK
    <3> QED BY <3>3, <3>4, <3>5, <3>6
  <2> QED BY <2>3, <2>4
<1>3. op'.name # None
  BY DEF None
<1> QED BY <1>0, <1>1, <1>2, <1>3, OnlyWrites

LEMMA ManualLogStep ==
  ASSUME Inv, HistoryInv, Next
  PROVE  ManualLog'
<1>0. TypeOK /\ OpInv /\ ReviewInv /\ HeadInv /\ log \in Seq(Records)
  BY TypeFacts DEF Inv, HistoryInv
<1> SUFFICES ASSUME op'.name = "manual" PROVE ManualLog'
  BY DEF ManualLog
<1>1. CASE Opening
  <2>1. CommitManual
    BY <1>0, <1>1, OpeningNames
  <2>2. /\ op'.entry = Entry(NextNumber(log), "manual", "manual", "code", Changed(Committed.code, code))
        /\ op'.before.log = log /\ Now' = "log"
    <3>1. Now' = Head(ToEntry) /\ op'.before.log = log
          /\ op'.entry = Entry(NextNumber(log), "manual", "manual", "code", Changed(Committed.code, code))
      BY <1>0, <2>1, ManualOpens, OpenedFacts
    <3> QED BY <3>1, ListFacts
  <2>3. op'.entry.number = NextNumber(log) /\ Counts(op'.entry) /\ ~IsStep(op'.entry)
    BY <2>2 DEF Entry, IsStep, Counts
  <2>4. op = Idle /\ log' = log
    BY <1>1, OpeningFacts
  <2>5. LogOK(log) /\ Below(log, NextNumber(log))
    BY <1>0, <2>4, IdleLog, NextIsLarger
  <2>6. LogIn(log, Committed'.log, effect', crashes')
    BY <1>0, <1>1, <2>5, OpeningFrame
  <2> QED BY <2>2, <2>3, <2>4, <2>5, <2>6 DEF ManualLog, LogOK
<1>2. ASSUME NEW step \in Early \cup {"clear"}, Written(step) PROVE ManualLog'
  <2>1. /\ op.name = "manual" /\ op'.entry = op.entry /\ op'.before = op.before /\ Now = step
        /\ Now' \in Following("manual", step) /\ op.name \in Names(step)
    BY <1>2 DEF Written
  <2>2. Counts(op.entry) /\ ~IsStep(op.entry)
    BY <2>1 DEF HistoryInv, ManualLog
  <2>3. step \in {"log", "stage", "commit"}
    BY <2>1 DEF Names, Early
  <2>4. CASE step = "commit"
    BY <2>1, <2>2, <2>4 DEF ManualLog, Following, Early
  <2>5. CASE step \in {"log", "stage"}
    <3>1. LogOK(op.before.log) => LogIn(op.before.log, Committed'.log, effect', crashes')
      BY <1>0, <1>2, <2>5, WrittenFrame
    <3>2. /\ LogOK(op.before.log) /\ Below(op.before.log, op.entry.number)
          /\ log = IF Now = "log" THEN op.before.log ELSE Append(op.before.log, op.entry)
      BY <2>1, <2>5 DEF HistoryInv, ManualLog, Early
    <3>3. /\ log' = IF step = "log" THEN Append(log, op.entry) ELSE log
          /\ Now' \in {"stage", "commit"}
      BY <1>2, <2>1, <2>5 DEF Written, Following
    <3>4. log' = Append(op.before.log, op.entry)
      BY <2>1, <2>5, <3>2, <3>3
    <3> QED BY <2>1, <2>2, <3>1, <3>2, <3>3, <3>4 DEF ManualLog, LogOK
  <2> QED BY <2>3, <2>4, <2>5
<1>3. op'.name # None
  BY DEF None
<1> QED BY <1>0, <1>1, <1>2, <1>3, OnlyWrites

(* An undo is of the step committed last.                                  *)
LEMMA UndoesLast ==
  ASSUME Inv, HistoryInv, Undo
  PROVE  HEAD.kind = "step" /\ index = Committed /\ log = Committed.log \o PendingLog
<1> DEFINE m == Max(Approved(log))
           C == Committed.log
<1>0. /\ TypeOK /\ OpInv /\ HeadInv /\ log \in Seq(Records) /\ C \in Seq(Records)
      /\ HEAD \in Commits /\ index = Committed
  BY TypeFacts DEF Inv, HistoryInv, Undo
<1>1. LogOK(log)
  BY IdleLog DEF Undo, Free
<1>2. Extends(log, C) /\ Increasing(log)
  BY <1>1 DEF LogOK, LogIn
<1>3. /\ m \in Approved(log) /\ log[m].number = HEAD.number /\ HEAD.number # 0
  BY <1>0, LastApproved, UndoOpens DEF Undo
<1> HIDE DEF m, C
<1>4. m \in DOMAIN log /\ IsStep(log[m]) /\ Counts(log[m]) /\ log[m].number \notin Undone(log)
  BY <1>3 DEF Approved, IsStep, Counts
<1>5. HEAD.kind # "undo"
  <2>1. HEAD.kind = "undo" => HEAD.number \in Undone(C)
    BY <1>0 DEF HeadInv, C
  <2>2. Undone(C) \subseteq Undone(log)
    BY <1>0, <1>2, UndonePrefix
  <2> QED BY <1>3, <1>4, <2>1, <2>2
<1>6. /\ Len(effect) \in DOMAIN effect /\ effect[Len(effect)].kind = HEAD.kind
      /\ effect[Len(effect)].number = HEAD.number
  BY <1>0, <1>5 DEF HeadInv, TypeOK, Last
<1>7. HEAD.kind # "external"
  BY <1>0, <1>3, <1>6 DEF HeadInv
<1>8. HEAD.kind # "manual"
  <2> SUFFICES ASSUME HEAD.kind = "manual" PROVE FALSE
    OBVIOUS
  <2>1. Covers(C, effect)
    BY <1>0 DEF HeadInv, Agrees, C
  <2>2. PICK i \in DOMAIN C : Counts(C[i]) /\ C[i].number = HEAD.number /\ C[i].decision = "manual"
    BY <1>6, <2>1 DEF Covers
  <2>3. i \in DOMAIN log /\ log[i] = C[i]
    BY <1>0, <1>2, <2>2 DEF Extends
  <2>4. i # m
    BY <1>4, <2>2, <2>3 DEF IsStep
  <2>5. log[i].number \in Nat /\ log[i].number = log[m].number /\ Counts(log[i])
    BY <1>0, <1>3, <2>2, <2>3, NumberType
  <2>6. i \in Nat /\ m \in Nat
    BY <1>0, <1>4, <2>3
  <2>7. i < m \/ m < i
    BY <2>4, <2>6
  <2>8. log[i].number < log[m].number \/ log[m].number < log[i].number
    BY <1>2, <1>4, <2>3, <2>5, <2>7 DEF Increasing
  <2> QED BY <2>5, <2>8
<1>9. HEAD.kind = "step"
  BY <1>0, <1>5, <1>7, <1>8 DEF Commits, Kinds
<1>10. log = C \o PendingLog
  <2>1. IsPrefix(C, log) /\ log = C \o SubSeq(log, Len(C) + 1, Len(log))
    BY <1>0, <1>2, PendingFacts
  <2> QED BY <2>1 DEF PendingLog, C
<1> QED BY <1>0, <1>9, <1>10 DEF C

LEMMA UndoLogStep ==
  ASSUME Inv, HistoryInv, Next
  PROVE  UndoLog'
<1>0. TypeOK /\ OpInv /\ ReviewInv /\ HeadInv /\ log \in Seq(Records)
  BY TypeFacts DEF Inv, HistoryInv
<1> SUFFICES ASSUME op'.name = "undo" PROVE UndoLog'
  BY DEF UndoLog
<1>1. CASE Opening
  <2>1. Undo
    BY <1>0, <1>1, OpeningNames
  <2>2. /\ op'.entry.decision = "undone" /\ op'.entry.number = HEAD.number /\ HEAD.number # 0
        /\ op'.before.log = log /\ op'.pending = PendingLog /\ op'.todo = ToCheckout
    BY <1>0, <2>1, UndoOpens DEF Entry
  <2>3. Now' = "checkout"
    BY <2>2, ListFacts DEF Now
  <2>4. op = Idle /\ log' = log /\ index' = index
    BY <1>1, OpeningFacts
  <2>5. LogOK(log)
    BY <2>4, IdleLog
  <2>6. /\ HEAD' = HEAD /\ Committed' = Committed
        /\ LogIn(log, Committed'.log, effect', crashes')
    BY <1>0, <1>1, <2>5, OpeningFrame
  <2>7. HEAD.kind = "step" /\ index = Committed /\ log = Committed.log \o PendingLog
    BY <2>1, UndoesLast
  <2> QED BY <2>2, <2>3, <2>4, <2>6, <2>7 DEF UndoLog, LogOK
<1>2. ASSUME NEW step \in Early \cup {"clear"}, Written(step) PROVE UndoLog'
  <2>1. /\ op.name = "undo" /\ op'.entry = op.entry /\ op'.before = op.before
        /\ op'.pending = op.pending /\ Now = step
        /\ Now' \in Following("undo", step) /\ op.name \in Names(step)
    BY <1>2 DEF Written
  <2>2. op.entry.decision = "undone"
    BY <2>1 DEF HistoryInv, UndoLog
  <2>3. step \in {"checkout", "revert", "append", "log", "stage", "commit"}
    BY <2>1 DEF Names, Early
  <2>4. CASE step = "commit"
    BY <2>1, <2>2, <2>4 DEF UndoLog, Following, Early
  <2>5. CASE step # "commit"
    <3>1. /\ HEAD' = HEAD /\ Committed' = Committed /\ Parent' = Parent
          /\ LogOK(op.before.log) => LogIn(op.before.log, Committed'.log, effect', crashes')
      BY <1>0, <1>2, <2>5, WrittenFrame
    <3>2. /\ HEAD.kind = "step" /\ HEAD.number = op.entry.number /\ HEAD.number # 0
          /\ LogOK(op.before.log) /\ op.before.log = Committed.log \o op.pending
          /\ Now \in {"checkout", "revert"} => index = Committed
          /\ Now \notin {"checkout", "revert"} => code = Parent.code
          /\ Now = "append" => log = Parent.log
          /\ Now = "log" => log = Parent.log \o op.pending
          /\ Now \in {"stage", "commit"} => log = Append(Parent.log \o op.pending, op.entry)
      BY <2>1, <2>3 DEF HistoryInv, UndoLog, Early
    <3>3. CASE step = "checkout"
      <4>1. log' = index.log /\ index' = index /\ Now' = "revert"
        BY <1>2, <2>1, <3>3 DEF Written, Following
      <4> QED BY <2>1, <2>2, <3>1, <3>2, <3>3, <4>1 DEF UndoLog, LogOK
    <3>4. CASE step = "revert"
      <4>1. log' = Parent.log /\ code' = Parent.code /\ Now' = "append"
        BY <1>2, <2>1, <3>4 DEF Written, Following
      <4> QED BY <2>1, <2>2, <3>1, <3>2, <3>4, <4>1 DEF UndoLog, LogOK
    <3>5. CASE step = "append"
      <4>1. log' = log \o op.pending /\ code' = code /\ Now' = "log"
        BY <1>2, <2>1, <3>5 DEF Written, Following
      <4> QED BY <2>1, <2>2, <3>1, <3>2, <3>5, <4>1 DEF UndoLog, LogOK
    <3>6. CASE step = "log"
      <4>1. log' = Append(log, op.entry) /\ code' = code /\ Now' = "stage"
        BY <1>2, <2>1, <3>6 DEF Written, Following
      <4> QED BY <2>1, <2>2, <3>1, <3>2, <3>6, <4>1 DEF UndoLog, LogOK
    <3>7. CASE step = "stage"
      <4>1. log' = log /\ code' = code /\ Now' = "commit"
        BY <1>2, <2>1, <3>7 DEF Written, Following
      <4> QED BY <2>1, <2>2, <3>1, <3>2, <3>7, <4>1 DEF UndoLog, LogOK
    <3> QED BY <2>3, <2>5, <3>3, <3>4, <3>5, <3>6, <3>7
  <2> QED BY <2>4, <2>5
<1>3. op'.name # None
  BY DEF None
<1> QED BY <1>0, <1>1, <1>2, <1>3, OnlyWrites

LEMMA NumberQuiet ==
  ASSUME Inv, HistoryInv, Quiet
  PROVE  NumberInv'
<1>0. TypeOK /\ OpInv /\ ReviewInv /\ log \in Seq(Records)
  BY TypeFacts DEF Inv
<1>1. log' = log /\ op = Idle /\ Below(log, NextNumber(log))
  BY <1>0, QuietLog, QuietFacts, NextIsLarger
<1>2. Candidate => Below(log, job.number)
  BY <1>1, IdleNow DEF HistoryInv, NumberInv, None
<1>3. job.state = "running" /\ job.kind \in Rounds => Below(log, journal.number)
  BY DEF HistoryInv, NumberInv
<1>4. ASSUME UNCHANGED <<journal, job>> PROVE NumberInv'
  BY <1>1, <1>2, <1>3, <1>4 DEF NumberInv, Candidate
<1>5. ASSUME job'.state # "running" \/ job'.kind \notin Rounds,
             job'.round # None => Below(log, job'.number)
      PROVE  NumberInv'
  BY <1>1, <1>5 DEF NumberInv, Candidate
<1>6. ASSUME NEW round \in Rounds, NEW candidate, Ask(round, candidate),
             candidate.round # None => Below(log, candidate.number)
      PROVE  NumberInv'
  <2>1. journal'.number = NextNumber(log)
    BY <1>6 DEF Ask, Checkpoint
  <2>2. job'.round = candidate.round /\ job'.number = candidate.number
    BY <1>6 DEF Ask, Asking
  <2> QED BY <1>1, <1>6, <2>1, <2>2 DEF NumberInv, Candidate
<1>7. CASE Developer
  BY <1>4, <1>7 DEF Developer, Edit, EditWorktree, CommitByHand, review
<1>8. ASSUME NEW round \in Rounds, Propose(round) PROVE NumberInv'
  BY <1>6, <1>8 DEF Propose, NoJob
<1>9. ASSUME NEW changes \in SUBSET Files, NEW ok \in BOOLEAN, CodeProposed(changes, ok)
      PROVE  NumberInv'
  <2>1. job'.state = "completed" /\ job'.number = journal.number
    BY <1>9 DEF CodeProposed, NoJob
  <2>2. Below(log, journal.number)
    BY <1>3, <1>9 DEF CodeProposed, Rounds
  <2> QED BY <1>5, <2>1, <2>2
<1>10. ASSUME NEW ok \in BOOLEAN, ApproachProposed(ok) PROVE NumberInv'
  <2>1. job'.state = "completed" /\ job'.number = journal.number
    BY <1>10 DEF ApproachProposed, NoJob
  <2>2. Below(log, journal.number)
    BY <1>3, <1>10 DEF ApproachProposed, Rounds
  <2> QED BY <1>5, <2>1, <2>2
<1>11. ASSUME NEW ok \in BOOLEAN, Rebuilt(ok) PROVE NumberInv'
  <2>1. job'.state = "completed" /\ job'.number = job.number /\ job'.round = job.round
    BY <1>0, <1>11 DEF Rebuilt, TypeOK, Jobs
  <2> QED BY <1>2, <1>5, <2>1 DEF Candidate
<1>12. CASE WorkFails
  <2>1. job'.state = "failed" /\ job'.number = job.number /\ job'.round = job.round
    BY <1>0, <1>12 DEF WorkFails, TypeOK, Jobs
  <2> QED BY <1>2, <1>5, <2>1 DEF Candidate
<1>13. CASE Resume
  <2>1. journal.number = NextNumber(log)
    BY <1>13 DEF Resume, Restorable
  <2>2. job'.number = journal.number /\ (job'.state = "completed" \/ job'.kind = "rebuild")
    BY <1>13 DEF Resume, Resumed, Asking, NoJob
  <2> QED BY <1>1, <1>5, <2>1, <2>2 DEF Rounds
<1>14. CASE Discard
  BY <1>5, <1>14 DEF Discard, NoJob, None
<1>15. CASE View
  BY <1>4, <1>15 DEF View
<1>16. CASE Rebuild
  <2>1. job'.kind = "rebuild" /\ job'.number = job.number /\ job'.round = job.round
    BY <1>0, <1>16 DEF Rebuild, Asking, TypeOK, Jobs
  <2> QED BY <1>2, <1>5, <2>1 DEF Candidate, Rounds
<1>17. CASE Adapt
  <2>1. Ask(job.round, job) /\ job.round \in Rounds
    BY <1>0, <1>17 DEF Adapt, Deciding, Candidate, TypeOK, Jobs
  <2> QED BY <1>2, <1>6, <2>1 DEF Candidate
<1> QED BY <1>7, <1>8, <1>9, <1>10, <1>11, <1>12, <1>13, <1>14, <1>15, <1>16, <1>17 DEF Quiet, Working

LEMMA NumberStep ==
  ASSUME "undo" \notin Fragile, Inv, HistoryInv, Next
  PROVE  NumberInv'
<1>0. TypeOK /\ OpInv /\ ReviewInv /\ log \in Seq(Records)
  BY TypeFacts DEF Inv
<1>1. op.name # "approve" /\ Candidate => Below(log, job.number)
  BY DEF HistoryInv, NumberInv
<1>2. CASE Quiet
  BY <1>2, NumberQuiet
<1>3. CASE Opening
  <2>1. log' = log /\ job' = job /\ job.state # "running" /\ op.name # "approve"
    BY <1>3, OpeningFacts, IdleNow DEF None
  <2> QED BY <1>1, <2>1 DEF NumberInv, Candidate
<1>4. CASE Writing
  <2>1. CASE Finish
    <3>1. job'.round = None /\ job'.state = None
      BY <2>1 DEF Finish, NoJob
    <3> QED BY <3>1 DEF NumberInv, Candidate, None
  <2>2. CASE (EnsureQueue /\ op.name = "phase") \/ (RevertRefused /\ op.name = "undo")
    <3>1. job' = job /\ ~Candidate /\ job.state # "running"
      BY <1>0, <2>2 DEF EnsureQueue, RevertRefused, review, ReviewInv, None
    <3> QED BY <3>1 DEF NumberInv, Candidate
  <2>3. ASSUME NEW step \in Early \cup {"clear"}, Written(step) PROVE NumberInv'
    <3>1. /\ job' = job /\ op'.name = op.name /\ op.name \in OpNames /\ op.name \in Names(step)
          /\ job.state # "running"
      BY <1>0, <2>3 DEF Written, ReviewInv, OpNames, None
    <3>2. CASE op.name = "approve"
      BY <3>1, <3>2 DEF NumberInv
    <3>3. CASE op.name \in {"undo", "manual", "phase"}
      BY <1>0, <3>1, <3>3 DEF NumberInv, ReviewInv, Candidate
    <3>4. CASE op.name \in {"approach", "reject"}
      <4>1. step \in {"state", "log", "clear"}
        BY <3>1, <3>4 DEF Names, Early
      <4>2. CASE step = "log"
        <5>1. log' = Append(log, op.entry) /\ op.entry \in Records /\ ~Counts(op.entry)
          BY <1>0, <2>3, <3>4, <4>2 DEF Written, OpInv, None, HistoryInv, LogInv
        <5>2. Candidate => Below(Append(log, op.entry), job.number)
          BY <1>0, <1>1, <3>4, <5>1, BelowAppend
        <5> QED BY <3>1, <5>1, <5>2 DEF NumberInv, Candidate
      <4>3. CASE step # "log"
        <5>1. log' = log
          BY <2>3, <4>1, <4>3 DEF Written
        <5> QED BY <1>1, <3>1, <3>4, <5>1 DEF NumberInv, Candidate
      <4> QED BY <4>2, <4>3
    <3> QED BY <3>1, <3>2, <3>3, <3>4 DEF OpNames
  <2>4. \/ Finish \/ (EnsureQueue /\ op.name = "phase") \/ (RevertRefused /\ op.name = "undo")
        \/ \E step \in Early \cup {"clear"} : Written(step)
    BY <1>0, <1>4, WriteFacts
  <2>5. CASE \E step \in Early \cup {"clear"} : Written(step)
    <3>1. PICK step \in Early \cup {"clear"} : Written(step)
      BY <2>5
    <3> QED BY <2>3, <3>1
  <2> QED BY <2>1, <2>2, <2>4, <2>5
<1>5. CASE Failing
  <2>1. CASE Crash
    <3>1. job'.round = None /\ job'.state = None
      BY <2>1 DEF Crash, NoJob
    <3> QED BY <3>1 DEF NumberInv, Candidate, None
  <2>2. CASE ~Crash
    <3>1. /\ UNCHANGED review /\ \E step \in Early : Fails(step)
      BY <1>5, <2>2 DEF Failing, PromoteFails, ApproveFails, DecisionFails, OtherFails, Early
    <3>2. PICK step \in Early : Fails(step)
      BY <3>1
    <3>3. Now = step /\ op.name \in Names(step) /\ op.name \in OpNames
      BY <1>0, <3>2, FailsFacts
    <3>4. job' = job /\ job.state # "running"
      BY <1>0, <3>1, <3>3 DEF review, ReviewInv, OpNames, None
    <3>5. Candidate => Below(log', job.number)
      <4>1. CASE PromoteFails \/ ApproveFails
        <5>1. op.name = "approve" /\ Now \in Early /\ log' = op.before.log
          <6>1. CASE PromoteFails
            <7>1. Now = "promote" /\ op.name \in Names("promote") /\ log' = log
              BY <1>0, <6>1, FailsFacts DEF PromoteFails
            <7>2. op.name = "approve" /\ Now \in Early
              BY <7>1 DEF Names, Early
            <7> QED BY <7>1, <7>2 DEF HistoryInv, ApproveLog
          <6>2. CASE ApproveFails
            BY <3>3, <6>2 DEF ApproveFails, Restored_log
          <6> QED BY <4>1, <6>1, <6>2
        <5> QED BY <5>1 DEF HistoryInv, ApproveLog
      <4>2. CASE DecisionFails \/ OtherFails
        <5>1. log' = log /\ op.name # "approve"
          BY <4>2 DEF DecisionFails, OtherFails, disk
        <5> QED BY <1>1, <5>1
      <4> QED BY <1>5, <2>2, <4>1, <4>2 DEF Failing
    <3> QED BY <3>4, <3>5 DEF NumberInv, Candidate
  <2> QED BY <2>1, <2>2
<1> QED BY <1>2, <1>3, <1>4, <1>5, NextParts

LEMMA HistoryStep ==
  ASSUME "undo" \notin Fragile, Inv, HistoryInv, [Next]_vars
  PROVE  HistoryInv'
<1>1. CASE Next
  BY <1>1, HeadStep, ApproveLogStep, ManualLogStep, UndoLogStep, LogInvStep, NumberStep DEF HistoryInv
<1>2. CASE UNCHANGED vars
  <2>1. /\ UNCHANGED <<commits, effect, code, log, index>> /\ UNCHANGED <<journal, job>>
        /\ op' = op /\ crashes' = crashes
    BY <1>2 DEF vars, disk, git, review, bounds
  <2>2. HEAD' = HEAD /\ Committed' = Committed /\ Parent' = Parent /\ Now' = Now
        /\ Candidate' = Candidate
    BY <2>1 DEF HEAD, Committed, Parent, Now, Candidate
  <2>3. HeadInv'
    BY <2>1, HeadKept DEF HistoryInv
  <2>4. ApproveLog'
    BY <2>1, <2>2 DEF HistoryInv, ApproveLog, LogOK
  <2>5. ManualLog'
    BY <2>1, <2>2 DEF HistoryInv, ManualLog, LogOK
  <2>6. UndoLog'
    BY <2>1, <2>2 DEF HistoryInv, UndoLog, LogOK
  <2>7. LogInv'
    BY <2>1, <2>2 DEF HistoryInv, LogInv, LogOK
  <2>8. NumberInv'
    BY <2>1, <2>2 DEF HistoryInv, NumberInv
  <2> QED BY <2>3, <2>4, <2>5, <2>6, <2>7, <2>8 DEF HistoryInv
<1> QED BY <1>1, <1>2

LEMMA InitHistory ==
  ASSUME Init
  PROVE  HistoryInv
<1> DEFINE first == Entry(0, "architecture", "approved", "code", Files \ Missing)
<1>1. first.number = 0 /\ IsStep(first) /\ Counts(first) /\ first.decision = "approved"
  BY DEF Entry, IsStep, Counts
<1>2. log = <<first>>
  BY DEF Init
<1> HIDE DEF first
<1>3. Tree.code = code /\ Tree.log = log
  BY DEF Tree
<1>4. /\ HEAD.kind = "step" /\ HEAD.number = 0 /\ Committed = Tree
      /\ effect = <<[kind |-> "step", number |-> 0, code |-> code]>>
  BY DEF Init, HEAD, Committed
<1>5. DOMAIN log = {1} /\ log[1] = first /\ Len(log) = 1
  BY <1>2
<1>6. /\ DOMAIN effect = {1} /\ effect[1].kind = "step" /\ effect[1].number = 0
      /\ effect # <<>> /\ Last(effect) = effect[1] /\ effect[1].code = code
  BY <1>4 DEF Last
<1>7. Increasing(log) /\ Covers(log, effect) /\ Exact(log, effect) /\ Extends(log, log)
  BY <1>1, <1>5, <1>6 DEF Increasing, Covers, Exact, Extends
<1>8. HeadInv
  BY <1>3, <1>4, <1>6, <1>7 DEF HeadInv, Agrees
<1>9. op.name = None /\ Now = None
  BY IdleNow DEF Init
<1>10. LogInv
  BY <1>3, <1>4, <1>7, <1>9 DEF LogInv, LogOK, LogIn, None
<1>11. ~Candidate /\ job.state = None
  BY DEF Init, NoJob, Candidate
<1> QED BY <1>8, <1>9, <1>10, <1>11 DEF HistoryInv, ApproveLog, ManualLog, UndoLog, NumberInv, None

(* If no undo is cut short, log, commits and what is in effect agree, and  *)
(* so do the parts of an operation under way.                              *)
THEOREM HistoryInvariant ==
  ASSUME "undo" \notin Fragile
  PROVE  Spec => [](Inv /\ HistoryInv)
<1>1. Init => Inv /\ HistoryInv
  BY InitInv, InitHistory
<1>2. Inv /\ HistoryInv /\ [Next]_vars => (Inv /\ HistoryInv)'
  BY InvStep, HistoryStep
<1> QED BY <1>1, <1>2, PTL DEF Spec

(* Files, step log and commits agree, if no undo is cut short: an undo has *)
(* brought back exactly what was there before the step it names, every     *)
(* step in effect has its record, and if the service never died, the log   *)
(* has no other approved steps.                                            *)
THEOREM LogMatchesAlways ==
  ASSUME "undo" \notin Fragile
  PROVE  Spec => []LogMatchesCommits
<1>1. Inv /\ HistoryInv => LogMatchesCommits
  <2> SUFFICES ASSUME Inv, HistoryInv PROVE LogMatchesCommits
    OBVIOUS
  <2> DEFINE L == Committed.log
             logged == {i \in DOMAIN L : L[i].round = "code" /\ L[i].decision = "approved"}
             numbers == {L[i].number : i \in logged}
             made == {effect[i].number : i \in {j \in DOMAIN effect : effect[j].kind = "step"}}
  <2>1. HeadInv
    BY DEF HistoryInv
  <2>2. Increasing(L) /\ Covers(L, effect) /\ (crashes = 0 => Exact(L, effect))
    BY <2>1 DEF HeadInv, Agrees
  <2>3. \A i, j \in logged : i < j => L[i].number < L[j].number
    BY <2>2 DEF Increasing, Counts
  <2>4. made \subseteq numbers
    <3>1. ASSUME NEW k \in DOMAIN effect, effect[k].kind = "step" PROVE effect[k].number \in numbers
      BY <2>2, <3>1 DEF Covers, Counts
    <3> QED BY <3>1
  <2>5. crashes = 0 => numbers \subseteq made
    BY <2>2 DEF Exact, IsStep
  <2>6. Last(effect).code = Committed.code
    BY <2>1 DEF HeadInv
  <2> QED BY <2>3, <2>4, <2>5, <2>6 DEF LogMatchesCommits
<1> QED BY <1>1, HistoryInvariant, PTL

-----------------------------------------------------------------------------
(* Refinement of the project's history.                                    *)

LEMMA HistoryInit ==
  ASSUME Init
  PROVE  History!Init
BY DEF Init, History!Init

LEMMA HistoryNext ==
  ASSUME Inv, HistoryInv, [Next]_vars
  PROVE  [History!Next]_effect
<1>0. TypeOK /\ OpInv /\ HeadInv
  BY DEF Inv, HistoryInv
<1>1. CASE CommitByHand
  <2>1. Committing("external", 0, Tree) /\ "external" \in Kinds \ {"undo"} /\ Tree \in Trees /\ 0 \in Nat
    BY <1>0, <1>1 DEF CommitByHand, TypeOK, Kinds
  <2>2. /\ effect' = Append(effect, Last(effect'))
        /\ Last(effect').kind = "external" /\ Last(effect').number = 0
    BY <1>0, <2>1, EffectGrows
  <2>3. History!External
    BY <2>2 DEF History!External, History!Grows, History!Last, Last
  <2> QED BY <2>3 DEF History!Next
<1>2. CASE Commit
  <2>1. op.name \in Names("commit") /\ crashes' = crashes
    BY <1>0, <1>2, AtFacts DEF Commit, Done, bounds
  <2>2. CASE op.name = "undo"
    <3>1. effect' = Front(effect) /\ Last(effect).kind = "step" /\ Last(effect).number # 0
      BY <1>2, <2>1, <2>2, UndoCommits
    <3>2. History!Undo
      BY <3>1 DEF History!Undo, History!Last, History!Front, Last, Front
    <3> QED BY <3>2 DEF History!Next
  <2>3. CASE op.name \in {"approve", "manual"}
    <3>1. /\ effect' = Append(effect, Last(effect')) /\ Last(effect').kind \in {"step", "manual"}
          /\ \A k \in DOMAIN effect : effect[k].number < Last(effect').number
      BY <1>2, <2>1, <2>3, EntryCommits
    <3>2. History!Add
      BY <3>1 DEF History!Add, History!Grows, History!Last, Last
    <3> QED BY <3>2 DEF History!Next
  <2> QED BY <2>1, <2>2, <2>3 DEF Names
<1>3. CASE Next /\ ~CommitByHand /\ ~Commit
  BY <1>3, OthersCommitNot
<1>4. CASE UNCHANGED vars
  BY <1>4 DEF vars, disk, git
<1> QED BY <1>1, <1>2, <1>3, <1>4

(* If no undo is cut short, the commits in effect are a history of steps:  *)
(* approvals and manual commits take growing numbers, and an undo takes    *)
(* away the last step only.                                                *)
THEOREM ImplementsHistory ==
  ASSUME "undo" \notin Fragile
  PROVE  Spec => IsHistory
<1>1. Init => History!Init
  BY HistoryInit
<1>2. (Inv /\ HistoryInv) /\ [Next]_vars => [History!Next]_effect
  BY HistoryNext
<1> QED BY <1>1, <1>2, HistoryInvariant, PTL DEF Spec, IsHistory, History!Spec
=============================================================================
