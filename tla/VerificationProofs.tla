------------------------- MODULE VerificationProofs -------------------------
(***************************************************************************)
(* Theorems about Verification, for any number of cases, any choice of     *)
(* blocking and required ones and every value of the limits and bounds.    *)
(***************************************************************************)
EXTENDS Verification, WellFoundedInduction, TLAPS

(* The worker always finds a first case to verify.                         *)
LEMMA FirstIn ==
  ASSUME NEW S \in SUBSET Cases, S # {}
  PROVE  First(S) \in S
<1>1. S \subseteq Nat
  BY VerificationAssumption DEF Cases
<1>2. PICK c \in S : \A d \in S : ~(<<d, c>> \in OpToRel(<, Nat))
  BY <1>1, WFMin, NatLessThanWellFounded, Zenon
<1>3. OpToRel(<, Nat) = {ss \in Nat \X Nat : ss[1] < ss[2]}
  BY Zenon DEF OpToRel
<1>4. ASSUME NEW d \in S PROVE c <= d
  <2>1. c \in Nat /\ d \in Nat
    BY <1>1
  <2>2. <<d, c>> \notin {ss \in Nat \X Nat : ss[1] < ss[2]}
    BY <1>2, <1>3
  <2>3. ~(d < c)
    BY <2>1, <2>2
  <2>4. QED BY <2>1, <2>3
<1>5. \A d \in S : c <= d
  BY <1>4
<1>6. QED BY <1>5, Zenon DEF First

(* Where controller and worker are restricts what there is to work on.     *)
Shape ==
  /\ ctl # "idle" => requests # <<>>
  /\ wkr # "idle" => tasks # <<>>
  /\ wkr = "repeat" =>
       /\ todo # {}
       /\ done > 0 => last[First(todo)].count = done /\ last[First(todo)].run = runs

TypeInv == TypeOK /\ Shape

(* Reviews are of earlier runs than the one being verified.                *)
Earlier(r) == r <= runs /\ (wkr \in {"verify", "repeat"} => r < runs)

RunInv ==
  /\ \A i \in 1 .. Len(requests) : Earlier(requests[i].run)
  /\ Earlier(accepted)

(* The case that is being executed had budget when its attempt began, and  *)
(* an escalated one has none.                                              *)
BudgetInv ==
  /\ BudgetKept
  /\ \A c \in escalated : last[c].attempt >= MaxAttempts \/ row[c].stagnation >= StagnationLimit
  /\ wkr = "repeat" =>
       /\ First(todo) \notin escalated
       /\ First(todo) \in Blocking =>
            /\ row[First(todo)].stagnation < StagnationLimit
            /\ done = 0 => last[First(todo)].attempt + 1 <= MaxAttempts

(* What the controller takes for fresh has been verified by the run under  *)
(* review.                                                                 *)
GateInv ==
  /\ ctl = "decide" => \A c \in seen.fresh : VerifiedBy(c, Request.run)
  /\ DoneIsVerified

-----------------------------------------------------------------------------
(* A refresh changes nothing of a row but its status.                      *)
LEMMA PersistKeeps ==
  ASSUME TypeOK, NEW actor \in Actors, Persist(actor)
  PROVE  /\ row' \in [Cases -> Rows]
         /\ known' \in [Actors -> Readings]
         /\ \A c \in Cases : /\ row'[c].attempts = row[c].attempts
                             /\ row'[c].failures = row[c].failures
                             /\ row'[c].stagnation = row[c].stagnation
<1>1. \A c \in Cases : Refreshed(known[actor][c], c \in realized) \in Statuses
  BY DEF Refreshed, Statuses, TypeOK
<1>2. row' = [c \in Cases |->
         [row[c] EXCEPT !.status = Refreshed(known[actor][c], c \in realized)]]
  BY DEF Persist
<1>3. \A c \in Cases : row[c] \in Rows
  BY DEF TypeOK
<1> DEFINE New(c) == [row[c] EXCEPT !.status = Refreshed(known[actor][c], c \in realized)]
<1>4. ASSUME NEW c \in Cases
      PROVE  /\ New(c) \in Rows
             /\ New(c).attempts = row[c].attempts
             /\ New(c).failures = row[c].failures
             /\ New(c).stagnation = row[c].stagnation
  BY <1>1, <1>3, <1>4 DEF Rows
<1>5. row' = [c \in Cases |-> New(c)]
  BY <1>2
<1>6. known' \in [Actors -> Readings]
  <2>1. Nothing \in Readings
    BY DEF Nothing, Readings
  <2>2. QED BY <2>1 DEF Persist, TypeOK
<1> HIDE DEF New
<1>7. QED BY <1>4, <1>5, <1>6

LEMMA ReadKeeps ==
  ASSUME TypeOK, NEW actor \in Actors, Read(actor)
  PROVE  known' \in [Actors -> Readings]
<1>1. [c \in Cases |-> row[c].status] \in Readings
  BY DEF TypeOK, Rows, Readings
<1>2. QED BY <1>1 DEF Read, TypeOK

(* What a repetition does to the attempts.                                 *)
LEMMA RepeatIs ==
  ASSUME TypeInv, NEW passes \in BOOLEAN, WkrRepeat(passes), NEW c, c = First(todo)
  PROVE  /\ c \in todo /\ c \in Cases
         /\ last' \in [Cases -> Attempts]
         /\ \A d \in Cases \ {c} : last'[d] = last[d]
         /\ done' = done + 1 /\ done' \in 0 .. Repetitions
         /\ last'[c].count = done' /\ last'[c].run = runs
         /\ last'[c].attempt = IF done = 0 THEN last[c].attempt + 1 ELSE last[c].attempt
<1>1. c \in todo /\ c \in Cases
  BY FirstIn DEF TypeInv, TypeOK, Shape, WkrRepeat
<1>2. done \in Nat /\ Repetitions \in Nat /\ done' = done + 1 /\ done' \in 0 .. Repetitions
  <2>1. done \in 0 .. Repetitions /\ Repetitions \in Nat
    BY VerificationAssumption DEF TypeInv, TypeOK
  <2>2. done < Repetitions /\ done' = done + 1
    BY DEF WkrRepeat
  <2>3. QED BY <2>1, <2>2
<1>3. last[c] \in Attempts /\ runs \in Nat
  BY <1>1 DEF TypeInv, TypeOK
<1> DEFINE fresh == [attempt |-> last[c].attempt + 1, count |-> 1, passed |-> passes, run |-> runs]
           more == [last[c] EXCEPT !.count = last[c].count + 1, !.passed = last[c].passed /\ passes]
<1>4. last' = [last EXCEPT ![c] = IF done = 0 THEN fresh ELSE more]
  BY DEF WkrRepeat
<1>5. fresh \in Attempts
  BY <1>2, <1>3, VerificationAssumption DEF Attempts
<1>6. ASSUME done # 0 PROVE last[c].count = done /\ last[c].run = runs
  BY <1>2, <1>6 DEF TypeInv, Shape, WkrRepeat
<1>7. ASSUME done # 0
      PROVE  /\ more \in Attempts /\ more.count = done' /\ more.run = runs
             /\ more.attempt = last[c].attempt
  BY <1>2, <1>3, <1>6, <1>7 DEF Attempts
<1>8. fresh.count = 1 /\ fresh.run = runs /\ fresh.attempt = last[c].attempt + 1
  OBVIOUS
<1> HIDE DEF fresh, more
<1>9. last \in [Cases -> Attempts]
  BY DEF TypeInv, TypeOK
<1>10. QED BY <1>1, <1>2, <1>4, <1>5, <1>7, <1>8, <1>9

(* What the end of an attempt does to the rows.                            *)
Ended(c, new) ==
  /\ wkr = "repeat" /\ c = First(todo) /\ c \in todo /\ c \in Cases
  /\ Correct(c, new) /\ new \in Rows
  /\ new.attempts = last[c].attempt
  /\ new.stagnation = 0 \/ new.stagnation = row[c].stagnation + 1
  /\ new.stagnation <= new.failures \/ row[c].stagnation > row[c].failures
  /\ new.status = "escalated" =>
       /\ c \in Blocking
       /\ last[c].attempt >= MaxAttempts \/ new.stagnation >= StagnationLimit

LEMMA EndIs ==
  ASSUME TypeInv,
         WkrPasses \/ \E how \in {"other", "improving", "same"} : WkrFails(how)
  PROVE  \E c \in Cases, new \in Rows : Ended(c, new)
<1> DEFINE c == First(todo)
<1>1. wkr = "repeat" /\ c \in todo /\ c \in Cases
  BY FirstIn DEF TypeInv, TypeOK, Shape, WkrPasses, WkrFails
<1>2. row[c] \in Rows /\ last[c] \in Attempts
  BY <1>1 DEF TypeInv, TypeOK
<1>3. CASE WkrPasses
  <2>1. Passed(c) \in Rows
    BY <1>2 DEF Passed, Rows, Attempts, Statuses
  <2>2. /\ Passed(c).attempts = last[c].attempt /\ Passed(c).stagnation = 0
        /\ Passed(c).failures = 0 /\ Passed(c).status = "passing"
    BY DEF Passed
  <2>3. Correct(c, Passed(c))
    BY <1>3 DEF WkrPasses
  <2>4. Ended(c, Passed(c))
    BY <1>1, <2>1, <2>2, <2>3 DEF Ended
  <2>5. QED BY <1>1, <2>1, <2>4
<1>4. ASSUME NEW how \in {"other", "improving", "same"}, WkrFails(how)
      PROVE  Ended(c, Failed(c, how)) /\ Failed(c, how) \in Rows
  <2> DEFINE r == row[c]
             count == IF r.failures = 0 \/ how # "same" THEN 0 ELSE r.stagnation + 1
             exhausted == last[c].attempt >= MaxAttempts \/ count >= StagnationLimit
             status == IF ~exhausted THEN "executable_but_failing"
                       ELSE IF c \in Blocking THEN "escalated" ELSE "stagnated"
  <2>1. Failed(c, how) = [status |-> status, attempts |-> last[c].attempt,
                          failures |-> r.failures + 1, stagnation |-> count]
    BY DEF Failed
  <2>2. count \in Nat /\ (count = 0 \/ count = r.stagnation + 1)
    BY <1>2 DEF Rows
  <2>3. status \in Statuses
    BY DEF Statuses
  <2>4. status = "escalated" => c \in Blocking /\ exhausted
    OBVIOUS
  <2>5. r.failures \in Nat /\ r.stagnation \in Nat /\ last[c].attempt \in Nat
    BY <1>2 DEF Rows, Attempts
  <2>6. count <= r.failures + 1 \/ r.stagnation > r.failures
    BY <2>2, <2>5
  <2>7. Correct(c, Failed(c, how))
    BY <1>4 DEF WkrFails
  <2> HIDE DEF count, status, c
  <2>8. Failed(c, how) \in Rows
    BY <2>1, <2>2, <2>3, <2>5 DEF Rows
  <2>9. /\ Failed(c, how).attempts = last[c].attempt /\ Failed(c, how).stagnation = count
        /\ Failed(c, how).failures = r.failures + 1 /\ Failed(c, how).status = status
    BY <2>1
  <2>10. c = First(todo)
    BY DEF c
  <2>11. QED BY <1>1, <2>2, <2>4, <2>6, <2>7, <2>8, <2>9, <2>10 DEF Ended
<1>5. QED BY <1>1, <1>3, <1>4

-----------------------------------------------------------------------------
LEMMA InitInv == Init => TypeInv /\ RunInv /\ BudgetInv /\ GateInv
<1> SUFFICES ASSUME Init PROVE TypeInv /\ RunInv /\ BudgetInv /\ GateInv
  OBVIOUS
<1> USE VerificationAssumption
<1>1. /\ row = [c \in Cases |-> [status |-> "unrealized", attempts |-> 0, failures |-> 0,
                                 stagnation |-> 0]]
      /\ last = [c \in Cases |-> [attempt |-> 0, count |-> 0, passed |-> TRUE, run |-> 0]]
      /\ requests = <<Plan>> /\ escalated = {} /\ accepted = 0 /\ runs = 0
      /\ ctl = "idle" /\ wkr = "idle" /\ job = "active"
  BY DEF Init
<1>2. TypeOK
  <2>1. row \in [Cases -> Rows]
    BY <1>1 DEF Rows, Statuses
  <2>2. last \in [Cases -> Attempts]
    BY <1>1 DEF Attempts
  <2>3. Plan \in Requests
    BY DEF Plan, Requests
  <2>4. requests \in Seq(Requests)
    BY <1>1, <2>3
  <2>5. /\ known \in [Actors -> Readings]
        /\ seen \in Summaries
    BY DEF Init, Nothing, NoSummary, Summaries, Readings
  <2>6. tasks \in Seq(Tasks)
    BY DEF Init
  <2>7. faults \in 0 .. MaxFaults /\ done \in 0 .. Repetitions /\ accepted \in 0 .. runs
    BY DEF Init
  <2>8. QED BY <2>1, <2>2, <2>4, <2>5, <2>6, <2>7 DEF Init, TypeOK
<1>3. Shape
  BY <1>1 DEF Shape
<1>4. RunInv
  BY <1>1 DEF RunInv, Earlier, Plan
<1>5. BudgetInv
  <2>1. ASSUME NEW c \in Blocking
        PROVE  /\ last[c].attempt = 0 /\ row[c].stagnation = 0
               /\ row[c].attempts = 0 /\ row[c].failures = 0
    BY <1>1 DEF Cases
  <2>2. BudgetKept
    <3>1. 0 <= 0 /\ 0 <= MaxAttempts /\ 0 <= StagnationLimit
      OBVIOUS
    <3>2. QED BY <2>1, <3>1, Zenon DEF BudgetKept
  <2>3. QED BY <1>1, <2>2 DEF BudgetInv
<1>6. GateInv
  BY <1>1 DEF GateInv, DoneIsVerified
<1>7. QED BY <1>2, <1>3, <1>4, <1>5, <1>6 DEF TypeInv

LEMMA TypeStep ==
  ASSUME TypeInv, RunInv, [Next]_vars
  PROVE  TypeInv'
<1> USE VerificationAssumption
<1> USE DEF TypeInv, TypeOK, Shape
<1>n. NoSummary \in Summaries
  BY DEF NoSummary, Nothing, Summaries, Readings
<1>k. \A a \in Actors : [known EXCEPT ![a] = Nothing] \in [Actors -> Readings]
  BY DEF Nothing, Readings
<1>h. ASSUME requests # <<>>
      PROVE  /\ Request \in Requests /\ Request.run <= runs
             /\ Tail(requests) \in Seq(Requests)
  <2>1. requests \in Seq(Requests)
    OBVIOUS
  <2>2. Len(requests) \in Nat /\ Len(requests) >= 1
    BY <1>h, <2>1
  <2>3. Request = requests[1] /\ 1 \in 1 .. Len(requests)
    BY <2>1, <2>2 DEF Request
  <2>4. requests[1] \in Requests
    BY <2>1, <2>3
  <2>5. requests[1].run <= runs
    BY <2>3 DEF RunInv, Earlier
  <2>6. Tail(requests) \in Seq(Requests)
    BY <2>1, <1>h
  <2>7. QED BY <2>3, <2>4, <2>5, <2>6
<1>a. /\ "controller" \in Actors /\ "worker" \in Actors /\ "dashboard" \in Actors
  BY DEF Actors
<1>p. Plan \in Requests /\ Recovery \in Requests /\ Review(runs) \in Requests
  BY DEF Plan, Recovery, Review, Requests
<1>t. RecoveryTask \in Tasks /\ \A S \in SUBSET Cases : Task(S) \in Tasks
  BY DEF RecoveryTask, Task, Tasks
<1>u. /\ \A r \in Requests : Append(requests, r) \in Seq(Requests) /\ Append(requests, r) # <<>>
      /\ \A t \in Tasks : Append(tasks, t) \in Seq(Tasks) /\ Append(tasks, t) # <<>>
  OBVIOUS
<1>v. ASSUME tasks # <<>> PROVE Head(tasks) \in Tasks /\ Tail(tasks) \in Seq(Tasks)
  <2>1. tasks \in Seq(Tasks)
    OBVIOUS
  <2> HIDE DEF TypeInv, TypeOK, Shape
  <2>2. QED BY <1>v, <2>1
<1>1. CASE CtlTake
  BY <1>1, <1>a, ReadKeeps DEF CtlTake, streams, work, counters, history
<1>2. CASE CtlPersist
  BY <1>2, <1>a, PersistKeeps DEF CtlPersist, streams, work, counters, history
<1>3. CASE CtlSummarize
  <2>1. Summary(Request.run) \in
          Summaries
    BY DEF Summary, Retry, Rows, Cases, Summaries, Readings
  <2>2. QED BY <1>3, <2>1 DEF CtlSummarize, streams, work, counters, history
<1>4. ASSUME NEW ids \in SUBSET Cases, NEW linked \in SUBSET Cases, CtlTask(ids, linked)
      PROVE  TypeInv'
  <2>1. tasks' \in Seq(Tasks) /\ tasks' # <<>>
    BY <1>4, <1>t, <1>u DEF CtlTask
  <2>2. QED BY <1>4, <1>n, <2>1 DEF CtlTask, work, history
<1>5. CASE CtlRecover
  <2>1. tasks' \in Seq(Tasks) /\ tasks' # <<>>
    BY <1>5, <1>t, <1>u DEF CtlRecover
  <2>2. QED BY <1>5, <1>n, <2>1 DEF CtlRecover, work, history
<1>6. CASE CtlDone
  <2>1. Request.run \in 0 .. runs
    BY <1>6, <1>h DEF CtlDone, Requests
  <2>2. QED BY <1>6, <1>n, <2>1 DEF CtlDone, Decided, streams, work, counters
<1>7. CASE CtlPromotionFails
  <2>1. requests' \in Seq(Requests) /\ requests' # <<>>
    BY <1>7, <1>p, <1>u DEF CtlPromotionFails
  <2>2. QED BY <1>7, <1>n, <2>1 DEF CtlPromotionFails, Decided, work, counters
<1>8. CASE CtlHuman \/ CtlFails
  BY <1>8, <1>n DEF CtlHuman, CtlFails, Decided, streams, work, counters
<1>9. CASE CtlAck
  BY <1>9, <1>h DEF CtlAck, work, counters, history
<1>10. CASE CtlDies
  BY <1>10, <1>n, <1>k, <1>a DEF CtlDies, streams, work, history
<1>11. CASE WkrTake
  BY <1>11, <1>a, ReadKeeps DEF WkrTake, streams, counters, history
<1>12. CASE WkrPersist
  BY <1>12, <1>a, PersistKeeps DEF WkrPersist, streams, counters, history
<1>13. ASSUME NEW result \in SUBSET Cases, WkrEdit(result) PROVE TypeInv'
  BY <1>13 DEF WkrEdit, streams, work, counters, history
<1>14. CASE WkrRun
  <2>1. Head(tasks).cases \subseteq Cases
    BY <1>14, <1>v DEF WkrRun, Tasks
  <2>2. accepted \in 0 .. runs' /\ runs' \in Nat
    BY <1>14 DEF WkrRun
  <2>3. QED BY <1>14, <2>1, <2>2 DEF WkrRun, streams, history
<1>15. CASE WkrHuman \/ WkrUnnamed \/ WkrRefused
  <2>1. tasks' \in Seq(Tasks)
    BY <1>15, <1>v DEF WkrHuman, WkrUnnamed, WkrRefused, Finish
  <2>2. accepted \in 0 .. runs' /\ runs' \in Nat
    BY <1>15 DEF WkrHuman, WkrUnnamed, WkrRefused, Finish
  <2>3. /\ job' = "human_needed" \/ job' = "dead"
        /\ wkr' = "idle" /\ todo' = {} /\ done' = 0
        /\ UNCHANGED <<realized, row, last, ctl, known, seen, iterations, faults, requests,
                       history>>
    BY <1>15 DEF WkrHuman, WkrUnnamed, WkrRefused, Finish
  <2>4. QED BY <2>1, <2>2, <2>3 DEF history
<1>16. CASE WkrBegin
  BY <1>16 DEF WkrBegin, streams, counters, history
<1>17. ASSUME NEW passes \in BOOLEAN, WkrRepeat(passes) PROVE TypeInv'
  <2>1. /\ todo # {} /\ last' \in [Cases -> Attempts] /\ done' \in 0 .. Repetitions
        /\ last'[First(todo)].count = done' /\ last'[First(todo)].run = runs
    BY <1>17, RepeatIs
  <2>2. First(todo') = First(todo) /\ todo' = todo /\ runs' = runs
    BY <1>17 DEF WkrRepeat, counters
  <2>3. QED BY <1>17, <2>1, <2>2 DEF WkrRepeat, streams, counters, history
<1>18. CASE WkrPasses \/ \E how \in {"other", "improving", "same"} : WkrFails(how)
  <2>1. PICK c \in Cases, new \in Rows : Ended(c, new)
    BY <1>18, EndIs
  <2>2. row' \in [Cases -> Rows]
    BY <2>1 DEF Ended, Correct
  <2>3. escalated' \subseteq Blocking
    BY <2>1 DEF Ended, Correct
  <2>4. QED BY <2>1, <2>2, <2>3 DEF Ended, Correct, streams, counters
<1>19. CASE WkrReview
  <2>1. requests' \in Seq(Requests) /\ requests' # <<>>
    BY <1>19, <1>p, <1>u DEF WkrReview
  <2>2. tasks' \in Seq(Tasks)
    BY <1>19, <1>v DEF WkrReview, Finish
  <2>3. QED BY <1>19, <2>1, <2>2 DEF WkrReview, Finish, history
<1>20. CASE WkrDies
  <2>1. tasks' \in Seq(Tasks)
    BY <1>20, <1>v DEF WkrDies
  <2>2. QED BY <1>20, <2>1 DEF WkrDies, history
<1>21. CASE DashboardReads
  BY <1>21, <1>a, ReadKeeps DEF DashboardReads, streams, work, counters, history
<1>22. CASE DashboardPersists
  BY <1>22, <1>a, PersistKeeps DEF DashboardPersists, streams, work, counters, history
<1>23. CASE Resume
  <2>1. requests' \in Seq(Requests)
    BY <1>23, <1>p, <1>u DEF Resume
  <2>2. tasks' \in Seq(Tasks)
    BY <1>23, <1>v DEF Resume
  <2>3. known' \in [Actors -> Readings]
    BY <1>23, <1>a DEF Resume, Nothing, Readings
  <2>4. /\ job' = "active" /\ faults' \in 0 .. MaxFaults
        /\ ctl' = "idle" /\ wkr' = "idle" /\ todo' = {} /\ done' = 0 /\ seen' = NoSummary
        /\ UNCHANGED <<realized, row, last, runs, iterations, history>>
    BY <1>23 DEF Resume
  <2>5. QED BY <1>n, <2>1, <2>2, <2>3, <2>4 DEF history
<1>24. CASE UNCHANGED vars
  BY <1>24 DEF vars, streams, work, counters, history
<1>25. QED
  BY <1>1, <1>2, <1>3, <1>4, <1>5, <1>6, <1>7, <1>8, <1>9, <1>10, <1>11, <1>12, <1>13,
     <1>14, <1>15, <1>16, <1>17, <1>18, <1>19, <1>20, <1>21, <1>22, <1>23, <1>24
     DEF Next, Controller, Worker, Terminated

LEMMA RunStep ==
  ASSUME TypeInv, RunInv, [Next]_vars
  PROVE  RunInv'
<1> USE DEF RunInv, Earlier
<1>s. requests \in Seq(Requests) /\ runs \in Nat /\ accepted \in Nat
  BY DEF TypeInv, TypeOK
<1>r. \A r \in Requests : r.run \in Nat
  BY DEF Requests
<1>l. /\ Len(requests) \in Nat
      /\ \A i \in 1 .. Len(requests) : requests[i] \in Requests /\ requests[i].run \in Nat
  BY <1>s, <1>r
<1> DEFINE EarlierThen(r) == r <= runs' /\ (wkr' \in {"verify", "repeat"} => r < runs')
(* A new request that is early enough does no harm. *)
<1>u. ASSUME NEW r \in Requests, requests' = Append(requests, r), EarlierThen(r.run),
             \A i \in 1 .. Len(requests) : EarlierThen(requests[i].run)
      PROVE  \A i \in 1 .. Len(requests') : EarlierThen(requests'[i].run)
  <2>1. Len(requests') = Len(requests) + 1
    BY <1>u, <1>s
  <2>2. \A i \in 1 .. Len(requests) : requests'[i] = requests[i]
    BY <1>u, <1>s
  <2>3. requests'[Len(requests) + 1] = r
    BY <1>u, <1>s
  <2>4. ASSUME NEW i \in 1 .. Len(requests') PROVE EarlierThen(requests'[i].run)
    <3>1. i \in 1 .. Len(requests) \/ i = Len(requests) + 1
      BY <2>1, <2>4, <1>l
    <3>2. CASE i \in 1 .. Len(requests)
      BY <3>2, <2>2, <1>u
    <3>3. CASE i = Len(requests) + 1
      BY <3>3, <2>3, <1>u
    <3>4. QED BY <3>1, <3>2, <3>3
  <2>5. QED BY <2>4
<1>1. CASE UNCHANGED <<requests, runs, accepted>> /\ (wkr' \in {"verify", "repeat"} => wkr \in {"verify", "repeat"})
  BY <1>1
<1>2. CASE CtlTake \/ CtlPersist \/ CtlSummarize \/ CtlHuman \/ CtlFails \/ CtlRecover \/ CtlDies
  BY <1>1, <1>2 DEF CtlTake, CtlPersist, CtlSummarize, CtlHuman, CtlFails, CtlRecover, CtlDies,
     Decided, streams, work, counters, history
<1>3. ASSUME NEW ids \in SUBSET Cases, NEW linked \in SUBSET Cases, CtlTask(ids, linked)
      PROVE  RunInv'
  BY <1>1, <1>3 DEF CtlTask, work, history
<1>4. CASE CtlDone
  <2>1. requests # <<>>
    BY <1>4 DEF CtlDone, TypeInv, Shape
  <2>2. Request = requests[1] /\ 1 \in 1 .. Len(requests)
    BY <2>1, <1>s DEF Request
  <2>3. UNCHANGED <<requests, runs, wkr>> /\ accepted' = Request.run
    BY <1>4 DEF CtlDone, Decided, streams, work, counters
  <2>4. QED BY <2>2, <2>3
<1>5. CASE CtlPromotionFails
  <2>1. UNCHANGED <<runs, wkr, accepted>> /\ requests' = Append(requests, Recovery)
    BY <1>5 DEF CtlPromotionFails, Decided, work, counters
  <2>2. Recovery \in Requests /\ Recovery.run = 0
    BY DEF Recovery, Requests
  <2>3. 0 <= runs /\ (wkr \in {"verify", "repeat"} => 0 < runs)
    BY <1>s
  <2>4. QED BY <1>u, <2>1, <2>2, <2>3
<1>6. CASE CtlAck
  <2>1. requests # <<>> /\ requests' = Tail(requests) /\ UNCHANGED <<runs, accepted, wkr>>
    BY <1>6 DEF CtlAck, TypeInv, Shape, work, counters, history
  <2>2. Len(requests') = Len(requests) - 1
        /\ \A i \in 1 .. Len(requests') : requests'[i] = requests[i + 1]
    BY <2>1, <1>s
  <2>3. \A i \in 1 .. Len(requests') : i + 1 \in 1 .. Len(requests)
    BY <2>2, <1>l
  <2>4. QED BY <2>1, <2>2, <2>3
<1>7. CASE WkrTake \/ WkrPersist \/ WkrBegin \/ WkrDies \/ DashboardReads \/ DashboardPersists
  BY <1>1, <1>7 DEF WkrTake, WkrPersist, WkrBegin, WkrDies, DashboardReads, DashboardPersists,
     streams, work, counters, history
<1>8. ASSUME NEW result \in SUBSET Cases, WkrEdit(result) PROVE RunInv'
  BY <1>1, <1>8 DEF WkrEdit, streams, work, counters, history
<1>9. CASE WkrRun
  <2>1. UNCHANGED <<requests, accepted>> /\ runs' = runs + 1 /\ wkr' = "verify"
    BY <1>9 DEF WkrRun, streams, history
  <2>2. QED BY <2>1, <1>l, <1>s
<1>10. CASE WkrHuman \/ WkrUnnamed \/ WkrRefused
  <2>1. /\ UNCHANGED <<requests, accepted>> /\ wkr' = "idle"
        /\ runs' = runs \/ runs' = runs + 1
    BY <1>10 DEF WkrHuman, WkrUnnamed, WkrRefused, Finish, history
  <2>2. QED BY <2>1, <1>l, <1>s
<1>11. ASSUME NEW passes \in BOOLEAN, WkrRepeat(passes) PROVE RunInv'
  BY <1>1, <1>11 DEF WkrRepeat, streams, counters, history
<1>12. CASE WkrPasses \/ \E how \in {"other", "improving", "same"} : WkrFails(how)
  BY <1>1, <1>12 DEF WkrPasses, WkrFails, Correct, streams, counters
<1>13. CASE WkrReview
  <2>1. /\ requests' = Append(requests, Review(runs))
        /\ UNCHANGED <<runs, accepted>> /\ wkr' = "idle"
    BY <1>13 DEF WkrReview, Finish, history
  <2>2. Review(runs) \in Requests /\ Review(runs).run = runs
    BY <1>s DEF Review, Requests
  <2>3. QED BY <1>u, <1>s, <2>1, <2>2
<1>14. CASE Resume
  <2>1. /\ requests' = Append(requests, Plan)
        /\ UNCHANGED <<runs, accepted>> /\ wkr' = "idle"
    BY <1>14 DEF Resume, history
  <2>2. Plan \in Requests /\ Plan.run = 0
    BY DEF Plan, Requests
  <2>3. QED BY <1>u, <1>s, <2>1, <2>2
<1>15. CASE UNCHANGED vars
  BY <1>1, <1>15 DEF vars, streams, work, counters, history
<1>16. QED
  BY <1>2, <1>3, <1>4, <1>5, <1>6, <1>7, <1>8, <1>9, <1>10, <1>11, <1>12, <1>13, <1>14, <1>15
     DEF Next, Controller, Worker, Terminated

(* Budgets are used up only by the repetitions and the end of an attempt.  *)
LEMMA BudgetStep ==
  ASSUME TypeInv, BudgetInv, [Next]_vars
  PROVE  BudgetInv' /\ \A c \in escalated : last'[c] = last[c]
<1> DEFINE Stay == \A c \in escalated : last'[c] = last[c]
<1>t. /\ row \in [Cases -> Rows] /\ last \in [Cases -> Attempts]
      /\ Blocking \subseteq Cases /\ escalated \subseteq Blocking
  BY VerificationAssumption DEF TypeInv, TypeOK, Cases
<1>n. /\ \A c \in Cases : row[c].stagnation \in Nat /\ row[c].failures \in Nat
                          /\ row[c].attempts \in Nat /\ last[c].attempt \in Nat
      /\ MaxAttempts \in Nat /\ StagnationLimit \in Nat
  BY <1>t, VerificationAssumption DEF Rows, Attempts
(* Most steps change neither the attempts nor the counters. *)
<1>1. ASSUME UNCHANGED <<last, escalated>>,
             \A c \in Cases : /\ row'[c].attempts = row[c].attempts
                              /\ row'[c].failures = row[c].failures
                              /\ row'[c].stagnation = row[c].stagnation,
             wkr' = "repeat" => wkr = "repeat" /\ UNCHANGED <<todo, done>>
      PROVE  BudgetInv' /\ Stay
  <2>1. BudgetKept'
    BY <1>1, <1>t DEF BudgetInv, BudgetKept
  <2>2. wkr' = "repeat" => wkr = "repeat" /\ First(todo') = First(todo) /\ done' = done
    BY <1>1
  <2>3. QED BY <1>1, <1>t, <2>1, <2>2 DEF BudgetInv
<1>2. CASE CtlTake \/ CtlSummarize \/ CtlHuman \/ CtlFails \/ CtlRecover \/ CtlDies
           \/ CtlDone \/ CtlPromotionFails \/ CtlAck \/ WkrTake \/ WkrDies \/ DashboardReads
  BY <1>1, <1>2 DEF CtlTake, CtlSummarize, CtlHuman, CtlFails, CtlRecover, CtlDies, CtlDone,
     CtlPromotionFails, CtlAck, WkrTake, WkrDies, DashboardReads, Decided, streams, work, counters,
     history
<1>3. ASSUME NEW ids \in SUBSET Cases, NEW linked \in SUBSET Cases, CtlTask(ids, linked)
      PROVE  BudgetInv' /\ Stay
  BY <1>1, <1>3 DEF CtlTask, work, history
<1>4. CASE CtlPersist \/ WkrPersist \/ DashboardPersists
  <2>1. \A c \in Cases : /\ row'[c].attempts = row[c].attempts
                         /\ row'[c].failures = row[c].failures
                         /\ row'[c].stagnation = row[c].stagnation
    BY <1>4, PersistKeeps DEF CtlPersist, WkrPersist, DashboardPersists, Actors, TypeInv
  <2>2. QED BY <1>1, <1>4, <2>1 DEF CtlPersist, WkrPersist, DashboardPersists, work, history
<1>5. ASSUME NEW result \in SUBSET Cases, WkrEdit(result) PROVE BudgetInv' /\ Stay
  BY <1>1, <1>5 DEF WkrEdit, work, history
<1>6. CASE WkrRun \/ WkrHuman \/ WkrUnnamed \/ WkrRefused \/ WkrReview \/ Resume
  BY <1>1, <1>6 DEF WkrRun, WkrHuman, WkrUnnamed, WkrRefused, WkrReview, Resume, Finish, history
<1>7. CASE WkrBegin
  <2> DEFINE c == First(todo)
  <2>1. c \in Cases /\ UNCHANGED <<row, last, escalated, todo>>
    BY <1>7, FirstIn DEF WkrBegin, history, TypeInv, TypeOK
  <2>2. c \in Blocking =>
          /\ row[c].stagnation < StagnationLimit
          /\ last[c].attempt + 1 <= MaxAttempts
    BY <1>7, <1>n, <2>1 DEF WkrBegin, Exhausted
  <2>3. c \notin escalated
    BY <1>n, <1>t, <2>1, <2>2 DEF BudgetInv
  <2>4. First(todo') = c
    BY <2>1
  <2> HIDE DEF c
  <2>5. QED BY <2>1, <2>2, <2>3, <2>4 DEF BudgetInv, BudgetKept
<1>8. ASSUME NEW passes \in BOOLEAN, WkrRepeat(passes) PROVE BudgetInv' /\ Stay
  <2> DEFINE c == First(todo)
  <2>1. /\ c \in Cases /\ \A d \in Cases \ {c} : last'[d] = last[d]
        /\ done' = done + 1 /\ done \in Nat
        /\ last'[c].attempt = IF done = 0 THEN last[c].attempt + 1 ELSE last[c].attempt
    BY <1>8, RepeatIs DEF TypeInv, TypeOK
  <2>2. wkr = "repeat" /\ UNCHANGED <<row, escalated, todo, wkr>>
    BY <1>8 DEF WkrRepeat, history
  <2>3. c \notin escalated
        /\ (c \in Blocking => /\ row[c].stagnation < StagnationLimit
                              /\ done = 0 => last[c].attempt + 1 <= MaxAttempts)
    BY <2>2 DEF BudgetInv
  <2>4. First(todo') = c
    BY <2>2
  <2> HIDE DEF c
  <2>5. Stay
    BY <2>1, <2>3, <1>t
  <2>6. BudgetKept'
    BY <1>n, <1>t, <2>1, <2>2, <2>3 DEF BudgetInv, BudgetKept
  <2>7. \A d \in escalated' : last'[d].attempt >= MaxAttempts \/ row'[d].stagnation >= StagnationLimit
    BY <2>2, <2>5 DEF BudgetInv
  <2>8. done' # 0
    BY <2>1
  <2>9. QED BY <2>2, <2>3, <2>4, <2>5, <2>6, <2>7, <2>8 DEF BudgetInv
<1>9. CASE WkrPasses \/ \E how \in {"other", "improving", "same"} : WkrFails(how)
  <2>1. PICK c \in Cases, new \in Rows : Ended(c, new)
    BY <1>9, EndIs
  <2>2. /\ UNCHANGED last /\ wkr' = "verify"
        /\ row' = [row EXCEPT ![c] = new]
        /\ escalated' = escalated \cup {d \in {c} : new.status = "escalated"}
    BY <2>1 DEF Ended, Correct
  <2>3. row'[c] = new /\ \A d \in Cases \ {c} : row'[d] = row[d]
    BY <2>2, <1>t
  <2>4. /\ c \notin escalated
        /\ c \in Blocking => row[c].stagnation < StagnationLimit
    BY <2>1 DEF BudgetInv, Ended
  <2>5. /\ new.attempts = last[c].attempt
        /\ new.stagnation = 0 \/ new.stagnation = row[c].stagnation + 1
        /\ new.stagnation <= new.failures \/ row[c].stagnation > row[c].failures
        /\ new.status = "escalated" =>
             last[c].attempt >= MaxAttempts \/ new.stagnation >= StagnationLimit
        /\ new.attempts \in Nat /\ new.stagnation \in Nat /\ new.failures \in Nat
    BY <2>1 DEF Ended, Rows
  <2>6. BudgetKept'
    <3>1. StagnationLimit >= 0
      BY VerificationAssumption
    <3>2. ASSUME c \in Blocking
          PROVE  /\ last[c].attempt <= MaxAttempts
                 /\ new.stagnation <= StagnationLimit
                 /\ new.attempts <= last[c].attempt
                 /\ new.stagnation <= new.failures
      BY <1>n, <2>4, <2>5, <3>1, <3>2 DEF BudgetInv, BudgetKept
    <3>3. QED BY <1>t, <2>2, <2>3, <3>2 DEF BudgetInv, BudgetKept
  <2>7. \A d \in escalated' : last'[d].attempt >= MaxAttempts \/ row'[d].stagnation >= StagnationLimit
    BY <1>t, <2>2, <2>3, <2>4, <2>5 DEF BudgetInv
  <2>8. QED BY <2>2, <2>6, <2>7 DEF BudgetInv
<1>10. CASE UNCHANGED vars
  BY <1>1, <1>10 DEF vars, work, history
<1>11. QED
  BY <1>2, <1>3, <1>4, <1>5, <1>6, <1>7, <1>8, <1>9, <1>10
     DEF Next, Controller, Worker, Terminated

(* The run of a later attempt is later than the one under review.          *)
LEMMA GateStep ==
  ASSUME TypeInv, RunInv, GateInv, [Next]_vars
  PROVE  GateInv'
<1>t. /\ seen.fresh \subseteq Cases /\ Blocking \subseteq Cases
      /\ Required \subseteq SUBSET Cases
      /\ \A c \in Cases : last[c].run \in Nat
  BY VerificationAssumption DEF TypeInv, TypeOK, Cases, Summaries, Attempts
<1>h. ctl = "decide" => requests # <<>> /\ Earlier(Request.run) /\ Request.run \in Nat
  <2>1. requests \in Seq(Requests)
    BY DEF TypeInv, TypeOK
  <2>2. ASSUME requests # <<>> PROVE Request = requests[1] /\ 1 \in 1 .. Len(requests)
    BY <2>1, <2>2 DEF Request
  <2>3. ASSUME requests # <<>> PROVE Request.run \in Nat
    <3>1. Request \in Requests
      BY <2>1, <2>2, <2>3
    <3>2. QED BY <3>1 DEF Requests
  <2>4. QED BY <2>2, <2>3 DEF TypeInv, Shape, RunInv
<1>g. /\ ctl = "decide" => \A c \in seen.fresh : VerifiedBy(c, Request.run)
      /\ job = "done" =>
           /\ \A c \in Blocking : VerifiedBy(c, accepted)
           /\ \A cover \in Required : \E c \in cover : VerifiedBy(c, accepted)
  BY DEF GateInv, DoneIsVerified
(* Most steps leave the attempts alone and decide nothing. *)
<1>1. ASSUME UNCHANGED last,
             ctl' = "decide" => ctl = "decide" /\ UNCHANGED seen /\ Request' = Request,
             job' = "done" => job = "done" /\ UNCHANGED accepted
      PROVE  GateInv'
  BY <1>1, <1>g DEF GateInv, DoneIsVerified, VerifiedBy
<1>2. CASE CtlTake \/ CtlPersist \/ CtlHuman \/ CtlFails \/ CtlRecover \/ CtlDies
           \/ CtlPromotionFails \/ CtlAck
  BY <1>1, <1>2 DEF CtlTake, CtlPersist, CtlHuman, CtlFails, CtlRecover, CtlDies,
     CtlPromotionFails, CtlAck, Decided, history
<1>3. ASSUME NEW ids \in SUBSET Cases, NEW linked \in SUBSET Cases, CtlTask(ids, linked)
      PROVE  GateInv'
  BY <1>1, <1>3 DEF CtlTask, history
<1>4. CASE CtlSummarize
  <2>1. UNCHANGED <<last, requests, job, accepted>> /\ seen' = Summary(Request.run)
    BY <1>4 DEF CtlSummarize, streams, history
  <2>2. seen'.fresh = {c \in Cases : Fresh(c, Request.run)}
    BY <2>1 DEF Summary
  <2>3. \A c \in seen'.fresh : VerifiedBy(c, Request.run)'
    BY <2>1, <2>2 DEF Fresh, Complete, VerifiedBy, Request
  <2>4. DoneIsVerified'
    BY <2>1, <1>g DEF DoneIsVerified, VerifiedBy
  <2>5. QED BY <2>3, <2>4 DEF GateInv
<1>5. CASE CtlDone
  <2>1. /\ ctl = "decide" /\ ctl' = "ack" /\ UNCHANGED last /\ accepted' = Request.run
        /\ Ready
    BY <1>5 DEF CtlDone, Decided, ValidDone
  <2>2. \A c \in seen.fresh : VerifiedBy(c, accepted)'
    BY <2>1, <1>g DEF VerifiedBy
  <2>3. DoneIsVerified'
    BY <2>1, <2>2 DEF Ready, DoneIsVerified
  <2>4. QED BY <2>1, <2>3 DEF GateInv
<1>6. CASE WkrTake \/ WkrPersist \/ WkrRun \/ WkrHuman \/ WkrUnnamed \/ WkrRefused \/ WkrBegin
           \/ WkrDies \/ DashboardReads \/ DashboardPersists
  BY <1>1, <1>6 DEF WkrTake, WkrPersist, WkrRun, WkrHuman, WkrUnnamed, WkrRefused, WkrBegin,
     WkrDies, DashboardReads, DashboardPersists, Finish, streams, history, Request
<1>7. ASSUME NEW result \in SUBSET Cases, WkrEdit(result) PROVE GateInv'
  BY <1>1, <1>7 DEF WkrEdit, streams, history, Request
<1>8. ASSUME NEW passes \in BOOLEAN, WkrRepeat(passes) PROVE GateInv'
  <2> DEFINE c == First(todo)
  <2>1. /\ c \in Cases /\ \A d \in Cases \ {c} : last'[d] = last[d]
        /\ last'[c].run = runs
    BY <1>8, RepeatIs
  <2>2. /\ wkr = "repeat" /\ UNCHANGED <<job, accepted, ctl, requests, seen>>
    BY <1>8 DEF WkrRepeat, streams, history
  <2> HIDE DEF c
  <2>3. ASSUME NEW d \in Cases, NEW run, run < runs, VerifiedBy(d, run) PROVE VerifiedBy(d, run)'
    BY <2>1, <2>3 DEF VerifiedBy
  <2>4. ctl = "decide" => Request.run < runs
    BY <1>h, <2>2 DEF Earlier
  <2>5. accepted < runs
    BY <2>2 DEF RunInv, Earlier
  <2>6. ctl' = "decide" => \A d \in seen'.fresh : VerifiedBy(d, Request.run)'
    BY <1>g, <1>t, <2>2, <2>3, <2>4 DEF Request
  <2>7. ASSUME job' = "done"
        PROVE  /\ \A d \in Blocking : VerifiedBy(d, accepted)'
               /\ \A cover \in Required : \E d \in cover : VerifiedBy(d, accepted)'
    BY <1>g, <1>t, <2>2, <2>3, <2>5, <2>7
  <2>8. QED BY <2>6, <2>7 DEF GateInv, DoneIsVerified
<1>9. CASE WkrPasses \/ \E how \in {"other", "improving", "same"} : WkrFails(how)
  BY <1>1, <1>9 DEF WkrPasses, WkrFails, Correct, streams, Request
<1>10. CASE WkrReview
  <2>1. /\ requests' = Append(requests, Review(runs))
        /\ UNCHANGED <<last, ctl, seen, job, accepted>>
    BY <1>10 DEF WkrReview, Finish, history
  <2>2. requests \in Seq(Requests) /\ Review(runs) \in Requests
    BY DEF TypeInv, TypeOK, Review, Requests
  <2>3. requests # <<>> => Head(Append(requests, Review(runs))) = Head(requests)
    BY <2>2
  <2>4. ctl = "decide" => Request' = Request
    BY <1>h, <2>1, <2>3 DEF Request
  <2>5. QED BY <1>1, <2>1, <2>4
<1>11. CASE Resume
  BY <1>1, <1>11 DEF Resume, history
<1>12. CASE UNCHANGED vars
  BY <1>1, <1>12 DEF vars, streams, history, Request
<1>13. QED
  BY <1>2, <1>3, <1>4, <1>5, <1>6, <1>7, <1>8, <1>9, <1>10, <1>11, <1>12
     DEF Next, Controller, Worker, Terminated

-----------------------------------------------------------------------------
Inv == TypeInv /\ RunInv /\ BudgetInv /\ GateInv

LEMMA InvHolds == Spec => []Inv
<1>1. Init => Inv
  BY InitInv DEF Inv
<1>2. Inv /\ [Next]_vars => Inv'
  BY TypeStep, RunStep, BudgetStep, GateStep DEF Inv
<1>3. QED BY <1>1, <1>2, PTL DEF Spec

(* The variables keep their types, for any number of cases and any bounds: *)
(* no escalation of a case that is not blocking, no count past the         *)
(* repetitions of an attempt, no review of a run that has not been.        *)
THEOREM TypeCorrect == Spec => []TypeOK
<1>1. Inv => TypeOK
  BY DEF Inv, TypeInv
<1>2. QED BY <1>1, InvHolds, PTL

(* A blocking case is attempted at most maximum_correction_attempts times,  *)
(* and its stagnation stays within its limit, whatever crashes, resumes    *)
(* and refreshes come between (run_task_verification).                     *)
THEOREM BudgetIsKept == Spec => []BudgetKept
<1>1. Inv => BudgetKept
  BY DEF Inv, BudgetInv
<1>2. QED BY <1>1, InvHolds, PTL

(* An escalated case is not executed again, though refreshes may overwrite *)
(* its status (persist_realization_checks, run_task_verification).         *)
THEOREM EscalatedRest == Spec => EscalatedNeverRuns
<1>1. Inv /\ [Next]_vars => [\A c \in escalated : last'[c] = last[c]]_vars
  BY BudgetStep DEF Inv
<1>2. QED BY <1>1, InvHolds, PTL DEF Spec, EscalatedNeverRuns

(* A job that is done has been verified by the run whose review said so    *)
(* (evaluate_completion_gate).                                             *)
THEOREM DoneVerified == Spec => []DoneIsVerified
<1>1. Inv => DoneIsVerified
  BY DEF Inv, GateInv
<1>2. QED BY <1>1, InvHolds, PTL
=============================================================================
