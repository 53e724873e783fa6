---------------------------- MODULE ProjectHistory ----------------------------
(***************************************************************************)
(* What ICODA promises its developer about a project (HANDBOOK.md, chapter *)
(* 10): the steps in effect form a history.  An approval or a commit of    *)
(* the developer's own edits adds to its end, under a number larger than   *)
(* all others in effect; an undo takes the last approved step away, and    *)
(* the sources are again what they were before it.                         *)
(***************************************************************************)
EXTENDS Sequences, SequencesExt

VARIABLE history   \* the commits in effect, each with kind, number and code

Init ==
  /\ Len(history) = 1
  /\ history[1].kind = "step" /\ history[1].number = 0

Grows == history' = Append(history, Last(history'))

(* An approved step or a manual one: its number is new. *)
Add ==
  /\ Grows
  /\ Last(history').kind \in {"step", "manual"}
  /\ \A i \in DOMAIN history : history[i].number < Last(history').number

(* A commit made without ICODA has no number of its own. *)
External ==
  /\ Grows
  /\ Last(history').kind = "external" /\ Last(history').number = 0

Undo ==
  /\ Last(history).kind = "step" /\ Last(history).number # 0
  /\ history' = Front(history)

Next == Add \/ External \/ Undo

Spec == Init /\ [][Next]_history
===============================================================================
