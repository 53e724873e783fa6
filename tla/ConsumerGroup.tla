---------------------------- MODULE ConsumerGroup ----------------------------
(***************************************************************************)
(* A Redis stream as one consumer group of one job sees it                 *)
(* (ai_loop/queues.py).  Entries are named by their position in the log.   *)
(* "next" is the group's last-delivered cursor plus one; "pending" is the  *)
(* PEL: what was delivered and has not been acknowledged.  An entry below  *)
(* the cursor and outside "pending" is settled: no consumer sees it again. *)
(***************************************************************************)
EXTENDS Naturals, Sequences

(* A group as prepare_job_consumer_groups leaves it: created at "$", so    *)
(* nothing that was in the stream before is delivered.                     *)
EmptyGroup == [log |-> <<>>, next |-> 1, pending |-> {}]

Groups(Msg) == [log : Seq(Msg), next : Nat \ {0}, pending : SUBSET (Nat \ {0})]

(* xadd_json *)
Xadd(g, msg) == [g EXCEPT !.log = Append(@, msg)]

(* The entries not yet delivered to the group. *)
HasNew(g) == g.next <= Len(g.log)

(* The same read with NOACK, a mistake the properties have to reveal. *)
ReadNew_noack(g) == [g EXCEPT !.next = @ + 1]

(* XREADGROUP with ">" and count=1: the next entry becomes pending. *)
ReadNew(g) == [g EXCEPT !.next = @ + 1, !.pending = @ \cup {g.next}]

(* XACK *)
Ack(g, i) == [g EXCEPT !.pending = @ \ {i}]

Settled(g) == (1 .. g.next - 1) \ g.pending

(* Undelivered or pending: a consumer of the group will still be given it. *)
Outstanding(g) == (g.next .. Len(g.log)) \cup g.pending
=============================================================================
