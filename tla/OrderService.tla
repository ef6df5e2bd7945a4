---------------------------- MODULE OrderService ----------------------------
(***************************************************************************)
(* What the order queue promises, with no process, file or crash in it: a  *)
(* durable bounded FIFO queue whose orders are served one after the other, *)
(* each at most once.  OrderLifecycle implements it with queue.json as the *)
(* queue.                                                                  *)
(***************************************************************************)
EXTENDS Integers, Sequences, SequencesExt, FiniteSets

CONSTANTS Order,             \* the orders: records with a user and an instant, at
          MaxQueueSize, MaxOrdersPerUser,
          Stamps             \* the instants at which orders are accepted

VARIABLES waiting,  \* the queued orders, oldest first
          fate      \* what became of the order accepted at each instant

vars == <<waiting, fate>>

InService(a) == fate[a] \in {"running", "unfinished"}

Init == /\ waiting = <<>>
        /\ fate = [a \in Stamps |-> "none"]

(* A player's order is accepted behind all the others, within the caps. *)
Accept(order) ==
  /\ Len(waiting) < MaxQueueSize
  /\ Cardinality({i \in DOMAIN waiting : waiting[i].user = order.user}) < MaxOrdersPerUser
  /\ fate[order.at] = "none"
  /\ waiting' = Append(waiting, order)
  /\ fate' = [fate EXCEPT ![order.at] = "waiting"]

(* A waiting order is cancelled. *)
Cancel(i) ==
  /\ fate[waiting[i].at] = "waiting"
  /\ waiting' = RemoveAt(waiting, i)
  /\ fate' = [fate EXCEPT ![waiting[i].at] = "cancelled"]

(* The oldest order is taken up. *)
Serve ==
  /\ waiting # <<>>
  /\ fate[Head(waiting).at] = "waiting"
  /\ waiting' = Tail(waiting)
  /\ fate' = [fate EXCEPT ![Head(waiting).at] = "running"]

(* An order in service ends, or its handler returns without ending it. *)
End(a, outcome) ==
  /\ fate[a] = "running"
  /\ fate' = [fate EXCEPT ![a] = outcome]
  /\ UNCHANGED waiting

(* Orders in service are given up, by the operator or by a start that could
   not keep their record. *)
GiveUp(S, how) ==
  /\ \A a \in S : InService(a)
  /\ fate' = [a \in Stamps |-> IF a \in S THEN how ELSE fate[a]]
  /\ UNCHANGED waiting

(* The queue is lost as a whole, into a file kept for the operator. *)
Quarantine ==
  /\ waiting' = <<>>
  /\ fate' = [a \in Stamps |-> IF fate[a] = "waiting" THEN "quarantined" ELSE fate[a]]

Next ==
  \/ \E order \in Order : Accept(order)
  \/ \E i \in DOMAIN waiting : Cancel(i)
  \/ Serve
  \/ \E a \in Stamps, outcome \in {"concluded", "unfinished"} : End(a, outcome)
  \/ \E S \in SUBSET Stamps, how \in {"cleared", "discarded"} : GiveUp(S, how)
  \/ Quarantine

Spec == Init /\ [][Next]_vars
=============================================================================
