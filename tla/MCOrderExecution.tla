--------------------------- MODULE MCOrderExecution ---------------------------
(***************************************************************************)
(* Values for the constants of OrderExecution: two parts to a diamond, so  *)
(* that prices have fractions; a customer who can pay a little too much;   *)
(* orders that pay from the balance, in diamonds, or both.                 *)
(***************************************************************************)
EXTENDS OrderExecution

MCChest == [item |-> 3, diamond |-> 2]
MCHand  == [item |-> 2, diamond |-> 2]

Order(kind, qty, price) == [kind |-> kind, qty |-> qty, price |-> price]

(* One order of each kind; a buy of two takes two transfers. *)
MCRequests == {Order("buy", 2, 3), Order("sell", 1, 3), Order("sell", 1, 1),
               Order("deposit", 1, 0), Order("withdraw", 1, 0)}

===========================================================================
