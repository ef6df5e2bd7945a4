---------------------------- MODULE MCPlayerDesk ----------------------------
(* Small instances of PlayerDesk. *)
EXTENDS PlayerDesk, TLC

CONSTANTS ann, bob, A, B

MCKeys == ({"n"} \X Names) \union ({"u"} \X Accounts)

\* A player who pays another, and an operator who fills a pair's reserve and empties it.
MCCommands == {[by |-> ann, what |-> "pay", to |-> bob, amount |-> 1],
               [by |-> bob, what |-> "addcurrency", to |-> bob, amount |-> 1],
               [by |-> bob, what |-> "removecurrency", to |-> bob, amount |-> 1]}

\* The first account has one diamond, the others none.
MCDeposit == [a \in Accounts |-> IF a = A THEN 1 ELSE 0]

MCFirstOwner == [n \in Names |-> IF n = ann THEN A ELSE B]

\* Ann gives her name up.
MCRenames == {<<ann, Nobody>>}
=============================================================================
