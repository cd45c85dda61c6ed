----------------------- MODULE MCPaymanagerPayment -----------------------
(***************************************************************************)
(* An instance of PaymanagerPayment for TLC: one payment of 2 units, three *)
(* requests that may void it or refund it in part or in full, through      *)
(* Paymanager or directly.  The requests are interchangeable.              *)
(***************************************************************************)
EXTENDS PaymanagerPayment, TLC

CONSTANT p1

MCTxs == {p1}
Ask(op, amount) == [op |-> op, tx |-> p1, amount |-> amount]
MCArgs == {Ask("void", 2), Ask("refund", 1), Ask("refund", 2),
           Ask("direct_refund", 1), Ask("direct_refund", 2)}
Sym == Permutations(Reqs)
=============================================================================
