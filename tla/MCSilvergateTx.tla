-------------------------- MODULE MCSilvergateTx --------------------------
(***************************************************************************)
(* Instances of SilvergateTx for TLC.                                      *)
(***************************************************************************)
EXTENDS SilvergateTxAccount, TLC

CONSTANTS t1, t2, k1, k2, k3

\* One transaction of 2 units; captures, full and partial refunds and voids
\* may race for it.  Requests that ask the same are a client's retries.
MCTxs == {t1}
MCKeys == {k1, k2, k3}
MCTxAmounts == {2}
Ask(op, amount, key) == [op |-> op, tx |-> t1, amount |-> amount, key |-> key]
MCArgs ==
  {Ask("capture", 2, k1), Ask("void", 2, k1),
   Ask("refund", 1, k1), Ask("refund", 1, k2), Ask("refund", 2, k3)}

\* With a second transaction, whose capture may reuse the key of the first.
MCTwoTxs == {t1, t2}
MCTwoArgs ==
  {Ask("capture", 2, k1), Ask("void", 2, k1), Ask("refund", 1, k1),
   [op |-> "capture", tx |-> t2, amount |-> 2, key |-> k1]}

ReqSymmetry == Permutations(Reqs)
=============================================================================
