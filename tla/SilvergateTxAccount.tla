------------------------ MODULE SilvergateTxAccount ------------------------
(***************************************************************************)
(* SilvergateTx implements CardAccount: what Authorize, Capture, Refund,   *)
(* Void and the two goroutines commit to a transaction's row is one atomic *)
(* change of the account, computed from the row's current value, however   *)
(* the requests interleave and whichever statement fails.                  *)
(***************************************************************************)
EXTENDS SilvergateTx

AccountOf(row) ==
  [status |-> row.status, amount |-> row.amount, refunded |-> row.refunded]

Account == INSTANCE CardAccount
  WITH acct <- [t \in Txs |-> AccountOf(txn[t])]

\* No update is lost and none is applied to a value read too early: a refund
\* adds to what is refunded now, although its amount was computed from an
\* earlier read; a late settlement or void never lands on a row that moved on.
ImplementsCardAccount == Account!Spec
=============================================================================
