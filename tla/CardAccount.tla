---------------------------- MODULE CardAccount ----------------------------
(***************************************************************************)
(* What Silvergate promises about a card transaction, seen from outside:   *)
(* an account that changes in single atomic steps, each computed from the  *)
(* value the account has at that moment.  SilvergateTx, with its snapshots,*)
(* locks, retries and goroutines, implements it (SilvergateTxAccount);     *)
(* PaymanagerPayment is written against it.                                *)
(***************************************************************************)
EXTENDS Integers

CONSTANTS
  Txs,        \* transaction ids
  TxAmounts   \* amounts a transaction may be authorized for

VARIABLE acct

AccountStatus ==
  {"none", "authorized", "declined", "capture_pending", "captured",
   "capture_failed", "voided", "partially_refunded", "refunded"}

Account == [status : AccountStatus, amount : Nat, refunded : Nat]

NoAccount == [status |-> "none", amount |-> 0, refunded |-> 0]

Init == acct = [t \in Txs |-> NoAccount]

Move(t, from, to) ==
  /\ acct[t].status = from
  /\ acct' = [acct EXCEPT ![t].status = to]

\* NewAuthorized, NewDeclined.
Open(t, a, s) ==
  /\ acct[t].status = "none"
  /\ s \in {"authorized", "declined"}
  /\ acct' = [acct EXCEPT ![t] =
                [status |-> s, amount |-> a, refunded |-> 0]]

StartCapture(t) == Move(t, "authorized", "capture_pending")

FinishCapture(t, ok) ==
  Move(t, "capture_pending", IF ok THEN "captured" ELSE "capture_failed")

Void(t) == Move(t, "authorized", "voided")

\* What may still be refunded.
Refundable(t) ==
  IF acct[t].status \in {"captured", "partially_refunded"}
  THEN 1..(acct[t].amount - acct[t].refunded) ELSE {}

SetRefunded(t, n) ==
  acct' = [acct EXCEPT
    ![t].refunded = n,
    ![t].status = CASE n <= 0 -> "captured"
                    [] n >= acct[t].amount -> "refunded"
                    [] OTHER -> "partially_refunded"]

\* A refund is accepted: its amount is reserved.
Refund(t, a) == a \in Refundable(t) /\ SetRefunded(t, acct[t].refunded + a)

\* The bank refused it: the reservation is given back.
GiveBack(t, a) ==
  /\ a \in 1..acct[t].refunded
  /\ SetRefunded(t, acct[t].refunded - a)

Next ==
  \E t \in Txs :
    \/ \E a \in TxAmounts, s \in {"authorized", "declined"} : Open(t, a, s)
    \/ StartCapture(t)
    \/ \E ok \in BOOLEAN : FinishCapture(t, ok)
    \/ Void(t)
    \/ \E a \in Refundable(t) : Refund(t, a)
    \/ \E a \in 1..acct[t].refunded : GiveBack(t, a)

Spec == Init /\ [][Next]_acct
=============================================================================
