------------------------- MODULE SilvergateTxProofs -------------------------
(***************************************************************************)
(* Machine-checked proofs about SilvergateTx, for every set of             *)
(* transactions, every finite set of requests, every amount and every      *)
(* number of faults.  First the type invariant, one inductive invariant    *)
(* (IInv) and what follows from it; then the totals of refunds; then that  *)
(* SilvergateTx implements CardAccount.                                    *)
(***************************************************************************)
EXTENDS SilvergateTxAccount, FiniteSetTheorems, TLAPS

(***************************************************************************)
(* Types                                                                   *)
(***************************************************************************)

\* What a request asks is well-typed, and so is the row it asks about.
LEMMA ArgType ==
  ASSUME TypeOK, NEW r \in Reqs
  PROVE  /\ arg[r].op \in Ops
         /\ arg[r].tx \in Txs
         /\ arg[r].amount \in Nat \ {0}
         /\ arg[r].key \in Keys
         /\ txn[arg[r].tx] \in Row
BY ConstantsAssumption DEF TypeOK

\* Rows with some columns replaced.
LEMMA RowUpdate ==
  ASSUME NEW row \in Row, NEW s \in TxStatus, NEW n \in Nat, NEW k \in Keys
  PROVE  /\ [row EXCEPT !.status = s] \in Row
         /\ [row EXCEPT !.status = s, !.key = k] \in Row
         /\ [row EXCEPT !.refunded = n, !.status = s] \in Row
BY DEF Row

\* The row Refund writes.
LEMMA ReservedType ==
  ASSUME NEW row \in Row, NEW n \in Nat, NEW a \in Nat
  PROVE  Reserved(row, n, a) \in Row
<1> DEFINE s == IF n + a >= row.amount
                THEN "refunded" ELSE "partially_refunded"
<1>1. s \in TxStatus /\ n + a \in Nat
  BY DEF TxStatus
<1> HIDE DEF s
<1>2. [row EXCEPT !.refunded = n + a, !.status = s] \in Row
  BY <1>1 DEF Row
<1> QED
  BY <1>2 DEF Reserved, s

\* The row a release writes, if the CHECK constraint lets it.
LEMMA ReleaseType ==
  ASSUME NEW row \in Row, NEW a \in Nat, ReleaseAllowed(row, a)
  PROVE  Release(row, a) \in Row
<1> DEFINE n == row.refunded - a
           s == IF n <= 0 THEN "captured" ELSE "partially_refunded"
<1>1. s \in TxStatus /\ n \in Nat
  BY DEF TxStatus, ReleaseAllowed, Row
<1> HIDE DEF s, n
<1>2. [row EXCEPT !.refunded = n, !.status = s] \in Row
  BY <1>1 DEF Row
<1> QED
  BY <1>2 DEF Release, s, n

\* A committed write leaves the tables well-typed.
LEMMA WriteRowType ==
  ASSUME TypeOK, NEW r \in Reqs, NEW t \in Txs, NEW row \in Row,
         WriteRow(r, t, row)
  PROVE  txn' \in [Txs -> Row] /\ stale' \in SUBSET Reqs
BY DEF TypeOK, WriteRow, Readers

\* A rollback leaves the tables well-typed.
LEMMA RollbackType ==
  ASSUME TypeOK, NEW r \in Reqs, Rollback(r)
  PROVE  txn' \in [Txs -> Row] /\ stale' \in SUBSET Reqs
BY DEF TypeOK, Rollback

\* A request goes to a known label.
LEMMA GotoType ==
  ASSUME TypeOK, NEW r \in Reqs,
         NEW l \in {"idle"} \cup Running \cup Ended, Goto(r, l)
  PROVE  pc' \in [Reqs -> {"idle"} \cup Running \cup Ended]
BY DEF TypeOK, Goto

\* Counting a fault.
LEMMA CountType ==
  ASSUME TypeOK, NEW o, Count(o)
  PROVE  faults' \in Nat
BY DEF TypeOK, Count

\* The answer of the bank.
LEMMA BankCallType ==
  ASSUME TypeOK, NEW r \in Reqs, NEW a, BankCall(r, a)
  PROVE  /\ result' \in [Reqs -> {"none", "ok", "no"}]
         /\ ledger' \in SUBSET Reqs
         /\ faults' \in Nat
BY DEF TypeOK, BankCall

\* A webhook carries a status.
LEMMA SendEventType ==
  ASSUME TypeOK, NEW r \in Reqs, NEW e \in TxStatus \cup RefundStatus,
         NEW d \in BOOLEAN, SendEvent(r, e, d)
  PROVE  TypeOK'
<1>1. hook' \in [Reqs -> TxStatus \cup RefundStatus]
  BY DEF TypeOK, SendEvent
<1>2. pc' \in [Reqs -> {"idle"} \cup Running \cup Ended]
  BY GotoType DEF SendEvent, Ended
<1> QED
  BY <1>1, <1>2 DEF TypeOK, SendEvent, db

\* Every step keeps the state well-typed.  The only subtraction, the release
\* of a reservation, stays a natural number because of the CHECK constraint.
LEMMA TypeStep == TypeOK /\ [Next]_vars => TypeOK'
<1> SUFFICES ASSUME TypeOK, [Next]_vars PROVE TypeOK'
  OBVIOUS
<1>1. ASSUME NEW t \in Txs, NEW a \in TxAmounts, NEW ok \in BOOLEAN,
             Authorize(t, a, ok)
      PROVE  TypeOK'
  BY <1>1, ConstantsAssumption DEF Authorize, TypeOK, Row, TxStatus
<1>2. ASSUME NEW r \in Reqs, Step(r) PROVE TypeOK'
  <2> DEFINE t == arg[r].tx
             PC == {"idle"} \cup Running \cup Ended
  <2>0. /\ t \in Txs /\ txn[t] \in Row
        /\ arg[r].amount \in Nat /\ arg[r].key \in Keys
    BY ArgType
  <2> HIDE DEF t
  <2>1. CASE CaptureRead(r)
    BY <2>1 DEF CaptureRead, TypeOK, Goto, db, Running, Waiting, Ended
  <2>2. CASE RefundRead(r)
    <3>1. txn[t].refunded \in Nat
      BY <2>0 DEF Row
    <3> QED
      BY <2>2, <3>1
      DEF RefundRead, TypeOK, Goto, db, Running, Waiting, Ended, t
  <2>3. CASE VoidLock(r)
    BY <2>0, <2>3
    DEF VoidLock, SelectForUpdate, TypeOK, Goto, Running, Waiting, Ended, t
  <2>4. ASSUME NEW o \in Outcomes, CaptureUpdate(r, o) PROVE TypeOK'
    <3> DEFINE row == [txn[t] EXCEPT !.status = "capture_pending",
                                     !.key = arg[r].key]
    <3>1. row \in Row
      BY <2>0, RowUpdate DEF TxStatus
    <3>2. WriteRow(r, t, row) \/ Rollback(r)
      BY <2>4 DEF CaptureUpdate, t
    <3> HIDE DEF row
    <3>3. txn' \in [Txs -> Row] /\ stale' \in SUBSET Reqs
      BY <2>0, <3>1, <3>2, WriteRowType, RollbackType
    <3>4. pc' \in [Reqs -> PC]
      BY <2>4, GotoType DEF CaptureUpdate, Running, Ended
    <3> QED
      BY <2>4, <3>3, <3>4, CountType DEF CaptureUpdate, TypeOK
  <2>5. ASSUME NEW o \in Outcomes, SettleUpdate(r, o) PROVE TypeOK'
    <3> DEFINE row == [txn[t] EXCEPT !.status = NextStatus(result[r])]
    <3>1. row \in Row
      BY <2>0, RowUpdate DEF TxStatus, NextStatus
    <3>2. WriteRow(r, t, row) \/ Rollback(r)
      BY <2>5 DEF SettleUpdate, t
    <3> HIDE DEF row
    <3>3. txn' \in [Txs -> Row] /\ stale' \in SUBSET Reqs
      BY <2>0, <3>1, <3>2, WriteRowType, RollbackType
    <3>4. pc' \in [Reqs -> PC]
      BY <2>5, GotoType DEF SettleUpdate, Running, Ended
    <3> QED
      BY <2>5, <3>3, <3>4, CountType DEF SettleUpdate, TypeOK
  <2>6. ASSUME NEW o \in Outcomes, RefundUpdate(r, o) PROVE TypeOK'
    <3> DEFINE row == Reserved(txn[t], seen[r], arg[r].amount)
    <3>1. row \in Row
      BY <2>0, ReservedType DEF TypeOK
    <3>2. WriteRow(r, t, row) \/ Rollback(r)
      BY <2>6 DEF RefundUpdate, t
    <3> HIDE DEF row
    <3>3. txn' \in [Txs -> Row] /\ stale' \in SUBSET Reqs
      BY <2>0, <3>1, <3>2, WriteRowType, RollbackType
    <3>4. pc' \in [Reqs -> PC]
      BY <2>6, GotoType DEF RefundUpdate, Running, Ended
    <3>5. refund' \in [Reqs -> RefundStatus]
      BY <2>6 DEF RefundUpdate, TypeOK, RefundStatus
    <3> QED
      BY <2>6, <3>3, <3>4, <3>5, CountType DEF RefundUpdate, TypeOK
  <2>7. ASSUME NEW o \in Outcomes, UpdateRefundStatus(r, o) PROVE TypeOK'
    <3>1. pc' \in [Reqs -> PC]
      BY <2>7, GotoType
      DEF UpdateRefundStatus, AfterRefundStatus, Running, Ended
    <3>2. refund' \in [Reqs -> RefundStatus]
      BY <2>7 DEF UpdateRefundStatus, TypeOK, RefundStatus
    <3> QED
      BY <2>7, <3>1, <3>2, CountType DEF UpdateRefundStatus, TypeOK
  <2>8. ASSUME NEW o \in Outcomes, ReleaseRefundAmount(r, o) PROVE TypeOK'
    <3> DEFINE row == Release(txn[t], arg[r].amount)
    <3>1. ReleaseAllowed(txn[t], arg[r].amount) => row \in Row
      BY <2>0, ReleaseType
    <3>2. \/ ReleaseAllowed(txn[t], arg[r].amount) /\ WriteRow(r, t, row)
          \/ Rollback(r)
      BY <2>8 DEF ReleaseRefundAmount, t
    <3> HIDE DEF row
    <3>3. txn' \in [Txs -> Row] /\ stale' \in SUBSET Reqs
      BY <2>0, <3>1, <3>2, WriteRowType, RollbackType
    <3>4. pc' \in [Reqs -> PC]
      BY <2>8, GotoType DEF ReleaseRefundAmount, Running, Ended
    <3>5. /\ released' \in [Reqs -> Nat]
          /\ tries' \in [Reqs -> Nat]
      BY <2>8 DEF ReleaseRefundAmount, TypeOK
    <3> QED
      BY <2>8, <3>3, <3>4, <3>5, CountType DEF ReleaseRefundAmount, TypeOK
  <2>9. ASSUME NEW o \in Outcomes, VoidUpdate(r, o) PROVE TypeOK'
    <3> DEFINE row == [txn[t] EXCEPT !.status = "voided"]
    <3>1. row \in Row
      BY <2>0, RowUpdate DEF TxStatus
    <3>2. WriteRow(r, t, row) \/ Rollback(r)
      BY <2>9 DEF VoidUpdate, t
    <3> HIDE DEF row
    <3>3. txn' \in [Txs -> Row] /\ stale' \in SUBSET Reqs
      BY <2>0, <3>1, <3>2, WriteRowType, RollbackType
    <3>4. pc' \in [Reqs -> PC]
      BY <2>9, GotoType DEF VoidUpdate, Running, Ended
    <3>5. lock' \in [Txs -> Reqs \cup {NoReq}]
      BY <2>0, <2>9 DEF VoidUpdate, Unlock, TypeOK
    <3> QED
      BY <2>9, <3>3, <3>4, <3>5, CountType DEF VoidUpdate, TypeOK
  <2>10. ASSUME NEW a \in BankAnswers, Settle(r, a) PROVE TypeOK'
    BY <2>10, BankCallType, GotoType DEF Settle, TypeOK, db, Running
  <2>11. ASSUME NEW a \in BankAnswers, BankRefund(r, a) PROVE TypeOK'
    BY <2>11, BankCallType, GotoType DEF BankRefund, TypeOK, db, Running
  <2>12. ASSUME NEW a \in BankAnswers, VoidBank(r, a) PROVE TypeOK'
    <3>1. lock' \in [Txs -> Reqs \cup {NoReq}]
      BY <2>0, <2>12 DEF VoidBank, Unlock, TypeOK
    <3>2. pc' \in [Reqs -> PC]
      BY <2>12, GotoType DEF VoidBank, Running, Ended
    <3> QED
      BY <2>12, <3>1, <3>2, BankCallType DEF VoidBank, TypeOK
  <2>13. ASSUME NEW d \in BOOLEAN, SettleHook(r, d) PROVE TypeOK'
    BY <2>13, SendEventType DEF SettleHook, TxStatus
  <2>14. ASSUME NEW d \in BOOLEAN, RefundHook(r, d) PROVE TypeOK'
    BY <2>14, SendEventType DEF RefundHook, RefundStatus
  <2>15. ASSUME NEW d \in BOOLEAN, VoidHook(r, d) PROVE TypeOK'
    BY <2>15, SendEventType DEF VoidHook, TxStatus
  <2> QED
    BY <1>2, <2>1, <2>2, <2>3, <2>4, <2>5, <2>6, <2>7, <2>8, <2>9, <2>10,
       <2>11, <2>12, <2>13, <2>14, <2>15 DEF Step
<1>3. CASE Crash
  BY <1>3 DEF Crash, TypeOK, Ended
<1>4. CASE UNCHANGED vars
  BY <1>4 DEF vars, TypeOK
<1> QED
  BY <1>1, <1>2, <1>3, <1>4 DEF Next

\* The type invariant of SilvergateTx.
THEOREM TypeCorrect == Spec => []TypeOK
<1>1. Init => TypeOK
  BY ConstantsAssumption DEF Init, TypeOK, Row, TxStatus, RefundStatus
<1> QED
  BY <1>1, TypeStep, PTL DEF Spec

(***************************************************************************)
(* The inductive invariant                                                 *)
(***************************************************************************)

\* A request runs the steps of its own operation.
PcMatchesOp ==
  \A r \in Reqs :
    /\ pc[r] \in {"capture_update", "settle", "settle_update", "settle_hook"}
         => arg[r].op = "capture"
    /\ pc[r] \in {"refund_update", "bank_refund", "refund_status", "release",
                  "refund_hook"} => arg[r].op = "refund"
    /\ pc[r] \in {"void_bank", "void_update", "void_hook"}
         => arg[r].op = "void"

\* What a request read in its snapshot is still so, unless the request will
\* fail with a serialization error.
SnapshotsHold ==
  \A r \in Reqs \ stale :
    /\ pc[r] = "capture_update" => txn[arg[r].tx].status = "authorized"
    /\ pc[r] = "refund_update" =>
         /\ Refundable(txn[arg[r].tx], arg[r].amount)
         /\ seen[r] = txn[arg[r].tx].refunded

\* While Void talks to the bank it has the row lock and the row is authorized.
VoidHoldsLock ==
  \A r \in Reqs : pc[r] \in {"void_bank", "void_update"} =>
    lock[arg[r].tx] = r /\ txn[arg[r].tx].status = "authorized"

\* The capture was committed and confirmed: it will ask, or has asked, the
\* bank to settle.
Captured(r) ==
  /\ arg[r].op = "capture"
  /\ pc[r] \in {"settle", "settle_update", "settle_hook"} \/ result[r] # "none"

\* Statuses of a transaction whose money was, or may be, moved.
Money == {"captured", "partially_refunded", "refunded"}
AfterCapture == Money \cup {"capture_pending", "capture_failed"}

OneCapture ==
  \A r, q \in Reqs :
    Captured(r) /\ Captured(q) /\ arg[r].tx = arg[q].tx => r = q

CaptureLeavesAuthorized ==
  \A r \in Reqs : Captured(r) => txn[arg[r].tx].status \in AfterCapture

\* Where a void that the bank carried out can be.
VoidTracked ==
  \A r \in Reqs : arg[r].op = "void" /\ r \in ledger =>
    \/ pc[r] = "void_update"
    \/ pc[r] \in {"void_hook", "done"} /\ txn[arg[r].tx].status = "voided"
    \/ pc[r] \in {"failed", "lost"} /\ faults > 0

\* A request has no refund before it created one and no answer before it asked
\* the bank; "ok" is in the bank's books.
ResultsInLedger ==
  \A r \in Reqs :
    /\ pc[r] \in {"idle", "capture_update", "refund_update"} =>
         refund[r] = "none"
    /\ pc[r] \in {"idle", "capture_update", "settle", "refund_update",
                  "bank_refund", "void_bank"} =>
         result[r] = "none" /\ r \notin ledger
    /\ pc[r] \in {"void_update", "void_hook"} \/ result[r] = "ok" =>
         r \in ledger

\* What each step of refundAsync may rely on.
RefundSteps ==
  \A r \in Reqs :
    /\ pc[r] = "bank_refund" => refund[r] = "refund_pending"
    /\ pc[r] = "refund_status" =>
         refund[r] = "refund_pending" /\ result[r] # "none"
    /\ pc[r] = "release" =>
         /\ refund[r] = "refund_failed" /\ result[r] = "no"
         /\ tries[r] < MaxRetries
    /\ pc[r] = "refund_hook" =>
         \/ result[r] = "ok" /\ refund[r] = "refunded"
         \/ /\ result[r] = "no" /\ refund[r] = "refund_failed"
            /\ released[r] > 0 \/ tries[r] = MaxRetries
    /\ refund[r] # "none" => arg[r].op = "refund"
    /\ arg[r].op = "refund" /\ result[r] # "none" => refund[r] # "none"
    /\ released[r] > 0 => refund[r] # "none" /\ result[r] = "no"
    /\ tries[r] > 0 => pc[r] \in {"release", "refund_hook"} \cup Ended

\* Refunds exist only where money was captured, and money is captured only
\* where the bank settled.
RefundsOnMoney ==
  \A r \in Reqs : refund[r] # "none" => txn[arg[r].tx].status \in Money

MoneyIsSettled ==
  \A t \in Txs : txn[t].status \in Money =>
    \E c \in On(t, "capture") : c \in ledger /\ result[c] = "ok"

IInv ==
  /\ TypeOK
  /\ PcMatchesOp
  /\ SnapshotsHold
  /\ VoidHoldsLock
  /\ OneCapture
  /\ CaptureLeavesAuthorized
  /\ VoidTracked
  /\ ResultsInLedger
  /\ RefundSteps
  /\ RefundsOnMoney
  /\ MoneyIsSettled
  /\ StatusMatchesRefunded
  /\ WebhooksReportCommitted

\* What all requests ask is well-typed.
LEMMA ArgsType ==
  ASSUME TypeOK
  PROVE  \A q \in Reqs : arg[q].tx \in Txs /\ arg[q].amount \in Nat \ {0}
BY ArgType

\* A request that ends without writing anything disturbs nothing.
LEMMA QuietEnd ==
  ASSUME IInv, TypeOK', NEW r \in Reqs, NEW l \in {"failed", "done"},
         pc' = [pc EXCEPT ![r] = l], stale \ {r} \subseteq stale',
         faults' >= faults, arg[r].op = "void" => r \notin ledger,
         UNCHANGED <<txn, refund, lock, arg, seen, result, tries, released,
                     ledger, hook>>
  PROVE  IInv'
<1>1. /\ PcMatchesOp' /\ VoidHoldsLock' /\ OneCapture'
      /\ CaptureLeavesAuthorized' /\ VoidTracked' /\ ResultsInLedger'
      /\ RefundSteps' /\ RefundsOnMoney' /\ MoneyIsSettled'
      /\ StatusMatchesRefunded' /\ WebhooksReportCommitted'
  BY DEF IInv, TypeOK, PcMatchesOp, VoidHoldsLock, OneCapture, Captured,
      CaptureLeavesAuthorized, VoidTracked, ResultsInLedger, RefundSteps,
      Ended, RefundsOnMoney, MoneyIsSettled, On, StatusMatchesRefunded,
      WebhooksReportCommitted
<1>2. SnapshotsHold'
  BY DEF IInv, TypeOK, SnapshotsHold, Refundable
<1> QED
  BY <1>1, <1>2 DEF IInv

\* Capture reads.
LEMMA CaptureReadInv ==
  ASSUME IInv, TypeOK', NEW r \in Reqs, CaptureRead(r)
  PROVE  IInv'
<1>1. /\ UNCHANGED <<txn, refund, lock, stale, arg, seen, result, tries,
                    released, ledger, hook, faults>>
      /\ pc[r] = "idle" /\ arg[r].op = "capture"
      /\ \/ /\ pc' = [pc EXCEPT ![r] = "capture_update"]
            /\ txn[arg[r].tx].status = "authorized"
         \/ pc' = [pc EXCEPT ![r] = "failed"]
  BY DEF CaptureRead, Goto, db, MarkCapturePending
<1>2. /\ PcMatchesOp' /\ VoidHoldsLock' /\ OneCapture'
      /\ CaptureLeavesAuthorized' /\ VoidTracked' /\ ResultsInLedger'
      /\ RefundSteps' /\ RefundsOnMoney' /\ MoneyIsSettled'
      /\ StatusMatchesRefunded' /\ WebhooksReportCommitted'
  BY <1>1
  DEF IInv, TypeOK, PcMatchesOp, VoidHoldsLock, OneCapture, Captured,
      CaptureLeavesAuthorized, VoidTracked, ResultsInLedger, RefundSteps,
      Ended, RefundsOnMoney, MoneyIsSettled, On, StatusMatchesRefunded,
      WebhooksReportCommitted
<1>3. SnapshotsHold'
  BY <1>1 DEF IInv, TypeOK, SnapshotsHold, Refundable
<1> QED
  BY <1>2, <1>3 DEF IInv

\* Refund reads.
LEMMA RefundReadInv ==
  ASSUME IInv, TypeOK', NEW r \in Reqs, RefundRead(r)
  PROVE  IInv'
<1>1. /\ UNCHANGED <<txn, refund, lock, stale, arg, result, tries,
                    released, ledger, hook, faults>>
      /\ pc[r] = "idle" /\ arg[r].op = "refund"
      /\ seen' = [seen EXCEPT ![r] = txn[arg[r].tx].refunded]
      /\ \/ /\ pc' = [pc EXCEPT ![r] = "refund_update"]
            /\ Refundable(txn[arg[r].tx], arg[r].amount)
         \/ pc' = [pc EXCEPT ![r] = "failed"]
  BY DEF RefundRead, Goto, db
<1>2. /\ PcMatchesOp' /\ VoidHoldsLock' /\ OneCapture'
      /\ CaptureLeavesAuthorized' /\ VoidTracked' /\ ResultsInLedger'
      /\ RefundSteps' /\ RefundsOnMoney' /\ MoneyIsSettled'
      /\ StatusMatchesRefunded' /\ WebhooksReportCommitted'
  BY <1>1
  DEF IInv, TypeOK, PcMatchesOp, VoidHoldsLock, OneCapture, Captured,
      CaptureLeavesAuthorized, VoidTracked, ResultsInLedger, RefundSteps,
      Ended, RefundsOnMoney, MoneyIsSettled, On, StatusMatchesRefunded,
      WebhooksReportCommitted
<1>3. SnapshotsHold'
  BY <1>1 DEF IInv, TypeOK, SnapshotsHold, Refundable
<1> QED
  BY <1>2, <1>3 DEF IInv

\* A goroutine asks the bank.
LEMMA BankInv ==
  ASSUME IInv, TypeOK', NEW r \in Reqs, NEW a \in BankAnswers,
         Settle(r, a) \/ BankRefund(r, a)
  PROVE  IInv'
<1>1. /\ UNCHANGED <<txn, refund, lock, stale, arg, seen, tries, released,
                    hook>>
      /\ \/ /\ pc[r] = "settle" /\ arg[r].op = "capture"
            /\ pc' = [pc EXCEPT ![r] = "settle_update"]
         \/ /\ pc[r] = "bank_refund" /\ arg[r].op = "refund"
            /\ pc' = [pc EXCEPT ![r] = "refund_status"]
      /\ \/ result' = [result EXCEPT ![r] = "ok"] /\ ledger' = ledger \cup {r}
         \/ /\ result' = [result EXCEPT ![r] = "no"]
            /\ ledger' \in {ledger, ledger \cup {r}}
      /\ faults' >= faults
  BY DEF Settle, BankRefund, BankCall, Goto, db, IInv, PcMatchesOp, TypeOK
<1>2. /\ PcMatchesOp' /\ VoidHoldsLock' /\ VoidTracked'
      /\ RefundsOnMoney' /\ StatusMatchesRefunded'
      /\ WebhooksReportCommitted'
  BY <1>1
  DEF IInv, TypeOK, PcMatchesOp, VoidHoldsLock, VoidTracked, RefundsOnMoney,
      StatusMatchesRefunded, WebhooksReportCommitted
<1>3. SnapshotsHold'
  BY <1>1 DEF IInv, TypeOK, SnapshotsHold, Refundable
<1>4. /\ OneCapture' /\ CaptureLeavesAuthorized'
  BY <1>1 DEF IInv, TypeOK, OneCapture, Captured, CaptureLeavesAuthorized
<1>5. /\ ResultsInLedger' /\ RefundSteps'
  BY <1>1 DEF IInv, TypeOK, ResultsInLedger, RefundSteps, Ended
<1>6. MoneyIsSettled'
  BY <1>1 DEF IInv, TypeOK, MoneyIsSettled, On, ResultsInLedger
<1> QED
  BY <1>2, <1>3, <1>4, <1>5, <1>6 DEF IInv

\* A webhook is sent.
LEMMA SendEventInv ==
  ASSUME IInv, TypeOK', NEW r \in Reqs, NEW d \in BOOLEAN,
         SettleHook(r, d) \/ RefundHook(r, d) \/ VoidHook(r, d)
  PROVE  IInv'
<1>1. /\ UNCHANGED <<txn, refund, lock, stale, arg, seen, result, tries,
                    released, ledger, faults>>
      /\ pc' = [pc EXCEPT ![r] = "done"]
      /\ \/ /\ pc[r] = "settle_hook"
            /\ hook' \in {hook, [hook EXCEPT ![r] = "capture_pending"]}
         \/ /\ pc[r] = "void_hook"
            /\ hook' \in {hook, [hook EXCEPT ![r] = "voided"]}
         \/ /\ pc[r] = "refund_hook"
            /\ hook' \in {hook, [hook EXCEPT ![r] = IF result[r] = "ok"
                                                    THEN "refunded"
                                                    ELSE "refund_failed"]}
  BY DEF SettleHook, RefundHook, VoidHook, SendEvent, Goto, db
<1>2. /\ PcMatchesOp' /\ VoidHoldsLock' /\ OneCapture'
      /\ CaptureLeavesAuthorized' /\ ResultsInLedger' /\ RefundSteps'
      /\ RefundsOnMoney' /\ MoneyIsSettled' /\ StatusMatchesRefunded'
  BY <1>1
  DEF IInv, TypeOK, PcMatchesOp, VoidHoldsLock, OneCapture, Captured,
      CaptureLeavesAuthorized, ResultsInLedger, RefundSteps, Ended,
      RefundsOnMoney, MoneyIsSettled, On, StatusMatchesRefunded
<1>3. SnapshotsHold'
  BY <1>1 DEF IInv, TypeOK, SnapshotsHold, Refundable
<1>4. VoidTracked'
  BY <1>1 DEF IInv, TypeOK, VoidTracked, PcMatchesOp
<1>5. WebhooksReportCommitted'
  BY <1>1
  DEF IInv, TypeOK, WebhooksReportCommitted, RefundSteps, ResultsInLedger,
      VoidTracked, PcMatchesOp
<1> QED
  BY <1>2, <1>3, <1>4, <1>5 DEF IInv

\* refundAsync records the answer.
LEMMA UpdateRefundStatusInv ==
  ASSUME IInv, TypeOK', NEW r \in Reqs, NEW o \in Outcomes,
         UpdateRefundStatus(r, o)
  PROVE  IInv'
<1>1. /\ UNCHANGED <<txn, lock, stale, arg, seen, result, tries, released,
                    ledger, hook>>
      /\ pc[r] = "refund_status" /\ arg[r].op = "refund"
      /\ faults' >= faults
      /\ \/ refund' = refund /\ pc' = [pc EXCEPT ![r] = "done"]
         \/ /\ result[r] = "ok"
            /\ refund' = [refund EXCEPT ![r] = "refunded"]
            /\ \/ pc' = [pc EXCEPT ![r] = "done"]
               \/ pc' = [pc EXCEPT ![r] = "refund_hook"]
         \/ /\ result[r] # "ok"
            /\ refund' = [refund EXCEPT ![r] = "refund_failed"]
            /\ \/ pc' = [pc EXCEPT ![r] = "done"]
               \/ pc' = [pc EXCEPT ![r] = "release"]
  <2>1. /\ o # "ok" => AfterRefundStatus(o, result[r]) = "done"
        /\ o = "ok" /\ result[r] = "ok" =>
             AfterRefundStatus(o, result[r]) = "refund_hook"
        /\ o = "ok" /\ result[r] # "ok" =>
             AfterRefundStatus(o, result[r]) = "release"
    BY DEF AfterRefundStatus
  <2>2. faults' >= faults /\ pc[r] = "refund_status" /\ arg[r].op = "refund"
    BY DEF UpdateRefundStatus, Count, IInv, PcMatchesOp, TypeOK
  <2> QED
    BY <2>1, <2>2 DEF UpdateRefundStatus, Goto
<1>2. /\ PcMatchesOp' /\ VoidHoldsLock' /\ OneCapture'
      /\ CaptureLeavesAuthorized' /\ VoidTracked' /\ ResultsInLedger'
      /\ MoneyIsSettled' /\ StatusMatchesRefunded'
  BY <1>1
  DEF IInv, TypeOK, PcMatchesOp, VoidHoldsLock, OneCapture, Captured,
      CaptureLeavesAuthorized, VoidTracked, ResultsInLedger, MoneyIsSettled,
      On, StatusMatchesRefunded
<1>3. SnapshotsHold'
  BY <1>1 DEF IInv, TypeOK, SnapshotsHold, Refundable
<1>4. RefundSteps'
  BY <1>1 DEF IInv, TypeOK, RefundSteps, Ended, MaxRetries
<1>5. /\ RefundsOnMoney' /\ WebhooksReportCommitted'
  BY <1>1
  DEF IInv, TypeOK, RefundsOnMoney, WebhooksReportCommitted, RefundSteps
<1> QED
  BY <1>2, <1>3, <1>4, <1>5 DEF IInv

\* Void locks the row.
LEMMA VoidLockInv ==
  ASSUME IInv, TypeOK', NEW r \in Reqs, VoidLock(r)
  PROVE  IInv'
<1>1. /\ UNCHANGED <<txn, refund, stale, arg, seen, result, tries,
                    released, ledger, hook, faults>>
      /\ pc[r] = "idle" /\ arg[r].op = "void"
      /\ lock[arg[r].tx] = NoReq
      /\ \/ /\ txn[arg[r].tx].status = "authorized"
            /\ lock' = [lock EXCEPT ![arg[r].tx] = r]
            /\ pc' = [pc EXCEPT ![r] = "void_bank"]
         \/ pc' = [pc EXCEPT ![r] = "failed"] /\ UNCHANGED lock
      /\ arg[r].tx \in Txs
  BY ArgType DEF VoidLock, Goto, MarkVoided, SelectForUpdate, IInv
<1>2. /\ PcMatchesOp' /\ OneCapture' /\ CaptureLeavesAuthorized'
      /\ ResultsInLedger' /\ RefundSteps' /\ RefundsOnMoney'
      /\ MoneyIsSettled' /\ StatusMatchesRefunded'
      /\ WebhooksReportCommitted'
  BY <1>1
  DEF IInv, TypeOK, PcMatchesOp, OneCapture, Captured, CaptureLeavesAuthorized,
      ResultsInLedger, RefundSteps, Ended, RefundsOnMoney, MoneyIsSettled, On,
      StatusMatchesRefunded, WebhooksReportCommitted
<1>3. SnapshotsHold'
  BY <1>1 DEF IInv, TypeOK, SnapshotsHold, Refundable
<1>4. VoidHoldsLock'
  BY <1>1, ConstantsAssumption DEF IInv, TypeOK, VoidHoldsLock
<1>5. VoidTracked'
  BY <1>1 DEF IInv, TypeOK, VoidTracked, ResultsInLedger
<1> QED
  BY <1>2, <1>3, <1>4, <1>5 DEF IInv

\* Void asks the bank.
LEMMA VoidBankInv ==
  ASSUME IInv, TypeOK', NEW r \in Reqs, NEW a \in BankAnswers, VoidBank(r, a)
  PROVE  IInv'
<1>1. /\ UNCHANGED <<txn, refund, stale, arg, seen, tries, released, hook>>
      /\ pc[r] = "void_bank" /\ arg[r].op = "void" /\ arg[r].tx \in Txs
      /\ \/ /\ UNCHANGED <<lock, faults>>
            /\ pc' = [pc EXCEPT ![r] = "void_update"]
            /\ result' = [result EXCEPT ![r] = "ok"]
            /\ ledger' = ledger \cup {r}
         \/ /\ lock' = [lock EXCEPT ![arg[r].tx] = NoReq]
            /\ pc' = [pc EXCEPT ![r] = "failed"]
            /\ result' = [result EXCEPT ![r] = "no"]
            /\ \/ ledger' = ledger /\ faults' = faults
               \/ ledger' = ledger \cup {r} /\ faults' = faults + 1
  BY ArgType
  DEF VoidBank, BankCall, Unlock, Goto, BankAnswers, IInv, PcMatchesOp
<1>2. /\ PcMatchesOp' /\ OneCapture' /\ CaptureLeavesAuthorized'
      /\ ResultsInLedger' /\ RefundSteps' /\ RefundsOnMoney'
      /\ MoneyIsSettled' /\ StatusMatchesRefunded'
      /\ WebhooksReportCommitted'
  BY <1>1
  DEF IInv, TypeOK, PcMatchesOp, OneCapture, Captured, CaptureLeavesAuthorized,
      ResultsInLedger, RefundSteps, Ended, RefundsOnMoney, MoneyIsSettled, On,
      StatusMatchesRefunded, WebhooksReportCommitted
<1>3. SnapshotsHold'
  BY <1>1 DEF IInv, TypeOK, SnapshotsHold, Refundable
<1>4. VoidHoldsLock'
  BY <1>1, ConstantsAssumption DEF IInv, TypeOK, VoidHoldsLock
<1>5. VoidTracked'
  BY <1>1 DEF IInv, TypeOK, VoidTracked, ResultsInLedger
<1> QED
  BY <1>2, <1>3, <1>4, <1>5 DEF IInv

\* The service stops.
LEMMA CrashInv ==
  ASSUME IInv, TypeOK', Crash
  PROVE  IInv'
<1>1. /\ UNCHANGED <<txn, refund, arg, seen, result, tries, released, ledger,
                    hook>>
      /\ faults' > 0 /\ faults' >= faults
  BY DEF Crash, TypeOK, IInv
<1>2. ASSUME NEW q \in Reqs
      PROVE  \/ pc'[q] = pc[q] /\ pc[q] \in {"idle", "failed", "done", "lost"}
             \/ pc'[q] = "lost" /\ pc[q] \notin {"idle", "done"}
  BY DEF Crash, Running, Waiting, Ended, TypeOK, IInv
<1>3. /\ PcMatchesOp' /\ SnapshotsHold' /\ VoidHoldsLock' /\ OneCapture'
      /\ CaptureLeavesAuthorized' /\ VoidTracked' /\ ResultsInLedger'
      /\ RefundsOnMoney' /\ MoneyIsSettled' /\ StatusMatchesRefunded'
      /\ WebhooksReportCommitted'
  BY <1>1, <1>2
  DEF IInv, TypeOK, PcMatchesOp, SnapshotsHold, VoidHoldsLock, OneCapture,
      Captured, CaptureLeavesAuthorized, VoidTracked, ResultsInLedger,
      RefundsOnMoney, MoneyIsSettled, On, StatusMatchesRefunded,
      WebhooksReportCommitted
<1>4. RefundSteps'
  BY <1>1, <1>2 DEF IInv, TypeOK, RefundSteps, Ended
<1> QED
  BY <1>3, <1>4 DEF IInv

\* Nothing happens.
LEMMA StutterInv ==
  ASSUME IInv, TypeOK', UNCHANGED vars
  PROVE  IInv'
<1>1. /\ PcMatchesOp' /\ VoidHoldsLock' /\ OneCapture'
      /\ CaptureLeavesAuthorized' /\ VoidTracked' /\ ResultsInLedger'
      /\ RefundSteps' /\ RefundsOnMoney' /\ MoneyIsSettled'
      /\ StatusMatchesRefunded' /\ WebhooksReportCommitted'
  BY DEF vars, IInv, TypeOK, PcMatchesOp, VoidHoldsLock, OneCapture, Captured,
      CaptureLeavesAuthorized, VoidTracked, ResultsInLedger, RefundSteps,
      Ended, RefundsOnMoney, MoneyIsSettled, On, StatusMatchesRefunded,
      WebhooksReportCommitted
<1>2. SnapshotsHold'
  BY DEF vars, IInv, TypeOK, SnapshotsHold, Refundable
<1> QED
  BY <1>1, <1>2 DEF vars, IInv

\* A write that voids nothing and leaves voided rows voided keeps track of the
\* voids.
LEMMA VoidTrackedKept ==
  ASSUME IInv, UNCHANGED <<arg, ledger>>, faults' \in Nat, faults' >= faults,
         \A q \in Reqs : arg[q].op = "void" => pc'[q] = pc[q],
         \A u \in Txs : txn[u].status = "voided" => txn'[u].status = "voided"
  PROVE  VoidTracked'
<1> SUFFICES ASSUME NEW q \in Reqs, arg[q].op = "void", q \in ledger
             PROVE  \/ pc[q] = "void_update"
                    \/ /\ pc[q] \in {"void_hook", "done"}
                       /\ txn'[arg[q].tx].status = "voided"
                    \/ pc[q] \in {"failed", "lost"} /\ faults' > 0
  BY DEF VoidTracked
<1>1. arg[q].tx \in Txs /\ faults \in Nat
  BY ArgType DEF IInv, TypeOK
<1> QED
  BY <1>1 DEF IInv, VoidTracked

\* A new row: no request could have read or changed it.
LEMMA AuthorizeInv ==
  ASSUME IInv, TypeOK', NEW t \in Txs, NEW a \in TxAmounts,
         NEW ok \in BOOLEAN, Authorize(t, a, ok)
  PROVE  IInv'
<1>1. /\ UNCHANGED <<refund, lock, stale, pc, arg, seen, result, tries,
                    released, ledger, hook, faults>>
      /\ txn[t].status = "none" /\ txn'[t].refunded = 0
      /\ txn'[t].status \in {"authorized", "declined"}
      /\ \A u \in Txs \ {t} : txn'[u] = txn[u]
      /\ \A q \in Reqs : arg[q].tx \in Txs
  BY ArgsType DEF Authorize, IInv, TypeOK
<1>2. PcMatchesOp' /\ OneCapture' /\ ResultsInLedger' /\ RefundSteps'
  BY <1>1
  DEF IInv, TypeOK, PcMatchesOp, OneCapture, Captured, ResultsInLedger,
      RefundSteps, Ended
<1>3. VoidHoldsLock' /\ VoidTracked'
  <2>1. VoidTracked'
    BY <1>1, VoidTrackedKept DEF TypeOK
  <2> QED
    BY <1>1, <2>1 DEF IInv, TypeOK, VoidHoldsLock
<1>4. SnapshotsHold'
  BY <1>1 DEF IInv, TypeOK, SnapshotsHold, Refundable
<1>5. /\ CaptureLeavesAuthorized' /\ RefundsOnMoney'
  BY <1>1
  DEF IInv, TypeOK, CaptureLeavesAuthorized, Captured, RefundsOnMoney,
      AfterCapture, Money
<1>6. MoneyIsSettled'
  BY <1>1 DEF IInv, TypeOK, MoneyIsSettled, On, Money
<1>7. StatusMatchesRefunded'
  BY <1>1 DEF IInv, TypeOK, StatusMatchesRefunded
<1>8. WebhooksReportCommitted'
  BY <1>1 DEF IInv, TypeOK, WebhooksReportCommitted
<1> QED
  BY <1>2, <1>3, <1>4, <1>5, <1>6, <1>7, <1>8 DEF IInv

\* Capture commits: only from an authorized row, so it is the first to do so
\* and no Void is under way.
LEMMA CaptureUpdateInv ==
  ASSUME IInv, TypeOK', NEW r \in Reqs, NEW o \in Outcomes,
         CaptureUpdate(r, o)
  PROVE  IInv'
<1> DEFINE t == arg[r].tx
           row == [txn[t] EXCEPT !.status = "capture_pending",
                                 !.key = arg[r].key]
<1>1. /\ UNCHANGED <<refund, lock, arg, seen, result, tries, released, ledger,
                    hook>>
      /\ pc[r] = "capture_update" /\ arg[r].op = "capture"
      /\ lock[t] = NoReq /\ faults' >= faults
      /\ t \in Txs /\ \A q \in Reqs : arg[q].tx \in Txs
  BY ArgsType DEF CaptureUpdate, IInv, PcMatchesOp, Count, TypeOK
<1>2. ASSUME Rollback(r), pc' = [pc EXCEPT ![r] = "failed"] PROVE IInv'
  BY <1>1, <1>2, QuietEnd DEF Rollback
<1>3. ASSUME WriteRow(r, t, row), r \notin stale,
             \/ pc' = [pc EXCEPT ![r] = "failed"]
             \/ pc' = [pc EXCEPT ![r] = "settle"]
      PROVE  IInv'
  <2>1. /\ txn[t].status = "authorized" /\ txn[t].refunded = 0
        /\ txn'[t].status = "capture_pending" /\ txn'[t].refunded = 0
        /\ \A u \in Txs \ {t} : txn'[u] = txn[u]
        /\ stale' = (stale \cup Readers(t)) \ {r}
    BY <1>1, <1>3
    DEF WriteRow, IInv, SnapshotsHold, StatusMatchesRefunded, TypeOK, Row
  <2> HIDE DEF row
  <2>2. /\ PcMatchesOp' /\ ResultsInLedger' /\ RefundSteps'
    BY <1>1, <1>3, <2>1
    DEF IInv, TypeOK, PcMatchesOp, ResultsInLedger, RefundSteps, Ended
  <2>3. SnapshotsHold'
    BY <1>1, <1>3, <2>1
    DEF IInv, TypeOK, SnapshotsHold, Readers, Waiting, Refundable
  <2>4. OneCapture'
    BY <1>1, <1>3, <2>1
    DEF IInv, TypeOK, OneCapture, Captured, CaptureLeavesAuthorized,
        AfterCapture, Money
  <2>5. CaptureLeavesAuthorized'
    <3>1. txn'[t].status \in AfterCapture
      BY <2>1 DEF AfterCapture
    <3>2. \A q \in Reqs : Captured(q)' => Captured(q) \/ q = r
      BY <1>1, <1>3 DEF IInv, TypeOK, Captured
    <3> QED
      BY <1>1, <2>1, <3>1, <3>2 DEF IInv, CaptureLeavesAuthorized
  <2>6. VoidHoldsLock'
    BY <1>1, <1>3, <2>1, ConstantsAssumption DEF IInv, TypeOK, VoidHoldsLock
  <2>7. VoidTracked'
    <3>1. \A q \in Reqs : arg[q].op = "void" => pc'[q] = pc[q]
      BY <1>1, <1>3 DEF IInv, TypeOK
    <3>2. \A u \in Txs : txn[u].status = "voided" => txn'[u].status = "voided"
      BY <2>1
    <3> QED
      BY <1>1, <3>1, <3>2, VoidTrackedKept DEF TypeOK
  <2>8. RefundsOnMoney'
    BY <1>1, <1>3, <2>1 DEF IInv, TypeOK, RefundsOnMoney, Money
  <2>9. MoneyIsSettled'
    BY <1>1, <1>3, <2>1 DEF IInv, TypeOK, MoneyIsSettled, On, Money
  <2>10. StatusMatchesRefunded'
    BY <1>1, <1>3, <2>1 DEF IInv, TypeOK, StatusMatchesRefunded
  <2>11. WebhooksReportCommitted'
    BY <1>1, <1>3, <2>1 DEF IInv, TypeOK, WebhooksReportCommitted
  <2> QED
    BY <2>2, <2>3, <2>4, <2>5, <2>6, <2>7, <2>8, <2>9, <2>10, <2>11 DEF IInv
<1> QED
  BY <1>1, <1>2, <1>3 DEF CaptureUpdate, Goto, SerializationFailure

\* settleAsync commits the bank's answer.
LEMMA SettleUpdateInv ==
  ASSUME IInv, TypeOK', NEW r \in Reqs, NEW o \in Outcomes,
         SettleUpdate(r, o)
  PROVE  IInv'
<1> DEFINE t == arg[r].tx
           row == [txn[t] EXCEPT !.status = NextStatus(result[r])]
<1>1. /\ UNCHANGED <<refund, lock, arg, seen, result, tries, released, ledger,
                    hook>>
      /\ pc[r] = "settle_update" /\ arg[r].op = "capture"
      /\ lock[t] = NoReq /\ faults' >= faults
      /\ t \in Txs /\ \A q \in Reqs : arg[q].tx \in Txs
  BY ArgsType DEF SettleUpdate, IInv, PcMatchesOp, Count, TypeOK
<1>2. ASSUME Rollback(r), pc' = [pc EXCEPT ![r] = "done"] PROVE IInv'
  BY <1>1, <1>2, QuietEnd DEF Rollback
<1>3. ASSUME WriteRow(r, t, row), txn[t].status = "capture_pending",
             \/ pc' = [pc EXCEPT ![r] = "done"]
             \/ pc' = [pc EXCEPT ![r] = "settle_hook"]
      PROVE  IInv'
  <2>1. /\ txn[t].refunded = 0 /\ txn'[t].refunded = 0
        /\ \/ txn'[t].status = "captured" /\ result[r] = "ok"
           \/ txn'[t].status = "capture_failed"
        /\ \A u \in Txs \ {t} : txn'[u] = txn[u]
        /\ stale' = (stale \cup Readers(t)) \ {r}
    BY <1>1, <1>3
    DEF WriteRow, IInv, NextStatus, StatusMatchesRefunded, TypeOK, Row
  <2> HIDE DEF row
  <2>2. /\ PcMatchesOp' /\ ResultsInLedger' /\ RefundSteps'
    BY <1>1, <1>3, <2>1
    DEF IInv, TypeOK, PcMatchesOp, ResultsInLedger, RefundSteps, Ended
  <2>3. SnapshotsHold'
    BY <1>1, <1>3, <2>1
    DEF IInv, TypeOK, SnapshotsHold, Readers, Waiting, Refundable
  <2>4. OneCapture'
    BY <1>1, <1>3, <2>1
    DEF IInv, TypeOK, OneCapture, Captured, CaptureLeavesAuthorized,
        AfterCapture, Money
  <2>5. CaptureLeavesAuthorized'
    BY <1>1, <1>3, <2>1
    DEF IInv, TypeOK, Captured, CaptureLeavesAuthorized, AfterCapture, Money
  <2>6. VoidHoldsLock'
    BY <1>1, <1>3, <2>1, ConstantsAssumption DEF IInv, TypeOK, VoidHoldsLock
  <2>7. VoidTracked'
    <3>1. \A q \in Reqs : arg[q].op = "void" => pc'[q] = pc[q]
      BY <1>1, <1>3 DEF IInv, TypeOK
    <3>2. \A u \in Txs : txn[u].status = "voided" => txn'[u].status = "voided"
      BY <2>1, <1>3
    <3> QED
      BY <1>1, <3>1, <3>2, VoidTrackedKept DEF TypeOK
  <2>8. RefundsOnMoney'
    BY <1>1, <1>3, <2>1 DEF IInv, TypeOK, RefundsOnMoney, Money
  <2>9. MoneyIsSettled'
    BY <1>1, <1>3, <2>1
    DEF IInv, TypeOK, MoneyIsSettled, On, Money, ResultsInLedger
  <2>10. StatusMatchesRefunded'
    BY <1>1, <1>3, <2>1 DEF IInv, TypeOK, StatusMatchesRefunded
  <2>11. WebhooksReportCommitted'
    BY <1>1, <1>3, <2>1 DEF IInv, TypeOK, WebhooksReportCommitted
  <2> QED
    BY <2>2, <2>3, <2>4, <2>5, <2>6, <2>7, <2>8, <2>9, <2>10, <2>11 DEF IInv
<1> QED
  BY <1>1, <1>2, <1>3 DEF SettleUpdate, Goto

\* Refund commits its reservation, on top of what it read.
LEMMA RefundUpdateInv ==
  ASSUME IInv, TypeOK', NEW r \in Reqs, NEW o \in Outcomes,
         RefundUpdate(r, o)
  PROVE  IInv'
<1> DEFINE t == arg[r].tx
           a == arg[r].amount
           row == Reserved(txn[t], seen[r], a)
<1>1. /\ UNCHANGED <<lock, arg, seen, result, tries, released, ledger, hook>>
      /\ pc[r] = "refund_update" /\ arg[r].op = "refund"
      /\ lock[t] = NoReq /\ faults' >= faults
      /\ t \in Txs /\ \A q \in Reqs : arg[q].tx \in Txs
  BY ArgsType DEF RefundUpdate, IInv, PcMatchesOp, Count, TypeOK
<1>2. ASSUME Rollback(r), UNCHANGED refund,
             pc' = [pc EXCEPT ![r] = "failed"]
      PROVE  IInv'
  BY <1>1, <1>2, QuietEnd DEF Rollback
<1>3. ASSUME WriteRow(r, t, row), r \notin stale,
             refund' = [refund EXCEPT ![r] = "refund_pending"],
             \/ pc' = [pc EXCEPT ![r] = "failed"]
             \/ pc' = [pc EXCEPT ![r] = "bank_refund"]
      PROVE  IInv'
  <2>1. /\ txn[t].status \in {"captured", "partially_refunded"}
        /\ seen[r] = txn[t].refunded /\ seen[r] + a <= txn[t].amount
        /\ a \in Nat \ {0} /\ txn[t] \in Row
    BY <1>1, <1>3, ArgType DEF IInv, SnapshotsHold, Refundable, TypeOK, Row
  <2>2. /\ txn'[t].amount = txn[t].amount /\ txn'[t].refunded = seen[r] + a
        /\ \/ txn'[t].status = "refunded" /\ seen[r] + a = txn[t].amount
           \/ /\ txn'[t].status = "partially_refunded"
              /\ 0 < seen[r] + a /\ seen[r] + a < txn[t].amount
        /\ \A u \in Txs \ {t} : txn'[u] = txn[u]
        /\ stale' = (stale \cup Readers(t)) \ {r}
    <3>1. txn'[t] = row /\ seen[r] \in Nat
      BY <1>1, <1>3, <2>1 DEF WriteRow, IInv, TypeOK
    <3>2. /\ row.amount = txn[t].amount /\ row.refunded = seen[r] + a
          /\ row.status = IF seen[r] + a >= txn[t].amount
                          THEN "refunded" ELSE "partially_refunded"
      BY <2>1 DEF Reserved, Row
    <3> HIDE DEF row, a
    <3>3. txn[t].amount \in Nat
      BY <2>1 DEF Row
    <3>4. /\ \A u \in Txs \ {t} : txn'[u] = txn[u]
          /\ stale' = (stale \cup Readers(t)) \ {r}
      BY <1>1, <1>3 DEF WriteRow, IInv, TypeOK
    <3> QED
      BY <2>1, <3>1, <3>2, <3>3, <3>4
  <2> HIDE DEF row, a
  <2>3. PcMatchesOp'
    BY <1>1, <1>3, <2>1, <2>2 DEF IInv, TypeOK, PcMatchesOp
  <2>4. SnapshotsHold'
    BY <1>1, <1>3, <2>1, <2>2
    DEF IInv, TypeOK, SnapshotsHold, Readers, Waiting, Refundable
  <2>5. /\ OneCapture' /\ CaptureLeavesAuthorized'
    BY <1>1, <1>3, <2>1, <2>2
    DEF IInv, TypeOK, OneCapture, Captured, CaptureLeavesAuthorized,
        AfterCapture, Money
  <2>6. VoidHoldsLock'
    BY <1>1, <1>3, <2>1, <2>2, ConstantsAssumption
    DEF IInv, TypeOK, VoidHoldsLock
  <2>7. VoidTracked'
    <3>1. \A q \in Reqs : arg[q].op = "void" => pc'[q] = pc[q]
      BY <1>1, <1>3 DEF IInv, TypeOK
    <3>2. \A u \in Txs : txn[u].status = "voided" => txn'[u].status = "voided"
      BY <2>1, <2>2
    <3> QED
      BY <1>1, <3>1, <3>2, VoidTrackedKept DEF TypeOK
  <2>8. RefundsOnMoney'
    BY <1>1, <1>3, <2>1, <2>2 DEF IInv, TypeOK, RefundsOnMoney, Money
  <2>9. MoneyIsSettled'
    BY <1>1, <1>3, <2>1, <2>2 DEF IInv, TypeOK, MoneyIsSettled, On, Money
  <2>10. StatusMatchesRefunded'
    BY <1>1, <1>3, <2>1, <2>2 DEF IInv, TypeOK, StatusMatchesRefunded, Row
  <2>11. ResultsInLedger' /\ RefundSteps'
    BY <1>1, <1>3, <2>1, <2>2
    DEF IInv, TypeOK, ResultsInLedger, RefundSteps, Ended
  <2>12. WebhooksReportCommitted'
    BY <1>1, <1>3, <2>1, <2>2
    DEF IInv, TypeOK, ResultsInLedger, WebhooksReportCommitted
  <2> QED
    BY <2>3, <2>4, <2>5, <2>6, <2>7, <2>8, <2>9, <2>10, <2>11, <2>12 DEF IInv
<1> QED
  BY <1>1, <1>2, <1>3 DEF RefundUpdate, Goto, SerializationFailure

\* Void commits.
LEMMA VoidUpdateInv ==
  ASSUME IInv, TypeOK', NEW r \in Reqs, NEW o \in Outcomes, VoidUpdate(r, o)
  PROVE  IInv'
<1> DEFINE t == arg[r].tx
           row == [txn[t] EXCEPT !.status = "voided"]
<1>1. /\ UNCHANGED <<refund, arg, seen, result, tries, released, ledger, hook>>
      /\ pc[r] = "void_update" /\ arg[r].op = "void"
      /\ lock' = [lock EXCEPT ![t] = NoReq]
      /\ lock[t] = r /\ txn[t].status = "authorized"
      /\ faults' >= faults /\ (o # "ok" => faults' > 0)
      /\ t \in Txs /\ \A q \in Reqs : arg[q].tx \in Txs
  BY ArgsType
  DEF VoidUpdate, IInv, PcMatchesOp, VoidHoldsLock, Count, Unlock, TypeOK
<1>2. ASSUME Rollback(r), o # "ok", pc' = [pc EXCEPT ![r] = "failed"]
      PROVE  IInv'
  <2>1. UNCHANGED txn /\ stale' = stale \ {r}
    BY <1>2 DEF Rollback
  <2>2. /\ PcMatchesOp' /\ OneCapture' /\ CaptureLeavesAuthorized'
        /\ ResultsInLedger' /\ RefundSteps' /\ RefundsOnMoney'
        /\ MoneyIsSettled' /\ StatusMatchesRefunded'
        /\ WebhooksReportCommitted'
    BY <1>1, <1>2, <2>1
    DEF IInv, TypeOK, PcMatchesOp, OneCapture, Captured,
        CaptureLeavesAuthorized, ResultsInLedger, RefundSteps, Ended,
        RefundsOnMoney, MoneyIsSettled, On, StatusMatchesRefunded,
        WebhooksReportCommitted
  <2>3. SnapshotsHold'
    BY <1>1, <1>2, <2>1 DEF IInv, TypeOK, SnapshotsHold, Refundable
  <2>4. /\ VoidHoldsLock' /\ VoidTracked'
    BY <1>1, <1>2, <2>1, ConstantsAssumption
    DEF IInv, TypeOK, VoidHoldsLock, VoidTracked
  <2> QED
    BY <2>2, <2>3, <2>4 DEF IInv
<1>3. ASSUME WriteRow(r, t, row),
             \/ pc' = [pc EXCEPT ![r] = "failed"] /\ o # "ok"
             \/ pc' = [pc EXCEPT ![r] = "void_hook"]
      PROVE  IInv'
  <2>1. /\ txn[t].refunded = 0 /\ txn'[t].refunded = 0
        /\ txn'[t].status = "voided"
        /\ \A u \in Txs \ {t} : txn'[u] = txn[u]
        /\ stale' = (stale \cup Readers(t)) \ {r}
    BY <1>1, <1>3 DEF WriteRow, IInv, StatusMatchesRefunded, TypeOK, Row
  <2> HIDE DEF row
  <2>2. /\ PcMatchesOp' /\ ResultsInLedger' /\ RefundSteps'
    BY <1>1, <1>3, <2>1
    DEF IInv, TypeOK, PcMatchesOp, ResultsInLedger, RefundSteps, Ended
  <2>3. SnapshotsHold'
    BY <1>1, <1>3, <2>1
    DEF IInv, TypeOK, SnapshotsHold, Readers, Waiting, Refundable
  <2>4. /\ OneCapture' /\ CaptureLeavesAuthorized'
    BY <1>1, <1>3, <2>1
    DEF IInv, TypeOK, OneCapture, Captured, CaptureLeavesAuthorized,
        AfterCapture, Money
  <2>5. VoidHoldsLock'
    BY <1>1, <1>3, <2>1, ConstantsAssumption DEF IInv, TypeOK, VoidHoldsLock
  <2>6. VoidTracked'
    BY <1>1, <1>3, <2>1, ConstantsAssumption
    DEF IInv, TypeOK, VoidTracked, VoidHoldsLock
  <2>7. RefundsOnMoney'
    BY <1>1, <1>3, <2>1 DEF IInv, TypeOK, RefundsOnMoney, Money
  <2>8. MoneyIsSettled'
    BY <1>1, <1>3, <2>1 DEF IInv, TypeOK, MoneyIsSettled, On, Money
  <2>9. StatusMatchesRefunded'
    BY <1>1, <1>3, <2>1 DEF IInv, TypeOK, StatusMatchesRefunded
  <2>10. WebhooksReportCommitted'
    BY <1>1, <1>3, <2>1 DEF IInv, TypeOK, WebhooksReportCommitted
  <2> QED
    BY <2>2, <2>3, <2>4, <2>5, <2>6, <2>7, <2>8, <2>9, <2>10 DEF IInv
<1> QED
  BY <1>1, <1>2, <1>3 DEF VoidUpdate, Goto

\* refundAsync gives a reservation back, or fails to.
LEMMA ReleaseInv ==
  ASSUME IInv, TypeOK', NEW r \in Reqs, NEW o \in Outcomes,
         ReleaseRefundAmount(r, o)
  PROVE  IInv'
<1> DEFINE t == arg[r].tx
           a == arg[r].amount
           row == Release(txn[t], a)
<1>1. /\ UNCHANGED <<refund, lock, arg, seen, result, ledger, hook>>
      /\ pc[r] = "release" /\ arg[r].op = "refund"
      /\ refund[r] = "refund_failed" /\ result[r] = "no"
      /\ tries[r] < MaxRetries /\ tries[r] \in Nat /\ released[r] \in Nat
      /\ lock[t] = NoReq /\ faults' >= faults
      /\ t \in Txs /\ \A q \in Reqs : arg[q].tx \in Txs
  BY ArgsType
  DEF ReleaseRefundAmount, IInv, PcMatchesOp, RefundSteps, Count, TypeOK
<1>2. ASSUME Rollback(r), UNCHANGED released,
             tries' = [tries EXCEPT ![r] = tries[r] + 1],
             \/ /\ tries[r] + 1 = MaxRetries
                /\ pc' = [pc EXCEPT ![r] = "refund_hook"]
             \/ /\ tries[r] + 1 < MaxRetries
                /\ pc' = [pc EXCEPT ![r] = "release"]
      PROVE  IInv'
  <2>1. UNCHANGED txn /\ stale' = stale \ {r}
    BY <1>2 DEF Rollback
  <2>2. /\ PcMatchesOp' /\ VoidHoldsLock' /\ OneCapture'
        /\ CaptureLeavesAuthorized' /\ VoidTracked' /\ ResultsInLedger'
        /\ RefundsOnMoney' /\ MoneyIsSettled' /\ StatusMatchesRefunded'
    BY <1>1, <1>2, <2>1
    DEF IInv, TypeOK, PcMatchesOp, VoidHoldsLock, OneCapture, Captured,
        CaptureLeavesAuthorized, VoidTracked, ResultsInLedger, RefundsOnMoney,
        MoneyIsSettled, On, StatusMatchesRefunded
  <2>3. SnapshotsHold'
    BY <1>1, <1>2, <2>1 DEF IInv, TypeOK, SnapshotsHold, Refundable
  <2>4. RefundSteps'
    BY <1>1, <1>2, <2>1 DEF IInv, TypeOK, RefundSteps, Ended, MaxRetries
  <2>5. WebhooksReportCommitted'
    BY <1>1, <1>2, <2>1 DEF IInv, TypeOK, WebhooksReportCommitted, MaxRetries
  <2> QED
    BY <2>2, <2>3, <2>4, <2>5 DEF IInv
<1>3. ASSUME WriteRow(r, t, row), ReleaseAllowed(txn[t], a),
             released' = [released EXCEPT ![r] = released[r] + 1],
             \/ tries' = tries
             \/ tries' = [tries EXCEPT ![r] = tries[r] + 1],
             \/ pc' = [pc EXCEPT ![r] = "refund_hook"]
             \/ /\ pc' = [pc EXCEPT ![r] = "release"]
                /\ tries[r] + 1 < MaxRetries
      PROVE  IInv'
  <2>1. /\ txn[t].status \in Money /\ txn[t].status # "voided"
        /\ txn[t] \in Row /\ a \in Nat \ {0} /\ txn[t].refunded - a \in Nat
    BY <1>1, <1>3, ArgType
    DEF IInv, RefundsOnMoney, Money, ReleaseAllowed, TypeOK, Row
  <2>2. /\ txn'[t].amount = txn[t].amount
        /\ txn'[t].refunded = txn[t].refunded - a
        /\ txn'[t].status = IF txn[t].refunded - a <= 0
                            THEN "captured" ELSE "partially_refunded"
        /\ \A u \in Txs \ {t} : txn'[u] = txn[u]
        /\ stale' = (stale \cup Readers(t)) \ {r}
    BY <1>1, <1>3, <2>1 DEF WriteRow, Release, IInv, TypeOK, Row
  <2> HIDE DEF row, a
  <2>3. /\ PcMatchesOp' /\ ResultsInLedger'
    BY <1>1, <1>3, <2>1, <2>2 DEF IInv, TypeOK, PcMatchesOp, ResultsInLedger
  <2>4. SnapshotsHold'
    BY <1>1, <1>3, <2>1, <2>2
    DEF IInv, TypeOK, SnapshotsHold, Readers, Waiting, Refundable
  <2>5. /\ OneCapture' /\ CaptureLeavesAuthorized'
    BY <1>1, <1>3, <2>1, <2>2
    DEF IInv, TypeOK, OneCapture, Captured, CaptureLeavesAuthorized,
        AfterCapture, Money
  <2>6. VoidHoldsLock'
    BY <1>1, <1>3, <2>1, <2>2, ConstantsAssumption
    DEF IInv, TypeOK, VoidHoldsLock, Money
  <2>7. VoidTracked'
    <3>1. \A q \in Reqs : arg[q].op = "void" => pc'[q] = pc[q]
      BY <1>1, <1>3 DEF IInv, TypeOK
    <3>2. \A u \in Txs : txn[u].status = "voided" => txn'[u].status = "voided"
      BY <2>1, <2>2
    <3> QED
      BY <1>1, <3>1, <3>2, VoidTrackedKept DEF TypeOK
  <2>8. RefundsOnMoney'
    BY <1>1, <1>3, <2>1, <2>2 DEF IInv, TypeOK, RefundsOnMoney, Money
  <2>9. MoneyIsSettled'
    BY <1>1, <1>3, <2>1, <2>2 DEF IInv, TypeOK, MoneyIsSettled, On, Money
  <2>10. StatusMatchesRefunded'
    BY <1>1, <1>3, <2>1, <2>2
    DEF IInv, TypeOK, StatusMatchesRefunded, Row, Money
  <2>11. RefundSteps'
    BY <1>1, <1>3, <2>1, <2>2 DEF IInv, TypeOK, RefundSteps, Ended, MaxRetries
  <2>12. WebhooksReportCommitted'
    BY <1>1, <1>3, <2>1, <2>2
    DEF IInv, TypeOK, WebhooksReportCommitted, MaxRetries
  <2> QED
    BY <2>3, <2>4, <2>5, <2>6, <2>7, <2>8, <2>9, <2>10, <2>11, <2>12 DEF IInv
<1>4. CASE ReleaseAllowed(txn[t], a) /\ o # "db_error"
  <2>1. /\ WriteRow(r, t, row)
        /\ released' = [released EXCEPT ![r] = released[r] + 1]
        /\ tries' = IF o = "ok" THEN tries
                    ELSE [tries EXCEPT ![r] = tries[r] + 1]
        /\ Goto(r, IF o = "ok" \/ tries[r] + 1 >= MaxRetries
                   THEN "refund_hook" ELSE "release")
    BY <1>4 DEF ReleaseRefundAmount
  <2>2. CASE o = "ok" \/ tries[r] + 1 >= MaxRetries
    BY <1>3, <1>4, <2>1, <2>2 DEF Goto
  <2>3. CASE ~(o = "ok" \/ tries[r] + 1 >= MaxRetries)
    <3>1. tries[r] + 1 < MaxRetries
      BY <1>1, <2>3 DEF MaxRetries
    <3> QED
      BY <1>3, <1>4, <2>1, <2>3, <3>1 DEF Goto
  <2> QED
    BY <2>2, <2>3
<1>5. CASE ~(ReleaseAllowed(txn[t], a) /\ o # "db_error")
  <2>1. /\ Rollback(r) /\ UNCHANGED released
        /\ tries' = [tries EXCEPT ![r] = tries[r] + 1]
        /\ Goto(r, IF tries[r] + 1 >= MaxRetries
                   THEN "refund_hook" ELSE "release")
    BY <1>5 DEF ReleaseRefundAmount
  <2>2. CASE tries[r] + 1 >= MaxRetries
    <3>1. tries[r] + 1 = MaxRetries
      BY <1>1, <2>2 DEF MaxRetries
    <3> QED
      BY <1>2, <2>1, <2>2, <3>1 DEF Goto
  <2>3. CASE ~(tries[r] + 1 >= MaxRetries)
    <3>1. tries[r] + 1 < MaxRetries
      BY <1>1, <2>3 DEF MaxRetries
    <3> QED
      BY <1>2, <2>1, <2>3, <3>1 DEF Goto
  <2> QED
    BY <2>2, <2>3
<1> QED
  BY <1>4, <1>5

\* Every step preserves the inductive invariant.
LEMMA IInvStep == IInv /\ [Next]_vars => IInv'
<1> SUFFICES ASSUME IInv, [Next]_vars PROVE IInv'
  OBVIOUS
<1>1. TypeOK'
  BY TypeStep DEF IInv
<1>2. ASSUME NEW r \in Reqs, Step(r) PROVE IInv'
  BY <1>1, <1>2, CaptureReadInv, RefundReadInv, VoidLockInv, CaptureUpdateInv,
     SettleUpdateInv, RefundUpdateInv, UpdateRefundStatusInv, ReleaseInv,
     VoidUpdateInv, BankInv, VoidBankInv, SendEventInv
  DEF Step
<1> QED
  BY <1>1, <1>2, AuthorizeInv, CrashInv, StutterInv DEF Next

\* The inductive invariant holds in every reachable state.
THEOREM Inductive == Spec => []IInv
<1>1. Init => IInv
  <2> SUFFICES ASSUME Init PROVE IInv
    OBVIOUS
  <2>1. TypeOK
    BY ConstantsAssumption DEF Init, TypeOK, Row, TxStatus, RefundStatus
  <2>2. /\ PcMatchesOp /\ SnapshotsHold /\ VoidHoldsLock /\ OneCapture
        /\ CaptureLeavesAuthorized /\ VoidTracked
    BY <2>1
    DEF Init, TypeOK, PcMatchesOp, SnapshotsHold, VoidHoldsLock, OneCapture,
        CaptureLeavesAuthorized, Captured, VoidTracked
  <2>3. /\ ResultsInLedger /\ RefundSteps /\ RefundsOnMoney /\ MoneyIsSettled
        /\ StatusMatchesRefunded /\ WebhooksReportCommitted
    BY <2>1
    DEF Init, TypeOK, ResultsInLedger, RefundSteps, RefundsOnMoney,
        MoneyIsSettled, Money, StatusMatchesRefunded, WebhooksReportCommitted
  <2> QED
    BY <2>1, <2>2, <2>3 DEF IInv
<1> QED
  BY <1>1, IInvStep, PTL DEF Spec

(***************************************************************************)
(* What follows from it                                                    *)
(***************************************************************************)

\* At most one Capture of a transaction asks the bank to settle: of two racing
\* captures, one finds its snapshot stale or the row no longer authorized.
THEOREM SettlesOnce == Spec => []SettledOnce
<1>1. IInv => SettledOnce
  BY DEF IInv, OneCapture, Captured, SettledOnce, On
<1> QED
  BY <1>1, Inductive, PTL

\* Void and Capture exclude each other at the bank unless a fault loses track
\* of the void: FOR UPDATE keeps captures out from Void's read to its commit.
THEOREM VoidExcludes == Spec => []VoidExcludesSettle
<1>1. IInv => VoidExcludesSettle
  <2> SUFFICES ASSUME IInv, NEW t \in Txs, NEW v \in On(t, "void"),
                      NEW c \in On(t, "capture"), v \in ledger,
                      result[c] # "none"
               PROVE  faults > 0 /\ pc[v] \in {"failed", "lost"}
    BY DEF VoidExcludesSettle
  <2>1. txn[t].status \in AfterCapture
    BY DEF IInv, CaptureLeavesAuthorized, Captured, On
  <2> QED
    BY <2>1
    DEF IInv, VoidTracked, VoidHoldsLock, On, AfterCapture, Money
<1> QED
  BY <1>1, Inductive, PTL

\* status and refunded_amount agree in every committed state.
THEOREM StatusMatches == Spec => []StatusMatchesRefunded
<1>1. IInv => StatusMatchesRefunded
  BY DEF IInv
<1> QED
  BY <1>1, Inductive, PTL

\* A refund reaches the bank only after a settlement the bank confirmed.
THEOREM RefundsFollow == Spec => []RefundsFollowSettlement
<1>1. IInv => RefundsFollowSettlement
  BY DEF IInv, RefundsFollowSettlement, RefundSteps, RefundsOnMoney,
         MoneyIsSettled, On, TypeOK
<1> QED
  BY <1>1, Inductive, PTL

\* Refund and void webhooks report committed outcomes.
THEOREM WebhooksHonest == Spec => []WebhooksReportCommitted
<1>1. IInv => WebhooksReportCommitted
  BY DEF IInv
<1> QED
  BY <1>1, Inductive, PTL

\* A change of a row's status is an arrow: what the writer read is still so
\* (snapshot or row lock), or the statement itself compares the status.
LEMMA ArrowStep ==
  ASSUME IInv, [Next]_vars, NEW t \in Txs, txn'[t] # txn[t]
  PROVE  <<txn[t].status, txn'[t].status>> \in Arrows \cup ReleaseArrows
<1> USE DEF IInv
<1>1. ASSUME NEW u \in Txs, NEW a \in TxAmounts, NEW ok \in BOOLEAN,
             Authorize(u, a, ok)
      PROVE  <<txn[t].status, txn'[t].status>> \in Arrows
  BY <1>1 DEF Authorize, Arrows, TypeOK
<1>2. ASSUME NEW r \in Reqs, Step(r)
      PROVE  <<txn[t].status, txn'[t].status>> \in Arrows \cup ReleaseArrows
  <2>1. CASE UNCHANGED txn
    BY <2>1
  <2>2. ASSUME NEW row, WriteRow(r, arg[r].tx, row)
        PROVE  t = arg[r].tx /\ txn'[t] = row
    BY <2>2 DEF WriteRow, TypeOK
  <2>3. txn[t] \in Row
    BY DEF TypeOK
  <2>4. ASSUME NEW o \in Outcomes, CaptureUpdate(r, o), ~UNCHANGED txn
        PROVE  <<txn[t].status, txn'[t].status>> \in Arrows
    <3>1. r \notin stale /\ pc[r] = "capture_update"
      BY <2>4 DEF CaptureUpdate, Rollback, SerializationFailure
    <3>2. t = arg[r].tx /\ txn'[t].status = "capture_pending"
      <4> DEFINE row == [txn[arg[r].tx] EXCEPT !.status = "capture_pending",
                                               !.key = arg[r].key]
      <4>1. WriteRow(r, arg[r].tx, row)
        BY <2>4 DEF CaptureUpdate, Rollback
      <4>2. t = arg[r].tx /\ txn'[t] = row
        BY <2>2, <4>1
      <4> QED
        BY <2>3, <4>2 DEF Row
    <3> QED
      BY <3>1, <3>2 DEF SnapshotsHold, Arrows
  <2>5. ASSUME NEW o \in Outcomes, SettleUpdate(r, o), ~UNCHANGED txn
        PROVE  <<txn[t].status, txn'[t].status>> \in Arrows
    <3>1. /\ t = arg[r].tx /\ txn[t].status = "capture_pending"
          /\ txn'[t].status \in {"captured", "capture_failed"}
      BY <2>2, <2>3, <2>5 DEF SettleUpdate, Rollback, NextStatus, Row
    <3> QED
      BY <3>1 DEF Arrows
  <2>6. ASSUME NEW o \in Outcomes, VoidUpdate(r, o), ~UNCHANGED txn
        PROVE  <<txn[t].status, txn'[t].status>> \in Arrows
    <3>1. t = arg[r].tx /\ txn'[t].status = "voided" /\ pc[r] = "void_update"
      BY <2>2, <2>3, <2>6 DEF VoidUpdate, Rollback, Row
    <3> QED
      BY <3>1 DEF VoidHoldsLock, Arrows
  <2>7. ASSUME NEW o \in Outcomes, RefundUpdate(r, o), ~UNCHANGED txn
        PROVE  <<txn[t].status, txn'[t].status>> \in Arrows
    <3>1. r \notin stale /\ pc[r] = "refund_update"
      BY <2>7 DEF RefundUpdate, Rollback, SerializationFailure
    <3>2. /\ t = arg[r].tx
          /\ txn'[t].status \in {"refunded", "partially_refunded"}
      <4> DEFINE row == Reserved(txn[arg[r].tx], seen[r], arg[r].amount)
      <4>1. WriteRow(r, arg[r].tx, row)
        BY <2>7 DEF RefundUpdate, Rollback
      <4>2. t = arg[r].tx /\ txn'[t] = row
        BY <2>2, <4>1
      <4> QED
        BY <2>3, <4>2 DEF Reserved, Row
    <3>3. txn[t].status \in {"captured", "partially_refunded"}
      BY <3>1, <3>2 DEF SnapshotsHold, Refundable
    <3> QED
      BY <3>2, <3>3 DEF Arrows
  <2>8. ASSUME NEW o \in Outcomes, ReleaseRefundAmount(r, o), ~UNCHANGED txn
        PROVE  <<txn[t].status, txn'[t].status>> \in ReleaseArrows
    <3>1. /\ t = arg[r].tx /\ arg[r].amount \in Nat \ {0}
          /\ txn[t].refunded - arg[r].amount >= 0
          /\ txn'[t].status \in {"captured", "partially_refunded"}
      <4> DEFINE row == Release(txn[arg[r].tx], arg[r].amount)
      <4>1. /\ WriteRow(r, arg[r].tx, row)
            /\ ReleaseAllowed(txn[arg[r].tx], arg[r].amount)
        BY <2>8 DEF ReleaseRefundAmount, Rollback
      <4>2. t = arg[r].tx /\ txn'[t] = row
        BY <2>2, <4>1
      <4> QED
        BY <2>3, <4>1, <4>2, ArgType DEF ReleaseAllowed, Release, Row
    <3>2. txn[t].refunded > 0
      BY <2>3, <3>1 DEF Row
    <3>3. txn[t].status \in {"partially_refunded", "refunded"}
      BY <3>2 DEF StatusMatchesRefunded
    <3> QED
      BY <3>1, <3>3 DEF ReleaseArrows
  <2>9. ASSUME NEW a \in BankAnswers,
               Settle(r, a) \/ BankRefund(r, a) \/ VoidBank(r, a)
        PROVE  UNCHANGED txn
    BY <2>9 DEF Settle, BankRefund, VoidBank, db
  <2>10. ASSUME NEW d \in BOOLEAN,
                SettleHook(r, d) \/ RefundHook(r, d) \/ VoidHook(r, d)
         PROVE  UNCHANGED txn
    BY <2>10 DEF SettleHook, RefundHook, VoidHook, SendEvent, db
  <2>11. ASSUME \/ CaptureRead(r) \/ RefundRead(r) \/ VoidLock(r)
                \/ \E o \in Outcomes : UpdateRefundStatus(r, o)
         PROVE  UNCHANGED txn
    BY <2>11 DEF CaptureRead, RefundRead, VoidLock, UpdateRefundStatus, db
  <2> QED
    BY <1>2, <2>1, <2>4, <2>5, <2>6, <2>7, <2>8, <2>9, <2>10, <2>11 DEF Step
<1> QED
  BY <1>1, <1>2 DEF Next, Crash, vars

\* Every committed change of a status is one of the documented transitions or a
\* release of a reservation; final statuses are final.
THEOREM ArrowsFollowed == Spec => StatusFollowsArrows
<1>1. IInv /\ [Next]_vars =>
        [\A t \in Txs : txn'[t] # txn[t] =>
           <<txn[t].status, txn'[t].status>> \in Arrows \cup ReleaseArrows]_txn
  BY ArrowStep
<1> QED
  BY <1>1, Inductive, PTL DEF Spec, StatusFollowsArrows

-----------------------------------------------------------------------------
(***************************************************************************)
(* Totals: refunded_amount is the sum of the reservations held, and the    *)
(* bank never confirms more refunds than the transaction is worth.  A      *)
(* total is the cardinality of a set of money units, so that the library's *)
(* facts about finite sets apply to it.                                    *)
(***************************************************************************)

\* A request of amount n stands for n units.
LEMMA UnitsOf ==
  ASSUME TypeOK, NEW r \in Reqs
  PROVE  /\ IsFiniteSet({r} \X (1..arg[r].amount))
         /\ Cardinality({r} \X (1..arg[r].amount)) = arg[r].amount
<1> DEFINE a == arg[r].amount
<1>1. a \in Nat \ {0}
  BY ArgType
<1> HIDE DEF a
<1>2. IsFiniteSet(1..a) /\ Cardinality(1..a) = a
  BY <1>1, FS_Interval
<1>3. IsFiniteSet({r}) /\ Cardinality({r}) = 1
  BY FS_Singleton
<1>4. /\ IsFiniteSet({r} \X (1..a))
      /\ Cardinality({r} \X (1..a)) = Cardinality({r}) * Cardinality(1..a)
  BY <1>2, <1>3, FS_Product
<1>5. Cardinality({r}) * Cardinality(1..a) = a
  BY <1>1, <1>2, <1>3
<1> QED
  BY <1>4, <1>5 DEF a

\* Requests ask for finitely many units.
LEMMA UnitsFinite ==
  ASSUME TypeOK, NEW S \in SUBSET Reqs
  PROVE  IsFiniteSet(Units(S)) /\ Total(S) \in Nat
<1> DEFINE U(r) == {r} \X (1..arg[r].amount)
           T == {U(r) : r \in S}
           f == [r \in S |-> U(r)]
<1>1. IsFiniteSet(S)
  BY FS_Subset, ConstantsAssumption
<1>2. f \in Surjection(S, T)
  BY DEF Surjection
<1>3. IsFiniteSet(T)
  BY <1>1, <1>2, FS_Surjection DEF ExistsSurjection
<1>4. \A u \in T : IsFiniteSet(u)
  BY UnitsOf
<1>5. IsFiniteSet(UNION T)
  BY <1>3, <1>4, FS_UNION
<1>6. IsFiniteSet(Units(S))
  BY <1>5 DEF Units
<1> QED
  BY <1>6, FS_CardinalityType DEF Total

\* One more request adds its amount.
LEMMA TotalAdd ==
  ASSUME TypeOK, NEW S \in SUBSET Reqs, NEW r \in Reqs \ S
  PROVE  Total(S \cup {r}) = Total(S) + arg[r].amount
<1> DEFINE U == {r} \X (1..arg[r].amount)
<1>1. Units(S \cup {r}) = Units(S) \cup U
  BY DEF Units
<1>2. Units(S) \cap U = {}
  BY DEF Units
<1>3. IsFiniteSet(Units(S)) /\ Total(S) \in Nat
  BY UnitsFinite
<1>4. IsFiniteSet(U) /\ Cardinality(U) = arg[r].amount
  BY UnitsOf
<1> HIDE DEF U
<1>5. Cardinality(Units(S) \cup U)
        = Cardinality(Units(S)) + Cardinality(U) - Cardinality(Units(S) \cap U)
  BY <1>3, <1>4, FS_Union
<1>6. Cardinality(Units(S) \cap U) = 0
  BY <1>2, FS_EmptySet
<1>7. arg[r].amount \in Nat
  BY ArgType
<1>8. /\ Total(S \cup {r}) = Cardinality(Units(S) \cup U)
      /\ Total(S) = Cardinality(Units(S))
  BY <1>1 DEF Total
<1> QED
  BY <1>3, <1>4, <1>5, <1>6, <1>7, <1>8

\* Fewer requests, no greater total.
LEMMA TotalMonotone ==
  ASSUME TypeOK, NEW S \in SUBSET Reqs, NEW T \in SUBSET S
  PROVE  Total(T) <= Total(S)
<1>1. Units(T) \subseteq Units(S)
  BY DEF Units
<1>2. IsFiniteSet(Units(S))
  BY UnitsFinite
<1> QED
  BY <1>1, <1>2, FS_Subset DEF Total

\* The same reservations held, the same total.
LEMMA HeldSame ==
  ASSUME UNCHANGED arg, NEW t, Held(t)' = Held(t)
  PROVE  Total(Held(t))' = Total(Held(t))
BY Zenon DEF Total, Units

\* Only a committed reservation and a release change refunded_amount or the set
\* of reservations held, and each changes both alike: the snapshot Refund added
\* to is current, and a first release finds its reservation held.
LEMMA AddUpStep ==
  ASSUME IInv, ReservationsAddUp, [Next]_vars
  PROVE  ReservationsAddUp'
<1> USE DEF IInv
<1>0. TypeOK' /\ IInv'
  BY TypeStep, IInvStep
<1>1. ASSUME UNCHANGED arg, \A q \in Reqs : released'[q] = released[q],
             \A q \in Reqs : refund'[q] # "none" <=> refund[q] # "none",
             \A u \in Txs : txn'[u].refunded = txn[u].refunded
      PROVE  ReservationsAddUp'
  <2>1. \A u \in Txs : Held(u)' = Held(u)
    BY <1>1 DEF Held, On
  <2>2. \A u \in Txs : Total(Held(u))' = Total(Held(u))
    BY <1>1, <2>1, HeldSame
  <2> QED
    BY <1>1, <2>2 DEF ReservationsAddUp, ReleasedOnce
<1>2. ASSUME NEW r \in Reqs, NEW o \in Outcomes, RefundUpdate(r, o)
      PROVE  ReservationsAddUp'
  <2> DEFINE t == arg[r].tx
  <2>1. CASE Rollback(r) /\ UNCHANGED refund
    BY <1>1, <1>2, <2>1 DEF RefundUpdate, Rollback
  <2>2. ASSUME r \notin stale,
               refund' = [refund EXCEPT ![r] = "refund_pending"],
               WriteRow(r, t, Reserved(txn[t], seen[r], arg[r].amount))
        PROVE  ReservationsAddUp'
    <3>1. /\ UNCHANGED <<arg, released>> /\ pc[r] = "refund_update"
          /\ arg[r].op = "refund" /\ t \in Txs /\ txn[t] \in Row
      BY <1>2, ArgType DEF RefundUpdate, PcMatchesOp
    <3>2. seen[r] = txn[t].refunded /\ refund[r] = "none" /\ released[r] = 0
      BY <2>2, <3>1 DEF SnapshotsHold, ResultsInLedger, RefundSteps, TypeOK
    <3>3. /\ txn'[t].refunded = txn[t].refunded + arg[r].amount
          /\ \A u \in Txs \ {t} : txn'[u] = txn[u]
      BY <2>2, <3>1, <3>2 DEF WriteRow, Reserved, TypeOK, Row
    <3>4. /\ r \notin Held(t) /\ Held(t)' = Held(t) \cup {r}
          /\ \A u \in Txs \ {t} : Held(u)' = Held(u)
      BY <2>2, <3>1, <3>2 DEF Held, On, TypeOK
    <3>5. Total(Held(t) \cup {r}) = Total(Held(t)) + arg[r].amount
      BY <3>4, TotalAdd DEF Held, On
    <3>6. Total(Held(t))' = Total(Held(t) \cup {r})
      BY <3>1, <3>4, Zenon DEF Total, Units
    <3>7. \A u \in Txs \ {t} : Total(Held(u))' = Total(Held(u))
      BY <3>1, <3>4, HeldSame
    <3> QED
      BY <3>1, <3>3, <3>5, <3>6, <3>7 DEF ReservationsAddUp, ReleasedOnce
  <2> QED
    BY <1>2, <2>1, <2>2 DEF RefundUpdate, SerializationFailure
<1>3. ASSUME NEW r \in Reqs, NEW o \in Outcomes, ReleaseRefundAmount(r, o)
      PROVE  ReservationsAddUp'
  <2> DEFINE t == arg[r].tx
  <2>1. CASE Rollback(r) /\ UNCHANGED released
    BY <1>1, <1>3, <2>1 DEF ReleaseRefundAmount, Rollback
  <2>2. ASSUME released' = [released EXCEPT ![r] = released[r] + 1],
               WriteRow(r, t, Release(txn[t], arg[r].amount)), ReleasedOnce'
        PROVE  \A u \in Txs : txn'[u].refunded = Total(Held(u))'
    <3>1. /\ UNCHANGED <<arg, refund>> /\ pc[r] = "release"
          /\ arg[r].op = "refund" /\ t \in Txs /\ txn[t] \in Row
          /\ refund[r] # "none" /\ arg[r].amount \in Nat
      BY <1>3, ArgType DEF ReleaseRefundAmount, PcMatchesOp, RefundSteps
    <3>2. released[r] = 0 /\ ReleasedOnce
      BY <2>2 DEF ReleasedOnce, TypeOK
    <3>3. /\ txn'[t].refunded = txn[t].refunded - arg[r].amount
          /\ \A u \in Txs \ {t} : txn'[u] = txn[u]
      BY <2>2, <3>1 DEF WriteRow, Release, TypeOK, Row
    <3>4. /\ r \in Held(t) /\ Held(t)' = Held(t) \ {r}
          /\ \A u \in Txs \ {t} : Held(u)' = Held(u)
      BY <2>2, <3>1, <3>2 DEF Held, On, TypeOK
    <3>5. Total((Held(t) \ {r}) \cup {r})
            = Total(Held(t) \ {r}) + arg[r].amount
      BY TotalAdd DEF Held, On
    <3>6. (Held(t) \ {r}) \cup {r} = Held(t)
      BY <3>4
    <3>7. Total(Held(t) \ {r}) \in Nat
      BY UnitsFinite DEF Held, On
    <3>8. Total(Held(t))' = Total(Held(t) \ {r})
      BY <3>1, <3>4, Zenon DEF Total, Units
    <3>9. \A u \in Txs \ {t} : Total(Held(u))' = Total(Held(u))
      BY <3>1, <3>4, HeldSame
    <3>10. \A u \in Txs : txn[u].refunded = Total(Held(u))
      BY <3>2 DEF ReservationsAddUp
    <3>11. Total(Held(t)) = Total(Held(t) \ {r}) + arg[r].amount
      BY <3>5, <3>6
    <3> QED
      BY <3>1, <3>3, <3>7, <3>8, <3>9, <3>10, <3>11
  <2> QED
    BY <1>3, <2>1, <2>2 DEF ReleaseRefundAmount, ReservationsAddUp
<1>4. ASSUME NEW t \in Txs, NEW a \in TxAmounts, NEW ok \in BOOLEAN,
             Authorize(t, a, ok)
      PROVE  ReservationsAddUp'
  <2>1. txn[t].refunded = 0
    BY <1>4 DEF Authorize, StatusMatchesRefunded
  <2> QED
    BY <1>1, <1>4, <2>1 DEF Authorize, TypeOK
<1>5. ASSUME NEW r \in Reqs, Step(r) PROVE ReservationsAddUp'
  <2> DEFINE t == arg[r].tx
  <2>0. t \in Txs /\ txn[t] \in Row
    BY ArgType
  <2>1. ASSUME NEW s \in TxStatus, WriteRow(r, t, [txn[t] EXCEPT !.status = s])
        PROVE  \A u \in Txs : txn'[u].refunded = txn[u].refunded
    BY <2>0, <2>1 DEF WriteRow, TypeOK, Row
  <2>2. ASSUME NEW o \in Outcomes, CaptureUpdate(r, o)
        PROVE  ReservationsAddUp'
    <3>1. CASE Rollback(r)
      BY <1>1, <2>2, <3>1 DEF CaptureUpdate, Rollback
    <3>2. CASE WriteRow(r, t, [txn[t] EXCEPT !.status = "capture_pending",
                                             !.key = arg[r].key])
      <4>1. \A u \in Txs : txn'[u].refunded = txn[u].refunded
        BY <2>0, <3>2 DEF WriteRow, TypeOK, Row
      <4> QED
        BY <1>1, <2>2, <4>1 DEF CaptureUpdate
    <3> QED
      BY <2>2, <3>1, <3>2 DEF CaptureUpdate
  <2>3. ASSUME NEW o \in Outcomes, SettleUpdate(r, o) \/ VoidUpdate(r, o)
        PROVE  ReservationsAddUp'
    <3>1. CASE Rollback(r)
      BY <1>1, <2>3, <3>1 DEF SettleUpdate, VoidUpdate, Rollback
    <3>2. ASSUME NEW s \in TxStatus,
                 WriteRow(r, t, [txn[t] EXCEPT !.status = s])
          PROVE  ReservationsAddUp'
      BY <1>1, <2>1, <2>3, <3>2 DEF SettleUpdate, VoidUpdate
    <3>3. NextStatus(result[r]) \in TxStatus /\ "voided" \in TxStatus
      BY DEF NextStatus, TxStatus
    <3> QED
      BY <2>3, <3>1, <3>2, <3>3 DEF SettleUpdate, VoidUpdate
  <2>4. ASSUME NEW o \in Outcomes, UpdateRefundStatus(r, o)
        PROVE  ReservationsAddUp'
    <3>1. refund[r] # "none"
      BY <2>4 DEF UpdateRefundStatus, RefundSteps
    <3> QED
      BY <1>1, <2>4, <3>1 DEF UpdateRefundStatus, TypeOK
  <2>5. CASE UNCHANGED <<txn, refund, arg, released>>
    BY <1>1, <2>5
  <2>6. ASSUME NEW a \in BankAnswers,
               Settle(r, a) \/ BankRefund(r, a) \/ VoidBank(r, a)
        PROVE  ReservationsAddUp'
    BY <2>5, <2>6 DEF Settle, BankRefund, VoidBank, db
  <2>7. ASSUME NEW d \in BOOLEAN,
               SettleHook(r, d) \/ RefundHook(r, d) \/ VoidHook(r, d)
        PROVE  ReservationsAddUp'
    BY <2>5, <2>7 DEF SettleHook, RefundHook, VoidHook, SendEvent, db
  <2>8. CASE CaptureRead(r) \/ RefundRead(r) \/ VoidLock(r)
    BY <2>5, <2>8 DEF CaptureRead, RefundRead, VoidLock, db
  <2> QED
    BY <1>2, <1>3, <1>5, <2>2, <2>3, <2>4, <2>6, <2>7, <2>8 DEF Step
<1>6. CASE Crash \/ UNCHANGED vars
  BY <1>1, <1>6 DEF Crash, vars
<1> QED
  BY <1>4, <1>5, <1>6 DEF Next

\* refunded_amount is the total of the reservations held, as long as no release
\* was applied twice (see ReleaseSafeToRetry for what happens then).
THEOREM ReservationsAlwaysAddUp == Spec => []ReservationsAddUp
<1>1. Init => ReservationsAddUp
  <2> SUFFICES ASSUME Init, NEW t \in Txs
               PROVE  txn[t].refunded = Total(Held(t))
    BY DEF ReservationsAddUp
  <2>1. txn[t].refunded = 0 /\ Held(t) = {}
    BY DEF Init, Held, On
  <2>2. Units({}) = {}
    BY DEF Units
  <2> QED
    BY <2>1, <2>2, FS_EmptySet DEF Total
<1> QED
  BY <1>1, AddUpStep, Inductive, PTL DEF Spec

\* The bank never confirms refunds for more than the amount: confirmed refunds
\* hold their reservation, and reservations stay within the amount.
THEOREM NeverOverRefunded == Spec => []RefundsWithinAmount
<1>1. IInv /\ ReservationsAddUp => RefundsWithinAmount
  <2> SUFFICES ASSUME IInv, ReservationsAddUp, ReleasedOnce, NEW t \in Txs
               PROVE  Total(Confirmed(t)) <= txn[t].amount
    BY DEF RefundsWithinAmount
  <2>1. Confirmed(t) \subseteq Held(t) /\ Held(t) \subseteq Reqs
    BY DEF Confirmed, Held, On, IInv, RefundSteps, TypeOK
  <2>2. Total(Confirmed(t)) <= Total(Held(t))
    BY <2>1, TotalMonotone DEF IInv
  <2>3. Total(Held(t)) = txn[t].refunded
    BY DEF ReservationsAddUp
  <2>4. txn[t].refunded <= txn[t].amount
    BY DEF IInv, StatusMatchesRefunded, TypeOK, Row
  <2>5. /\ Total(Held(t)) \in Nat /\ Total(Confirmed(t)) \in Nat
        /\ txn[t].amount \in Nat
    BY <2>1, UnitsFinite DEF IInv, TypeOK, Row
  <2> QED
    BY <2>2, <2>3, <2>4, <2>5
<1> QED
  BY <1>1, Inductive, ReservationsAlwaysAddUp, PTL


-----------------------------------------------------------------------------
(***************************************************************************)
(* The refinement of CardAccount: the initial state is an empty account,   *)
(* and every step is one atomic change of one account or leaves them all   *)
(* alone.  What a request relies on between its read and its write comes   *)
(* from IInv.                                                              *)
(***************************************************************************)

\* The accounts that the rows stand for.
Accounts == [t \in Txs |-> AccountOf(txn[t])]

LEMMA AccountsType ==
  ASSUME TypeOK
  PROVE  Accounts \in [Txs -> [status : TxStatus, amount : Nat, refunded : Nat]]
BY DEF TypeOK, Row, Accounts, AccountOf

\* A committed write of a row is a write of its account.
LEMMA AccountWritten ==
  ASSUME TypeOK, NEW r \in Reqs, NEW t \in Txs, NEW row, WriteRow(r, t, row)
  PROVE  Accounts' = [Accounts EXCEPT ![t] = AccountOf(row)]
BY DEF TypeOK, WriteRow, Accounts

\* A write that changes only the status, and perhaps the key, is a Move.
LEMMA MoveStep ==
  ASSUME TypeOK, NEW r \in Reqs, NEW t \in Txs, NEW row, WriteRow(r, t, row),
         row.amount = txn[t].amount, row.refunded = txn[t].refunded
  PROVE  Account!Move(t, txn[t].status, row.status)
<1>1. Accounts[t] = AccountOf(txn[t])
  BY DEF Accounts
<1>2. Accounts' = [Accounts EXCEPT ![t] = AccountOf(row)]
  BY AccountWritten
<1>3. [Accounts EXCEPT ![t].status = row.status] =
        [Accounts EXCEPT ![t] =
           [status |-> row.status, amount |-> Accounts[t].amount,
            refunded |-> Accounts[t].refunded]]
  <2>1. [Accounts[t] EXCEPT !.status = row.status] =
          [status |-> row.status, amount |-> Accounts[t].amount,
           refunded |-> Accounts[t].refunded]
    BY AccountsType
  <2> QED
    BY <2>1, AccountsType
<1>4. Accounts' = [Accounts EXCEPT ![t].status = row.status]
  BY <1>1, <1>2, <1>3 DEF AccountOf
<1> QED
  BY <1>4 DEF Account!Move, Accounts, AccountOf

\* A write of the total and of the status that goes with it.
LEMMA SetRefundedStep ==
  ASSUME TypeOK, NEW r \in Reqs, NEW t \in Txs, NEW row, WriteRow(r, t, row),
         row.amount = txn[t].amount, NEW n, n = row.refunded,
         row.status = CASE row.refunded <= 0 -> "captured"
                        [] row.refunded >= txn[t].amount -> "refunded"
                        [] OTHER -> "partially_refunded"
  PROVE  Account!SetRefunded(t, n)
<1>1. Accounts[t] = AccountOf(txn[t])
  BY DEF Accounts
<1>2. Accounts' = [Accounts EXCEPT ![t] = AccountOf(row)]
  BY AccountWritten
<1>3. [Accounts EXCEPT ![t].refunded = row.refunded, ![t].status = row.status] =
        [Accounts EXCEPT ![t] =
           [status |-> row.status, amount |-> Accounts[t].amount,
            refunded |-> row.refunded]]
  <2> DEFINE g == [Accounts EXCEPT ![t] =
                     [Accounts[t] EXCEPT !.refunded = row.refunded]]
             h == [g EXCEPT ![t] = [g[t] EXCEPT !.status = row.status]]
  <2>1. [Accounts[t] EXCEPT !.refunded = row.refunded] =
          [status |-> Accounts[t].status, amount |-> Accounts[t].amount,
           refunded |-> row.refunded]
    BY AccountsType
  <2>2. g[t] = [status |-> Accounts[t].status, amount |-> Accounts[t].amount,
                refunded |-> row.refunded]
    BY <2>1, AccountsType
  <2>3. [g[t] EXCEPT !.status = row.status] =
          [status |-> row.status, amount |-> Accounts[t].amount,
           refunded |-> row.refunded]
    <3> HIDE DEF g
    <3>1. [[status |-> Accounts[t].status, amount |-> Accounts[t].amount,
            refunded |-> row.refunded] EXCEPT !.status = row.status] =
            [status |-> row.status, amount |-> Accounts[t].amount,
             refunded |-> row.refunded]
      OBVIOUS
    <3> QED
      BY <2>2, <3>1
  <2>4. h = [Accounts EXCEPT ![t] =
               [status |-> row.status, amount |-> Accounts[t].amount,
                refunded |-> row.refunded]]
    BY <2>3, AccountsType
  <2>5. [Accounts EXCEPT ![t].refunded = row.refunded,
                         ![t].status = row.status] = h
    BY AccountsType
  <2> QED
    BY <2>4, <2>5
<1>4. Accounts' = [Accounts EXCEPT ![t].refunded = row.refunded,
                                   ![t].status = row.status]
  BY <1>1, <1>2, <1>3 DEF AccountOf
<1> QED
  BY <1>4 DEF Account!SetRefunded, Accounts, AccountOf

LEMMA AuthorizeImplements ==
  ASSUME IInv, NEW t \in Txs, NEW a \in TxAmounts, NEW ok \in BOOLEAN,
         Authorize(t, a, ok)
  PROVE  Account!Next
<1> DEFINE s == IF ok THEN "authorized" ELSE "declined"
<1>1. Accounts' = [Accounts EXCEPT ![t] =
                     [status |-> s, amount |-> a, refunded |-> 0]]
  BY DEF Authorize, IInv, TypeOK, Accounts, AccountOf
<1>2. Accounts[t].status = "none"
  BY DEF Authorize, Accounts, AccountOf
<1>3. Account!Open(t, a, s)
  BY <1>1, <1>2 DEF Account!Open, Accounts
<1> QED
  BY <1>3 DEF Account!Next

LEMMA CaptureImplements ==
  ASSUME IInv, NEW r \in Reqs, NEW o \in Outcomes, CaptureUpdate(r, o),
         ~UNCHANGED txn
  PROVE  Account!Next
<1> DEFINE t == arg[r].tx
           row == [txn[t] EXCEPT !.status = "capture_pending",
                                 !.key = arg[r].key]
<1>1. t \in Txs /\ txn[t] \in Row /\ TypeOK
  BY ArgType DEF IInv
<1>2. r \notin stale /\ pc[r] = "capture_update" /\ WriteRow(r, t, row)
  BY DEF CaptureUpdate, Rollback, SerializationFailure
<1>3. txn[t].status = "authorized"
  BY <1>2 DEF IInv, SnapshotsHold
<1>4. /\ row.amount = txn[t].amount /\ row.refunded = txn[t].refunded
      /\ row.status = "capture_pending"
  BY <1>1 DEF Row
<1> HIDE DEF row
<1>5. Account!Move(t, txn[t].status, row.status)
  BY <1>1, <1>2, <1>4, MoveStep
<1>6. Account!StartCapture(t)
  BY <1>3, <1>4, <1>5 DEF Account!StartCapture
<1> QED
  BY <1>1, <1>6 DEF Account!Next

LEMMA SettleImplements ==
  ASSUME IInv, NEW r \in Reqs, NEW o \in Outcomes, SettleUpdate(r, o),
         ~UNCHANGED txn
  PROVE  Account!Next
<1> DEFINE t == arg[r].tx
           row == [txn[t] EXCEPT !.status = NextStatus(result[r])]
           ok == result[r] = "ok"
<1>1. t \in Txs /\ txn[t] \in Row /\ TypeOK
  BY ArgType DEF IInv
<1>2. txn[t].status = "capture_pending" /\ WriteRow(r, t, row)
  BY DEF SettleUpdate, Rollback
<1>3. /\ row.amount = txn[t].amount /\ row.refunded = txn[t].refunded
      /\ row.status = IF ok THEN "captured" ELSE "capture_failed"
  BY <1>1 DEF Row, NextStatus
<1> HIDE DEF row
<1>4. Account!Move(t, txn[t].status, row.status)
  BY <1>1, <1>2, <1>3, MoveStep
<1>5. Account!FinishCapture(t, ok) /\ ok \in BOOLEAN
  BY <1>2, <1>3, <1>4 DEF Account!FinishCapture
<1> HIDE DEF ok
<1> QED
  BY <1>1, <1>5 DEF Account!Next

LEMMA VoidImplements ==
  ASSUME IInv, NEW r \in Reqs, NEW o \in Outcomes, VoidUpdate(r, o),
         ~UNCHANGED txn
  PROVE  Account!Next
<1> DEFINE t == arg[r].tx
           row == [txn[t] EXCEPT !.status = "voided"]
<1>1. t \in Txs /\ txn[t] \in Row /\ TypeOK
  BY ArgType DEF IInv
<1>2. pc[r] = "void_update" /\ WriteRow(r, t, row)
  BY DEF VoidUpdate, Rollback
<1>3. txn[t].status = "authorized"
  BY <1>2 DEF IInv, VoidHoldsLock
<1>4. /\ row.amount = txn[t].amount /\ row.refunded = txn[t].refunded
      /\ row.status = "voided"
  BY <1>1 DEF Row
<1> HIDE DEF row
<1>5. Account!Move(t, txn[t].status, row.status)
  BY <1>1, <1>2, <1>4, MoveStep
<1>6. Account!Void(t)
  BY <1>3, <1>4, <1>5 DEF Account!Void
<1> QED
  BY <1>1, <1>6 DEF Account!Next

\* The total a refund writes was computed from its read; since the snapshot
\* holds, it is what is refunded now plus the amount.
LEMMA RefundImplements ==
  ASSUME IInv, NEW r \in Reqs, NEW o \in Outcomes, RefundUpdate(r, o),
         ~UNCHANGED txn
  PROVE  Account!Next
<1> DEFINE t == arg[r].tx
           a == arg[r].amount
           row == Reserved(txn[t], seen[r], a)
<1>1. /\ t \in Txs /\ txn[t] \in Row /\ TypeOK /\ a \in Nat \ {0}
      /\ txn[t].refunded \in Nat /\ txn[t].amount \in Nat
  BY ArgType DEF IInv, Row
<1>2. r \notin stale /\ pc[r] = "refund_update" /\ WriteRow(r, t, row)
  BY DEF RefundUpdate, Rollback, SerializationFailure
<1>3. /\ txn[t].status \in {"captured", "partially_refunded"}
      /\ a <= txn[t].amount - txn[t].refunded
      /\ seen[r] = txn[t].refunded
  BY <1>2 DEF IInv, SnapshotsHold, Refundable
<1>4. /\ row.amount = txn[t].amount /\ row.refunded = txn[t].refunded + a
      /\ row.status = IF txn[t].refunded + a >= txn[t].amount
                      THEN "refunded" ELSE "partially_refunded"
  BY <1>1, <1>3 DEF Row, Reserved
<1> HIDE DEF row
<1>5. row.status = CASE row.refunded <= 0 -> "captured"
                     [] row.refunded >= txn[t].amount -> "refunded"
                     [] OTHER -> "partially_refunded"
  BY <1>1, <1>4
<1>6. Account!SetRefunded(t, [u \in Txs |-> AccountOf(txn[u])][t].refunded + a)
  <2>1. [u \in Txs |-> AccountOf(txn[u])][t].refunded + a = row.refunded
    BY <1>1, <1>4 DEF AccountOf
  <2> QED
    BY <1>1, <1>2, <1>4, <1>5, <2>1, SetRefundedStep
<1>7. a \in Account!Refundable(t)
  BY <1>1, <1>3 DEF Account!Refundable, AccountOf
<1>8. Account!Refund(t, a)
  BY <1>6, <1>7 DEF Account!Refund
<1> HIDE DEF a
<1> QED
  BY <1>1, <1>7, <1>8 DEF Account!Next

\* A release subtracts in place.  It never leaves the full amount reserved, so
\* the status it writes is the one that goes with the total.
LEMMA ReleaseImplements ==
  ASSUME IInv, NEW r \in Reqs, NEW o \in Outcomes, ReleaseRefundAmount(r, o),
         ~UNCHANGED txn
  PROVE  Account!Next
<1> DEFINE t == arg[r].tx
           a == arg[r].amount
           row == Release(txn[t], a)
<1>1. /\ t \in Txs /\ txn[t] \in Row /\ TypeOK /\ a \in Nat \ {0}
      /\ txn[t].refunded \in Nat /\ txn[t].amount \in Nat
  BY ArgType DEF IInv, Row
<1>2. WriteRow(r, t, row) /\ txn[t].refunded - a >= 0
  BY DEF ReleaseRefundAmount, Rollback, ReleaseAllowed
<1>3. txn[t].refunded <= txn[t].amount
  BY <1>1, <1>2 DEF IInv, StatusMatchesRefunded
<1>4. /\ row.amount = txn[t].amount /\ row.refunded = txn[t].refunded - a
      /\ row.status = IF txn[t].refunded - a <= 0
                      THEN "captured" ELSE "partially_refunded"
  BY <1>1 DEF Row, Release
<1> HIDE DEF row
<1>5. row.status = CASE row.refunded <= 0 -> "captured"
                     [] row.refunded >= txn[t].amount -> "refunded"
                     [] OTHER -> "partially_refunded"
  BY <1>1, <1>3, <1>4
<1>6. Account!SetRefunded(t, [u \in Txs |-> AccountOf(txn[u])][t].refunded - a)
  <2>1. [u \in Txs |-> AccountOf(txn[u])][t].refunded - a = row.refunded
    BY <1>1, <1>4 DEF AccountOf
  <2> QED
    BY <1>1, <1>2, <1>4, <1>5, <2>1, SetRefundedStep
<1>7. a \in 1..[u \in Txs |-> AccountOf(txn[u])][t].refunded
  BY <1>1, <1>2 DEF AccountOf
<1>8. Account!GiveBack(t, a)
  BY <1>6, <1>7 DEF Account!GiveBack
<1> HIDE DEF a
<1> QED
  BY <1>1, <1>7, <1>8 DEF Account!Next

\* Every step maps to a step of CardAccount or to a stutter.
LEMMA StepImplements ==
  ASSUME IInv, [Next]_vars
  PROVE  [Account!Next]_Accounts
<1>1. CASE UNCHANGED txn
  BY <1>1 DEF Accounts
<1>2. ASSUME NEW t \in Txs, NEW a \in TxAmounts, NEW ok \in BOOLEAN,
             Authorize(t, a, ok)
      PROVE  Account!Next
  BY <1>2, AuthorizeImplements
<1>3. ASSUME NEW r \in Reqs, Step(r), ~UNCHANGED txn
      PROVE  Account!Next
  <2>1. ASSUME NEW b \in BankAnswers,
               Settle(r, b) \/ BankRefund(r, b) \/ VoidBank(r, b)
        PROVE  FALSE
    BY <1>3, <2>1 DEF Settle, BankRefund, VoidBank, db
  <2>2. ASSUME NEW d \in BOOLEAN,
               SettleHook(r, d) \/ RefundHook(r, d) \/ VoidHook(r, d)
        PROVE  FALSE
    BY <1>3, <2>2 DEF SettleHook, RefundHook, VoidHook, SendEvent, db
  <2>3. ASSUME \/ CaptureRead(r) \/ RefundRead(r) \/ VoidLock(r)
               \/ \E o \in Outcomes : UpdateRefundStatus(r, o)
        PROVE  FALSE
    BY <1>3, <2>3 DEF CaptureRead, RefundRead, VoidLock, UpdateRefundStatus, db
  <2> QED
    BY <1>3, <2>1, <2>2, <2>3, CaptureImplements, SettleImplements,
       RefundImplements, ReleaseImplements, VoidImplements
    DEF Step
<1> QED
  BY <1>1, <1>2, <1>3 DEF Next, Crash, vars

LEMMA InitImplements == Init => Account!Init
BY DEF Init, Account!Init, Account!NoAccount, AccountOf

\* SilvergateTx implements CardAccount: snapshots, row locks, compare-and-update
\* and retries together behave like atomic changes of an account, each computed
\* from the account's current value.
THEOREM Implements == Spec => ImplementsCardAccount
<1>1. IInv /\ [Next]_vars => [Account!Next]_Accounts
  BY StepImplements
<1> QED
  BY <1>1, InitImplements, Inductive, PTL
  DEF Spec, ImplementsCardAccount, Account!Spec, Accounts
=============================================================================
