---------------------------- MODULE SilvergateTx ----------------------------
(***************************************************************************)
(* The card-transaction service of Silvergate, the payment provider:       *)
(* services/silvergate/internal/transaction.  Its four operations work on  *)
(* one PostgreSQL row per transaction and one row per refund:              *)
(*                                                                         *)
(*   Authorize   creates the row, authorized or declined;                  *)
(*   Capture     authorized -> capture_pending in a RepeatableRead         *)
(*               transaction, then a goroutine (settleAsync) asks the bank *)
(*               to settle and records captured or capture_failed;         *)
(*   Refund      reserves the amount in a RepeatableRead transaction, then *)
(*               a goroutine (refundAsync) asks the bank, records the      *)
(*               result and releases the reservation if the bank refused;  *)
(*   Void        authorized -> voided under SELECT ... FOR UPDATE, calling *)
(*               the bank while the row is locked.                         *)
(*                                                                         *)
(* Every request is one process.  It runs the handler and then the         *)
(* goroutine the handler starts; pc says which statement comes next.  The  *)
(* steps are the database statements and the calls to the bank, because    *)
(* these are the points where two requests interleave or a failure strikes.*)
(*                                                                         *)
(* An UPDATE and the COMMIT that follows it are one step.  Nothing can     *)
(* happen to the row between the two: the UPDATE holds the row lock and    *)
(* other sessions do not see it before COMMIT.                             *)
(*                                                                         *)
(* All transactions of the model belong to one merchant: the idempotency   *)
(* index is per merchant, so those of other merchants never interact.      *)
(***************************************************************************)
EXTENDS Integers, FiniteSets

CONSTANTS
  Txs,         \* transaction ids
  Reqs,        \* requests, each sent to the service at most once
  Keys,        \* idempotency keys
  TxAmounts,   \* amounts a transaction may be authorized for
  Args,        \* what a request may ask: [op, tx, amount, key]
  FaultKinds,  \* the faults the environment may inject
  MaxFaults,   \* how many of them (a bound of the model, not of the code)
  NoReq,       \* the holder of a free row lock
  NoKey        \* a NULL idempotency_key

Ops == {"capture", "refund", "void"}

AllFaults == {"db_error", "lost_ack", "acq_unknown", "crash"}

ASSUME ConstantsAssumption ==
  /\ IsFiniteSet(Reqs)
  /\ TxAmounts \subseteq Nat \ {0}
  /\ Args \subseteq [op : Ops, tx : Txs, amount : Nat \ {0}, key : Keys]
  /\ FaultKinds \subseteq AllFaults
  /\ MaxFaults \in Nat
  /\ NoReq \notin Reqs
  /\ NoKey \notin Keys

VARIABLES
  txn,       \* table transactions; status "none" where there is no row yet
  refund,    \* table refunds: the status of the row request r created
  lock,      \* who holds the row lock of a transaction across a bank call
  stale,     \* requests whose RepeatableRead snapshot missed a committed write
  pc,        \* the next step of each request
  arg,       \* what each request asks
  seen,      \* refunded_amount as the request read it
  result,    \* what the bank answered the request
  tries,     \* failed attempts to release a refund reservation
  released,  \* how often the reservation of a refund was given back
  ledger,    \* the bank's books: requests whose operation took effect there
  hook,      \* the webhook event the request delivered
  faults     \* faults injected so far

db == <<txn, refund, lock, stale>>
vars == <<txn, refund, lock, stale, pc, arg, seen, result, tries, released,
          ledger, hook, faults>>

TxStatus == {"none", "authorized", "declined", "capture_pending", "captured",
             "capture_failed", "voided", "partially_refunded", "refunded"}

RefundStatus == {"none", "refund_pending", "refunded", "refund_failed"}

Waiting == {"capture_update", "refund_update"}

Running == Waiting \cup
  {"settle", "settle_update", "settle_hook",
   "bank_refund", "refund_status", "release", "refund_hook",
   "void_bank", "void_update", "void_hook"}

\* A request ends in "done", in "failed" (an error was returned to the client)
\* or in "lost" (the service stopped while it was running).
Ended == {"failed", "done", "lost"}

Row == [status : TxStatus, amount : Nat, refunded : Nat,
        key : Keys \cup {NoKey}]

TypeOK ==
  /\ txn \in [Txs -> Row]
  /\ refund \in [Reqs -> RefundStatus]
  /\ lock \in [Txs -> Reqs \cup {NoReq}]
  /\ stale \in SUBSET Reqs
  /\ pc \in [Reqs -> {"idle"} \cup Running \cup Ended]
  /\ arg \in [Reqs -> Args]
  /\ seen \in [Reqs -> Nat]
  /\ result \in [Reqs -> {"none", "ok", "no"}]
  /\ tries \in [Reqs -> Nat]
  /\ released \in [Reqs -> Nat]
  /\ ledger \in SUBSET Reqs
  /\ hook \in [Reqs -> TxStatus \cup RefundStatus]
  /\ faults \in Nat

Init ==
  /\ txn = [t \in Txs |->
              [status |-> "none", amount |-> 0, refunded |-> 0, key |-> NoKey]]
  /\ refund = [r \in Reqs |-> "none"]
  /\ lock = [t \in Txs |-> NoReq]
  /\ stale = {}
  /\ pc = [r \in Reqs |-> "idle"]
  /\ arg \in [Reqs -> Args]
  /\ seen = [r \in Reqs |-> 0]
  /\ result = [r \in Reqs |-> "none"]
  /\ tries = [r \in Reqs |-> 0]
  /\ released = [r \in Reqs |-> 0]
  /\ ledger = {}
  /\ hook = [r \in Reqs |-> "none"]
  /\ faults = 0

(***************************************************************************)
(* The environment: failing statements and an unreliable bank              *)
(***************************************************************************)

\* How a statement that writes may end: "ok"; "db_error", nothing was written
\* and the caller sees an error; "lost_ack", it was committed but the caller
\* sees an error (a connection lost while COMMIT was under way, a cancelled
\* context).
Outcomes ==
  {"ok"} \cup
  (IF faults < MaxFaults THEN FaultKinds \cap {"db_error", "lost_ack"} ELSE {})

Count(o) == faults' = IF o = "ok" THEN faults ELSE faults + 1

\* The bank accepts (it takes effect and the caller is told so) or refuses.
\* An error return is a refusal to the caller; after "acq_unknown" the
\* operation nevertheless took effect at the bank.
BankAnswers ==
  {"ok", "no"} \cup
  (IF faults < MaxFaults THEN FaultKinds \cap {"acq_unknown"} ELSE {})

BankCall(r, a) ==
  /\ result' = [result EXCEPT ![r] = IF a = "ok" THEN "ok" ELSE "no"]
  /\ ledger' = IF a = "no" THEN ledger ELSE ledger \cup {r}
  /\ faults' = IF a = "acq_unknown" THEN faults + 1 ELSE faults

(***************************************************************************)
(* PostgreSQL                                                              *)
(***************************************************************************)

\* Requests with an open RepeatableRead snapshot of transaction t.
Readers(t) == {r \in Reqs : pc[r] \in Waiting /\ arg[r].tx = t}

\* Request r commits a new version of row t.
WriteRow(r, t, row) ==
  /\ txn' = [txn EXCEPT ![t] = row]
  /\ stale' = (stale \cup Readers(t)) \ {r}

\* Faulty variant: under ReadCommitted the UPDATE would go through.
NoSerializationFailure(r) == FALSE

\* RepeatableRead: the UPDATE of a row that changed after the snapshot was taken
\* fails (SQLSTATE 40001).
SerializationFailure(r) == r \in stale

\* Request r rolls its transaction back.
Rollback(r) == stale' = stale \ {r} /\ UNCHANGED txn

Goto(r, label) == pc' = [pc EXCEPT ![r] = label]

\* idx_transactions_idempotency: the key belongs to another transaction.
CaptureKeyTaken(t, k) == \E u \in Txs \ {t} : txn[u].key = k

\* idx_refunds_idempotency: another refund of the transaction has the key.
RefundKeyTaken(r) ==
  \E q \in Reqs \ {r} :
    /\ refund[q] # "none"
    /\ arg[q].tx = arg[r].tx
    /\ arg[q].key = arg[r].key

(***************************************************************************)
(* Authorize: the bank is asked first, then the row is created.  A failing *)
(* bank call or INSERT leaves nothing behind.                              *)
(***************************************************************************)
Authorize(t, a, approved) ==
  /\ txn[t].status = "none"
  /\ txn' = [txn EXCEPT ![t] =
               [status |-> IF approved THEN "authorized" ELSE "declined",
                amount |-> a, refunded |-> 0, key |-> NoKey]]
  /\ UNCHANGED <<refund, lock, stale, pc, arg, seen, result, tries, released,
                 ledger, hook, faults>>

(***************************************************************************)
(* Capture and settleAsync                                                 *)
(***************************************************************************)

\* Faulty variant: a failed capture may be tried again.
MarkFailedCapturePending(status) == status \in {"authorized", "capture_failed"}

\* MarkCapturePending succeeds.
MarkCapturePending(status) == status = "authorized"

\* SELECT in a RepeatableRead transaction and MarkCapturePending; a missing row
\* and another status are errors.
CaptureRead(r) ==
  /\ pc[r] = "idle"
  /\ arg[r].op = "capture"
  /\ Goto(r, IF MarkCapturePending(txn[arg[r].tx].status)
             THEN "capture_update" ELSE "failed")
  /\ UNCHANGED <<db, arg, seen, result, tries, released, ledger, hook, faults>>

\* UPDATE status, idempotency_key and COMMIT.  The UPDATE waits for the row
\* lock, fails if the row changed after the snapshot and on the unique index;
\* only after a confirmed COMMIT is settleAsync started.
CaptureUpdate(r, o) ==
  LET t == arg[r].tx
      conflict == SerializationFailure(r) \/ CaptureKeyTaken(t, arg[r].key)
      row == [txn[t] EXCEPT !.status = "capture_pending", !.key = arg[r].key]
  IN /\ pc[r] = "capture_update"
     /\ lock[t] = NoReq
     /\ IF conflict \/ o = "db_error" THEN Rollback(r) ELSE WriteRow(r, t, row)
     /\ Goto(r, IF conflict \/ o # "ok" THEN "failed" ELSE "settle")
     /\ Count(o)
     /\ UNCHANGED <<refund, lock, arg, seen, result, tries, released, ledger,
                    hook>>

\* settleAsync: the bank's Settle.  An error counts as a rejection.
Settle(r, a) ==
  /\ pc[r] = "settle"
  /\ BankCall(r, a)
  /\ Goto(r, "settle_update")
  /\ UNCHANGED <<db, arg, seen, tries, released, hook>>

\* Faulty variant: the bank's answer is not looked at.
NextStatusIgnoresResult(res) == "captured"

\* Faulty variant: the transaction is left as it is.
NextStatusPending(res) == "capture_pending"

\* settleAsync: nextStatus; a refusal and an error both fail the capture.
NextStatus(res) == IF res = "ok" THEN "captured" ELSE "capture_failed"

\* settleAsync: CompareAndUpdateStatus(capture_pending -> nextStatus); if it
\* fails or the status has moved on, the goroutine returns.
SettleUpdate(r, o) ==
  LET t == arg[r].tx
      moved == txn[t].status # "capture_pending"
  IN /\ pc[r] = "settle_update"
     /\ lock[t] = NoReq
     /\ IF moved \/ o = "db_error" THEN Rollback(r)
        ELSE WriteRow(r, t, [txn[t] EXCEPT !.status = NextStatus(result[r])])
     /\ Goto(r, IF moved \/ o # "ok" THEN "done" ELSE "settle_hook")
     /\ Count(o)
     /\ UNCHANGED <<refund, lock, arg, seen, result, tries, released, ledger,
                    hook>>

\* One attempt to deliver the webhook, answered with a 2xx or not; errors are
\* only logged.
SendEvent(r, event, delivered) ==
  /\ hook' = IF delivered THEN [hook EXCEPT ![r] = event] ELSE hook
  /\ Goto(r, "done")
  /\ UNCHANGED <<db, arg, seen, result, tries, released, ledger, faults>>

\* SendCaptureResult names the event after tx.Status.  The tx that settleAsync
\* passes is the one Capture marked; the compare-and-update changed only the
\* row, so tx.Status is still capture_pending.
SettleHook(r, delivered) ==
  /\ pc[r] = "settle_hook"
  /\ SendEvent(r, "capture_pending", delivered)

(***************************************************************************)
(* Refund and refundAsync                                                  *)
(***************************************************************************)

\* Faulty variant: what was already refunded is not subtracted.
RefundableUpToAmount(row, a) ==
  row.status \in {"captured", "partially_refunded"} /\ a <= row.amount

\* The status and remaining-amount checks of Refund.
Refundable(row, a) ==
  /\ row.status \in {"captured", "partially_refunded"}
  /\ a <= row.amount - row.refunded

RefundRead(r) ==
  LET row == txn[arg[r].tx]
  IN /\ pc[r] = "idle"
     /\ arg[r].op = "refund"
     /\ Goto(r, IF Refundable(row, arg[r].amount)
                THEN "refund_update" ELSE "failed")
     /\ seen' = [seen EXCEPT ![r] = row.refunded]
     /\ UNCHANGED <<db, arg, result, tries, released, ledger, hook, faults>>

\* The row after reserving a: what was read plus a, and the status for it.
Reserved(row, read, a) ==
  [row EXCEPT !.refunded = read + a,
              !.status = IF read + a >= row.amount
                         THEN "refunded" ELSE "partially_refunded"]

\* UPDATE refunded_amount and status, INSERT the refund and COMMIT, all or
\* nothing; only after a confirmed COMMIT is refundAsync started.
RefundUpdate(r, o) ==
  LET t == arg[r].tx
      conflict == SerializationFailure(r) \/ RefundKeyTaken(r)
  IN /\ pc[r] = "refund_update"
     /\ lock[t] = NoReq
     /\ IF conflict \/ o = "db_error"
        THEN Rollback(r) /\ UNCHANGED refund
        ELSE /\ WriteRow(r, t, Reserved(txn[t], seen[r], arg[r].amount))
             /\ refund' = [refund EXCEPT ![r] = "refund_pending"]
     /\ Goto(r, IF conflict \/ o # "ok" THEN "failed" ELSE "bank_refund")
     /\ Count(o)
     /\ UNCHANGED <<lock, arg, seen, result, tries, released, ledger, hook>>

BankRefund(r, a) ==
  /\ pc[r] = "bank_refund"
  /\ BankCall(r, a)
  /\ Goto(r, "refund_status")
  /\ UNCHANGED <<db, arg, seen, tries, released, hook>>

\* Faulty variant: the goroutine goes on after an error.
AfterRefundStatusAnyway(o, res) ==
  IF res = "ok" THEN "refund_hook" ELSE "release"

\* Where refundAsync goes after UpdateRefundStatus: on an error it returns, the
\* reservation is not released and no webhook is sent.
AfterRefundStatus(o, res) ==
  CASE o # "ok" -> "done"
    [] o = "ok" /\ res = "ok" -> "refund_hook"
    [] o = "ok" /\ res # "ok" -> "release"

UpdateRefundStatus(r, o) ==
  /\ pc[r] = "refund_status"
  /\ refund' = IF o = "db_error" THEN refund
               ELSE [refund EXCEPT ![r] = IF result[r] = "ok"
                                          THEN "refunded" ELSE "refund_failed"]
  /\ Goto(r, AfterRefundStatus(o, result[r]))
  /\ Count(o)
  /\ UNCHANGED <<txn, lock, stale, arg, seen, result, tries, released, ledger,
                 hook>>

\* Faulty variant: one attempt less.
TwoRetries == 2

MaxRetries == 3

\* Faulty variant: the statement leaves the status alone.
ReleaseKeepsStatus(row, a) == [row EXCEPT !.refunded = @ - a]

\* ReleaseRefundAmount's row: in-place subtraction and the status for it.
Release(row, a) ==
  [row EXCEPT !.refunded = row.refunded - a,
              !.status = IF row.refunded - a <= 0
                         THEN "captured" ELSE "partially_refunded"]

\* Faulty variant: the table has no CHECK constraint.
ReleaseUnchecked(row, a) == TRUE

\* chk_refunded_amount_non_negative lets the statement pass.
ReleaseAllowed(row, a) == row.refunded - a >= 0

\* One of at most MaxRetries attempts to give the reservation back.  After the
\* last one the goroutine goes on to the webhook as if it had succeeded.
ReleaseRefundAmount(r, o) ==
  LET t == arg[r].tx
      a == arg[r].amount
      applied == ReleaseAllowed(txn[t], a) /\ o # "db_error"
      confirmed == applied /\ o = "ok"
  IN /\ pc[r] = "release"
     /\ lock[t] = NoReq
     /\ IF applied THEN WriteRow(r, t, Release(txn[t], a)) ELSE Rollback(r)
     /\ released' = IF applied THEN [released EXCEPT ![r] = @ + 1] ELSE released
     /\ tries' = IF confirmed THEN tries ELSE [tries EXCEPT ![r] = @ + 1]
     /\ Goto(r, IF confirmed \/ tries[r] + 1 >= MaxRetries
                THEN "refund_hook" ELSE "release")
     /\ Count(o)
     /\ UNCHANGED <<refund, lock, arg, seen, result, ledger, hook>>

\* SendRefundResult: the refund in memory has the status the row was given.
RefundHook(r, delivered) ==
  /\ pc[r] = "refund_hook"
  /\ SendEvent(r, IF result[r] = "ok" THEN "refunded" ELSE "refund_failed",
               delivered)

(***************************************************************************)
(* Void                                                                    *)
(***************************************************************************)

\* MarkVoided succeeds.
MarkVoided(status) == status = "authorized"

\* Faulty variant: a plain SELECT takes no lock.
SelectWithoutLock(t, r) == lock

\* SELECT ... FOR UPDATE keeps the row lock until the transaction ends.
SelectForUpdate(t, r) == [lock EXCEPT ![t] = r]

\* Faulty variant: the transaction is left open.
KeepLock(t) == lock

\* COMMIT or ROLLBACK frees the row lock.
Unlock(t) == [lock EXCEPT ![t] = NoReq]

\* The first statement of Void (ReadCommitted) waits for the lock and reads the
\* latest version; MarkVoided refuses anything but an authorized transaction.
VoidLock(r) ==
  LET t == arg[r].tx
      voidable == MarkVoided(txn[t].status)
  IN /\ pc[r] = "idle"
     /\ arg[r].op = "void"
     /\ lock[t] = NoReq
     /\ lock' = IF voidable THEN SelectForUpdate(t, r) ELSE lock
     /\ Goto(r, IF voidable THEN "void_bank" ELSE "failed")
     /\ UNCHANGED <<txn, refund, stale, arg, seen, result, tries, released,
                    ledger, hook, faults>>

\* The bank's Void, called with the row locked; a refusal rolls back.
VoidBank(r, a) ==
  LET t == arg[r].tx
  IN /\ pc[r] = "void_bank"
     /\ BankCall(r, a)
     /\ lock' = IF a = "ok" THEN lock ELSE Unlock(t)
     /\ Goto(r, IF a = "ok" THEN "void_update" ELSE "failed")
     /\ UNCHANGED <<txn, refund, stale, arg, seen, tries, released, hook>>

\* UPDATE status and COMMIT, or a rollback that leaves the row authorized.
VoidUpdate(r, o) ==
  LET t == arg[r].tx
  IN /\ pc[r] = "void_update"
     /\ IF o = "db_error" THEN Rollback(r)
        ELSE WriteRow(r, t, [txn[t] EXCEPT !.status = "voided"])
     /\ lock' = Unlock(t)
     /\ Goto(r, IF o = "ok" THEN "void_hook" ELSE "failed")
     /\ Count(o)
     /\ UNCHANGED <<refund, arg, seen, result, tries, released, ledger, hook>>

VoidHook(r, delivered) ==
  /\ pc[r] = "void_hook"
  /\ SendEvent(r, "voided", delivered)

(***************************************************************************)
(* The service stops: on a crash, and also on an orderly shutdown, which   *)
(* waits for HTTP handlers but not for settleAsync and refundAsync.  Open  *)
(* transactions are rolled back; nothing resumes the goroutines later.     *)
(***************************************************************************)
Crash ==
  /\ "crash" \in FaultKinds
  /\ faults < MaxFaults
  /\ \E r \in Reqs : pc[r] \in Running
  /\ pc' = [r \in Reqs |-> IF pc[r] \in Running THEN "lost" ELSE pc[r]]
  /\ lock' = [t \in Txs |-> NoReq]
  /\ stale' = {}
  /\ faults' = faults + 1
  /\ UNCHANGED <<txn, refund, arg, seen, result, tries, released, ledger, hook>>

\* The step a request's handler or goroutine takes next.
Step(r) ==
  \/ CaptureRead(r)
  \/ RefundRead(r)
  \/ VoidLock(r)
  \/ \E o \in Outcomes : CaptureUpdate(r, o)
  \/ \E o \in Outcomes : SettleUpdate(r, o)
  \/ \E o \in Outcomes : RefundUpdate(r, o)
  \/ \E o \in Outcomes : UpdateRefundStatus(r, o)
  \/ \E o \in Outcomes : ReleaseRefundAmount(r, o)
  \/ \E o \in Outcomes : VoidUpdate(r, o)
  \/ \E a \in BankAnswers : Settle(r, a)
  \/ \E a \in BankAnswers : BankRefund(r, a)
  \/ \E a \in BankAnswers : VoidBank(r, a)
  \/ \E d \in BOOLEAN : SettleHook(r, d)
  \/ \E d \in BOOLEAN : RefundHook(r, d)
  \/ \E d \in BOOLEAN : VoidHook(r, d)

Next ==
  \/ \E t \in Txs, a \in TxAmounts, approved \in BOOLEAN :
       Authorize(t, a, approved)
  \/ \E r \in Reqs : Step(r)
  \/ Crash

Spec == Init /\ [][Next]_vars

\* A started request keeps running: handlers and goroutines are scheduled by
\* the Go runtime, statements and bank calls return (possibly with an error).
\* Nothing makes a client send a request, so the first step is not fair.
FairSpec == Spec /\ \A r \in Reqs : WF_vars(pc[r] \in Running /\ Step(r))

-----------------------------------------------------------------------------
(***************************************************************************)
(* Properties                                                              *)
(***************************************************************************)

\* The amounts of a set of requests, as a set of money units; their total is
\* its cardinality.
Units(S) == UNION {{r} \X (1..arg[r].amount) : r \in S}
Total(S) == Cardinality(Units(S))

On(t, op) == {r \in Reqs : arg[r].tx = t /\ arg[r].op = op}

\* Refunds of t whose row exists and whose reservation was not given back.
Held(t) == {r \in On(t, "refund") : refund[r] # "none" /\ released[r] = 0}

\* Refunds of t the bank confirmed.
Confirmed(t) == {r \in On(t, "refund") : result[r] = "ok"}

\* No reservation was given back twice.
ReleasedOnce == \A r \in Reqs : released[r] <= 1

\* At most one Capture of a transaction ever gets to ask the bank to settle,
\* whatever requests race and whatever fails (Capture, settleAsync).
SettledOnce ==
  \A t \in Txs : \A r, q \in On(t, "capture") :
    result[r] # "none" /\ result[q] # "none" => r = q

\* The bank never both voids and settles a transaction, unless a fault made
\* the service lose track of the void: the void was then reported as failed,
\* or to nobody.  (Void holds the row lock across the bank call.)
VoidExcludesSettle ==
  \A t \in Txs : \A v \in On(t, "void"), c \in On(t, "capture") :
    v \in ledger /\ result[c] # "none" =>
      faults > 0 /\ pc[v] \in {"failed", "lost"}

\* refunded_amount is the total of the refunds that still hold a reservation:
\* no reservation is lost or forgotten, across concurrent Refund, release and
\* every fault but the double release that a lost acknowledgement causes.
ReservationsAddUp ==
  ReleasedOnce => \A t \in Txs : txn[t].refunded = Total(Held(t))

\* The bank never confirms refunds for more than the transaction's amount.
RefundsWithinAmount ==
  ReleasedOnce => \A t \in Txs : Total(Confirmed(t)) <= txn[t].amount

\* The status of a row says how much of it is reserved or refunded, in every
\* committed state; a release moves both in one statement.
StatusMatchesRefunded ==
  \A t \in Txs :
    LET row == txn[t]
    IN CASE row.status = "refunded" -> row.refunded = row.amount
         [] row.status = "partially_refunded" ->
              0 < row.refunded /\ row.refunded < row.amount
         [] OTHER -> row.refunded = 0

\* Money goes back only where money was taken: a refund reaches the bank only
\* for a transaction the bank has settled.
RefundsFollowSettlement ==
  \A t \in Txs : \A r \in On(t, "refund") :
    result[r] # "none" =>
      \E c \in On(t, "capture") : c \in ledger /\ result[c] = "ok"

\* A delivered refund or void webhook reports what is committed: the refund
\* row has that status, a refused refund's reservation is back (or all
\* attempts failed), a voided transaction is voided in the row and the bank.
WebhooksReportCommitted ==
  \A r \in Reqs :
    /\ hook[r] = "refunded" => refund[r] = "refunded" /\ r \in ledger
    /\ hook[r] = "refund_failed" =>
         /\ refund[r] = "refund_failed"
         /\ released[r] > 0 \/ tries[r] = MaxRetries
    /\ hook[r] = "voided" => txn[arg[r].tx].status = "voided" /\ r \in ledger

\* A row moves along the arrows of validTransitions, or back from a release;
\* voided, declined and capture_failed are final.
Arrows ==
  {<<"none", "authorized">>, <<"none", "declined">>,
   <<"authorized", "capture_pending">>, <<"authorized", "voided">>,
   <<"capture_pending", "captured">>, <<"capture_pending", "capture_failed">>,
   <<"captured", "partially_refunded">>, <<"captured", "refunded">>,
   <<"partially_refunded", "partially_refunded">>,
   <<"partially_refunded", "refunded">>}

ReleaseArrows ==
  {"partially_refunded", "refunded"} \X {"captured", "partially_refunded"}

StatusFollowsArrows ==
  [][\A t \in Txs : txn'[t] # txn[t] =>
       <<txn[t].status, txn'[t].status>> \in Arrows \cup ReleaseArrows]_txn

\* Every request that was started ends; no row lock is held for ever.
RequestsEnd == \A r \in Reqs : pc[r] \in Running ~> pc[r] \in Ended

\* A transaction does not stay capture_pending, unless its settleAsync ended
\* early: the goroutine gives up when its only UPDATE fails.
CaptureResolves ==
  \A t \in Txs :
    txn[t].status = "capture_pending"
      ~> \/ txn[t].status # "capture_pending"
         \/ faults > 0 /\ \E c \in On(t, "capture") : pc[c] = "done"

\* A refused refund gives its reservation back although fewer than MaxRetries
\* attempts fail.
RefusedRefundReleased ==
  \A r \in Reqs : refund[r] = "refund_failed" ~> released[r] = 1

\* Documented: the webhook after settlement carries the capture result
\* (README.md:113).
CaptureWebhookHasResult ==
  \A t \in Txs : \A r \in On(t, "capture") :
    hook[r] \in {"none", "captured", "capture_failed"}

\* Documented: the release of a reservation is "safe to retry"
\* (docs/patterns/transactions.md:280): retrying never lets the bank confirm
\* more than the amount of the transaction.
ReleaseSafeToRetry == \A t \in Txs : Total(Confirmed(t)) <= txn[t].amount
=============================================================================
