------------------------ MODULE PaymanagerPayment ------------------------
(***************************************************************************)
(* The payment service of Paymanager (services/paymanager/internal/payment)*)
(* composed with the provider, Silvergate: the accounts of CardAccount and *)
(* the two goroutines that finish captures and refunds and post webhooks.  *)
(* The goroutine of a refund is taken step by step, for the release of a   *)
(* refused refund may be skipped, fail three times or be made twice        *)
(* (SilvergateTx).                                                         *)
(*                                                                         *)
(* A payment is created by CreatePayment and captured by the goroutine it  *)
(* starts; variable flow is that thread of control.  Void and refund       *)
(* requests of clients are processes of their own.  The three of them read *)
(* the row first - from a replica that may lag - and later write only its  *)
(* status, without looking at it again: these are the steps that           *)
(* interleave.  Webhooks arrive any number of times in any order.  The     *)
(* merchant may also ask Silvergate for a refund himself: its endpoint asks*)
(* for no credentials, and since no webhook says that a payment was        *)
(* captured, the webhook of such a refund is the only way by which         *)
(* Paymanager comes to know that a payment may be refunded.                *)
(*                                                                         *)
(* A payment and the provider transaction it created share an identifier.  *)
(***************************************************************************)
EXTENDS Integers, FiniteSets

CONSTANTS
  Txs,          \* payments, and the transactions created for them
  TxAmounts,    \* amounts of payments
  Reqs,         \* void and refund requests of clients and of the merchant
  Args,         \* what they may ask: [op, tx, amount]
  FaultKinds,   \* the faults the environment may inject
  MaxFaults,    \* how many of them (a bound of the model, not of the code)
  NoReq         \* the refund of a webhook that is not about a refund

AllFaults == {"call_down", "call_lost", "db_error", "lost_ack", "hook_lost",
              "crash"}

ASSUME PaymentAssumption ==
  /\ IsFiniteSet(Reqs)
  /\ TxAmounts \subseteq Nat \ {0}
  /\ Args \subseteq [op : {"void", "refund", "direct_refund"}, tx : Txs,
                    amount : Nat \ {0}]
  /\ FaultKinds \subseteq AllFaults
  /\ MaxFaults \in Nat
  /\ NoReq \notin Reqs

VARIABLES
  acct,     \* the provider's accounts
  rfd,      \* the provider's refunds, by the request that asked for them
  task,     \* the next step of the goroutine that finishes each of them
  tries,    \* how often it has tried to release the reservation
  hooks,    \* webhooks the provider posted and ingest took
  pay,      \* table payments of Paymanager
  past,     \* earlier versions of its rows, which the replica may still show
  stored,   \* webhooks whose event is in table events
  handled,  \* webhooks some delivery of which was answered without an error
  flow,     \* CreatePayment and its capture goroutine, per payment
  pc,       \* the next step of each client request
  arg,      \* what it asks
  faults    \* faults injected so far

refunding == <<rfd, task, tries>>
provider == <<acct, refunding, hooks>>
vars == <<provider, pay, past, stored, handled, flow, pc, arg, faults>>

Provider == INSTANCE CardAccount

PayStatus == Provider!AccountStatus

Row == [status : PayStatus, amount : Nat, refunded : Nat]

NoRow == [status |-> "none", amount |-> 0, refunded |-> 0]

RefundStatus == {"none", "refund_pending", "refunded", "refund_failed"}

Webhook == [tx : Txs, event : PayStatus \cup RefundStatus,
            refund : Reqs \cup {NoReq}]

\* maxRetries of refundAsync
MaxRetries == 3

TaskStep == {"bank", "release", "hook"}
FlowStep == {"insert", "mark_pending", "delay", "delayed_update", "capture"}
ReqStep == {"void_call", "void_update", "refund_call"}

TypeOK ==
  /\ acct \in [Txs -> Provider!Account]
  /\ rfd \in [Reqs -> RefundStatus]
  /\ task \in [Reqs -> TaskStep \cup {"idle", "done"}]
  /\ tries \in [Reqs -> 0..MaxRetries]
  /\ hooks \subseteq Webhook
  /\ pay \in [Txs -> Row]
  /\ past \in [Txs -> SUBSET Row]
  /\ stored \subseteq hooks
  /\ handled \subseteq hooks
  /\ flow \in [Txs -> FlowStep \cup {"idle", "done", "failed"}]
  /\ pc \in [Reqs -> ReqStep \cup {"idle", "done", "failed"}]
  /\ arg \in [Reqs -> Args]
  /\ faults \in Nat

Init ==
  /\ Provider!Init
  /\ rfd = [r \in Reqs |-> "none"]
  /\ task = [r \in Reqs |-> "idle"]
  /\ tries = [r \in Reqs |-> 0]
  /\ hooks = {}
  /\ pay = [p \in Txs |-> NoRow]
  /\ past = [p \in Txs |-> {}]
  /\ stored = {}
  /\ handled = {}
  /\ flow = [p \in Txs |-> "idle"]
  /\ pc = [r \in Reqs |-> "idle"]
  /\ arg \in [Reqs -> Args]
  /\ faults = 0

-----------------------------------------------------------------------------
(***************************************************************************)
(* Faults                                                                  *)
(***************************************************************************)
May(kinds) == IF faults < MaxFaults THEN FaultKinds \cap kinds ELSE {}

\* How a call to the provider ends: answered; not received; or acted upon
\* although the caller gives up (client timeout, broken connection).
CallOutcomes == {"ok"} \cup May({"call_down", "call_lost"})

\* How a statement that writes ends; after lost_ack it took effect.
Outcomes == {"ok"} \cup May({"db_error", "lost_ack"})

\* The provider posts a webhook once; ingest takes it or it is gone.
Posts == {"ok"} \cup May({"hook_lost"})

Count(o) == faults' = IF o = "ok" THEN faults ELSE faults + 1

(***************************************************************************)
(* The tables of Paymanager                                                *)
(***************************************************************************)

\* What GetPaymentByID may return: it reads through readDB, so the row or what
\* the replica still has.
Versions(p) == {pay[p]} \cup past[p]

WriteRow(p, row) ==
  /\ pay' = [pay EXCEPT ![p] = row]
  /\ past' = [past EXCEPT ![p] = @ \cup {pay[p]}]

KeepRow == UNCHANGED <<pay, past>>

\* INSERT of the payment.
CreatePayment(p, row, o) == IF o = "db_error" THEN KeepRow ELSE WriteRow(p, row)

\* UPDATE payments SET status WHERE id: whatever the row says by now.
UpdatePaymentStatus(p, s, o) ==
  IF o = "db_error" THEN KeepRow ELSE WriteRow(p, [pay[p] EXCEPT !.status = s])

\* validTransitions
CanTransitionTo(from, to) ==
  \/ from = "authorized" /\ to \in {"capture_pending", "voided"}
  \/ from = "capture_pending" /\ to \in {"captured", "capture_failed"}
  \/ from \in {"captured", "partially_refunded"}
       /\ to \in {"partially_refunded", "refunded"}

GotoFlow(p, label) == flow' = [flow EXCEPT ![p] = label]
Goto(r, label) == pc' = [pc EXCEPT ![r] = label]
GotoTask(r, label) == task' = [task EXCEPT ![r] = label]

(***************************************************************************)
(* The provider: what a call does there, and what it does by itself        *)
(***************************************************************************)

\* The provider carries out A if it can, unless the call never reached it.
Acts(A, possible, c) ==
  IF possible /\ c # "call_down" THEN A ELSE UNCHANGED acct

Accepted(possible, c) == possible /\ c = "ok"

AuthorizePayment(p, a, s, c) == Acts(Provider!Open(p, a, s), TRUE, c)

CapturePayment(p, c) ==
  Acts(Provider!StartCapture(p), acct[p].status = "authorized", c)

Post(h, o) == hooks' = IF o = "ok" THEN hooks \cup {h} ELSE hooks

Hook(p, e) == [tx |-> p, event |-> e, refund |-> NoReq]

Voidable(p) == acct[p].status = "authorized"

\* A void is carried out and its webhook posted.
VoidPayment(p, c, o) ==
  /\ Acts(Provider!Void(p), Voidable(p), c)
  /\ IF Voidable(p) /\ c # "call_down" THEN Post(Hook(p, "voided"), o)
     ELSE o = "ok" /\ UNCHANGED hooks

\* The key Paymanager sends with a refund is refund_<payment>_<amount>: the
\* provider has a refund with that key already.
RefundKeyTaken(r) ==
  \E q \in Reqs \ {r} :
    /\ rfd[q] # "none"
    /\ arg[q] = arg[r]
    /\ arg[r].op = "refund"

Refundable(r) ==
  arg[r].amount \in Provider!Refundable(arg[r].tx) /\ ~RefundKeyTaken(r)

\* The amount is reserved, the refund saved and its goroutine started.
RefundPayment(r, c) ==
  /\ Acts(Provider!Refund(arg[r].tx, arg[r].amount), Refundable(r), c)
  /\ IF Refundable(r) /\ c # "call_down"
     THEN rfd' = [rfd EXCEPT ![r] = "refund_pending"] /\ GotoTask(r, "bank")
     ELSE UNCHANGED <<rfd, task>>
  /\ UNCHANGED tries

\* settleAsync: the bank's answer and the webhook, which says what the
\* transaction in memory still says.  A failed CompareAndUpdateStatus is the
\* step not taken, one whose answer is lost a lost webhook.
SettleAsync(p, ok, o) ==
  /\ Provider!FinishCapture(p, ok)
  /\ Post(Hook(p, "capture_pending"), o)
  /\ Count(o)
  /\ UNCHANGED <<refunding, pay, past, stored, handled, flow, pc, arg>>

\* refundAsync: the bank's answer and UpdateRefundStatus; after an error the
\* goroutine returns, with the reservation kept and no webhook.
RefundAnswered(r, ok, o) ==
  LET s == IF ok THEN "refunded" ELSE "refund_failed"
  IN /\ task[r] = "bank"
     /\ rfd' = IF o = "db_error" THEN rfd ELSE [rfd EXCEPT ![r] = s]
     /\ GotoTask(r, CASE o # "ok" -> "done"
                      [] o = "ok" /\ ok -> "hook"
                      [] OTHER -> "release")
     /\ Count(o)
     /\ UNCHANGED <<acct, tries, hooks, pay, past, stored, handled, flow, pc, arg>>

\* One attempt to release the reservation of a refused refund.  The CHECK
\* refunded_amount >= 0 refuses one that is too much; an attempt that failed, or
\* whose answer was lost, is repeated until there were three.
ReleaseRefundAmount(r, o) ==
  LET p == arg[r].tx
      fits == arg[r].amount <= acct[p].refunded
  IN /\ task[r] = "release"
     /\ IF fits /\ o # "db_error" THEN Provider!GiveBack(p, arg[r].amount)
        ELSE UNCHANGED acct
     /\ tries' = [tries EXCEPT ![r] = @ + 1]
     /\ GotoTask(r, IF (fits /\ o = "ok") \/ tries[r] + 1 = MaxRetries
                    THEN "hook" ELSE "release")
     /\ Count(o)
     /\ UNCHANGED <<rfd, hooks, pay, past, stored, handled, flow, pc, arg>>

\* The webhook, whether or not the reservation was released.
SendRefundResult(r, o) ==
  /\ task[r] = "hook"
  /\ Post([tx |-> arg[r].tx, event |-> rfd[r], refund |-> r], o)
  /\ GotoTask(r, "done")
  /\ Count(o)
  /\ UNCHANGED <<acct, rfd, tries, pay, past, stored, handled, flow, pc, arg>>

\* The merchant asks Silvergate for a refund, under a key of his own.
DirectRefund(r) ==
  /\ pc[r] = "idle"
  /\ arg[r].op = "direct_refund"
  /\ Refundable(r)
  /\ RefundPayment(r, "ok")
  /\ Goto(r, "done")
  /\ UNCHANGED <<hooks, pay, past, stored, handled, flow, arg, faults>>

(***************************************************************************)
(* CreatePayment: authorize at the provider, save the payment, capture     *)
(***************************************************************************)

\* AuthorizePayment.  Its error is the client's error, and no row is written.
Authorize(p, a, s, c) ==
  /\ flow[p] = "idle"
  /\ acct[p].status = "none"
  /\ AuthorizePayment(p, a, s, c)
  /\ GotoFlow(p, IF c = "ok" THEN "insert" ELSE "failed")
  /\ Count(c)
  /\ UNCHANGED <<refunding, hooks, pay, past, stored, handled, pc, arg>>

\* NewAuthorized or NewDeclined, after what the provider answered.
NewPayment(p) ==
  [status |-> acct[p].status, amount |-> acct[p].amount, refunded |-> 0]

\* The payment is saved; what comes next depends on the capture delay.
Insert(p, next, o) ==
  LET row == NewPayment(p)
  IN /\ flow[p] = "insert"
     /\ CreatePayment(p, row, o)
     /\ GotoFlow(p, CASE o # "ok" -> "failed"
                      [] o = "ok" /\ row.status = "declined" -> "done"
                      [] OTHER -> next)
     /\ Count(o)
     /\ UNCHANGED <<provider, stored, handled, pc, arg>>

\* No capture delay: the row is marked and the capture goroutine started; an
\* error is logged, the goroutine not started and the client told all is well.
MarkPending(p, o) ==
  /\ flow[p] = "mark_pending"
  /\ UpdatePaymentStatus(p, "capture_pending", o)
  /\ GotoFlow(p, IF o = "ok" THEN "capture" ELSE "done")
  /\ Count(o)
  /\ UNCHANGED <<provider, stored, handled, pc, arg>>

\* captureWithDelay wakes up and reads the payment.
DelayedRead(p, row) ==
  /\ flow[p] = "delay"
  /\ row \in Versions(p)
  /\ GotoFlow(p, IF row.status = "authorized" THEN "delayed_update" ELSE "done")
  /\ UNCHANGED <<provider, pay, past, stored, handled, pc, arg, faults>>

DelayedUpdate(p, o) ==
  /\ flow[p] = "delayed_update"
  /\ UpdatePaymentStatus(p, "capture_pending", o)
  /\ GotoFlow(p, IF o = "ok" THEN "capture" ELSE "done")
  /\ Count(o)
  /\ UNCHANGED <<provider, stored, handled, pc, arg>>

\* captureInBackground: CapturePayment at the provider; an error is logged.
Capture(p, c) ==
  /\ flow[p] = "capture"
  /\ CapturePayment(p, c)
  /\ GotoFlow(p, "done")
  /\ Count(c)
  /\ UNCHANGED <<refunding, hooks, pay, past, stored, handled, pc, arg>>

(***************************************************************************)
(* VoidPayment and RefundPayment                                           *)
(***************************************************************************)

\* A client knows a payment once CreatePayment has returned it.
Known(p) == flow[p] \in {"delay", "delayed_update", "capture", "done"}

VoidRead(r, row) ==
  /\ pc[r] = "idle"
  /\ arg[r].op = "void"
  /\ Known(arg[r].tx)
  /\ row \in Versions(arg[r].tx)
  /\ Goto(r, IF CanTransitionTo(row.status, "voided")
             THEN "void_call" ELSE "failed")
  /\ UNCHANGED <<provider, pay, past, stored, handled, flow, arg, faults>>

\* Faulty variant: the provider's refusal is not looked at.
AfterVoidAlways(accepted) == "void_update"

AfterVoid(accepted) == IF accepted THEN "void_update" ELSE "failed"

VoidCall(r, c, o) ==
  LET p == arg[r].tx
  IN /\ pc[r] = "void_call"
     /\ VoidPayment(p, c, o)
     /\ Goto(r, AfterVoid(Accepted(Voidable(p), c)))
     /\ Count(IF c = "ok" THEN o ELSE c)
     /\ UNCHANGED <<refunding, pay, past, stored, handled, flow, arg>>

VoidUpdate(r, o) ==
  /\ pc[r] = "void_update"
  /\ UpdatePaymentStatus(arg[r].tx, "voided", o)
  /\ Goto(r, IF o = "ok" THEN "done" ELSE "failed")
  /\ Count(o)
  /\ UNCHANGED <<provider, stored, handled, flow, arg>>

\* The checks of RefundPayment, on the row as it was read.
RefundRead(r, row) ==
  /\ pc[r] = "idle"
  /\ arg[r].op = "refund"
  /\ Known(arg[r].tx)
  /\ row \in Versions(arg[r].tx)
  /\ Goto(r, IF /\ row.status \in {"captured", "partially_refunded"}
                /\ arg[r].amount <= row.amount - row.refunded
             THEN "refund_call" ELSE "failed")
  /\ UNCHANGED <<provider, pay, past, stored, handled, flow, arg, faults>>

\* The row is left alone: the webhook will tell.
RefundCall(r, c) ==
  /\ pc[r] = "refund_call"
  /\ RefundPayment(r, c)
  /\ Goto(r, IF Accepted(Refundable(r), c) THEN "done" ELSE "failed")
  /\ Count(c)
  /\ UNCHANGED <<hooks, pay, past, stored, handled, flow, arg>>

(***************************************************************************)
(* ProcessCaptureWebhook: one RepeatableRead transaction that reads the row*)
(* and writes it and the event.  A row written since is a serialization    *)
(* failure, so the transaction is atomic or leaves nothing; deliveries that*)
(* end in an error are not steps of the model, they may come again.        *)
(***************************************************************************)
UpdatePaymentRefund(row, a) ==
  [row EXCEPT !.refunded = @ + a,
              !.status = IF row.refunded + a >= row.amount
                         THEN "refunded" ELSE "partially_refunded"]

\* The row after webhook h.
AfterWebhook(row, h) ==
  IF h.event = "refunded" THEN UpdatePaymentRefund(row, arg[h.refund].amount)
  ELSE [row EXCEPT !.status = h.event]

\* Faulty variant: the table of transitions is asked about refunds too.
IgnoredByTable(row, h) == ~CanTransitionTo(row.status, h.event)

\* refund_failed is only logged; so is a status the row cannot move to.
Ignored(row, h) ==
  h.event # "refunded" /\ ~CanTransitionTo(row.status, h.event)

\* Faulty variant: the second event is stored like the first.
NeverDuplicate(h) == FALSE

\* CreateEvent violates the unique index: the whole transaction rolls back.
Duplicate(h) == h \in stored

\* HandleMessage: an unknown payment and an unknown status are errors, a
\* duplicate is not.
DeliveryFails(h) == pay[h.tx].status = "none" \/ h.event = "capture_pending"

HandleWebhook(h) ==
  LET p == h.tx
  IN /\ h \in hooks
     /\ ~DeliveryFails(h)
     /\ IF Ignored(pay[p], h) \/ Duplicate(h)
        THEN KeepRow /\ UNCHANGED stored
        ELSE /\ WriteRow(p, AfterWebhook(pay[p], h))
             /\ stored' = stored \cup {h}
     /\ handled' = handled \cup {h}
     /\ UNCHANGED <<provider, flow, pc, arg, faults>>

-----------------------------------------------------------------------------
\* Paymanager stops.  Nothing resumes a request or a capture goroutine, not
\* even a delayed one whose capture_at is in the row.
Crash ==
  /\ "crash" \in May({"crash"})
  /\ flow' = [p \in Txs |-> IF flow[p] \in FlowStep THEN
                IF Known(p) THEN "done" ELSE "failed" ELSE flow[p]]
  /\ pc' = [r \in Reqs |-> IF pc[r] \in ReqStep THEN "failed" ELSE pc[r]]
  /\ faults' = faults + 1
  /\ UNCHANGED <<provider, pay, past, stored, handled, arg>>

Advance(p) ==
  \/ \E next \in {"mark_pending", "delay"}, o \in Outcomes : Insert(p, next, o)
  \/ \E o \in Outcomes : MarkPending(p, o)
  \/ \E row \in Versions(p) : DelayedRead(p, row)
  \/ \E o \in Outcomes : DelayedUpdate(p, o)
  \/ \E c \in CallOutcomes : Capture(p, c)

Serve(r) ==
  \/ \E row \in Versions(arg[r].tx) : VoidRead(r, row)
  \/ \E c \in CallOutcomes, o \in Posts : VoidCall(r, c, o)
  \/ \E o \in Outcomes : VoidUpdate(r, o)
  \/ \E row \in Versions(arg[r].tx) : RefundRead(r, row)
  \/ \E c \in CallOutcomes : RefundCall(r, c)
  \/ DirectRefund(r)

\* The goroutine of a refund.
Finish(r) ==
  \/ \E ok \in BOOLEAN, o \in Outcomes : RefundAnswered(r, ok, o)
  \/ \E o \in Outcomes : ReleaseRefundAmount(r, o)
  \/ \E o \in Posts : SendRefundResult(r, o)

Next ==
  \/ \E p \in Txs, a \in TxAmounts, s \in {"authorized", "declined"},
        c \in CallOutcomes : Authorize(p, a, s, c)
  \/ \E p \in Txs : Advance(p)
  \/ \E p \in Txs, ok \in BOOLEAN, o \in Posts : SettleAsync(p, ok, o)
  \/ \E r \in Reqs : Serve(r) \/ Finish(r)
  \/ \E h \in hooks : HandleWebhook(h)
  \/ Crash

Spec == Init /\ [][Next]_vars

-----------------------------------------------------------------------------
(***************************************************************************)
(* Properties                                                              *)
(***************************************************************************)
Taken == {"captured", "partially_refunded", "refunded"}

\* The amounts of refunds, as a set of money units.
Units(S) == UNION {{r} \X (1..arg[r].amount) : r \in S}

\* What table payments says has happened, has happened at the provider:
\* whatever races, is lost, repeated or fails, no client is told of a void,
\* a capture or a refund that was not carried out.  The refunds counted are
\* those the bank confirmed, not refunded_amount of Silvergate, which a release
\* made twice takes below them.
PaymentNeverAhead ==
  \A p \in Txs :
    /\ pay[p].status = "voided" => acct[p].status = "voided"
    /\ pay[p].status \in Taken => acct[p].status \in Taken
    /\ pay[p].refunded <=
         Cardinality(Units({r \in Reqs : arg[r].tx = p /\ rfd[r] = "refunded"}))

\* refunded_amount is the total of the refunds whose webhook was stored, each
\* counted once however often it is delivered, and no status update of Void
\* or of the capture goroutine disturbs it.
RefundsCountedOnce ==
  \A p \in Txs :
    pay[p].refunded =
      Cardinality(Units({r \in Reqs :
        [tx |-> p, event |-> "refunded", refund |-> r] \in stored}))

\* Nothing is on its way any more.  A webhook about a capture is never taken
\* without an error; it ends on the dead letter topic.
Quiet ==
  /\ \A p \in Txs : flow[p] \notin FlowStep
  /\ \A r \in Reqs : pc[r] \notin ReqStep /\ task[r] \notin TaskStep
  /\ \A p \in Txs : acct[p].status # "capture_pending"
  /\ \A h \in hooks : h \in handled \/ h.event = "capture_pending"

\* The status update of captureWithDelay came after the void it did not see.
VoidOverwritten(p) ==
  pay[p].status = "capture_pending" /\ acct[p].status = "voided"

\* The capture is settled, and nothing tells Paymanager how.
CaptureUnreported(p) ==
  /\ pay[p].status = "capture_pending"
  /\ acct[p].status \in {"captured", "capture_failed"}
  /\ pay[p].amount = acct[p].amount
  /\ pay[p].refunded = acct[p].refunded

\* Once all is quiet and nothing failed, Paymanager and the provider agree on
\* every payment but for two cases: the void that a delayed capture overwrote
\* after it had read the payment as still authorized, and the result of a
\* capture none of whose money was refunded.
AgreeWhenQuiet ==
  Quiet /\ faults = 0 =>
    \A p \in Txs :
      pay[p] = acct[p] \/ VoidOverwritten(p) \/ CaptureUnreported(p)
=============================================================================
