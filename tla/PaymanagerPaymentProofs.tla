---------------------- MODULE PaymanagerPaymentProofs ----------------------
(***************************************************************************)
(* Proofs about PaymanagerPayment for any set of payments, any finite set  *)
(* of requests, any amounts and any number of faults: table payments is    *)
(* never ahead of the provider, refunds are counted once, and without      *)
(* faults the two agree when all is quiet, but for the overwritten void and*)
(* the capture whose result is not reported.                               *)
(***************************************************************************)
EXTENDS PaymanagerPayment, FiniteSetTheorems, TLAPS

\* Where the flow of a payment is, what the provider says of it (a) and what
\* the row says (s).
FlowFits(f, a, s) ==
  /\ f = "idle" => a = "none" /\ s = "none"
  /\ f = "insert" => a \in {"authorized", "declined"} /\ s = "none"
  /\ f = "mark_pending" => a = "authorized" /\ s = "authorized"
  /\ f \in {"delay", "delayed_update"} =>
       a \in {"authorized", "voided"} /\ s \in {"authorized", "voided"}
  /\ f = "capture" =>
       a \in {"authorized", "voided"} /\ s \in {"capture_pending", "voided"}
  /\ f = "done" => s # "none"

\* What the row may say while the provider says a: it lags, but by no more
\* than the steps of the flow and the webhooks that are under way.
StatusFits(a, s) ==
  /\ a = "none" => s = "none"
  /\ a = "declined" => s \in {"none", "declined"}
  /\ a = "authorized" => s \in {"none", "authorized", "capture_pending"}
  /\ a = "voided" => s \in {"authorized", "voided", "capture_pending"}
  /\ a = "capture_pending" => s = "capture_pending"
  /\ a = "capture_failed" => s = "capture_pending"
  /\ a \in Taken => s \in Taken \cup {"capture_pending"}

StatusesFit ==
  \A p \in Txs :
    /\ FlowFits(flow[p], acct[p].status, pay[p].status)
    /\ StatusFits(acct[p].status, pay[p].status)

\* The status of a captured payment follows from its amounts.
StatusOf(n, amount) ==
  CASE n <= 0 -> "captured"
    [] n >= amount -> "refunded"
    [] OTHER -> "partially_refunded"

RowFits(row) ==
  /\ row.status = "none" <=> row.amount = 0
  /\ row.status \notin Taken => row.refunded = 0
  /\ row.status \in Taken => row.status = StatusOf(row.refunded, row.amount)

AmountsFit ==
  \A p \in Txs :
    /\ RowFits(acct[p]) /\ RowFits(pay[p])
    /\ pay[p].status # "none" => pay[p].amount = acct[p].amount

\* A request works on a payment its client knows, writes a void the provider
\* has carried out, and asks for one refund.
RequestsFit ==
  \A r \in Reqs :
    /\ pc[r] \in ReqStep => Known(arg[r].tx)
    /\ pc[r] = "void_update" => acct[arg[r].tx].status = "voided"
    /\ pc[r] \in ReqStep \cup {"idle"} => task[r] = "idle"

\* A refund is of a captured payment; what its goroutine does next goes with
\* what the bank has answered.
RefundsFit ==
  \A r \in Reqs :
    /\ task[r] # "idle" => acct[arg[r].tx].status \in Taken
    /\ task[r] = "idle" => rfd[r] = "none"
    /\ task[r] = "bank" => rfd[r] = "refund_pending"
    /\ task[r] = "release" => rfd[r] = "refund_failed" /\ tries[r] < MaxRetries
    /\ task[r] = "hook" => rfd[r] \in {"refunded", "refund_failed"}
    /\ task[r] \in {"idle", "bank"} => tries[r] = 0

RefundHook(r) == [tx |-> arg[r].tx, event |-> "refunded", refund |-> r]

\* A webhook says what the provider did, but for one about a capture.
HookFits(h) ==
  /\ h.event \in {"voided", "capture_pending", "refunded", "refund_failed"}
  /\ h.event = "voided" => acct[h.tx].status = "voided"
  /\ h.event = "refunded" =>
       h.refund \in Reqs /\ h = RefundHook(h.refund) /\ rfd[h.refund] = "refunded"

HooksFit == \A h \in hooks : HookFits(h)

\* A webhook that was answered without an error has reached the row.
HandledFit ==
  /\ \A h \in handled :
       /\ h.event # "capture_pending"
       /\ h.event = "voided" => pay[h.tx].status \in {"voided", "capture_pending"}
       /\ h.event = "refunded" => h \in stored
  /\ stored \subseteq handled

\* The refunds that hold a part of refunded_amount at the provider, as long as
\* nothing has failed, and those that the row has counted.
Outstanding(r) == task[r] \in {"bank", "release"} \/ rfd[r] = "refunded"

Held(p) == {r \in Reqs : arg[r].tx = p /\ Outstanding(r)}

Counted(p) ==
  {r \in Reqs : [tx |-> p, event |-> "refunded", refund |-> r] \in stored}

MoneyFits ==
  \A p \in Txs :
    /\ faults = 0 => acct[p].refunded = Cardinality(Units(Held(p)))
    /\ pay[p].refunded = Cardinality(Units(Counted(p)))

\* Without faults, nothing is given up and every webhook is posted.
FaultFree ==
  faults = 0 =>
    /\ \A p \in Txs :
         /\ flow[p] # "failed"
         /\ acct[p].status = "none" => flow[p] = "idle"
         /\ acct[p].status = "authorized" /\ pay[p].status = "capture_pending" =>
              flow[p] = "capture"
         /\ acct[p].status = "voided" => Hook(p, "voided") \in hooks
    /\ \A r \in Reqs :
         rfd[r] = "refunded" => RefundHook(r) \in hooks \/ task[r] = "hook"

\* The inductive invariant.
IInv ==
  /\ TypeOK
  /\ StatusesFit
  /\ AmountsFit
  /\ RequestsFit
  /\ RefundsFit
  /\ HooksFit
  /\ HandledFit
  /\ MoneyFits
  /\ FaultFree

(***************************************************************************)
(* Rows and accounts                                                       *)
(***************************************************************************)
LEMMA AccountIsRow == Provider!Account = Row
BY DEF Provider!Account, Row, PayStatus

LEMMA Typed ==
  ASSUME TypeOK
  PROVE  /\ acct \in [Txs -> Row] /\ pay \in [Txs -> Row]
         /\ \A p \in Txs : acct[p] \in Row /\ pay[p] \in Row
         /\ \A r \in Reqs : arg[r].tx \in Txs /\ arg[r].amount \in Nat \ {0}
         /\ \A h \in hooks : h.tx \in Txs /\ h.refund \in Reqs \cup {NoReq}
<1>1. acct \in [Txs -> Row] /\ pay \in [Txs -> Row]
  BY AccountIsRow DEF TypeOK
<1>2. \A r \in Reqs : arg[r] \in [op : {"void", "refund", "direct_refund"}, tx : Txs,
                                amount : Nat \ {0}]
  BY PaymentAssumption DEF TypeOK
<1>3. hooks \subseteq Webhook
  BY DEF TypeOK
<1> QED
  BY <1>1, <1>2, <1>3 DEF Webhook

LEMMA Fields ==
  ASSUME NEW row \in Row
  PROVE  row.status \in PayStatus /\ row.amount \in Nat /\ row.refunded \in Nat
BY DEF Row

\* A write of the status alone.
LEMMA StatusWritten ==
  ASSUME NEW f \in [Txs -> Row], NEW p \in Txs, NEW s \in PayStatus,
         NEW g, g = [f EXCEPT ![p].status = s]
  PROVE  /\ g \in [Txs -> Row]
         /\ g[p].status = s
         /\ g[p].amount = f[p].amount /\ g[p].refunded = f[p].refunded
         /\ \A q \in Txs : q # p => g[q] = f[q]
<1>1. f[p] \in Row
  OBVIOUS
<1>2. PICK row : row = [f[p] EXCEPT !.status = s]
  OBVIOUS
<1>3. row \in Row /\ row.status = s /\ row.amount = f[p].amount
      /\ row.refunded = f[p].refunded
  BY <1>1, <1>2 DEF Row
<1>4. g = [f EXCEPT ![p] = row]
  BY <1>2
<1> QED
  BY <1>3, <1>4

\* A write of the whole row.
LEMMA RowWritten ==
  ASSUME NEW f \in [Txs -> Row], NEW p \in Txs, NEW row \in Row,
         NEW g, g = [f EXCEPT ![p] = row]
  PROVE  /\ g \in [Txs -> Row]
         /\ g[p] = row
         /\ \A q \in Txs : q # p => g[q] = f[q]
OBVIOUS

LEMMA Moved ==
  ASSUME TypeOK, NEW p \in Txs, NEW from, NEW to \in PayStatus,
         Provider!Move(p, from, to)
  PROVE  /\ acct' \in [Txs -> Provider!Account]
         /\ acct[p].status = from /\ acct'[p].status = to
         /\ acct'[p].amount = acct[p].amount /\ acct'[p].refunded = acct[p].refunded
         /\ \A q \in Txs : q # p => acct'[q] = acct[q]
<1>1. acct \in [Txs -> Row] /\ acct[p] \in Row
  BY Typed
<1>2. PICK g : g = [acct EXCEPT ![p].status = to]
  OBVIOUS
<1>3. acct[p].status = from /\ acct' = g
  BY <1>2 DEF Provider!Move
<1>4. /\ g \in [Txs -> Row] /\ g[p].status = to
      /\ g[p].amount = acct[p].amount /\ g[p].refunded = acct[p].refunded
      /\ \A q \in Txs : q # p => g[q] = acct[q]
  BY <1>1, <1>2, StatusWritten
<1> QED
  BY <1>3, <1>4, AccountIsRow

\* A write of the total refunded and the status that goes with it.
LEMMA RefundedSet ==
  ASSUME TypeOK, NEW p \in Txs, NEW n \in Nat, Provider!SetRefunded(p, n)
  PROVE  /\ acct' \in [Txs -> Provider!Account]
         /\ acct'[p].status = StatusOf(n, acct[p].amount)
         /\ acct'[p].amount = acct[p].amount /\ acct'[p].refunded = n
         /\ \A q \in Txs : q # p => acct'[q] = acct[q]
<1>1. PICK s : s = StatusOf(n, acct[p].amount)
  OBVIOUS
<1>2. s \in PayStatus
  BY <1>1 DEF StatusOf, PayStatus, Provider!AccountStatus
<1>3. acct' = [acct EXCEPT ![p].refunded = n, ![p].status = s]
  BY <1>1 DEF Provider!SetRefunded, StatusOf
<1>4. acct \in [Txs -> Row] /\ acct[p] \in Row
  BY Typed
<1>5. PICK row : row = [acct[p] EXCEPT !.refunded = n, !.status = s]
  OBVIOUS
<1>6. row \in Row /\ row.status = s /\ row.amount = acct[p].amount /\ row.refunded = n
  BY <1>2, <1>4, <1>5 DEF Row
<1>7. acct' = [acct EXCEPT ![p] = row]
  BY <1>3, <1>4, <1>5
<1> QED
  BY <1>1, <1>4, <1>6, <1>7, RowWritten, AccountIsRow

\* UpdatePaymentStatus writes the status and nothing else, or nothing.
LEMMA StatusUpdated ==
  ASSUME TypeOK, NEW p \in Txs, NEW s \in PayStatus, NEW o,
         UpdatePaymentStatus(p, s, o)
  PROVE  /\ pay' \in [Txs -> Row] /\ past' \in [Txs -> SUBSET Row]
         /\ pay'[p].status \in {pay[p].status, s}
         /\ o = "ok" => pay'[p].status = s
         /\ pay'[p].amount = pay[p].amount /\ pay'[p].refunded = pay[p].refunded
         /\ \A q \in Txs : q # p => pay'[q] = pay[q]
<1>1. pay \in [Txs -> Row] /\ past \in [Txs -> SUBSET Row] /\ pay[p] \in Row
  BY Typed DEF TypeOK
<1>2. CASE o = "db_error"
  BY <1>1, <1>2 DEF UpdatePaymentStatus, KeepRow
<1>3. CASE o # "db_error"
  <2>1. PICK row : row = [pay[p] EXCEPT !.status = s]
    OBVIOUS
  <2>2. row \in Row /\ row.status = s /\ row.amount = pay[p].amount
        /\ row.refunded = pay[p].refunded
    BY <1>1, <2>1 DEF Row
  <2>3. pay' = [pay EXCEPT ![p] = row] /\ past' = [past EXCEPT ![p] = @ \cup {pay[p]}]
    BY <1>3, <2>1 DEF UpdatePaymentStatus, WriteRow
  <2> QED
    BY <1>1, <2>2, <2>3
<1> QED
  BY <1>2, <1>3

LEMMA Counted0 ==
  ASSUME TypeOK, NEW o, Count(o)
  PROVE  faults' \in Nat /\ (faults' = 0 => o = "ok" /\ faults = 0)
BY DEF TypeOK, Count

(***************************************************************************)
(* Parts of the invariant that most steps keep                             *)
(***************************************************************************)

\* The provider does not take back what it has reported.
Onward ==
  /\ \A p \in Txs :
       /\ acct[p].status = "voided" => acct'[p].status = "voided"
       /\ acct[p].status \in Taken => acct'[p].status \in Taken
  /\ \A r \in Reqs : rfd[r] = "refunded" => rfd'[r] = "refunded"

LEMMA HooksKept ==
  ASSUME TypeOK, HooksFit, Onward, UNCHANGED arg
  PROVE  \A h \in hooks : HookFits(h)'
<1> TAKE h \in hooks
<1>1. h.tx \in Txs /\ HookFits(h)
  BY Typed DEF HooksFit
<1> QED
  BY <1>1 DEF Onward, HookFits, RefundHook

\* Rows keep what handled webhooks have written.
RowsOnward ==
  \A p \in Txs :
    acct[p].status = "voided" /\ pay[p].status \in {"voided", "capture_pending"} =>
         pay'[p].status \in {"voided", "capture_pending"}

LEMMA HandledKept ==
  ASSUME TypeOK, HooksFit, HandledFit, RowsOnward, UNCHANGED <<handled, stored>>
  PROVE  HandledFit'
<1>1. \A h \in handled : h \in hooks /\ h.tx \in Txs /\ HookFits(h)
  BY Typed DEF TypeOK, HooksFit
<1>2. ASSUME NEW h \in handled
      PROVE  /\ h.event # "capture_pending"
             /\ h.event = "voided" => pay'[h.tx].status \in {"voided", "capture_pending"}
             /\ h.event = "refunded" => h \in stored
  BY <1>1 DEF HandledFit, RowsOnward, HookFits
<1> QED
  BY <1>2 DEF HandledFit

\* The sets of refunds, and so the totals, stay.
LEMMA MoneyKept ==
  ASSUME MoneyFits, UNCHANGED <<arg, rfd, task, stored>>, faults' = 0 => faults = 0,
         \A p \in Txs : /\ acct'[p].refunded = acct[p].refunded
                        /\ pay'[p].refunded = pay[p].refunded
  PROVE  MoneyFits'
<1>1. ASSUME NEW p \in Txs
      PROVE  /\ Cardinality(Units(Held(p)))' = Cardinality(Units(Held(p)))
             /\ Cardinality(Units(Counted(p)))' = Cardinality(Units(Counted(p)))
  BY DEF Units, Held, Outstanding, Counted
<1> QED
  BY <1>1 DEF MoneyFits

\* Requests that do not move themselves.
LEMMA RequestsKept ==
  ASSUME TypeOK, RequestsFit, UNCHANGED <<pc, arg, task>>,
         \A p \in Txs : /\ Known(p) => Known(p)'
                        /\ acct[p].status = "voided" => acct'[p].status = "voided"
  PROVE  RequestsFit'
BY Typed DEF RequestsFit

LEMMA RefundsKept ==
  ASSUME TypeOK, RefundsFit, UNCHANGED <<arg, rfd, task, tries>>,
         \A p \in Txs : acct[p].status \in Taken => acct'[p].status \in Taken
  PROVE  RefundsFit'
BY Typed DEF RefundsFit

LEMMA InitIInv == Init => IInv
<1> SUFFICES ASSUME Init PROVE IInv
  OBVIOUS
<1>1. \A p \in Txs : acct[p] = NoRow /\ pay[p] = NoRow /\ flow[p] = "idle"
  BY DEF Init, Provider!Init, Provider!NoAccount, NoRow
<1>2. NoRow \in Row
  BY DEF NoRow, Row, PayStatus, Provider!AccountStatus
<1>3. TypeOK
  <2>1. acct \in [Txs -> Provider!Account]
    BY <1>2, AccountIsRow DEF Init, Provider!Init, Provider!NoAccount, NoRow
  <2> QED
    BY <1>2, <2>1 DEF Init, TypeOK, RefundStatus, MaxRetries
<1>4. StatusesFit /\ AmountsFit
  BY <1>1 DEF StatusesFit, FlowFits, StatusFits, AmountsFit, RowFits, NoRow, Taken
<1>5. RequestsFit /\ RefundsFit /\ HooksFit /\ HandledFit
  BY DEF Init, RequestsFit, RefundsFit, HooksFit, HandledFit, Outstanding, ReqStep
<1>6. MoneyFits
  <2>1. ASSUME NEW p \in Txs PROVE Units(Held(p)) = {} /\ Units(Counted(p)) = {}
    <3>1. Held(p) = {} /\ Counted(p) = {}
      BY DEF Init, Held, Counted, Outstanding
    <3> QED
      BY <3>1 DEF Units
  <2> QED
    BY <1>1, <2>1, FS_EmptySet DEF MoneyFits, NoRow
<1>7. FaultFree
  BY <1>1 DEF Init, FaultFree, NoRow, Taken
<1> QED
  BY <1>3, <1>4, <1>5, <1>6, <1>7 DEF IInv

(***************************************************************************)
(* CreatePayment and its capture goroutine                                 *)
(***************************************************************************)
LEMMA AuthorizeStep ==
  ASSUME IInv, NEW p \in Txs, NEW a \in TxAmounts, NEW s \in {"authorized", "declined"},
         NEW c, Authorize(p, a, s, c)
  PROVE  IInv'
<1>1. /\ flow[p] = "idle" /\ acct[p].status = "none"
      /\ UNCHANGED <<rfd, task, tries, hooks, pay, past, stored, handled, pc, arg>>
      /\ flow' = [flow EXCEPT ![p] = IF c = "ok" THEN "insert" ELSE "failed"]
  BY DEF Authorize, GotoFlow, refunding
<1>2. TypeOK /\ acct \in [Txs -> Row] /\ a \in Nat \ {0}
  BY Typed, PaymentAssumption DEF IInv
<1>3. faults' \in Nat /\ (faults' = 0 => c = "ok" /\ faults = 0)
  BY <1>2, Counted0 DEF Authorize
<1>4. pay[p].status = "none" /\ acct[p].refunded = 0
  BY <1>1 DEF IInv, StatusesFit, FlowFits, AmountsFit, RowFits, Taken
<1>5. PICK row : row = [status |-> s, amount |-> a, refunded |-> 0]
  OBVIOUS
<1>6. row \in Row /\ row.status = s /\ row.amount = a /\ row.refunded = 0
  BY <1>2, <1>5 DEF Row, PayStatus, Provider!AccountStatus
<1>7. /\ acct' \in [Txs -> Row] /\ acct'[p] \in {acct[p], row}
      /\ c = "ok" => acct'[p] = row
      /\ \A q \in Txs : q # p => acct'[q] = acct[q]
  <2>1. (acct' = acct /\ c # "ok") \/ acct' = [acct EXCEPT ![p] = row]
    BY <1>5 DEF Authorize, AuthorizePayment, Acts, Provider!Open
  <2> QED
    BY <1>2, <1>6, <2>1
<1>8. /\ flow'[p] = (IF c = "ok" THEN "insert" ELSE "failed")
      /\ \A q \in Txs : q # p => flow'[q] = flow[q]
  BY <1>1 DEF IInv, TypeOK
<1>9. TypeOK'
  <2>1. flow' \in [Txs -> FlowStep \cup {"idle", "done", "failed"}]
    BY <1>1 DEF IInv, TypeOK, FlowStep
  <2> QED
    BY <1>1, <1>3, <1>7, <2>1, AccountIsRow DEF IInv, TypeOK
<1>10. StatusesFit'
  BY <1>1, <1>4, <1>6, <1>7, <1>8 DEF IInv, StatusesFit, FlowFits, StatusFits, Taken
<1>11. AmountsFit'
  BY <1>1, <1>2, <1>4, <1>6, <1>7 DEF IInv, AmountsFit, RowFits, Taken
<1>12. RequestsFit' /\ RefundsFit'
  <2>1. \A q \in Txs : /\ Known(q) => Known(q)'
                       /\ acct[q].status = "voided" => acct'[q].status = "voided"
                       /\ acct[q].status \in Taken => acct'[q].status \in Taken
    BY <1>1, <1>7, <1>8 DEF Known, Taken
  <2> QED
    BY <1>1, <2>1, RequestsKept, RefundsKept DEF IInv
<1>13. HooksFit'
  <2>1. Onward
    BY <1>1, <1>7 DEF Onward, Taken
  <2> QED
    BY <1>1, <2>1, HooksKept DEF IInv, HooksFit
<1>14. HandledFit'
  BY <1>1, HandledKept DEF IInv, RowsOnward
<1>15. MoneyFits'
  BY <1>1, <1>3, <1>4, <1>6, <1>7, MoneyKept DEF IInv
<1>16. FaultFree'
  BY <1>1, <1>3, <1>4, <1>6, <1>7, <1>8 DEF IInv, FaultFree, RefundHook, Hook, Taken
<1> QED
  BY <1>9, <1>10, <1>11, <1>12, <1>13, <1>14, <1>15, <1>16 DEF IInv

LEMMA InsertStep ==
  ASSUME IInv, NEW p \in Txs, NEW next \in {"mark_pending", "delay"},
         NEW o \in Outcomes, Insert(p, next, o)
  PROVE  IInv'
<1>1. PICK row : row = NewPayment(p)
  OBVIOUS
<1>2. PICK label : label = CASE o # "ok" -> "failed"
                             [] o = "ok" /\ row.status = "declined" -> "done"
                             [] OTHER -> next
  OBVIOUS
<1>3. /\ flow[p] = "insert" /\ UNCHANGED <<provider, stored, handled, pc, arg>>
      /\ CreatePayment(p, row, o)
      /\ flow' = [flow EXCEPT ![p] = label]
  BY <1>1, <1>2 DEF Insert, GotoFlow
<1>4. UNCHANGED <<acct, rfd, task, tries, hooks, stored, handled, pc, arg>>
  BY <1>3 DEF provider, refunding
<1>5. TypeOK /\ acct[p] \in Row /\ pay \in [Txs -> Row]
  BY Typed DEF IInv
<1>6. faults' \in Nat /\ (faults' = 0 => o = "ok" /\ faults = 0)
  BY <1>5, Counted0 DEF Insert
<1>7. /\ acct[p].status \in {"authorized", "declined"} /\ pay[p].status = "none"
      /\ acct[p].amount # 0 /\ pay[p].refunded = 0
  BY <1>3 DEF IInv, StatusesFit, FlowFits, AmountsFit, RowFits, Taken
<1>8. row \in Row /\ row.status = acct[p].status /\ row.amount = acct[p].amount
      /\ row.refunded = 0
  BY <1>1, <1>5 DEF NewPayment, Row
<1>9. /\ pay' \in [Txs -> Row] /\ past' \in [Txs -> SUBSET Row]
      /\ pay'[p] \in {pay[p], row} /\ (o = "ok" => pay'[p] = row)
      /\ \A q \in Txs : q # p => pay'[q] = pay[q]
  <2>1. past \in [Txs -> SUBSET Row]
    BY DEF IInv, TypeOK
  <2> QED
    BY <1>3, <1>5, <1>8, <2>1 DEF CreatePayment, KeepRow, WriteRow
<1>10. /\ label \in {"failed", "done", "mark_pending", "delay"}
       /\ label \in {"mark_pending", "delay"} => o = "ok" /\ row.status = "authorized"
       /\ label = "done" => o = "ok"
       /\ o = "ok" => label # "failed"
  BY <1>2, <1>7, <1>8
<1>11. flow'[p] = label /\ \A q \in Txs : q # p => flow'[q] = flow[q]
  BY <1>3 DEF IInv, TypeOK
<1>12. TypeOK'
  <2>1. flow' \in [Txs -> FlowStep \cup {"idle", "done", "failed"}]
    BY <1>3, <1>10 DEF IInv, TypeOK, FlowStep
  <2> QED
    BY <1>4, <1>6, <1>9, <2>1 DEF IInv, TypeOK
<1>13. StatusesFit'
  BY <1>4, <1>7, <1>8, <1>9, <1>10, <1>11 DEF IInv, StatusesFit, FlowFits, StatusFits, Taken
<1>14. AmountsFit'
  BY <1>4, <1>7, <1>8, <1>9 DEF IInv, AmountsFit, RowFits, Taken
<1>15. RequestsFit' /\ RefundsFit'
  <2>1. \A q \in Txs : Known(q) => Known(q)'
    BY <1>3, <1>11 DEF Known
  <2> QED
    BY <1>4, <2>1, RequestsKept, RefundsKept DEF IInv
<1>16. HooksFit'
  BY <1>4, HooksKept DEF IInv, HooksFit, Onward
<1>17. HandledFit'
  <2>1. RowsOnward
    BY <1>7, <1>9 DEF RowsOnward, Taken
  <2> QED
    BY <1>4, <2>1, HandledKept DEF IInv
<1>18. MoneyFits'
  BY <1>4, <1>6, <1>7, <1>8, <1>9, MoneyKept DEF IInv
<1>19. FaultFree'
  BY <1>4, <1>6, <1>7, <1>8, <1>9, <1>10, <1>11
     DEF IInv, FaultFree, RefundHook, Hook, Taken
<1> QED
  BY <1>12, <1>13, <1>14, <1>15, <1>16, <1>17, <1>18, <1>19 DEF IInv

\* MarkPending and DelayedUpdate: the status is written whatever it is by now.
LEMMA PendingStep ==
  ASSUME IInv, NEW p \in Txs, NEW o \in Outcomes,
         flow[p] \in {"mark_pending", "delayed_update"},
         UpdatePaymentStatus(p, "capture_pending", o),
         GotoFlow(p, IF o = "ok" THEN "capture" ELSE "done"), Count(o),
         UNCHANGED <<provider, stored, handled, pc, arg>>
  PROVE  IInv'
<1>1. UNCHANGED <<acct, rfd, task, tries, hooks, stored, handled, pc, arg>>
  BY DEF provider, refunding
<1>2. TypeOK /\ "capture_pending" \in PayStatus
  BY DEF IInv, PayStatus, Provider!AccountStatus
<1>3. faults' \in Nat /\ (faults' = 0 => o = "ok" /\ faults = 0)
  BY <1>2, Counted0
<1>4. /\ pay' \in [Txs -> Row] /\ past' \in [Txs -> SUBSET Row]
      /\ pay'[p].status \in {pay[p].status, "capture_pending"}
      /\ o = "ok" => pay'[p].status = "capture_pending"
      /\ pay'[p].amount = pay[p].amount /\ pay'[p].refunded = pay[p].refunded
      /\ \A q \in Txs : q # p => pay'[q] = pay[q]
  BY <1>2, StatusUpdated
<1>5. /\ flow'[p] = (IF o = "ok" THEN "capture" ELSE "done")
      /\ \A q \in Txs : q # p => flow'[q] = flow[q]
  BY DEF IInv, TypeOK, GotoFlow
<1>6. /\ acct[p].status \in {"authorized", "voided"}
      /\ pay[p].status \in {"authorized", "voided"}
  BY DEF IInv, StatusesFit, FlowFits
<1>7. TypeOK'
  <2>1. flow' \in [Txs -> FlowStep \cup {"idle", "done", "failed"}]
    BY DEF IInv, TypeOK, FlowStep, GotoFlow
  <2> QED
    BY <1>1, <1>3, <1>4, <2>1 DEF IInv, TypeOK
<1>8. StatusesFit'
  BY <1>1, <1>4, <1>5, <1>6 DEF IInv, StatusesFit, FlowFits, StatusFits, Taken
<1>9. AmountsFit'
  BY <1>1, <1>4, <1>6 DEF IInv, AmountsFit, RowFits, Taken
<1>10. RequestsFit' /\ RefundsFit'
  <2>1. \A q \in Txs : Known(q) => Known(q)'
    BY <1>5 DEF Known
  <2> QED
    BY <1>1, <2>1, RequestsKept, RefundsKept DEF IInv
<1>11. HooksFit'
  BY <1>1, HooksKept DEF IInv, HooksFit, Onward
<1>12. HandledFit'
  <2>1. RowsOnward
    BY <1>4, <1>6 DEF RowsOnward, Taken
  <2> QED
    BY <1>1, <2>1, HandledKept DEF IInv
<1>13. MoneyFits'
  BY <1>1, <1>3, <1>4, MoneyKept DEF IInv
<1>14. FaultFree'
  BY <1>1, <1>3, <1>4, <1>5, <1>6 DEF IInv, FaultFree, RefundHook, Hook, Taken
<1> QED
  BY <1>7, <1>8, <1>9, <1>10, <1>11, <1>12, <1>13, <1>14 DEF IInv

LEMMA DelayedReadStep ==
  ASSUME IInv, NEW p \in Txs, NEW row, DelayedRead(p, row)
  PROVE  IInv'
<1>1. /\ flow[p] = "delay"
      /\ UNCHANGED <<acct, rfd, task, tries, hooks, pay, past, stored, handled, pc, arg, faults>>
  BY DEF DelayedRead, provider, refunding
<1>2. PICK label \in {"delayed_update", "done"} : flow' = [flow EXCEPT ![p] = label]
  BY DEF DelayedRead, GotoFlow
<1>3. flow'[p] = label /\ \A q \in Txs : q # p => flow'[q] = flow[q]
  BY <1>2 DEF IInv, TypeOK
<1>4. pay[p].status \in {"authorized", "voided"} /\ acct[p].status \in {"authorized", "voided"}
  BY <1>1 DEF IInv, StatusesFit, FlowFits
<1>5. TypeOK'
  <2>1. flow' \in [Txs -> FlowStep \cup {"idle", "done", "failed"}]
    BY <1>2 DEF IInv, TypeOK, FlowStep
  <2> QED
    BY <1>1, <2>1 DEF IInv, TypeOK
<1>6. StatusesFit' /\ AmountsFit'
  BY <1>1, <1>3, <1>4 DEF IInv, StatusesFit, FlowFits, StatusFits, AmountsFit, RowFits, Taken
<1>7. RequestsFit' /\ RefundsFit'
  <2>1. \A q \in Txs : Known(q) => Known(q)'
    BY <1>3 DEF Known
  <2> QED
    BY <1>1, <2>1, RequestsKept, RefundsKept DEF IInv
<1>8. HooksFit' /\ HandledFit' /\ MoneyFits'
  <2>1. HooksFit'
    BY <1>1, HooksKept DEF IInv, HooksFit, Onward
  <2>2. HandledFit'
    BY <1>1, HandledKept DEF IInv, RowsOnward
  <2> QED
    BY <1>1, <2>1, <2>2, MoneyKept DEF IInv
<1>9. FaultFree'
  BY <1>1, <1>3, <1>4 DEF IInv, FaultFree, RefundHook, Hook, Taken
<1> QED
  BY <1>5, <1>6, <1>7, <1>8, <1>9 DEF IInv

LEMMA CaptureStep ==
  ASSUME IInv, NEW p \in Txs, NEW c, Capture(p, c)
  PROVE  IInv'
<1>1. /\ flow[p] = "capture" /\ flow' = [flow EXCEPT ![p] = "done"]
      /\ UNCHANGED <<rfd, task, tries, hooks, pay, past, stored, handled, pc, arg>>
  BY DEF Capture, GotoFlow, refunding
<1>2. TypeOK /\ "capture_pending" \in PayStatus
  BY DEF IInv, PayStatus, Provider!AccountStatus
<1>3. faults' \in Nat /\ (faults' = 0 => c = "ok" /\ faults = 0)
  BY <1>2, Counted0 DEF Capture
<1>4. flow'[p] = "done" /\ \A q \in Txs : q # p => flow'[q] = flow[q]
  BY <1>1 DEF IInv, TypeOK
<1>5. /\ acct[p].status \in {"authorized", "voided"}
      /\ pay[p].status \in {"capture_pending", "voided"}
      /\ acct[p].status = "authorized" => pay[p].status = "capture_pending"
  BY <1>1 DEF IInv, StatusesFit, FlowFits, StatusFits
<1>6. /\ acct' \in [Txs -> Provider!Account]
      /\ \/ acct'[p].status = acct[p].status
         \/ acct[p].status = "authorized" /\ acct'[p].status = "capture_pending"
      /\ acct[p].status = "authorized" /\ c = "ok" => acct'[p].status = "capture_pending"
      /\ acct'[p].amount = acct[p].amount /\ acct'[p].refunded = acct[p].refunded
      /\ \A q \in Txs : q # p => acct'[q] = acct[q]
  <2>1. CASE acct[p].status = "authorized" /\ c # "call_down"
    <3>1. Provider!Move(p, "authorized", "capture_pending")
      BY <2>1 DEF Capture, CapturePayment, Acts, Provider!StartCapture
    <3> QED
      BY <1>2, <2>1, <3>1, Moved
  <2>2. CASE ~(acct[p].status = "authorized" /\ c # "call_down")
    <3>1. acct' = acct
      BY <2>2 DEF Capture, CapturePayment, Acts
    <3> QED
      BY <2>2, <3>1 DEF IInv, TypeOK
  <2> QED
    BY <2>1, <2>2
<1>7. TypeOK'
  <2>1. flow' \in [Txs -> FlowStep \cup {"idle", "done", "failed"}]
    BY <1>1 DEF IInv, TypeOK
  <2> QED
    BY <1>1, <1>3, <1>6, <2>1 DEF IInv, TypeOK
<1>8. StatusesFit'
  BY <1>1, <1>4, <1>5, <1>6 DEF IInv, StatusesFit, FlowFits, StatusFits, Taken
<1>9. AmountsFit'
  BY <1>1, <1>5, <1>6 DEF IInv, AmountsFit, RowFits, Taken
<1>10. RequestsFit' /\ RefundsFit'
  <2>1. \A q \in Txs : /\ Known(q) => Known(q)'
                       /\ acct[q].status = "voided" => acct'[q].status = "voided"
                       /\ acct[q].status \in Taken => acct'[q].status \in Taken
    BY <1>1, <1>4, <1>5, <1>6 DEF Known, Taken
  <2> QED
    BY <1>1, <2>1, RequestsKept, RefundsKept DEF IInv
<1>11. HooksFit'
  <2>1. Onward
    BY <1>1, <1>5, <1>6 DEF Onward, Taken
  <2> QED
    BY <1>1, <2>1, HooksKept DEF IInv, HooksFit
<1>12. HandledFit'
  BY <1>1, HandledKept DEF IInv, RowsOnward
<1>13. MoneyFits'
  BY <1>1, <1>3, <1>6, MoneyKept DEF IInv
<1>14. FaultFree'
  BY <1>1, <1>3, <1>4, <1>5, <1>6 DEF IInv, FaultFree, RefundHook, Hook, Taken
<1> QED
  BY <1>7, <1>8, <1>9, <1>10, <1>11, <1>12, <1>13, <1>14 DEF IInv

(***************************************************************************)
(* Void and refund requests                                                *)
(***************************************************************************)
LEMMA ReadStep ==
  ASSUME IInv, NEW r \in Reqs, pc[r] = "idle", Known(arg[r].tx),
         NEW label \in {"void_call", "refund_call", "failed"}, Goto(r, label),
         UNCHANGED <<provider, pay, past, stored, handled, flow, arg, faults>>
  PROVE  IInv'
<1>1. UNCHANGED <<acct, rfd, task, tries, hooks, pay, past, stored, handled, flow, arg, faults>>
  BY DEF provider, refunding
<1>2. pc'[r] = label /\ \A q \in Reqs : q # r => pc'[q] = pc[q]
  BY DEF IInv, TypeOK, Goto
<1>3. TypeOK'
  <2>1. pc' \in [Reqs -> ReqStep \cup {"idle", "done", "failed"}]
    BY DEF IInv, TypeOK, Goto, ReqStep
  <2> QED
    BY <1>1, <2>1 DEF IInv, TypeOK
<1>4. StatusesFit' /\ AmountsFit'
  BY <1>1 DEF IInv, StatusesFit, AmountsFit
<1>5. RequestsFit'
  BY <1>1, <1>2 DEF IInv, RequestsFit, Known
<1>6. RefundsFit' /\ HooksFit' /\ HandledFit' /\ MoneyFits'
  <2>1. HooksFit'
    BY <1>1, HooksKept DEF IInv, HooksFit, Onward
  <2>2. HandledFit'
    BY <1>1, HandledKept DEF IInv, RowsOnward
  <2> QED
    BY <1>1, <2>1, <2>2, MoneyKept, RefundsKept DEF IInv
<1>7. FaultFree'
  BY <1>1 DEF IInv, FaultFree, RefundHook, Hook
<1> QED
  BY <1>3, <1>4, <1>5, <1>6, <1>7 DEF IInv

LEMMA VoidCallStep ==
  ASSUME IInv, NEW r \in Reqs, NEW c, NEW o, VoidCall(r, c, o)
  PROVE  IInv'
<1>1. PICK p \in Txs : p = arg[r].tx
  BY Typed DEF IInv
<1>2. /\ pc[r] = "void_call" /\ VoidPayment(p, c, o)
      /\ UNCHANGED <<rfd, task, tries, pay, past, stored, handled, flow, arg>>
      /\ pc' = [pc EXCEPT ![r] = IF Voidable(p) /\ c = "ok" THEN "void_update" ELSE "failed"]
  BY <1>1 DEF VoidCall, Goto, AfterVoid, Accepted, refunding
<1>3. TypeOK /\ "voided" \in PayStatus
  BY DEF IInv, PayStatus, Provider!AccountStatus
<1>4. faults' \in Nat /\ (faults' = 0 => c = "ok" /\ o = "ok" /\ faults = 0)
  BY <1>3, Counted0 DEF VoidCall
<1>5. Known(p) /\ task[r] = "idle"
  BY <1>1, <1>2 DEF IInv, RequestsFit, ReqStep
<1>6. PICK h : h = Hook(p, "voided")
  OBVIOUS
<1>7. h \in Webhook /\ h.tx = p /\ h.event = "voided"
  BY <1>3, <1>6 DEF Hook, Webhook
<1>8. /\ acct' \in [Txs -> Provider!Account]
      /\ acct'[p].amount = acct[p].amount /\ acct'[p].refunded = acct[p].refunded
      /\ \A q \in Txs : q # p => acct'[q] = acct[q]
      /\ \/ acct'[p].status = acct[p].status /\ hooks' = hooks
         \/ /\ acct[p].status = "authorized" /\ acct'[p].status = "voided"
            /\ hooks' \in {hooks, hooks \cup {h}}
            /\ o = "ok" => hooks' = hooks \cup {h}
      /\ Voidable(p) /\ c = "ok" => acct'[p].status = "voided"
  <2>1. CASE Voidable(p) /\ c # "call_down"
    <3>1. Provider!Move(p, "authorized", "voided") /\ Post(h, o)
      BY <1>2, <1>6, <2>1 DEF VoidPayment, Acts, Provider!Void
    <3> QED
      BY <1>3, <2>1, <3>1, Moved DEF Post
  <2>2. CASE ~(Voidable(p) /\ c # "call_down")
    <3>1. acct' = acct /\ hooks' = hooks
      BY <1>2, <2>2 DEF VoidPayment, Acts
    <3> QED
      BY <2>2, <3>1 DEF IInv, TypeOK
  <2> QED
    BY <2>1, <2>2
<1>9. /\ pc'[r] = (IF Voidable(p) /\ c = "ok" THEN "void_update" ELSE "failed")
      /\ \A q \in Reqs : q # r => pc'[q] = pc[q]
  BY <1>2 DEF IInv, TypeOK
<1>10. /\ flow[p] \in {"delay", "delayed_update", "capture", "done"}
       /\ acct[p].status = "authorized" => pay[p].status \in {"authorized", "capture_pending"}
  BY <1>5 DEF IInv, Known, StatusesFit, FlowFits, StatusFits
<1>11. TypeOK'
  <2>1. pc' \in [Reqs -> ReqStep \cup {"idle", "done", "failed"}]
    BY <1>2 DEF IInv, TypeOK, ReqStep
  <2>2. hooks' \subseteq Webhook /\ hooks \subseteq hooks'
    BY <1>7, <1>8 DEF IInv, TypeOK
  <2> QED
    BY <1>2, <1>4, <1>8, <2>1, <2>2 DEF IInv, TypeOK
<1>12. StatusesFit'
  BY <1>2, <1>8, <1>10 DEF IInv, StatusesFit, FlowFits, StatusFits, Taken
<1>13. AmountsFit'
  BY <1>2, <1>8 DEF IInv, AmountsFit, RowFits, Taken
<1>14. RequestsFit'
  <2>1. ASSUME NEW q \in Reqs, q # r
        PROVE  /\ pc'[q] \in ReqStep => Known(arg[q].tx)'
               /\ pc'[q] = "void_update" => acct'[arg'[q].tx].status = "voided"
               /\ pc'[q] \in ReqStep \cup {"idle"} => task'[q] = "idle"
    <3>1. arg[q].tx \in Txs
      BY <1>3, Typed
    <3> QED
      BY <1>2, <1>8, <1>9, <2>1, <3>1 DEF IInv, RequestsFit, Known
  <2>2. /\ Known(arg[r].tx)' /\ task'[r] = "idle"
        /\ pc'[r] = "void_update" => acct'[arg'[r].tx].status = "voided"
    BY <1>1, <1>2, <1>5, <1>8, <1>9 DEF Known
  <2> QED
    BY <2>1, <2>2 DEF RequestsFit
<1>15. RefundsFit'
  BY <1>2, <1>3, <1>8, RefundsKept DEF IInv, Taken
<1>16. HooksFit'
  <2>1. Onward
    BY <1>2, <1>8 DEF Onward, Taken
  <2>2. \A x \in hooks : HookFits(x)'
    BY <1>2, <2>1, HooksKept DEF IInv
  <2>3. CASE hooks' = hooks
    BY <2>2, <2>3 DEF HooksFit
  <2>4. CASE hooks' = hooks \cup {h} /\ acct'[p].status = "voided"
    <3>1. HookFits(h)'
      BY <1>7, <2>4 DEF HookFits
    <3> QED
      BY <2>2, <2>4, <3>1 DEF HooksFit
  <2> QED
    BY <1>8, <2>3, <2>4
<1>17. HandledFit'
  BY <1>2, HandledKept DEF IInv, RowsOnward
<1>18. MoneyFits'
  BY <1>2, <1>4, <1>8, MoneyKept DEF IInv
<1>19. FaultFree'
  BY <1>2, <1>4, <1>6, <1>8, <1>10 DEF IInv, FaultFree, RefundHook, Hook, Taken
<1> QED
  BY <1>11, <1>12, <1>13, <1>14, <1>15, <1>16, <1>17, <1>18, <1>19 DEF IInv

LEMMA VoidUpdateStep ==
  ASSUME IInv, NEW r \in Reqs, NEW o \in Outcomes, VoidUpdate(r, o)
  PROVE  IInv'
<1>1. PICK p \in Txs : p = arg[r].tx
  BY Typed DEF IInv
<1>2. PICK label \in {"done", "failed"} : pc' = [pc EXCEPT ![r] = label]
  BY DEF VoidUpdate, Goto
<1>3. /\ pc[r] = "void_update" /\ UpdatePaymentStatus(p, "voided", o)
      /\ UNCHANGED <<acct, rfd, task, tries, hooks, stored, handled, flow, arg>>
  BY <1>1 DEF VoidUpdate, provider, refunding
<1>4. TypeOK /\ "voided" \in PayStatus
  BY DEF IInv, PayStatus, Provider!AccountStatus
<1>5. faults' \in Nat /\ (faults' = 0 => o = "ok" /\ faults = 0)
  BY <1>4, Counted0 DEF VoidUpdate
<1>6. /\ pay' \in [Txs -> Row] /\ past' \in [Txs -> SUBSET Row]
      /\ pay'[p].status \in {pay[p].status, "voided"}
      /\ pay'[p].amount = pay[p].amount /\ pay'[p].refunded = pay[p].refunded
      /\ \A q \in Txs : q # p => pay'[q] = pay[q]
  BY <1>3, <1>4, StatusUpdated
<1>7. pc'[r] = label /\ \A q \in Reqs : q # r => pc'[q] = pc[q]
  BY <1>2 DEF IInv, TypeOK
<1>8. acct[p].status = "voided"
      /\ pay[p].status \in {"authorized", "voided", "capture_pending"}
  BY <1>1, <1>3 DEF IInv, RequestsFit, StatusesFit, StatusFits
<1>9. TypeOK'
  <2>1. pc' \in [Reqs -> ReqStep \cup {"idle", "done", "failed"}]
    BY <1>2 DEF IInv, TypeOK
  <2> QED
    BY <1>3, <1>5, <1>6, <2>1 DEF IInv, TypeOK
<1>10. StatusesFit'
  BY <1>3, <1>6, <1>8 DEF IInv, StatusesFit, FlowFits, StatusFits, Taken
<1>11. AmountsFit'
  BY <1>3, <1>6, <1>8 DEF IInv, AmountsFit, RowFits, Taken
<1>12. RequestsFit'
  BY <1>3, <1>7 DEF IInv, RequestsFit, Known, ReqStep
<1>13. RefundsFit' /\ HooksFit'
  BY <1>3, <1>4, RefundsKept, HooksKept DEF IInv, HooksFit, Onward
<1>14. HandledFit'
  <2>1. RowsOnward
    BY <1>6, <1>8 DEF RowsOnward, Taken
  <2> QED
    BY <1>3, <2>1, HandledKept DEF IInv
<1>15. MoneyFits'
  BY <1>3, <1>5, <1>6, MoneyKept DEF IInv
<1>16. FaultFree'
  BY <1>3, <1>5, <1>6, <1>8 DEF IInv, FaultFree, RefundHook, Hook, Taken
<1> QED
  BY <1>9, <1>10, <1>11, <1>12, <1>13, <1>14, <1>15, <1>16 DEF IInv

(***************************************************************************)
(* Totals of refunds                                                       *)
(***************************************************************************)
LEMMA UnitsOf ==
  ASSUME TypeOK, NEW r \in Reqs
  PROVE  /\ IsFiniteSet({r} \X (1..arg[r].amount))
         /\ Cardinality({r} \X (1..arg[r].amount)) = arg[r].amount
<1>1. PICK a \in Nat \ {0} : a = arg[r].amount
  BY Typed
<1>2. IsFiniteSet(1..a) /\ Cardinality(1..a) = a
  BY FS_Interval
<1>3. IsFiniteSet({r}) /\ Cardinality({r}) = 1
  BY FS_Singleton
<1>4. /\ IsFiniteSet({r} \X (1..a))
      /\ Cardinality({r} \X (1..a)) = Cardinality({r}) * Cardinality(1..a)
  BY <1>2, <1>3, FS_Product
<1>5. Cardinality({r}) * Cardinality(1..a) = a
  BY <1>2, <1>3
<1> QED
  BY <1>1, <1>4, <1>5

LEMMA UnitsFinite ==
  ASSUME TypeOK, NEW S \in SUBSET Reqs
  PROVE  IsFiniteSet(Units(S)) /\ Cardinality(Units(S)) \in Nat
<1> DEFINE U(r) == {r} \X (1..arg[r].amount)
           T == {U(r) : r \in S}
           f == [r \in S |-> U(r)]
<1>1. IsFiniteSet(S)
  BY FS_Subset, PaymentAssumption
<1>2. f \in Surjection(S, T)
  BY DEF Surjection
<1>3. IsFiniteSet(T)
  BY <1>1, <1>2, FS_Surjection DEF ExistsSurjection
<1>4. \A u \in T : IsFiniteSet(u)
  BY UnitsOf
<1>5. IsFiniteSet(UNION T)
  BY <1>3, <1>4, FS_UNION
<1>6. IsFiniteSet(Units(S))
  BY <1>5 DEF Units
<1> QED
  BY <1>6, FS_CardinalityType

\* One more refund adds its amount.
LEMMA UnitsAdded ==
  ASSUME TypeOK, NEW S \in SUBSET Reqs, NEW r \in Reqs \ S
  PROVE  Cardinality(Units(S \cup {r})) = Cardinality(Units(S)) + arg[r].amount
<1> DEFINE U == {r} \X (1..arg[r].amount)
<1>1. Units(S \cup {r}) = Units(S) \cup U /\ Units(S) \cap U = {}
  BY DEF Units
<1>2. IsFiniteSet(Units(S)) /\ Cardinality(Units(S)) \in Nat
  BY UnitsFinite
<1>3. IsFiniteSet(U) /\ Cardinality(U) = arg[r].amount /\ arg[r].amount \in Nat
  BY UnitsOf, Typed
<1> HIDE DEF U
<1>4. Cardinality(Units(S) \cup U)
        = Cardinality(Units(S)) + Cardinality(U) - Cardinality(Units(S) \cap U)
  BY <1>2, <1>3, FS_Union
<1>5. Cardinality(Units(S) \cap U) = 0
  BY <1>1, FS_EmptySet
<1>6. Cardinality(Units(S) \cup U) = Cardinality(Units(S)) + arg[r].amount
  BY <1>2, <1>3, <1>4, <1>5
<1>7. Cardinality(Units(S \cup {r})) = Cardinality(Units(S) \cup U)
  BY <1>1
<1> QED
  BY <1>6, <1>7

LEMMA UnitsWithin ==
  ASSUME TypeOK, NEW S \in SUBSET Reqs, NEW T \in SUBSET S
  PROVE  Cardinality(Units(T)) <= Cardinality(Units(S))
<1>1. Units(T) \subseteq Units(S)
  BY DEF Units
<1>2. IsFiniteSet(Units(S))
  BY UnitsFinite
<1> QED
  BY <1>1, <1>2, FS_Subset

LEMMA SameUnits ==
  ASSUME UNCHANGED arg, NEW S
  PROVE  Cardinality(Units(S))' = Cardinality(Units(S))
BY DEF Units

(***************************************************************************)
(* Refunds                                                                 *)
(***************************************************************************)
\* A refund is asked for, through Paymanager or directly.
LEMMA AskedStep ==
  ASSUME IInv, NEW r \in Reqs, NEW c, NEW label \in {"done", "failed"},
         pc[r] \in {"idle", "refund_call"}, RefundPayment(r, c), Goto(r, label),
         faults' \in Nat, faults' = 0 => faults = 0,
         UNCHANGED <<hooks, pay, past, stored, handled, flow, arg>>
  PROVE  IInv'
<1>1. PICK p \in Txs : p = arg[r].tx
  BY Typed DEF IInv
<1>2. PICK a \in Nat \ {0} : a = arg[r].amount
  BY Typed DEF IInv
<1>3. TypeOK /\ acct[p] \in Row
  BY Typed DEF IInv
<1>4. /\ task[r] = "idle" /\ rfd[r] = "none"
      /\ rfd \in [Reqs -> RefundStatus]
      /\ task \in [Reqs -> TaskStep \cup {"idle", "done"}]
      /\ UNCHANGED tries
  BY DEF IInv, RequestsFit, RefundsFit, ReqStep, TypeOK, RefundPayment
<1>5. pc'[r] = label /\ \A q \in Reqs : q # r => pc'[q] = pc[q]
  BY DEF IInv, TypeOK, Goto
<1>6. pc' \in [Reqs -> ReqStep \cup {"idle", "done", "failed"}]
  BY DEF IInv, TypeOK, Goto
<1>7. StatusesFit /\ AmountsFit /\ RequestsFit /\ RefundsFit /\ HooksFit
       /\ HandledFit /\ MoneyFits /\ FaultFree
  BY DEF IInv
<1>8. CASE ~(Refundable(r) /\ c # "call_down")
  <2>1. acct' = acct /\ rfd' = rfd /\ task' = task
    BY <1>8 DEF RefundPayment, Acts
  <2>2. TypeOK'
    BY <1>4, <1>6, <2>1 DEF IInv, TypeOK
  <2>3. StatusesFit' /\ AmountsFit' /\ RefundsFit' /\ HooksFit'
    BY <1>3, <1>4, <1>7, <2>1, RefundsKept, HooksKept
       DEF StatusesFit, AmountsFit, HooksFit, Onward
  <2>4. RequestsFit'
    BY <1>5, <1>7, <2>1 DEF RequestsFit, Known, ReqStep
  <2>5. HandledFit' /\ MoneyFits'
    BY <1>3, <1>7, <2>1, HandledKept, MoneyKept DEF RowsOnward
  <2>6. FaultFree'
    BY <1>7, <2>1 DEF FaultFree, RefundHook, Hook
  <2> QED
    BY <2>2, <2>3, <2>4, <2>5, <2>6 DEF IInv
<1>9. CASE Refundable(r) /\ c # "call_down"
  <2>1. PICK n : n = acct[p].refunded + a
    OBVIOUS
  <2>2. /\ Provider!Refund(p, a) /\ rfd' = [rfd EXCEPT ![r] = "refund_pending"]
        /\ task' = [task EXCEPT ![r] = "bank"]
    BY <1>1, <1>2, <1>9 DEF RefundPayment, Acts, GotoTask
  <2>3. /\ acct[p].status \in {"captured", "partially_refunded"}
        /\ acct[p].amount \in Nat /\ acct[p].refunded \in Nat /\ n \in Nat
        /\ Provider!SetRefunded(p, n)
    BY <1>3, <2>1, <2>2, Fields DEF Provider!Refund, Provider!Refundable
  <2>4. /\ acct' \in [Txs -> Provider!Account]
        /\ acct'[p].status = StatusOf(n, acct[p].amount)
        /\ acct'[p].amount = acct[p].amount /\ acct'[p].refunded = n
        /\ \A q \in Txs : q # p => acct'[q] = acct[q]
    BY <1>3, <2>3, RefundedSet
  <2>5. acct[p].status \in Taken /\ acct'[p].status \in Taken
    BY <2>3, <2>4 DEF Taken, StatusOf
  <2>6. /\ rfd'[r] = "refund_pending" /\ task'[r] = "bank"
        /\ \A q \in Reqs : q # r => rfd'[q] = rfd[q] /\ task'[q] = task[q]
    BY <1>4, <2>2
  <2>7. TypeOK'
    <3>1. rfd' \in [Reqs -> RefundStatus]
      BY <1>4, <2>2 DEF RefundStatus
    <3>2. task' \in [Reqs -> TaskStep \cup {"idle", "done"}]
      BY <1>4, <2>2 DEF TaskStep
    <3> QED
      BY <1>4, <1>6, <2>4, <3>1, <3>2 DEF IInv, TypeOK
  <2>8. StatusesFit'
    BY <1>7, <2>4, <2>5 DEF StatusesFit, FlowFits, StatusFits, Taken
  <2>9. AmountsFit'
    BY <1>7, <2>4, <2>5 DEF AmountsFit, RowFits, Taken
  <2>10. RequestsFit'
    <3>1. \A q \in Reqs : arg[q].tx \in Txs
      BY <1>3, Typed
    <3> QED
      BY <1>5, <1>7, <2>4, <2>5, <2>6, <3>1 DEF RequestsFit, Known, ReqStep, Taken
  <2>11. RefundsFit'
    <3>1. \A q \in Reqs : arg[q].tx \in Txs
      BY <1>3, Typed
    <3> QED
      BY <1>1, <1>4, <1>7, <2>4, <2>5, <2>6, <3>1 DEF RefundsFit
  <2>12. HooksFit'
    <3>1. Onward
      BY <1>4, <2>4, <2>5, <2>6 DEF Onward, Taken
    <3> QED
      BY <1>3, <1>7, <3>1, HooksKept DEF HooksFit
  <2>13. HandledFit'
    BY <1>3, <1>7, HandledKept DEF RowsOnward
  <2>14. MoneyFits'
    <3>1. \A q \in Txs : Counted(q)' = Counted(q)
      BY DEF Counted
    <3>2. \A q \in Txs : q # p => Held(q)' = Held(q)
      BY <1>1, <2>6 DEF Held, Outstanding
    <3>3. Held(p)' = Held(p) \cup {r} /\ r \notin Held(p) /\ Held(p) \subseteq Reqs
      BY <1>1, <1>4, <2>6 DEF Held, Outstanding
    <3>4. PICK S : S = Held(p) \cup {r}
      OBVIOUS
    <3>5. Cardinality(Units(S)) = Cardinality(Units(Held(p))) + a
      BY <1>2, <1>3, <3>3, <3>4, UnitsAdded
    <3>6. Cardinality(Units(S))' = Cardinality(Units(S))
      BY SameUnits
    <3>7. Cardinality(Units(Held(p)))' = Cardinality(Units(S))'
      BY <3>3, <3>4
    <3>8. faults' = 0 => acct'[p].refunded = Cardinality(Units(Held(p)))'
      BY <1>7, <2>1, <2>4, <3>5, <3>6, <3>7 DEF MoneyFits
    <3>9. ASSUME NEW q \in Txs
          PROVE  /\ Cardinality(Units(Counted(q)))' = Cardinality(Units(Counted(q)))
                 /\ q # p => Cardinality(Units(Held(q)))' = Cardinality(Units(Held(q)))
      BY <3>1, <3>2 DEF Units
    <3> QED
      BY <1>7, <2>4, <3>8, <3>9 DEF MoneyFits
  <2>15. FaultFree'
    BY <1>4, <1>7, <2>4, <2>5, <2>6 DEF FaultFree, RefundHook, Hook, Taken
  <2> QED
    BY <2>7, <2>8, <2>9, <2>10, <2>11, <2>12, <2>13, <2>14, <2>15 DEF IInv
<1> QED
  BY <1>8, <1>9

LEMMA RefundCallStep ==
  ASSUME IInv, NEW r \in Reqs, NEW c, RefundCall(r, c)
  PROVE  IInv'
<1>1. PICK label \in {"done", "failed"} : Goto(r, label)
  BY DEF RefundCall
<1>2. faults' \in Nat /\ (faults' = 0 => faults = 0)
  BY Counted0 DEF RefundCall, IInv
<1> QED
  BY <1>1, <1>2, AskedStep DEF RefundCall

LEMMA DirectRefundStep ==
  ASSUME IInv, NEW r \in Reqs, DirectRefund(r)
  PROVE  IInv'
<1>1. faults' \in Nat
  BY DEF DirectRefund, IInv, TypeOK
<1> QED
  BY <1>1, AskedStep DEF DirectRefund

LEMMA RefundAnsweredStep ==
  ASSUME IInv, NEW r \in Reqs, NEW ok \in BOOLEAN, NEW o, RefundAnswered(r, ok, o)
  PROVE  IInv'
<1>1. PICK s : s = IF ok THEN "refunded" ELSE "refund_failed"
  OBVIOUS
<1>2. PICK label : label = CASE o # "ok" -> "done"
                             [] o = "ok" /\ ok -> "hook"
                             [] OTHER -> "release"
  OBVIOUS
<1>3. /\ task[r] = "bank" /\ task' = [task EXCEPT ![r] = label]
      /\ rfd' = IF o = "db_error" THEN rfd ELSE [rfd EXCEPT ![r] = s]
      /\ UNCHANGED <<acct, tries, hooks, pay, past, stored, handled, flow, pc, arg>>
  BY <1>1, <1>2 DEF RefundAnswered, GotoTask
<1>4. /\ TypeOK /\ rfd \in [Reqs -> RefundStatus]
      /\ task \in [Reqs -> TaskStep \cup {"idle", "done"}]
  BY DEF IInv, TypeOK
<1>5. faults' \in Nat /\ (faults' = 0 => o = "ok" /\ faults = 0)
  BY <1>4, Counted0 DEF RefundAnswered
<1>6. StatusesFit /\ AmountsFit /\ RequestsFit /\ RefundsFit /\ HooksFit
      /\ HandledFit /\ MoneyFits /\ FaultFree
  BY DEF IInv
<1>7. /\ label \in {"done", "hook", "release"}
      /\ o = "ok" => label = (IF ok THEN "hook" ELSE "release")
      /\ o # "ok" => label = "done"
  BY <1>2
<1>8. /\ task'[r] = label /\ rfd'[r] \in {rfd[r], s}
      /\ o = "ok" => rfd'[r] = s
      /\ \A q \in Reqs : q # r => rfd'[q] = rfd[q] /\ task'[q] = task[q]
  BY <1>3, <1>4
<1>9. rfd[r] = "refund_pending" /\ tries[r] = 0
  BY <1>3, <1>6 DEF RefundsFit
<1>10. TypeOK'
  <2>1. rfd' \in [Reqs -> RefundStatus]
    BY <1>1, <1>3, <1>4 DEF RefundStatus
  <2>2. task' \in [Reqs -> TaskStep \cup {"idle", "done"}]
    BY <1>3, <1>4, <1>7 DEF TaskStep
  <2> QED
    BY <1>3, <1>5, <2>1, <2>2 DEF IInv, TypeOK
<1>11. StatusesFit' /\ AmountsFit'
  BY <1>3, <1>6 DEF StatusesFit, AmountsFit
<1>12. RequestsFit'
  BY <1>3, <1>6, <1>7, <1>8 DEF RequestsFit, Known
<1>13. RefundsFit'
  <2>1. ASSUME NEW q \in Reqs, q # r
        PROVE  /\ task'[q] # "idle" => acct'[arg'[q].tx].status \in Taken
               /\ task'[q] = "idle" => rfd'[q] = "none"
               /\ task'[q] = "bank" => rfd'[q] = "refund_pending"
               /\ task'[q] = "release" => rfd'[q] = "refund_failed" /\ tries'[q] < MaxRetries
               /\ task'[q] = "hook" => rfd'[q] \in {"refunded", "refund_failed"}
               /\ task'[q] \in {"idle", "bank"} => tries'[q] = 0
    BY <1>3, <1>6, <1>8, <2>1 DEF RefundsFit
  <2>2. acct'[arg'[r].tx].status \in Taken
    BY <1>3, <1>6 DEF RefundsFit
  <2>3. /\ task'[r] = "release" => rfd'[r] = "refund_failed" /\ tries'[r] < MaxRetries
        /\ task'[r] = "hook" => rfd'[r] \in {"refunded", "refund_failed"}
        /\ task'[r] \notin {"idle", "bank"}
    BY <1>1, <1>3, <1>7, <1>8, <1>9 DEF MaxRetries
  <2> QED
    BY <2>1, <2>2, <2>3 DEF RefundsFit
<1>14. HooksFit'
  <2>1. Onward
    BY <1>3, <1>8, <1>9 DEF Onward
  <2> QED
    BY <1>3, <1>4, <1>6, <2>1, HooksKept DEF HooksFit
<1>15. HandledFit'
  BY <1>3, <1>4, <1>6, HandledKept DEF RowsOnward
<1>16. MoneyFits'
  <2>1. ASSUME NEW q \in Txs
        PROVE  /\ Cardinality(Units(Counted(q)))' = Cardinality(Units(Counted(q)))
               /\ o = "ok" => Cardinality(Units(Held(q)))' = Cardinality(Units(Held(q)))
    <3>1. Counted(q)' = Counted(q)
      BY <1>3 DEF Counted
    <3>2. o = "ok" => Held(q)' = Held(q)
      BY <1>1, <1>3, <1>7, <1>8 DEF Held, Outstanding
    <3> QED
      BY <1>3, <3>1, <3>2 DEF Units
  <2> QED
    BY <1>3, <1>5, <1>6, <2>1 DEF MoneyFits
<1>17. FaultFree'
  <2>1. faults' = 0 => \A q \in Reqs : rfd'[q] = "refunded" =>
                         RefundHook(q)' \in hooks' \/ task'[q] = "hook"
    BY <1>1, <1>3, <1>5, <1>6, <1>7, <1>8 DEF FaultFree, RefundHook
  <2> QED
    BY <1>3, <1>5, <1>6, <2>1 DEF FaultFree, Hook
<1> QED
  BY <1>10, <1>11, <1>12, <1>13, <1>14, <1>15, <1>16, <1>17 DEF IInv

\* As long as nothing failed, what is to be released is held.
LEMMA HeldFits ==
  ASSUME IInv, faults = 0, NEW p \in Txs, NEW r \in Held(p)
  PROVE  arg[r].amount <= acct[p].refunded
<1>1. TypeOK /\ r \in Reqs /\ Held(p) \subseteq Reqs
  BY DEF IInv, Held
<1>2. PICK S : S = Held(p) \ {r}
  OBVIOUS
<1>3. Held(p) = S \cup {r} /\ r \notin S /\ S \subseteq Reqs
  BY <1>1, <1>2
<1>4. /\ Cardinality(Units(S \cup {r})) = Cardinality(Units(S)) + arg[r].amount
      /\ Cardinality(Units(S)) \in Nat
  BY <1>1, <1>3, UnitsAdded, UnitsFinite
<1>5. acct[p].refunded = Cardinality(Units(Held(p)))
  BY DEF IInv, MoneyFits
<1>6. arg[r].amount \in Nat
  BY <1>1, Typed
<1> QED
  BY <1>3, <1>4, <1>5, <1>6

LEMMA ReleaseStep ==
  ASSUME IInv, NEW r \in Reqs, NEW o, ReleaseRefundAmount(r, o)
  PROVE  IInv'
<1>1. PICK p \in Txs : p = arg[r].tx
  BY Typed DEF IInv
<1>2. PICK a \in Nat \ {0} : a = arg[r].amount
  BY Typed DEF IInv
<1>3. PICK label \in {"hook", "release"} :
        /\ task' = [task EXCEPT ![r] = label]
        /\ label = "hook" <=> (a <= acct[p].refunded /\ o = "ok") \/ tries[r] + 1 = MaxRetries
  BY <1>1, <1>2 DEF ReleaseRefundAmount, GotoTask
<1>4. /\ task[r] = "release" /\ tries' = [tries EXCEPT ![r] = @ + 1]
      /\ IF a <= acct[p].refunded /\ o # "db_error" THEN Provider!GiveBack(p, a)
         ELSE UNCHANGED acct
      /\ UNCHANGED <<rfd, hooks, pay, past, stored, handled, flow, pc, arg>>
  BY <1>1, <1>2 DEF ReleaseRefundAmount
<1>5. /\ TypeOK /\ acct[p] \in Row
      /\ task \in [Reqs -> TaskStep \cup {"idle", "done"}]
      /\ tries \in [Reqs -> 0..MaxRetries]
  BY Typed DEF IInv, TypeOK
<1>6. faults' \in Nat /\ (faults' = 0 => o = "ok" /\ faults = 0)
  BY <1>5, Counted0 DEF ReleaseRefundAmount
<1>7. StatusesFit /\ AmountsFit /\ RequestsFit /\ RefundsFit /\ HooksFit
      /\ HandledFit /\ MoneyFits /\ FaultFree
  BY DEF IInv
<1>8. /\ rfd[r] = "refund_failed" /\ acct[p].status \in Taken
      /\ tries[r] \in 0..2
  BY <1>1, <1>4, <1>5, <1>7 DEF RefundsFit, MaxRetries
<1>9. /\ task'[r] = label /\ tries'[r] = tries[r] + 1
      /\ \A q \in Reqs : q # r => task'[q] = task[q] /\ tries'[q] = tries[q]
  BY <1>3, <1>4, <1>5
<1>10. faults' = 0 => a <= acct[p].refunded /\ label = "hook"
  <2>1. r \in Held(p)
    BY <1>1, <1>4 DEF Held, Outstanding
  <2> QED
    BY <1>2, <1>3, <1>6, <2>1, HeldFits
<1>11. /\ acct' \in [Txs -> Provider!Account]
       /\ acct'[p].status \in Taken
       /\ acct'[p].status = StatusOf(acct'[p].refunded, acct'[p].amount)
       /\ acct'[p].amount = acct[p].amount
       /\ o = "ok" /\ a <= acct[p].refunded => acct'[p].refunded = acct[p].refunded - a
       /\ \A q \in Txs : q # p => acct'[q] = acct[q]
  <2>1. CASE ~(a <= acct[p].refunded /\ o # "db_error")
    <3>1. acct' = acct
      BY <1>4, <2>1
    <3> QED
      BY <1>7, <1>8, <2>1, <3>1 DEF AmountsFit, RowFits, IInv, TypeOK
  <2>2. CASE a <= acct[p].refunded /\ o # "db_error"
    <3>1. PICK n : n = acct[p].refunded - a
      OBVIOUS
    <3>2. Provider!SetRefunded(p, n)
      BY <1>4, <2>2, <3>1 DEF Provider!GiveBack
    <3>3. acct[p].refunded \in Nat
      BY <1>5, Fields
    <3>4. n \in Nat
      BY <2>2, <3>1, <3>3
    <3>5. /\ acct' \in [Txs -> Provider!Account]
          /\ acct'[p].status = StatusOf(n, acct[p].amount)
          /\ acct'[p].amount = acct[p].amount /\ acct'[p].refunded = n
          /\ \A q \in Txs : q # p => acct'[q] = acct[q]
      BY <1>5, <3>2, <3>4, RefundedSet
    <3>6. acct'[p].status \in Taken
      BY <3>5 DEF Taken, StatusOf
    <3> QED
      BY <2>2, <3>1, <3>5, <3>6
  <2> QED
    BY <2>1, <2>2
<1>12. TypeOK'
  <2>1. task' \in [Reqs -> TaskStep \cup {"idle", "done"}]
    BY <1>3, <1>5 DEF TaskStep
  <2>2. tries' \in [Reqs -> 0..MaxRetries]
    BY <1>4, <1>5, <1>8 DEF MaxRetries
  <2> QED
    BY <1>4, <1>6, <1>11, <2>1, <2>2 DEF IInv, TypeOK
<1>13. StatusesFit'
  BY <1>4, <1>7, <1>8, <1>11 DEF StatusesFit, FlowFits, StatusFits, Taken
<1>14. AmountsFit'
  BY <1>4, <1>7, <1>8, <1>11 DEF AmountsFit, RowFits, Taken
<1>15. RequestsFit' /\ RefundsFit'
  <2>1. \A q \in Reqs : arg[q].tx \in Txs
    BY <1>5, Typed
  <2>2. RequestsFit'
    BY <1>4, <1>7, <1>8, <1>9, <1>11, <2>1 DEF RequestsFit, Known, Taken
  <2>3. ASSUME NEW q \in Reqs, q # r
        PROVE  /\ task'[q] # "idle" => acct'[arg'[q].tx].status \in Taken
               /\ task'[q] = "idle" => rfd'[q] = "none"
               /\ task'[q] = "bank" => rfd'[q] = "refund_pending"
               /\ task'[q] = "release" => rfd'[q] = "refund_failed" /\ tries'[q] < MaxRetries
               /\ task'[q] = "hook" => rfd'[q] \in {"refunded", "refund_failed"}
               /\ task'[q] \in {"idle", "bank"} => tries'[q] = 0
    BY <1>4, <1>7, <1>9, <1>11, <2>1, <2>3 DEF RefundsFit
  <2>4. /\ acct'[arg'[r].tx].status \in Taken
        /\ rfd'[r] = "refund_failed"
        /\ task'[r] = "release" => tries'[r] < MaxRetries
    BY <1>1, <1>3, <1>4, <1>8, <1>9, <1>11 DEF MaxRetries
  <2>5. RefundsFit'
    BY <1>9, <2>3, <2>4 DEF RefundsFit
  <2> QED
    BY <2>2, <2>5
<1>16. HooksFit'
  <2>1. Onward
    BY <1>4, <1>8, <1>11 DEF Onward, Taken
  <2> QED
    BY <1>4, <1>5, <1>7, <2>1, HooksKept DEF HooksFit
<1>17. HandledFit'
  BY <1>4, <1>5, <1>7, HandledKept DEF RowsOnward
<1>18. MoneyFits'
  <2>1. ASSUME NEW q \in Txs
        PROVE  /\ Cardinality(Units(Counted(q)))' = Cardinality(Units(Counted(q)))
               /\ q # p => Cardinality(Units(Held(q)))' = Cardinality(Units(Held(q)))
    <3>1. Counted(q)' = Counted(q)
      BY <1>4 DEF Counted
    <3>2. q # p => Held(q)' = Held(q)
      BY <1>1, <1>4, <1>9 DEF Held, Outstanding
    <3> QED
      BY <1>4, <3>1, <3>2 DEF Units
  <2>2. ASSUME faults' = 0
        PROVE  acct'[p].refunded = Cardinality(Units(Held(p)))'
    <3>1. PICK S : S = Held(p)'
      OBVIOUS
    <3>2. Held(p) = S \cup {r} /\ r \notin S /\ S \subseteq Reqs
      BY <1>1, <1>4, <1>8, <1>9, <1>10, <2>2, <3>1 DEF Held, Outstanding
    <3>3. Cardinality(Units(Held(p))) = Cardinality(Units(S)) + a
          /\ Cardinality(Units(S)) \in Nat
      BY <1>2, <1>5, <3>2, UnitsAdded, UnitsFinite
    <3>4. Cardinality(Units(S))' = Cardinality(Units(S))
      BY <1>4, SameUnits
    <3>5. Cardinality(Units(Held(p)))' = Cardinality(Units(S))'
      BY <3>1
    <3>6. acct[p].refunded = Cardinality(Units(Held(p)))
      BY <1>6, <1>7, <2>2 DEF MoneyFits
    <3>7. acct'[p].refunded = Cardinality(Units(S))
      BY <1>6, <1>10, <1>11, <2>2, <3>3, <3>6
    <3> QED
      BY <3>4, <3>5, <3>7
  <2> QED
    BY <1>4, <1>6, <1>7, <1>11, <2>1, <2>2 DEF MoneyFits
<1>19. FaultFree'
  <2>1. faults' = 0 => \A q \in Reqs : rfd'[q] = "refunded" =>
                         RefundHook(q)' \in hooks' \/ task'[q] = "hook"
    BY <1>4, <1>6, <1>7, <1>8, <1>9 DEF FaultFree, RefundHook
  <2> QED
    BY <1>4, <1>6, <1>7, <1>8, <1>11, <2>1 DEF FaultFree, Hook, Taken
<1> QED
  BY <1>12, <1>13, <1>14, <1>15, <1>16, <1>17, <1>18, <1>19 DEF IInv

LEMMA SendRefundResultStep ==
  ASSUME IInv, NEW r \in Reqs, NEW o, SendRefundResult(r, o)
  PROVE  IInv'
<1>1. PICK p \in Txs : p = arg[r].tx
  BY Typed DEF IInv
<1>2. PICK h : h = [tx |-> p, event |-> rfd[r], refund |-> r]
  OBVIOUS
<1>3. /\ task[r] = "hook" /\ task' = [task EXCEPT ![r] = "done"] /\ Post(h, o)
      /\ UNCHANGED <<acct, rfd, tries, pay, past, stored, handled, flow, pc, arg>>
  BY <1>1, <1>2 DEF SendRefundResult, GotoTask
<1>4. /\ TypeOK /\ task \in [Reqs -> TaskStep \cup {"idle", "done"}]
  BY DEF IInv, TypeOK
<1>5. faults' \in Nat /\ (faults' = 0 => o = "ok" /\ faults = 0)
  BY <1>4, Counted0 DEF SendRefundResult
<1>6. StatusesFit /\ AmountsFit /\ RequestsFit /\ RefundsFit /\ HooksFit
      /\ HandledFit /\ MoneyFits /\ FaultFree
  BY DEF IInv
<1>7. task'[r] = "done" /\ \A q \in Reqs : q # r => task'[q] = task[q]
  BY <1>3, <1>4
<1>8. rfd[r] \in {"refunded", "refund_failed"}
  BY <1>3, <1>6 DEF RefundsFit
<1>9. h \in Webhook /\ h.tx = p /\ h.event = rfd[r] /\ h.refund = r
      /\ hooks' \in {hooks, hooks \cup {h}} /\ (o = "ok" => hooks' = hooks \cup {h})
  BY <1>2, <1>3, <1>8 DEF Webhook, RefundStatus, Post
<1>10. TypeOK'
  <2>1. task' \in [Reqs -> TaskStep \cup {"idle", "done"}]
    BY <1>3, <1>4
  <2>2. hooks' \subseteq Webhook /\ hooks \subseteq hooks'
    BY <1>9 DEF IInv, TypeOK
  <2> QED
    BY <1>3, <1>5, <2>1, <2>2 DEF IInv, TypeOK
<1>11. StatusesFit' /\ AmountsFit'
  BY <1>3, <1>6 DEF StatusesFit, AmountsFit
<1>12. RequestsFit' /\ RefundsFit'
  BY <1>3, <1>6, <1>7 DEF RequestsFit, RefundsFit, Known
<1>13. HooksFit'
  <2>1. Onward
    BY <1>3 DEF Onward
  <2>2. \A x \in hooks : HookFits(x)'
    BY <1>3, <1>4, <1>6, <2>1, HooksKept
  <2>3. HookFits(h)'
    <3>1. rfd[r] = "refunded" => h = [tx |-> arg'[r].tx, event |-> "refunded", refund |-> r]
      BY <1>1, <1>2, <1>3
    <3> QED
      BY <1>3, <1>8, <1>9, <3>1 DEF HookFits, RefundHook
  <2> QED
    BY <1>9, <2>2, <2>3 DEF HooksFit
<1>14. HandledFit'
  BY <1>3, <1>4, <1>6, HandledKept DEF RowsOnward
<1>15. MoneyFits'
  <2>1. ASSUME NEW q \in Txs
        PROVE  /\ Cardinality(Units(Counted(q)))' = Cardinality(Units(Counted(q)))
               /\ Cardinality(Units(Held(q)))' = Cardinality(Units(Held(q)))
    <3>1. Counted(q)' = Counted(q) /\ Held(q)' = Held(q)
      BY <1>3, <1>7 DEF Counted, Held, Outstanding
    <3> QED
      BY <1>3, <3>1 DEF Units
  <2> QED
    BY <1>3, <1>5, <1>6, <2>1 DEF MoneyFits
<1>16. FaultFree'
  <2>1. rfd[r] = "refunded" => h = RefundHook(r)'
    BY <1>1, <1>2, <1>3 DEF RefundHook
  <2>2. \A q \in Reqs : RefundHook(q)' = RefundHook(q)
    BY <1>3 DEF RefundHook
  <2>3. faults' = 0 => \A q \in Reqs : rfd'[q] = "refunded" =>
                         RefundHook(q)' \in hooks' \/ task'[q] = "hook"
    BY <1>3, <1>5, <1>6, <1>7, <1>9, <2>1, <2>2 DEF FaultFree
  <2> QED
    BY <1>3, <1>5, <1>6, <1>9, <2>3 DEF FaultFree, Hook
<1> QED
  BY <1>10, <1>11, <1>12, <1>13, <1>14, <1>15, <1>16 DEF IInv

LEMMA SettleAsyncStep ==
  ASSUME IInv, NEW p \in Txs, NEW ok \in BOOLEAN, NEW o, SettleAsync(p, ok, o)
  PROVE  IInv'
<1>1. PICK h : h = Hook(p, "capture_pending")
  OBVIOUS
<1>2. PICK s : s = IF ok THEN "captured" ELSE "capture_failed"
  OBVIOUS
<1>3. /\ Provider!Move(p, "capture_pending", s)
      /\ Post(h, o)
      /\ UNCHANGED <<rfd, task, tries, pay, past, stored, handled, flow, pc, arg>>
  BY <1>1, <1>2 DEF SettleAsync, Provider!FinishCapture, refunding
<1>4. TypeOK /\ s \in PayStatus /\ "capture_pending" \in PayStatus
  BY <1>2 DEF IInv, PayStatus, Provider!AccountStatus
<1>5. faults' \in Nat /\ (faults' = 0 => o = "ok" /\ faults = 0)
  BY <1>4, Counted0 DEF SettleAsync
<1>6. /\ acct' \in [Txs -> Provider!Account]
      /\ acct[p].status = "capture_pending" /\ acct'[p].status = s
      /\ acct'[p].amount = acct[p].amount /\ acct'[p].refunded = acct[p].refunded
      /\ \A q \in Txs : q # p => acct'[q] = acct[q]
  BY <1>3, <1>4, Moved
<1>7. StatusesFit /\ AmountsFit /\ RequestsFit /\ RefundsFit /\ HooksFit
      /\ HandledFit /\ MoneyFits /\ FaultFree
  BY DEF IInv
<1>8. acct[p].refunded = 0 /\ acct[p].amount # 0
  BY <1>6, <1>7 DEF AmountsFit, RowFits, Taken
<1>9. h \in Webhook /\ h.tx = p /\ h.event = "capture_pending"
      /\ hooks' \in {hooks, hooks \cup {h}} /\ (o = "ok" => hooks' = hooks \cup {h})
  BY <1>1, <1>3, <1>4, <1>6 DEF Webhook, Hook, Post
<1>10. TypeOK'
  <2>1. hooks' \subseteq Webhook /\ hooks \subseteq hooks'
    BY <1>9 DEF IInv, TypeOK
  <2> QED
    BY <1>3, <1>5, <1>6, <2>1 DEF IInv, TypeOK
<1>11. StatusesFit'
  BY <1>2, <1>3, <1>6, <1>7 DEF StatusesFit, FlowFits, StatusFits, Taken
<1>12. AmountsFit'
  <2>1. RowFits(acct[p])'
    <3>1. PICK n \in Nat \ {0} : n = acct[p].amount
      BY <1>4, <1>8, Typed, Fields
    <3>2. StatusOf(0, n) = "captured"
      BY <3>1 DEF StatusOf
    <3>3. s \in Taken => s = StatusOf(0, acct[p].amount)
      BY <1>2, <3>1, <3>2 DEF Taken
    <3> QED
      BY <1>2, <1>6, <1>8, <3>3 DEF RowFits, Taken
  <2>2. \A q \in Txs : q # p => RowFits(acct[q])'
    BY <1>6, <1>7 DEF AmountsFit, RowFits
  <2> QED
    BY <1>3, <1>6, <1>7, <2>1, <2>2 DEF AmountsFit, RowFits
<1>13. RequestsFit' /\ RefundsFit'
  <2>1. \A q \in Txs : /\ Known(q) => Known(q)'
                       /\ acct[q].status = "voided" => acct'[q].status = "voided"
                       /\ acct[q].status \in Taken => acct'[q].status \in Taken
    BY <1>3, <1>6 DEF Known, Taken
  <2> QED
    BY <1>3, <1>4, <1>7, <2>1, RequestsKept, RefundsKept
<1>14. HooksFit'
  <2>1. Onward
    BY <1>3, <1>6 DEF Onward, Taken
  <2>2. \A x \in hooks : HookFits(x)'
    BY <1>3, <1>4, <1>7, <2>1, HooksKept
  <2>3. HookFits(h)'
    BY <1>2, <1>6, <1>9 DEF HookFits, Taken
  <2> QED
    BY <1>9, <2>2, <2>3 DEF HooksFit
<1>15. HandledFit'
  BY <1>3, <1>4, <1>7, HandledKept DEF RowsOnward
<1>16. MoneyFits'
  BY <1>3, <1>5, <1>6, <1>7, MoneyKept
<1>17. FaultFree'
  <2> SUFFICES ASSUME faults' = 0 PROVE FaultFree'
    BY DEF FaultFree
  <2>1. hooks' = hooks \cup {h} /\ faults = 0
    BY <1>5, <1>9
  <2>2. \A q \in Reqs : rfd'[q] = "refunded" =>
                         RefundHook(q)' \in hooks' \/ task'[q] = "hook"
    BY <1>3, <1>7, <2>1 DEF FaultFree, RefundHook
  <2> QED
    BY <1>2, <1>3, <1>6, <1>7, <2>1, <2>2 DEF FaultFree, Hook
<1> QED
  BY <1>10, <1>11, <1>12, <1>13, <1>14, <1>15, <1>16, <1>17 DEF IInv

(***************************************************************************)
(* Webhooks and crashes                                                    *)
(***************************************************************************)

\* The row a webhook writes, given what the provider has done.
LEMMA RowAfterWebhook ==
  ASSUME IInv, NEW h \in hooks, NEW p \in Txs, p = h.tx, ~DeliveryFails(h),
         ~Ignored(pay[p], h), NEW row, row = AfterWebhook(pay[p], h)
  PROVE  /\ row \in Row /\ row.amount = pay[p].amount
         /\ row.refunded = IF h.event = "refunded"
                           THEN pay[p].refunded + arg[h.refund].amount
                           ELSE pay[p].refunded
         /\ RowFits(row)
         /\ \/ /\ h.event = "refunded" /\ acct[p].status \in Taken
               /\ pay[p].status \in Taken \cup {"capture_pending"} /\ row.status \in Taken
            \/ /\ h.event = "voided" /\ acct[p].status = "voided"
               /\ pay[p].status = "authorized" /\ row.status = "voided"
<1>1. HookFits(h) /\ StatusFits(acct[p].status, pay[p].status) /\ RowFits(pay[p])
  BY DEF IInv, HooksFit, StatusesFit, AmountsFit
<1>2. pay[p] \in Row
  BY Typed DEF IInv
<1>3. pay[p].status # "none" /\ h.event # "capture_pending"
  BY DEF DeliveryFails
<1>4. pay[p].amount \in Nat \ {0} /\ pay[p].refunded \in Nat
  BY <1>1, <1>2, <1>3, Fields DEF RowFits
<1>5. CASE h.event = "refunded"
  <2>1. PICK r \in Reqs : r = h.refund /\ h = RefundHook(r) /\ rfd[r] = "refunded"
    BY <1>1, <1>5 DEF HookFits
  <2>2. PICK a \in Nat \ {0} : a = arg[r].amount
    BY Typed DEF IInv
  <2>3. arg[r].tx = p
    BY <2>1 DEF RefundHook
  <2>4. acct[p].status \in Taken
    BY <2>1, <2>3 DEF IInv, RefundsFit
  <2>5. PICK n : n = pay[p].refunded + a
    OBVIOUS
  <2>6. PICK s : s = IF n >= pay[p].amount THEN "refunded" ELSE "partially_refunded"
    OBVIOUS
  <2>7. row = [pay[p] EXCEPT !.refunded = n, !.status = s]
    BY <1>5, <2>1, <2>2, <2>5, <2>6 DEF AfterWebhook, UpdatePaymentRefund
  <2>8. n \in Nat /\ n > 0
    BY <1>4, <2>5
  <2>9. s \in PayStatus /\ s \in Taken
    BY <2>6 DEF PayStatus, Provider!AccountStatus, Taken
  <2>10. row \in Row /\ row.status = s /\ row.amount = pay[p].amount /\ row.refunded = n
    BY <1>2, <2>7, <2>8, <2>9 DEF Row
  <2>11. s = StatusOf(n, pay[p].amount)
    BY <1>4, <2>6, <2>8 DEF StatusOf
  <2>12. RowFits(row)
    <3>1. row.status = StatusOf(row.refunded, row.amount) /\ row.status \in Taken
      BY <2>9, <2>10, <2>11
    <3>2. row.amount # 0 /\ row.status # "none"
      BY <1>4, <2>9, <2>10 DEF Taken
    <3> QED
      BY <3>1, <3>2 DEF RowFits
  <2>13. pay[p].status \in Taken \cup {"capture_pending"}
    BY <1>1, <2>4 DEF StatusFits
  <2>14. row.refunded = pay[p].refunded + arg[h.refund].amount
    BY <2>1, <2>2, <2>5, <2>10
  <2> QED
    BY <1>5, <2>4, <2>9, <2>10, <2>12, <2>13, <2>14
<1>6. CASE h.event # "refunded"
  <2>1. CanTransitionTo(pay[p].status, h.event) /\ row = [pay[p] EXCEPT !.status = h.event]
    BY <1>6 DEF Ignored, AfterWebhook
  <2>2. h.event = "voided" /\ pay[p].status = "authorized" /\ acct[p].status = "voided"
    BY <1>1, <1>3, <1>6, <2>1 DEF HookFits, CanTransitionTo
  <2>3. h.event \in PayStatus
    BY <2>2 DEF PayStatus, Provider!AccountStatus
  <2>4. row \in Row /\ row.status = h.event /\ row.amount = pay[p].amount
        /\ row.refunded = pay[p].refunded
    BY <1>2, <2>1, <2>3 DEF Row
  <2>5. pay[p].refunded = 0
    BY <1>1, <2>2 DEF RowFits, Taken
  <2>6. RowFits(row)
    BY <1>4, <2>2, <2>4, <2>5 DEF RowFits, Taken
  <2> QED
    BY <1>6, <2>2, <2>4, <2>6
<1> QED
  BY <1>5, <1>6

\* A delivery that changes nothing: the row says it already.
LEMMA WebhookIgnoredStep ==
  ASSUME IInv, NEW h \in hooks, ~DeliveryFails(h), Ignored(pay[h.tx], h) \/ Duplicate(h),
         handled' = handled \cup {h},
         UNCHANGED <<acct, rfd, task, tries, hooks, pay, past, stored, flow, pc, arg, faults>>
  PROVE  IInv'
<1>1. TypeOK /\ HooksFit /\ HandledFit /\ h.tx \in Txs
  BY Typed DEF IInv
<1>2. HookFits(h) /\ StatusFits(acct[h.tx].status, pay[h.tx].status)
  BY <1>1 DEF IInv, HooksFit, StatusesFit
<1>3. h.event # "capture_pending" /\ pay[h.tx].status # "none"
  BY DEF DeliveryFails
<1>4. /\ h.event = "voided" => pay[h.tx].status \in {"voided", "capture_pending"}
      /\ h.event = "refunded" => h \in stored
  <2>1. CASE h \in stored
    BY <1>1, <2>1 DEF HandledFit
  <2>2. CASE h \notin stored
    <3>1. h.event # "refunded" /\ ~CanTransitionTo(pay[h.tx].status, h.event)
      BY <2>2 DEF Ignored, Duplicate
    <3> QED
      BY <1>2, <1>3, <3>1 DEF HookFits, StatusFits, CanTransitionTo, Taken
  <2> QED
    BY <2>1, <2>2
<1>5. HandledFit'
  BY <1>1, <1>3, <1>4 DEF HandledFit
<1>6. TypeOK'
  BY DEF IInv, TypeOK
<1>7. StatusesFit' /\ AmountsFit' /\ RequestsFit' /\ RefundsFit'
  BY DEF IInv, StatusesFit, AmountsFit, RequestsFit, RefundsFit, Known, Outstanding
<1>8. HooksFit' /\ MoneyFits'
  BY <1>1, HooksKept, MoneyKept DEF IInv, HooksFit, Onward
<1>9. FaultFree'
  BY DEF IInv, FaultFree, RefundHook, Hook
<1> QED
  BY <1>5, <1>6, <1>7, <1>8, <1>9 DEF IInv

\* A delivery that writes the row and its event.
LEMMA WebhookStoredStep ==
  ASSUME IInv, NEW h \in hooks, ~DeliveryFails(h), ~Ignored(pay[h.tx], h), ~Duplicate(h),
         WriteRow(h.tx, AfterWebhook(pay[h.tx], h)),
         stored' = stored \cup {h}, handled' = handled \cup {h},
         UNCHANGED <<acct, rfd, task, tries, hooks, flow, pc, arg, faults>>
  PROVE  IInv'
<1>1. PICK p \in Txs : p = h.tx
  BY Typed DEF IInv
<1>2. PICK row : row = AfterWebhook(pay[p], h)
  OBVIOUS
<1>3. /\ row \in Row /\ row.amount = pay[p].amount /\ RowFits(row)
      /\ row.refunded = IF h.event = "refunded"
                        THEN pay[p].refunded + arg[h.refund].amount
                        ELSE pay[p].refunded
  BY <1>1, <1>2, RowAfterWebhook
<1>4. \/ /\ h.event = "refunded" /\ acct[p].status \in Taken
         /\ pay[p].status \in Taken \cup {"capture_pending"} /\ row.status \in Taken
      \/ /\ h.event = "voided" /\ acct[p].status = "voided"
         /\ pay[p].status = "authorized" /\ row.status = "voided"
  BY <1>1, <1>2, RowAfterWebhook
<1>5. TypeOK /\ pay \in [Txs -> Row] /\ past \in [Txs -> SUBSET Row]
  BY Typed DEF IInv, TypeOK
<1>6. StatusesFit /\ AmountsFit /\ RequestsFit /\ RefundsFit /\ HooksFit
      /\ HandledFit /\ MoneyFits /\ FaultFree
  BY DEF IInv
<1>7. /\ pay' \in [Txs -> Row] /\ past' \in [Txs -> SUBSET Row] /\ pay'[p] = row
      /\ \A q \in Txs : q # p => pay'[q] = pay[q]
  BY <1>1, <1>2, <1>3, <1>5 DEF WriteRow
<1>8. TypeOK'
  BY <1>7 DEF IInv, TypeOK
<1>9. StatusesFit'
  BY <1>4, <1>6, <1>7 DEF StatusesFit, FlowFits, StatusFits, Taken
<1>10. AmountsFit'
  <2>1. pay[p].status # "none"
    BY <1>4 DEF Taken
  <2>2. RowFits(pay[p])' /\ \A q \in Txs : RowFits(acct[q])' /\ (q # p => RowFits(pay[q])')
    BY <1>3, <1>6, <1>7 DEF AmountsFit, RowFits
  <2> QED
    BY <1>3, <1>6, <1>7, <2>1, <2>2 DEF AmountsFit
<1>11. RequestsFit' /\ RefundsFit'
  BY <1>5, <1>6, RequestsKept, RefundsKept DEF Known
<1>12. HooksFit'
  BY <1>5, <1>6, HooksKept DEF HooksFit, Onward
<1>13. HandledFit'
  <2>1. RowsOnward
    BY <1>4, <1>7 DEF RowsOnward, Taken
  <2>2. ASSUME NEW x \in handled
        PROVE  /\ x.event # "capture_pending"
               /\ x.event = "voided" => pay'[x.tx].status \in {"voided", "capture_pending"}
               /\ x.event = "refunded" => x \in stored'
    <3>1. x \in hooks /\ x.tx \in Txs /\ HookFits(x)
      BY <1>5, <1>6, Typed DEF TypeOK, HooksFit
    <3> QED
      BY <1>6, <2>1, <3>1 DEF HandledFit, RowsOnward, HookFits
  <2>3. /\ h.event # "capture_pending"
        /\ h.event = "voided" => pay'[h.tx].status \in {"voided", "capture_pending"}
        /\ h.event = "refunded" => h \in stored'
    BY <1>1, <1>4, <1>7 DEF Taken
  <2>4. stored' \subseteq handled'
    BY <1>6 DEF HandledFit
  <2> QED
    BY <2>2, <2>3, <2>4 DEF HandledFit
<1>14. MoneyFits'
  <2>1. ASSUME NEW q \in Txs
        PROVE  Cardinality(Units(Held(q)))' = Cardinality(Units(Held(q)))
    BY DEF Units, Held, Outstanding
  <2>2. ASSUME NEW q \in Txs, q # p \/ h.event # "refunded"
        PROVE  Cardinality(Units(Counted(q)))' = Cardinality(Units(Counted(q)))
    <3>1. Counted(q)' = Counted(q)
      BY <1>1, <2>2 DEF Counted
    <3> QED
      BY <3>1 DEF Units
  <2>3. CASE h.event # "refunded"
    BY <1>3, <1>6, <1>7, <2>1, <2>2, <2>3 DEF MoneyFits
  <2>4. CASE h.event = "refunded"
    <3>1. PICK r \in Reqs : r = h.refund /\ h = RefundHook(r)
      BY <1>6, <2>4 DEF HooksFit, HookFits
    <3>2. h = [tx |-> p, event |-> "refunded", refund |-> r]
      BY <1>1, <3>1 DEF RefundHook
    <3>3. PICK S : S = Counted(p) \cup {r}
      OBVIOUS
    <3>4. r \notin Counted(p) /\ Counted(p) \subseteq Reqs
      BY <3>2 DEF Counted, Duplicate
    <3>5. Counted(p)' = S
      BY <3>2, <3>3 DEF Counted
    <3>6. Cardinality(Units(S)) = Cardinality(Units(Counted(p))) + arg[r].amount
      BY <1>5, <3>3, <3>4, UnitsAdded
    <3>7. Cardinality(Units(S))' = Cardinality(Units(S))
      BY SameUnits
    <3>8. Cardinality(Units(Counted(p)))' = Cardinality(Units(S))'
      BY <3>5
    <3>9. pay'[p].refunded = Cardinality(Units(Counted(p)))'
      BY <1>3, <1>6, <1>7, <2>4, <3>1, <3>6, <3>7, <3>8 DEF MoneyFits
    <3> QED
      BY <1>6, <1>7, <2>1, <2>2, <3>9 DEF MoneyFits
  <2> QED
    BY <2>3, <2>4
<1>15. FaultFree'
  BY <1>4, <1>6, <1>7 DEF FaultFree, RefundHook, Hook, Taken
<1> QED
  BY <1>8, <1>9, <1>10, <1>11, <1>12, <1>13, <1>14, <1>15 DEF IInv

LEMMA HandleWebhookStep ==
  ASSUME IInv, NEW h \in hooks, HandleWebhook(h)
  PROVE  IInv'
<1>1. /\ ~DeliveryFails(h) /\ handled' = handled \cup {h}
      /\ UNCHANGED <<acct, rfd, task, tries, hooks, flow, pc, arg, faults>>
  BY DEF HandleWebhook, provider, refunding
<1>2. CASE Ignored(pay[h.tx], h) \/ Duplicate(h)
  BY <1>1, <1>2, WebhookIgnoredStep DEF HandleWebhook, KeepRow
<1>3. CASE ~(Ignored(pay[h.tx], h) \/ Duplicate(h))
  BY <1>1, <1>3, WebhookStoredStep DEF HandleWebhook
<1> QED
  BY <1>2, <1>3

LEMMA CrashStep ==
  ASSUME IInv, Crash
  PROVE  IInv'
<1>1. UNCHANGED <<acct, rfd, task, tries, hooks, pay, past, stored, handled, arg>>
  BY DEF Crash, provider, refunding
<1>2. faults' \in Nat /\ faults' # 0
  BY DEF Crash, IInv, TypeOK
<1>3. \A p \in Txs : flow'[p] = IF flow[p] \in FlowStep THEN
                        IF Known(p) THEN "done" ELSE "failed" ELSE flow[p]
  BY DEF Crash
<1>4. \A r \in Reqs : pc'[r] = IF pc[r] \in ReqStep THEN "failed" ELSE pc[r]
  BY DEF Crash
<1>5. TypeOK'
  <2>1. flow' \in [Txs -> FlowStep \cup {"idle", "done", "failed"}]
    BY DEF Crash, IInv, TypeOK
  <2>2. pc' \in [Reqs -> ReqStep \cup {"idle", "done", "failed"}]
    BY DEF Crash, IInv, TypeOK
  <2> QED
    BY <1>1, <1>2, <2>1, <2>2 DEF IInv, TypeOK
<1>6. StatusesFit'
  BY <1>1, <1>3 DEF IInv, StatusesFit, FlowFits, Known, FlowStep
<1>7. AmountsFit'
  BY <1>1 DEF IInv, AmountsFit
<1>8. RequestsFit'
  BY <1>1, <1>4 DEF IInv, RequestsFit, ReqStep
<1>9. RefundsFit' /\ HooksFit'
  BY <1>1, RefundsKept, HooksKept DEF IInv, HooksFit, Onward
<1>10. HandledFit' /\ MoneyFits'
  BY <1>1, <1>2, HandledKept, MoneyKept DEF IInv, RowsOnward
<1>11. FaultFree'
  BY <1>2 DEF FaultFree
<1> QED
  BY <1>5, <1>6, <1>7, <1>8, <1>9, <1>10, <1>11 DEF IInv

LEMMA StutterStep ==
  ASSUME IInv, UNCHANGED vars
  PROVE  IInv'
<1>1. UNCHANGED <<acct, rfd, task, tries, hooks, pay, past, stored, handled, flow, pc, arg, faults>>
  BY DEF vars, provider, refunding
<1>2. TypeOK' /\ StatusesFit' /\ AmountsFit'
  BY <1>1 DEF IInv, TypeOK, StatusesFit, AmountsFit
<1>3. RequestsFit' /\ RefundsFit'
  BY <1>1 DEF IInv, RequestsFit, RefundsFit, Known, Outstanding
<1>4. HooksFit' /\ HandledFit' /\ MoneyFits'
  BY <1>1, HooksKept, HandledKept, MoneyKept DEF IInv, HooksFit, Onward, RowsOnward
<1>5. FaultFree'
  BY <1>1 DEF IInv, FaultFree, RefundHook, Hook
<1> QED
  BY <1>2, <1>3, <1>4, <1>5 DEF IInv

LEMMA AdvanceStep ==
  ASSUME IInv, NEW p \in Txs, Advance(p)
  PROVE  IInv'
<1>1. CASE \E next \in {"mark_pending", "delay"}, o \in Outcomes : Insert(p, next, o)
  BY <1>1, InsertStep
<1>2. CASE \E o \in Outcomes : MarkPending(p, o) \/ DelayedUpdate(p, o)
  BY <1>2, PendingStep DEF MarkPending, DelayedUpdate
<1>3. CASE \E row \in Versions(p) : DelayedRead(p, row)
  BY <1>3, DelayedReadStep
<1>4. CASE \E c \in CallOutcomes : Capture(p, c)
  BY <1>4, CaptureStep
<1> QED
  BY <1>1, <1>2, <1>3, <1>4 DEF Advance

LEMMA ServeStep ==
  ASSUME IInv, NEW r \in Reqs, Serve(r)
  PROVE  IInv'
<1>1. CASE \E row \in Versions(arg[r].tx) : VoidRead(r, row) \/ RefundRead(r, row)
  BY <1>1, ReadStep DEF VoidRead, RefundRead
<1>2. CASE \E c \in CallOutcomes, o \in Posts : VoidCall(r, c, o)
  BY <1>2, VoidCallStep
<1>3. CASE \E o \in Outcomes : VoidUpdate(r, o)
  BY <1>3, VoidUpdateStep
<1>4. CASE \E c \in CallOutcomes : RefundCall(r, c)
  BY <1>4, RefundCallStep
<1>5. CASE DirectRefund(r)
  BY <1>5, DirectRefundStep
<1> QED
  BY <1>1, <1>2, <1>3, <1>4, <1>5 DEF Serve

LEMMA IInvStep == IInv /\ [Next]_vars => IInv'
<1> SUFFICES ASSUME IInv, [Next]_vars PROVE IInv'
  OBVIOUS
<1>1. CASE \E p \in Txs, a \in TxAmounts, s \in {"authorized", "declined"},
             c \in CallOutcomes : Authorize(p, a, s, c)
  BY <1>1, AuthorizeStep
<1>2. CASE \E p \in Txs : Advance(p)
  BY <1>2, AdvanceStep
<1>3. CASE \E p \in Txs, ok \in BOOLEAN, o \in Posts : SettleAsync(p, ok, o)
  BY <1>3, SettleAsyncStep
<1>4. CASE \E r \in Reqs : Serve(r)
  BY <1>4, ServeStep
<1>5. CASE \E r \in Reqs : Finish(r)
  BY <1>5, RefundAnsweredStep, ReleaseStep, SendRefundResultStep DEF Finish
<1>6. CASE \E h \in hooks : HandleWebhook(h)
  BY <1>6, HandleWebhookStep
<1>7. CASE Crash
  BY <1>7, CrashStep
<1>8. CASE UNCHANGED vars
  BY <1>8, StutterStep
<1> QED
  BY <1>1, <1>2, <1>3, <1>4, <1>5, <1>6, <1>7, <1>8 DEF Next

(***************************************************************************)
(* Theorems                                                                *)
(***************************************************************************)

\* The invariant holds always.
THEOREM Inductive == Spec => []IInv
BY InitIInv, IInvStep, PTL DEF Spec

\* Every variable keeps its type: what UpdatePaymentStatus and
\* UpdatePaymentRefund write is a row of table payments.
THEOREM TypeCorrect == Spec => []TypeOK
<1>1. IInv => TypeOK
  BY DEF IInv
<1> QED
  BY <1>1, Inductive, PTL

\* Stored refunds are refunds the bank has confirmed.
Confirmed(p) == {r \in Reqs : arg[r].tx = p /\ rfd[r] = "refunded"}

LEMMA CountedAreConfirmed ==
  ASSUME IInv, NEW p \in Txs
  PROVE  Counted(p) \subseteq Confirmed(p) /\ Confirmed(p) \subseteq Reqs
<1>1. ASSUME NEW r \in Counted(p) PROVE r \in Confirmed(p)
  <2>1. PICK h : h = [tx |-> p, event |-> "refunded", refund |-> r]
    OBVIOUS
  <2>2. h \in hooks /\ r \in Reqs
    BY <2>1 DEF Counted, IInv, TypeOK
  <2>3. h.event = "refunded" /\ h.refund = r /\ h.tx = p
    BY <2>1
  <2>4. h = RefundHook(r) /\ rfd[r] = "refunded"
    BY <2>2, <2>3 DEF IInv, HooksFit, HookFits
  <2>5. arg[r].tx = p
    BY <2>3, <2>4 DEF RefundHook
  <2> QED
    BY <2>2, <2>4, <2>5 DEF Confirmed
<1> QED
  BY <1>1 DEF Confirmed

\* Table payments never reports a void, a capture or a refund that the provider
\* did not carry out, however releases and webhooks fail or are repeated.
THEOREM NeverAhead == Spec => []PaymentNeverAhead
<1>1. IInv => PaymentNeverAhead
  <2> SUFFICES ASSUME IInv, NEW p \in Txs
               PROVE  /\ pay[p].status = "voided" => acct[p].status = "voided"
                      /\ pay[p].status \in Taken => acct[p].status \in Taken
                      /\ pay[p].refunded <= Cardinality(Units(Confirmed(p)))
    BY DEF PaymentNeverAhead, Confirmed
  <2>1. acct[p].status \in Provider!AccountStatus
    <3>1. acct[p] \in Row
      BY Typed DEF IInv
    <3> QED
      BY <3>1, Fields DEF PayStatus
  <2>2. StatusFits(acct[p].status, pay[p].status)
    BY DEF IInv, StatusesFit
  <2>3. Cardinality(Units(Counted(p))) <= Cardinality(Units(Confirmed(p)))
    BY CountedAreConfirmed, UnitsWithin DEF IInv
  <2>4. pay[p].refunded <= Cardinality(Units(Confirmed(p)))
    BY <2>3 DEF IInv, MoneyFits
  <2> QED
    BY <2>1, <2>2, <2>4 DEF StatusFits, Provider!AccountStatus, Taken
<1> QED
  BY <1>1, Inductive, PTL

\* A refund is added to refunded_amount once, however often its webhook is
\* delivered, and status updates keep the total.
THEOREM CountedOnce == Spec => []RefundsCountedOnce
<1>1. IInv => RefundsCountedOnce
  BY DEF IInv, MoneyFits, Counted, RefundsCountedOnce
<1> QED
  BY <1>1, Inductive, PTL

\* Without faults, the table and the provider agree when all is quiet, but for
\* a void that captureWithDelay overwrote and a capture that was settled, of
\* which no webhook tells the result.
THEOREM QuietAgrees == Spec => []AgreeWhenQuiet
<1>1. IInv => AgreeWhenQuiet
  <2> SUFFICES ASSUME IInv, Quiet, faults = 0, NEW p \in Txs,
                      ~VoidOverwritten(p), ~CaptureUnreported(p)
               PROVE  pay[p] = acct[p]
    BY DEF AgreeWhenQuiet
  <2>1. acct[p] \in Row /\ pay[p] \in Row /\ acct[p].status \in Provider!AccountStatus
    <3>1. acct[p] \in Row /\ pay[p] \in Row
      BY Typed DEF IInv
    <3> QED
      BY <3>1, Fields DEF PayStatus
  <2>2. /\ FlowFits(flow[p], acct[p].status, pay[p].status)
        /\ StatusFits(acct[p].status, pay[p].status)
        /\ RowFits(acct[p]) /\ RowFits(pay[p])
        /\ pay[p].status # "none" => pay[p].amount = acct[p].amount
    BY DEF IInv, StatusesFit, AmountsFit
  <2>3. /\ flow[p] \in {"idle", "done"}
        /\ acct[p].status # "capture_pending"
        /\ \A h \in hooks : h \in handled \/ h.event = "capture_pending"
    BY DEF IInv, Quiet, FaultFree, TypeOK
  <2>4. /\ acct[p].status = "none" => flow[p] = "idle"
        /\ acct[p].status = "authorized" /\ pay[p].status = "capture_pending" =>
             flow[p] = "capture"
        /\ acct[p].status = "voided" => Hook(p, "voided") \in hooks
    BY DEF IInv, FaultFree
  <2>5. Hook(p, "voided").event = "voided" /\ Hook(p, "voided").tx = p
    BY DEF Hook
  <2>6. acct[p].status = "voided" => pay[p].status \in {"voided", "capture_pending"}
    BY <2>3, <2>4, <2>5 DEF IInv, HandledFit
  <2>7. Counted(p) = Held(p)
    <3>1. ASSUME NEW r \in Held(p) PROVE r \in Counted(p)
      <4>1. r \in Reqs /\ arg[r].tx = p /\ task[r] \notin TaskStep
        BY DEF Held, Quiet
      <4>2. rfd[r] = "refunded" /\ task[r] # "hook"
        BY <4>1 DEF Held, Outstanding, TaskStep
      <4>3. RefundHook(r) \in hooks /\ RefundHook(r).event = "refunded"
        BY <4>1, <4>2 DEF IInv, FaultFree, RefundHook
      <4>4. RefundHook(r) \in stored
        BY <2>3, <4>3 DEF IInv, HandledFit
      <4> QED
        BY <4>1, <4>4 DEF Counted, RefundHook
    <3>2. Confirmed(p) \subseteq Held(p)
      BY DEF Confirmed, Held, Outstanding
    <3> QED
      BY <3>1, <3>2, CountedAreConfirmed
  <2>8. pay[p].refunded = acct[p].refunded
    BY <2>7 DEF IInv, MoneyFits
  <2>9. CASE acct[p].status \in Taken /\ pay[p].status \in Taken
    <3>1. pay[p].amount = acct[p].amount
      BY <2>2, <2>9 DEF Taken
    <3>2. pay[p].status = acct[p].status
      BY <2>2, <2>8, <2>9, <3>1 DEF RowFits
    <3> QED
      BY <2>1, <2>8, <3>1, <3>2 DEF Row
  <2>10. CASE acct[p].status \in Taken /\ pay[p].status \notin Taken
    <3>1. pay[p].status = "capture_pending"
      BY <2>2, <2>10 DEF StatusFits, Taken
    <3>2. acct[p].refunded = 0 /\ acct[p].amount \in Nat \ {0}
      BY <2>1, <2>2, <2>8, <2>10, Fields DEF RowFits, Taken
    <3>3. acct[p].status = "captured"
      BY <2>2, <2>10, <3>2 DEF RowFits, StatusOf
    <3>4. CaptureUnreported(p)
      BY <2>2, <2>8, <3>1, <3>3 DEF CaptureUnreported
    <3> QED
      BY <3>4
  <2>11. CASE acct[p].status \notin Taken
    <3>1. acct[p].status = "capture_failed" => CaptureUnreported(p)
      BY <2>2, <2>8 DEF StatusFits, CaptureUnreported
    <3>2. pay[p].status = acct[p].status
      BY <2>1, <2>2, <2>3, <2>4, <2>6, <2>11, <3>1
         DEF FlowFits, StatusFits, VoidOverwritten, Provider!AccountStatus, Taken
    <3>3. pay[p].amount = acct[p].amount
      BY <2>2, <3>2 DEF RowFits
    <3> QED
      BY <2>1, <2>8, <3>2, <3>3 DEF Row
  <2> QED
    BY <2>9, <2>10, <2>11
<1> QED
  BY <1>1, Inductive, PTL
=============================================================================
