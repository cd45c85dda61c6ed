------------------------- MODULE SilvergatePurchase -------------------------
(***************************************************************************)
(* Silvergate's POST /purchase and the product it sells: calls with        *)
(* idempotency keys, some of them repeated, run concurrently with each     *)
(* other and with the merchant, who edits, archives and unarchives the     *)
(* product and may void a transaction.                                     *)
(*                                                                         *)
(* The database transaction of a purchase is READ COMMITTED.  The unique   *)
(* index on keys and the lock on the product's row make its statements     *)
(* take effect as one when it commits; the acquirer is called inside of it,*)
(* before them.                                                            *)
(***************************************************************************)
EXTENDS Integers, FiniteSets

CONSTANTS
  Calls,
  Key,        \* the Idempotency-Key of each call
  Body,       \* its order, card and product
  Prices,
  MaxEdits,   \* the merchant's changes of the product (a bound of the model)
  MaxFaults   \* failing statements, acquirer errors and crashes (a bound of the model)

ASSUME PurchaseAssumption ==
  /\ DOMAIN Key = Calls /\ DOMAIN Body = Calls
  /\ Prices \subseteq Nat \ {0} /\ Prices # {}
  /\ MaxEdits \in Nat
  /\ MaxFaults \in Nat

VARIABLES
  product,  \* the row in table products
  txs,      \* table transactions; a transaction is named by its call
  bank,     \* calls the acquirer made a hold for
  pc,       \* where a call is
  snap,     \* the price it has read
  status,   \* the status of the transaction it is about to insert
  answer,   \* what it was answered
  edit,     \* the price change the merchant's update is about to write
  edits,
  faults

callState == <<pc, snap, status, answer>>
vars == <<product, txs, bank, callState, edit, edits, faults>>

NoPrice == 0
NoAnswer == [kind |-> "none"]
Failure(f) == [kind |-> f]

\* product.New: active and never bought.
Init ==
  /\ product \in [status : {"active"}, price : Prices, bought : {FALSE}]
  /\ txs = {}
  /\ bank = {}
  /\ pc = [c \in Calls |-> "start"]
  /\ snap = [c \in Calls |-> NoPrice]
  /\ status = [c \in Calls |-> "declined"]
  /\ answer = [c \in Calls |-> NoAnswer]
  /\ edit = NoPrice
  /\ edits = 0
  /\ faults = 0

\* How a statement ends; after lost_ack it took effect although the caller
\* sees an error.
Outcomes ==
  {"ok"} \cup IF faults < MaxFaults THEN {"db_error", "lost_ack"} ELSE {}

Count(o) == faults' = IF o = "ok" THEN faults ELSE faults + 1

GoOn(c, next) == pc' = [pc EXCEPT ![c] = next] /\ UNCHANGED answer

Return(c, r) ==
  /\ pc' = [pc EXCEPT ![c] = "done"]
  /\ answer' = [answer EXCEPT ![c] = r]

(***************************************************************************)
(* Purchase                                                                *)
(***************************************************************************)

\* GetByPurchaseIdempotencyKey: a key belongs to one merchant.
WithKey(k) == {t \in txs : t.key = k}

SameRequest(t, c) == t.body = Body[c]

\* responseFromTx: authorized is shown as capture_pending.
ResponseFromTx(t) ==
  [kind |-> "ok", tx |-> t.id,
   status |-> IF t.status = "authorized" THEN "capture_pending" ELSE t.status]

Replay(c, t) ==
  Return(c, IF SameRequest(t, c) THEN ResponseFromTx(t)
            ELSE Failure("idempotency_conflict"))

CheckIdempotency(c, o) ==
  /\ pc[c] = "start"
  /\ CASE o # "ok" -> Return(c, Failure("internal_error"))
       [] o = "ok" /\ WithKey(Key[c]) = {} -> GoOn(c, "product")
       [] OTHER -> \E t \in WithKey(Key[c]) : Replay(c, t)
  /\ Count(o)
  /\ UNCHANGED <<product, txs, bank, snap, status, edit, edits>>

\* products.Get and the check that the product is active.
GetProduct(c, o) ==
  /\ pc[c] = "product"
  /\ CASE o # "ok" -> Return(c, Failure("internal_error"))
       [] o = "ok" /\ product.status = "archived" ->
            Return(c, Failure("product_archived"))
       [] OTHER -> GoOn(c, "authorize")
  /\ snap' = [snap EXCEPT ![c] = product.price]
  /\ Count(o)
  /\ UNCHANGED <<product, txs, bank, status, edit, edits>>

\* AuthorizeInTx up to its INSERT: the acquirer approves or declines.
Authorize(c, verdict) ==
  /\ pc[c] = "authorize"
  /\ bank' = IF verdict = "authorized" THEN bank \cup {c} ELSE bank
  /\ status' = [status EXCEPT ![c] = verdict]
  /\ GoOn(c, "commit")
  /\ UNCHANGED <<product, txs, snap, edit, edits, faults>>

\* The acquirer returns an error, before or after it has made the hold:
\* nothing is inserted.
AuthorizeFails(c, held) ==
  /\ pc[c] = "authorize"
  /\ faults < MaxFaults
  /\ faults' = faults + 1
  /\ bank' = IF held THEN bank \cup {c} ELSE bank
  /\ Return(c, Failure("internal_error"))
  /\ UNCHANGED <<product, txs, snap, status, edit, edits>>

\* Faulty variant: the index does not cover the key.
KeyNeverTaken(c) == FALSE

\* Create: idx_transactions_purchase_idempotency, for declined ones too.
KeyTaken(c) == WithKey(Key[c]) # {}

NewTx(c) ==
  [id |-> c, key |-> Key[c], body |-> Body[c], amount |-> snap[c],
   status |-> status[c]]

\* Faulty variant: an archived product cannot be marked.
CanMarkActiveOnly == product.status = "active"

\* MarkPurchased finds the product whatever its status.
CanMark == TRUE

\* The INSERT, MarkPurchasedInTx if the acquirer approved, and the commit.
Commit(c, o) ==
  LET fits == ~KeyTaken(c) /\ (status[c] = "authorized" => CanMark)
      done == o # "db_error" /\ fits
  IN /\ pc[c] = "commit"
     /\ txs' = IF done THEN txs \cup {NewTx(c)} ELSE txs
     /\ product' = IF done /\ status[c] = "authorized"
                   THEN [product EXCEPT !.bought = TRUE] ELSE product
     /\ CASE o = "ok" /\ KeyTaken(c) -> GoOn(c, "race")
          [] o = "ok" /\ fits /\ status[c] = "authorized" -> GoOn(c, "capture")
          [] o = "ok" /\ fits /\ status[c] = "declined" ->
               Return(c, ResponseFromTx(NewTx(c)))
          [] OTHER -> Return(c, Failure("internal_error"))
     /\ Count(o)
     /\ UNCHANGED <<bank, snap, status, edit, edits>>

ResolveRace(c, o) ==
  /\ pc[c] = "race"
  /\ IF o = "ok" THEN \E t \in WithKey(Key[c]) : Replay(c, t)
     ELSE Return(c, Failure("internal_error"))
  /\ Count(o)
  /\ UNCHANGED <<product, txs, bank, snap, status, edit, edits>>

SetStatusOf(t, s) == txs' = (txs \ {t}) \cup {[t EXCEPT !.status = s]}

\* Faulty variant: an error of Capture is only logged.
CaptureAnswerLogsOnly(c, captured) ==
  [kind |-> "ok", tx |-> c, status |-> "capture_pending"]

CaptureAnswer(c, captured) ==
  IF captured THEN [kind |-> "ok", tx |-> c, status |-> "capture_pending"]
  ELSE [kind |-> "partially_applied", tx |-> c, status |-> "authorized"]

\* Capture, a transaction of its own; see SilvergateTx.
Capture(c, o) ==
  /\ pc[c] = "capture"
  /\ \E t \in txs :
       /\ t.id = c
       /\ IF t.status = "authorized" /\ o # "db_error"
          THEN SetStatusOf(t, "capture_pending") ELSE UNCHANGED txs
       /\ Return(c, CaptureAnswer(c, t.status = "authorized" /\ o = "ok"))
  /\ Count(o)
  /\ UNCHANGED <<product, bank, snap, status, edit, edits>>

\* The process dies, or the client goes away and its context is cancelled.
Crash(c) ==
  /\ pc[c] \notin {"start", "done"}
  /\ faults < MaxFaults
  /\ faults' = faults + 1
  /\ Return(c, NoAnswer)
  /\ UNCHANGED <<product, txs, bank, snap, status, edit, edits>>

(***************************************************************************)
(* The transaction afterwards: settleAsync and Void of SilvergateTx        *)
(***************************************************************************)
Settle(t, s) ==
  /\ t.status = "capture_pending"
  /\ SetStatusOf(t, s)
  /\ UNCHANGED <<product, bank, callState, edit, edits, faults>>

Void(t) ==
  /\ t.status = "authorized"
  /\ SetStatusOf(t, "voided")
  /\ UNCHANGED <<product, bank, callState, edit, edits, faults>>

(***************************************************************************)
(* The merchant: PATCH, archive and unarchive                              *)
(***************************************************************************)

\* NewUpdate: price, currency and slug are locked after the first purchase.
UpdateAllowed(p) == p.status = "active" /\ ~p.bought

\* Update reads the product and validates the request against what it read.
ReadForUpdate(price) ==
  /\ edit = NoPrice
  /\ edits < MaxEdits
  /\ UpdateAllowed(product)
  /\ edit' = price
  /\ edits' = edits + 1
  /\ UNCHANGED <<product, txs, bank, callState, faults>>

\* Faulty variant: the statement relies on what was read before.
RowMatchesStatusOnly(p) == p.status = "active"

\* The WHERE clause of the UPDATE; a miss is answered with an error.
RowMatches(p) == p.status = "active" /\ ~p.bought

WriteUpdate ==
  /\ edit # NoPrice
  /\ product' = IF RowMatches(product) THEN [product EXCEPT !.price = edit]
                ELSE product
  /\ edit' = NoPrice
  /\ UNCHANGED <<txs, bank, callState, edits, faults>>

\* Archive and Unarchive, whatever the status was.
SetStatus(s) ==
  /\ edits < MaxEdits
  /\ product' = [product EXCEPT !.status = s]
  /\ edits' = edits + 1
  /\ UNCHANGED <<txs, bank, callState, edit, faults>>

Step(c) ==
  \/ \E o \in Outcomes :
       \/ CheckIdempotency(c, o)
       \/ GetProduct(c, o)
       \/ Commit(c, o)
       \/ ResolveRace(c, o)
       \/ Capture(c, o)
  \/ \E v \in {"authorized", "declined"} : Authorize(c, v)
  \/ \E held \in BOOLEAN : AuthorizeFails(c, held)

Next ==
  \/ \E c \in Calls : Step(c) \/ Crash(c)
  \/ \E t \in txs : Void(t) \/ \E s \in {"captured", "capture_failed"} : Settle(t, s)
  \/ \E p \in Prices : ReadForUpdate(p)
  \/ WriteUpdate
  \/ \E s \in {"active", "archived"} : SetStatus(s)

Spec == Init /\ [][Next]_vars

-----------------------------------------------------------------------------
(***************************************************************************)
(* Properties                                                              *)
(***************************************************************************)
Names(c) == answer[c].kind \in {"ok", "partially_applied"}

\* Repeated calls, concurrent or not, are one purchase: whenever two calls
\* with one key are told about a transaction, it is the same one and their
\* requests were the same, and no key has two transactions.
OnePurchasePerKey ==
  /\ \A t, u \in txs : t.key = u.key => t = u
  /\ \A c, d \in Calls :
       Key[c] = Key[d] /\ Names(c) /\ Names(d) =>
         answer[c].tx = answer[d].tx /\ Body[c] = Body[d]

\* The acquirer holds money for a call without a transaction only when the
\* call is still going on, lost the race for its key, or failed for a fault.
OrphanHoldsHaveReason ==
  \A c \in bank :
    \/ \E t \in txs : t.id = c
    \/ pc[c] \in {"commit", "race"}
    \/ \E t \in txs : t.key = Key[c] /\ t.id # c
    \/ faults > 0 /\ answer[c].kind \in {"none", "internal_error"}

\* A purchase whose call is over and that nobody captures was reported to the
\* caller as partially applied, unless a fault kept the caller from hearing.
UncapturedIsReported ==
  \A t \in txs :
    t.status = "authorized" /\ pc[t.id] = "done" =>
      \/ answer[t.id].kind = "partially_applied"
      \/ faults > 0 /\ answer[t.id].kind \in {"none", "internal_error"}

\* An update validated before the first purchase never changes the price
\* after it.
PriceFrozenOnceBought ==
  [][product.bought => product'.bought /\ product'.price = product.price]_vars
=============================================================================
