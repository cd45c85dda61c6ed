---------------------------- MODULE IngestInbox ----------------------------
(***************************************************************************)
(* The inbox mode of the ingest service: a webhook is stored in table inbox*)
(* and answered with 202; workers (one per running instance) claim batches *)
(* of rows, forward them to Paymanager with retries and record the result. *)
(*                                                                         *)
(* Paymanager is here its two internal endpoints: what they answer to a    *)
(* webhook depends on the order it is about and on whether the webhook has *)
(* been applied already.  All webhooks are about one order; a webhook is a *)
(* number, and the sender posts them in that order, one after the other.   *)
(***************************************************************************)
EXTENDS Integers, FiniteSets

CONSTANTS
  Hooks,        \* webhooks
  Kind,         \* what each one is about
  Key,          \* its idempotency key
  Workers,
  BatchSize,    \* INBOX_BATCH_SIZE
  MaxRetries,   \* INBOX_MAX_RETRIES: deliveries before a row has failed
  MaxAttempts,  \* requests the client makes for one delivery
  MaxFaults,    \* failing statements and stops (a bound of the model)
  MaxLate,      \* abandoned requests at a time (a bound of the model)
  NoHook

Kinds == {"order_created", "order_updated", "order_final", "dispute",
          "payment"}

ASSUME InboxAssumption ==
  /\ Hooks \subseteq Nat
  /\ IsFiniteSet(Hooks)
  /\ Kind \in [Hooks -> Kinds]
  /\ BatchSize \in Nat \ {0}
  /\ MaxRetries \in Nat
  /\ MaxAttempts \in Nat \ {0}
  /\ MaxFaults \in Nat
  /\ MaxLate \in Nat
  /\ NoHook \notin Hooks

VARIABLES
  row,      \* table inbox: status and retry_count of each webhook's row
  taken,    \* webhooks answered with 202
  batch,    \* rows a worker claimed and has not finished with
  cur,      \* the one it is working on
  att,      \* failed requests for it
  res,      \* what processMessage returned for it
  order,    \* Paymanager: the status of the order
  applied,  \* Paymanager: webhooks that took effect
  again,    \* Paymanager: webhooks that took effect a second time
  late,     \* Paymanager: requests the client gave up on and may still run
  faults    \* faults injected so far

worker == <<batch, cur, att, res>>
paymanager == <<order, applied, again, late>>
vars == <<row, taken, worker, paymanager, faults>>

RowStatus == {"none", "pending", "processing", "processed", "failed"}

\* A request to apply a webhook; "fresh" is a chargeback that began before the
\* webhook took effect.
Request == [hook : Hooks, fresh : BOOLEAN]

\* What processMessage returns: success, an unavailable service, an error that
\* isPermanentError knows, another one.
Results == {"ok", "unavailable", "permanent", "error"}

TypeOK ==
  /\ row \in [Hooks -> [status : RowStatus, retries : 0..MaxRetries + 1]]
  /\ taken \subseteq Hooks
  /\ batch \in [Workers -> SUBSET Hooks]
  /\ cur \in [Workers -> Hooks \cup {NoHook}]
  /\ att \in [Workers -> 0..MaxAttempts - 1]
  /\ res \in [Workers -> Results \cup {"none"}]
  /\ order \in {"none", "created", "updated", "final"}
  /\ applied \subseteq Hooks
  /\ again \subseteq Hooks
  /\ late \subseteq Request
  /\ faults \in 0..MaxFaults

Init ==
  /\ row = [h \in Hooks |-> [status |-> "none", retries |-> 0]]
  /\ taken = {}
  /\ batch = [w \in Workers |-> {}]
  /\ cur = [w \in Workers |-> NoHook]
  /\ att = [w \in Workers |-> 0]
  /\ res = [w \in Workers |-> "none"]
  /\ order = "none"
  /\ applied = {}
  /\ again = {}
  /\ late = {}
  /\ faults = 0

\* How a statement ends; after lost_ack it took effect although the caller
\* sees an error.
Outcomes ==
  {"ok"} \cup IF faults < MaxFaults THEN {"db_error", "lost_ack"} ELSE {}

Count(o) == faults' = IF o = "ok" THEN faults ELSE faults + 1

(***************************************************************************)
(* Paymanager: /internal/updates/orders and /internal/updates/disputes     *)
(***************************************************************************)

\* ProcessOrderUpdate behind HandleUpdate: what is answered.  A creation that
\* was applied before violates the primary key, any other update that was
\* applied before violates the index of events: both are answered with 500.
OrderAnswer(h) ==
  CASE Kind[h] = "order_created" ->
         IF order = "none" THEN "2xx" ELSE "5xx"
    [] order = "none" -> "404"
    [] order = "final" -> "422"
    [] OTHER -> IF h \in applied THEN "5xx" ELSE "2xx"

\* ProcessChargeback: a dispute of an unknown order violates the foreign key.
DisputeAnswer(h) == IF order = "none" \/ h \in applied THEN "5xx" ELSE "2xx"

Answer(h) == IF Kind[h] = "dispute" THEN DisputeAnswer(h) ELSE OrderAnswer(h)

OrderAfter(h) ==
  CASE Kind[h] = "order_created" -> "created"
    [] Kind[h] = "order_updated" -> "updated"
    [] Kind[h] = "order_final" -> "final"
    [] OTHER -> order

Apply(h) ==
  /\ IF Answer(h) = "2xx"
     THEN applied' = applied \cup {h} /\ order' = OrderAfter(h)
     ELSE UNCHANGED <<applied, order>>
  /\ UNCHANGED again

\* Of two chargebacks that run at the same time each can find no dispute and
\* create one (PaymanagerDispute).  An order or its event is never written
\* twice.
ApplyTwin(h) ==
  /\ h \in applied
  /\ again' = again \cup {h}
  /\ UNCHANGED <<applied, order>>

\* A request that the client gave up on is carried out, overlapping another
\* attempt or after the row was closed, or comes to nothing.
LateRequest(q) ==
  /\ late' = late \ {q}
  /\ \/ Apply(q.hook)
     \/ q.fresh /\ ApplyTwin(q.hook)
     \/ UNCHANGED <<applied, order, again>>
  /\ UNCHANGED <<row, taken, worker, faults>>

(***************************************************************************)
(* Receiving: handler, InboxProcessor, Store                               *)
(***************************************************************************)
Duplicate(h) == \E g \in Hooks : row[g].status # "none" /\ Key[g] = Key[h]

\* INSERT INTO inbox; a duplicate key is not an error to the processor, and
\* the webhook is answered with 202 although no row was written.
Store(h, o) ==
  row' = IF Duplicate(h) \/ o = "db_error" THEN row
         ELSE [row EXCEPT ![h].status = "pending"]

\* After an error (500) the sender may post the webhook again.
Webhook(h, o) ==
  /\ h \notin taken
  /\ \A g \in Hooks : g < h => g \in taken
  /\ Store(h, o)
  /\ taken' = IF o = "ok" THEN taken \cup {h} ELSE taken
  /\ Count(o)
  /\ UNCHANGED <<worker, paymanager>>

(***************************************************************************)
(* The worker                                                              *)
(***************************************************************************)

\* Faulty variant: rows left in processing are claimed again.
ClaimableOrStuck(h) == row[h].status \in {"pending", "processing"}

Claimable(h) == row[h].status = "pending"

\* The oldest rows that can be claimed, at most BatchSize.
Oldest ==
  {h \in Hooks :
     /\ Claimable(h)
     /\ Cardinality({g \in Hooks : g < h /\ Claimable(g)}) < BatchSize}

\* poll: FetchPending claims a batch in one statement.  If the statement took
\* effect but the result is lost the rows are in no worker's hands.
FetchPending(w, o) ==
  /\ batch[w] = {}
  /\ Oldest # {}
  /\ IF o = "db_error" THEN UNCHANGED row
     ELSE row' = [h \in Hooks |->
            IF h \in Oldest THEN [row[h] EXCEPT !.status = "processing"]
            ELSE row[h]]
  /\ batch' = IF o = "ok" THEN [batch EXCEPT ![w] = Oldest] ELSE batch
  /\ Count(o)
  /\ UNCHANGED <<taken, cur, att, res, paymanager>>

\* Faulty variant: what the client returns for a 5xx counts as delivered.
ResultIgnores5xx(a) ==
  CASE a \in {"400", "404", "422"} -> "permanent"
    [] OTHER -> "ok"

\* handleResponse; to processMessage a conflict is a success.
Result(a) ==
  CASE a \in {"2xx", "409"} -> "ok"
    [] a \in {"400", "404", "422"} -> "permanent"
    [] a = "5xx" -> "unavailable"
    [] OTHER -> "error"

\* sendRequest: a failed exchange is an unavailable service to the client.
SendRequest(h, c) == Result(IF c = "ok" THEN Answer(h) ELSE "5xx")

\* One request of DoWithRetry: answered, not received, or still running when
\* the client's timeout strikes.  Only an unavailable service is retried.
DoWithRetry(w, h, c) ==
  LET q == [hook |-> h, fresh |-> Kind[h] = "dispute" /\ h \notin applied]
      r == SendRequest(h, c)
      retry == r = "unavailable" /\ att[w] + 1 < MaxAttempts
  IN /\ IF c = "ok" THEN Apply(h) ELSE UNCHANGED <<applied, order, again>>
     /\ IF c = "slow"
        THEN /\ q \notin late /\ Cardinality(late) < MaxLate
             /\ late' = late \cup {q}
        ELSE UNCHANGED late
     /\ att' = [att EXCEPT ![w] = IF retry THEN @ + 1 ELSE 0]
     /\ res' = [res EXCEPT ![w] = IF retry THEN "none" ELSE r]

\* processMessage: there is no case for payment webhooks.
ProcessMessage(w, h, c) ==
  /\ h \in batch[w]
  /\ cur[w] \in {NoHook, h}
  /\ res[w] = "none"
  /\ cur' = [cur EXCEPT ![w] = h]
  /\ IF Kind[h] = "payment"
     THEN /\ res' = [res EXCEPT ![w] = "error"]
          /\ UNCHANGED <<att, paymanager>>
     ELSE DoWithRetry(w, h, c)
  /\ UNCHANGED <<row, taken, batch, faults>>

\* Faulty variant: the retry limit is not looked at.
MarkFailedNoLimit(r, limit) ==
  [status |-> "pending", retries |-> r.retries + 1]

\* Faulty variant: failures are not counted.
MarkFailedNoCount(r, limit) ==
  [r EXCEPT !.status = IF r.retries + 1 >= limit THEN "failed" ELSE "pending"]

\* Faulty variant: one retry too few.
MarkFailedEarly(r, limit) ==
  [status |-> IF r.retries + 2 >= limit THEN "failed" ELSE "pending",
   retries |-> r.retries + 1]

\* MarkFailed: one more failure; failed for good after the last.
MarkFailed(r, limit) ==
  [status |-> IF r.retries + 1 >= limit THEN "failed" ELSE "pending",
   retries |-> r.retries + 1]

Mark(r, result) ==
  CASE result = "ok" -> [r EXCEPT !.status = "processed"]
    [] result = "permanent" -> MarkFailed(r, 0)
    [] OTHER -> MarkFailed(r, MaxRetries)

\* The worker records the result, once, and goes on with the next message; an
\* error is only logged.
Finish(w, o) ==
  LET h == cur[w]
  IN /\ res[w] # "none"
     /\ row' = IF o = "db_error" THEN row
               ELSE [row EXCEPT ![h] = Mark(@, res[w])]
     /\ batch' = [batch EXCEPT ![w] = @ \ {h}]
     /\ cur' = [cur EXCEPT ![w] = NoHook]
     /\ res' = [res EXCEPT ![w] = "none"]
     /\ Count(o)
     /\ UNCHANGED <<taken, att, paymanager>>

\* The instance stops, crashing or shutting down, and is started again; nothing
\* looks for the rows it had claimed.
Restart(w) ==
  /\ faults < MaxFaults
  /\ batch[w] # {}
  /\ batch' = [batch EXCEPT ![w] = {}]
  /\ cur' = [cur EXCEPT ![w] = NoHook]
  /\ att' = [att EXCEPT ![w] = 0]
  /\ res' = [res EXCEPT ![w] = "none"]
  /\ faults' = faults + 1
  /\ UNCHANGED <<row, taken, paymanager>>

Work(w) ==
  \/ \E o \in Outcomes : FetchPending(w, o)
  \/ \E h \in batch[w], c \in {"ok", "down", "slow"} : ProcessMessage(w, h, c)
  \/ \E o \in Outcomes : Finish(w, o)

Next ==
  \/ \E h \in Hooks, o \in Outcomes : Webhook(h, o)
  \/ \E w \in Workers : Work(w) \/ Restart(w)
  \/ \E q \in late : LateRequest(q)

Spec == Init /\ [][Next]_vars

\* The ticker of a running worker keeps ticking, requests time out.
FairSpec == Spec /\ \A w \in Workers : WF_vars(Work(w))

-----------------------------------------------------------------------------
(***************************************************************************)
(* Properties                                                              *)
(***************************************************************************)
BoxOf(r) ==
  CASE r.status = "none" -> "none"
    [] r.status \in {"pending", "processing"} -> "open"
    [] r.status = "processed" -> "done"
    [] r.status = "failed" -> "given_up"

Delivery == INSTANCE WebhookDelivery
  WITH box <- [h \in Hooks |-> BoxOf(row[h])],
       asked <- {q.hook : q \in late},
       effect <- applied,
       Unprotected <- {h \in Hooks : Kind[h] = "dispute"}

\* Two workers, retries of requests and of deliveries, requests carried out
\* after the client gave up on them, failing statements and restarts
\* notwithstanding: processed means applied; Paymanager is asked only while
\* the row is open; nothing but a dispute is applied twice, and that only by
\* overlapping requests; closed rows stay closed.
ImplementsDelivery == Delivery!Spec

\* A row in processing belongs to at most one worker, and without faults to
\* exactly one; a row in another status belongs to none, whatever stopped or
\* failed.
ClaimedByOneWorker ==
  \A h \in Hooks :
    LET holders == Cardinality({w \in Workers : h \in batch[w]})
        claims == IF row[h].status = "processing" THEN 1 ELSE 0
    IN /\ holders <= claims
       /\ faults = 0 => holders = claims

\* Only Paymanager's word that an order update can never be applied ends its
\* delivery early; every other webhook is tried MaxRetries times before it
\* has failed.
GivesUpOnlyAfterRetries ==
  \A h \in Hooks :
    row[h].status = "failed" /\ Kind[h] \in {"dispute", "payment"} =>
      row[h].retries >= MaxRetries

\* Row h is orphaned: claimed, but by no worker that still knows of it.
Orphaned(h) ==
  /\ row[h].status = "processing"
  /\ faults > 0
  /\ \A w \in Workers : h \notin batch[w]

\* Every stored webhook is processed or given up in the end, or orphaned in
\* processing by a fault; the webhooks around an orphan are not held up.
StoredSettles ==
  <>[](\A h \in Hooks :
         \/ row[h].status \in {"none", "processed", "failed"}
         \/ Orphaned(h))
=============================================================================
