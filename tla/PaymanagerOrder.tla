-------------------------- MODULE PaymanagerOrder --------------------------
(***************************************************************************)
(* Paymanager's order service: webhooks of the provider, holds and captures*)
(* of one order, run concurrently and repeated by their senders.           *)
(*                                                                         *)
(* Each operation is one REPEATABLE READ transaction, which changes the    *)
(* order and appends to table events (the outbox), and then a write to     *)
(* table order_events outside of it.  The transaction reads a snapshot     *)
(* when it begins; updating a row that was changed since fails, and so does*)
(* an event whose key is in the index, even though writeEvent swallows the *)
(* violation: the transaction is aborted.                                  *)
(***************************************************************************)
EXTENDS Integers, Sequences, FiniteSets

CONSTANTS
  Jobs,       \* requests to the service
  Op,         \* "update", "hold" or "capture"
  Arg,        \* the status, the hold action, the provider's verdict
  Key,        \* the provider's event id, the hold's uuid, the request's key
  MaxFaults   \* failing statements, lost answers, crashes (a model bound)

Status == {"created", "updated", "failed", "success"}
Final == {"failed", "success"}
\* on_hold is named by the action that leads to it.
HoldActions == {"set", "clear"}

ASSUME OrderAssumption ==
  /\ Op \in [Jobs -> {"update", "hold", "capture"}]
  /\ DOMAIN Arg = Jobs /\ DOMAIN Key = Jobs
  /\ \A j \in Jobs :
       /\ Op[j] = "update" => Arg[j] \in Status
       /\ Op[j] = "hold" => Arg[j] \in HoldActions
  /\ MaxFaults \in Nat

VARIABLES
  order,     \* the row in table orders, and how often it was written
  events,    \* table events, in the order of the commits
  legacy,    \* keys in table order_events
  pc,        \* where a job is
  snap,      \* the version of the order in its transaction's snapshot
  provider,  \* capture keys the provider has acted upon
  faults

vars == <<order, events, legacy, pc, snap, provider, faults>>

NoOrder == [status |-> "none", hold |-> "clear", ver |-> 0]

\* Keys of events: sent with the request, or made for the result.
SentKey(k) == <<"sent", k>>

\* Faulty variant: both events of a capture have the key of the request.
ResultKeyOfRequest(k) == SentKey(k)

\* The key of a capture's result is the provider's transaction id.
ResultKey(k) == <<"provider_tx", k>>

CaptureKeys == {Key[j] : j \in {i \in Jobs : Op[i] = "capture"}}
EventKeys ==
  {SentKey(Key[j]) : j \in Jobs} \cup {ResultKey(k) : k \in CaptureKeys}

Event ==
  [type : {"webhook_received", "hold", "capture_requested", "capture_result"},
   key : EventKeys, arg : {Arg[j] : j \in Jobs}]

TypeOK ==
  /\ order \in [status : Status \cup {"none"}, hold : HoldActions, ver : Nat]
  /\ events \in Seq(Event)
  /\ legacy \subseteq EventKeys
  /\ pc \in [Jobs -> {"start", "provider", "commit", "legacy", "done"}]
  /\ snap \in [Jobs -> Nat]
  /\ provider \subseteq CaptureKeys
  /\ faults \in 0..MaxFaults

Init ==
  /\ order = NoOrder
  /\ events = << >>
  /\ legacy = {}
  /\ pc = [j \in Jobs |-> "start"]
  /\ snap = [j \in Jobs |-> 0]
  /\ provider = {}
  /\ faults = 0

\* How a statement or a call ends; after lost_ack it took effect although the
\* caller sees an error.
Outcomes ==
  {"ok"} \cup IF faults < MaxFaults THEN {"error", "lost_ack"} ELSE {}

Count(o) == faults' = IF o = "ok" THEN faults ELSE faults + 1

GoTo(j, next) == pc' = [pc EXCEPT ![j] = next]

(***************************************************************************)
(* Tables orders and events                                                *)
(***************************************************************************)
CanBeUpdatedTo(from, to) == from \in {"created", "updated"} /\ to # "created"

Creates(j) == Op[j] = "update" /\ Arg[j] = "created"

\* Faulty variant: READ COMMITTED, the update finds the row as it is now.
RowUnchangedReadCommitted(j) == TRUE

\* The rule of REPEATABLE READ for the row an UPDATE writes.
RowUnchanged(j) == order.ver = snap[j]

\* CreateOrder violates orders_pkey, UpdateOrder and UpdateOrderHold need the
\* row unchanged, and a capture writes no order.
RowWritable(j) ==
  CASE Creates(j) -> order.status = "none"
    [] Op[j] = "capture" -> TRUE
    [] OTHER -> RowUnchanged(j)

\* Faulty variant: a capture writes the provider's verdict as the status.
WrittenByAll(j) ==
  IF Op[j] = "hold" THEN [order EXCEPT !.hold = Arg[j], !.ver = @ + 1]
  ELSE [order EXCEPT !.status = Arg[j], !.ver = @ + 1]

\* UpdateOrder, CreateOrder and UpdateOrderHold.
Written(j) ==
  CASE Op[j] = "update" -> [order EXCEPT !.status = Arg[j], !.ver = @ + 1]
    [] Op[j] = "hold" -> [order EXCEPT !.hold = Arg[j], !.ver = @ + 1]
    [] OTHER -> order

\* The event of an update or a hold, and the first one of a capture.
SentEvent(j) ==
  [type |-> CASE Op[j] = "update" -> "webhook_received"
              [] Op[j] = "hold" -> "hold"
              [] Op[j] = "capture" -> "capture_requested",
   key |-> SentKey(Key[j]), arg |-> Arg[j]]

\* The second event of a capture.
ResultEvent(j) ==
  [type |-> "capture_result", key |-> ResultKey(Key[j]), arg |-> Arg[j]]

KeysOf(es) == {es[i].key : i \in DOMAIN es}

NewKeys(j) ==
  {SentKey(Key[j])} \cup
    IF Op[j] = "capture" THEN {ResultKey(Key[j])} ELSE {}

\* writeEvent: ErrEventAlreadyStored is swallowed.
WriteEvent(es, e) == IF e.key \in KeysOf(es) THEN es ELSE Append(es, e)

\* Its calls: one for an update or a hold, two for a capture.
EventsAfter(j) ==
  LET es == WriteEvent(events, SentEvent(j))
  IN IF Op[j] = "capture" THEN WriteEvent(es, ResultEvent(j)) ELSE es

\* Faulty variant: a duplicate event is left out and the rest is committed.
EventsFitAlways(j) == TRUE

\* idx_events_idempotency: a violation aborts the transaction.
EventsFit(j) ==
  /\ NewKeys(j) \cap KeysOf(events) = {}
  /\ Op[j] = "capture" => SentKey(Key[j]) # ResultKey(Key[j])

(***************************************************************************)
(* The operations                                                          *)
(***************************************************************************)

\* getOrderByID finds the order.
Found == order.status # "none"

\* What ProcessOrderUpdate, UpdateOrderHold and CapturePayment require of the
\* order they have loaded: that there is one, and the checks that follow.
Allowed(j) ==
  \/ Creates(j)
  \/ /\ Found
     /\ CASE Op[j] = "update" -> CanBeUpdatedTo(order.status, Arg[j])
          [] Op[j] = "hold" -> TRUE
          [] Op[j] = "capture" -> order.hold = "clear" /\ order.status \notin Final

\* The transaction begins and the order is loaded and checked.
Begin(j) ==
  /\ pc[j] = "start"
  /\ snap' = [snap EXCEPT ![j] = order.ver]
  /\ GoTo(j, CASE ~Allowed(j) -> "done"
               [] Allowed(j) /\ Op[j] = "capture" -> "provider"
               [] OTHER -> "commit")
  /\ UNCHANGED <<order, events, legacy, provider, faults>>

\* Silvergate answers 409 to every capture of a transaction after the first,
\* with the same key or another one; see SilvergateTx.
AlreadyCaptured == provider # {}

\* provider.CapturePayment, within the transaction.
CallProvider(j, o) ==
  /\ pc[j] = "provider"
  /\ provider' = IF o = "error" \/ AlreadyCaptured THEN provider
                 ELSE provider \cup {Key[j]}
  /\ GoTo(j, IF o = "ok" /\ ~AlreadyCaptured THEN "commit" ELSE "done")
  /\ Count(o)
  /\ UNCHANGED <<order, events, legacy, snap>>

\* The writes of the transaction and its commit.
Commit(j, o) ==
  LET done == o # "error" /\ RowWritable(j) /\ EventsFit(j)
  IN /\ pc[j] = "commit"
     /\ order' = IF done THEN Written(j) ELSE order
     /\ events' = IF done THEN EventsAfter(j) ELSE events
     /\ GoTo(j, IF done /\ o = "ok" THEN "legacy" ELSE "done")
     /\ Count(o)
     /\ snap' = [snap EXCEPT ![j] = 0]
     /\ UNCHANGED <<legacy, provider>>

\* createWebhookReceivedEvent, createHoldEvent, or the two of a capture.  An
\* error is returned for a webhook and logged otherwise; nothing repairs it.
WriteLegacy(j, o) ==
  /\ pc[j] = "legacy"
  /\ legacy' = IF o = "error" THEN legacy ELSE legacy \cup NewKeys(j)
  /\ GoTo(j, "done")
  /\ Count(o)
  /\ UNCHANGED <<order, events, snap, provider>>

\* The request is cancelled or the process stops: an open transaction is
\* rolled back.
Crash(j) ==
  /\ pc[j] \notin {"start", "done"}
  /\ faults < MaxFaults
  /\ faults' = faults + 1
  /\ GoTo(j, "done")
  /\ UNCHANGED <<order, events, legacy, snap, provider>>

Next ==
  \E j \in Jobs :
    \/ Begin(j)
    \/ \E o \in Outcomes : CallProvider(j, o) \/ Commit(j, o) \/ WriteLegacy(j, o)
    \/ Crash(j)

Spec == Init /\ [][Next]_vars

-----------------------------------------------------------------------------
(***************************************************************************)
(* Properties                                                              *)
(***************************************************************************)

\* Positions of the events of some types.
OfType(ts) == {i \in DOMAIN events : events[i].type \in ts}

\* What the last event of type t says.
Replayed(t, default) ==
  IF OfType({t}) = {} THEN default
  ELSE events[CHOOSE i \in OfType({t}) : \A k \in OfType({t}) : k <= i].arg

\* The outbox is the history of the order: whatever ran concurrently, failed
\* or was repeated, replaying the events that the CDC service streams gives
\* the order's row, and there is one event for each time it was written.
EventsExplainOrder ==
  /\ order.status = Replayed("webhook_received", "none")
  /\ order.hold = Replayed("hold", "clear")
  /\ order.ver = Cardinality(OfType({"webhook_received", "hold"}))

\* A final status is not left: an update validated before a concurrent one
\* made the order final does not overwrite it.
FinalStaysFinal ==
  [][order.status \in Final => order'.status = order.status]_vars

\* A key that is used for captures only: provider event ids, which name
\* updates, and the uuids of holds are made by others.
CaptureKey(k) == \A j \in Jobs : Key[j] = k => Op[j] = "capture"

\* Without faults, a capture the provider has acted upon is in both logs once
\* the requests with its key are over, whether or not they were repeated
\* concurrently, and neither log has what the other one lacks.
CaptureIsRecorded ==
  faults = 0 =>
    /\ \A k \in provider :
         CaptureKey(k) =>
           \/ {SentKey(k), ResultKey(k)} \subseteq KeysOf(events)
           \/ \E j \in Jobs : Key[j] = k /\ pc[j] = "commit"
    /\ (\A j \in Jobs : pc[j] # "legacy") => legacy = KeysOf(events)
=============================================================================
