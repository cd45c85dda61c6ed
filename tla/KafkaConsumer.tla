--------------------------- MODULE KafkaConsumer ---------------------------
(***************************************************************************)
(* The Kafka mode: the ingest service publishes each webhook to a topic,   *)
(* and the replicas of Paymanager consume it: Consumer, the middlewares    *)
(* WithRetry and WithDLQ around a handler, and the Runner.                 *)
(*                                                                         *)
(* One partition is modelled; offsets count from 1 and committed is the    *)
(* number of messages the group has passed.  The broker, its group         *)
(* coordinator and the kafka-go client are external.                       *)
(***************************************************************************)
EXTENDS Integers, Sequences

CONSTANTS
  Webhooks,     \* webhooks the provider sends
  Poison,       \* the ones the service rejects or cannot parse
  Creations,    \* the ones that create an order
  Consumers,    \* one per replica of Paymanager
  NoConsumer,
  MaxAttempts,  \* RetryConfig.MaxAttempts
  MaxLog,       \* messages in the partition (a bound of the model)
  MaxFaults     \* errors, rebalances and stops (a bound of the model)

ASSUME KafkaAssumption ==
  /\ Poison \subseteq Webhooks
  /\ Creations \subseteq Webhooks
  /\ NoConsumer \notin Consumers
  /\ MaxAttempts \in Nat \ {0}
  /\ MaxLog \in Nat
  /\ MaxFaults \in Nat

VARIABLES
  log,        \* the partition
  accepted,   \* webhooks answered with 202
  committed,  \* the group's committed offset
  owner,      \* the consumer the partition is assigned to
  pc,         \* where a consumer is in its loop
  pos,        \* the last offset its reader returned
  cur,        \* the message it is working on
  att,        \* failed attempts of WithRetry
  live,       \* the context of the replica is not cancelled
  dlqOpen,    \* the DLQ writer of the replica is open
  applied,    \* webhooks that took effect in the database
  handled,    \* offsets for which the handler returned nil
  gaveUp,     \* offsets WithDLQ has given up on
  dlq,        \* offsets in the DLQ topic
  faults      \* faults injected so far

broker == <<log, accepted, committed, owner>>
loop == <<pc, pos, cur, att>>
replica == <<live, dlqOpen>>
effects == <<applied, handled, gaveUp, dlq>>
vars == <<broker, loop, replica, effects, faults>>

Offsets == 1..Len(log)

TypeOK ==
  /\ log \in Seq(Webhooks)
  /\ accepted \subseteq Webhooks
  /\ committed \in 0..Len(log)
  /\ owner \in Consumers \cup {NoConsumer}
  /\ pc \in [Consumers -> {"fetch", "handle", "dlq", "commit", "stopped"}]
  /\ pos \in [Consumers -> 0..Len(log)]
  /\ cur \in [Consumers -> 0..Len(log)]
  /\ att \in [Consumers -> 0..MaxAttempts - 1]
  /\ live \in [Consumers -> BOOLEAN]
  /\ dlqOpen \in [Consumers -> BOOLEAN]
  /\ applied \subseteq Webhooks
  /\ handled \subseteq Offsets
  /\ gaveUp \subseteq Offsets
  /\ dlq \subseteq gaveUp
  /\ faults \in 0..MaxFaults

Init ==
  /\ log = << >>
  /\ accepted = {}
  /\ committed = 0
  /\ owner = NoConsumer
  /\ pc = [c \in Consumers |-> "fetch"]
  /\ pos = [c \in Consumers |-> 0]
  /\ cur = [c \in Consumers |-> 0]
  /\ att = [c \in Consumers |-> 0]
  /\ live = [c \in Consumers |-> TRUE]
  /\ dlqOpen = [c \in Consumers |-> TRUE]
  /\ applied = {}
  /\ handled = {}
  /\ gaveUp = {}
  /\ dlq = {}
  /\ faults = 0

\* How a call ends; after lost_ack it took effect although the caller sees an
\* error.
Outcomes ==
  {"ok"} \cup IF faults < MaxFaults THEN {"error", "lost_ack"} ELSE {}

Count(o) == faults' = IF o = "ok" THEN faults ELSE faults + 1

(***************************************************************************)
(* The ingest service                                                      *)
(***************************************************************************)

\* Publisher.Publish: the message has the user's id as its key, so the webhooks
\* of a user, those of one order among them, share a partition.
Publish(w, o) == log' = IF o = "error" THEN log ELSE Append(log, w)

\* AsyncProcessor.  The sender is answered with 500 when the write fails and
\* posts the webhook again: it may be in the log already.
ProcessUpdate(w, o) ==
  /\ w \notin accepted
  /\ Len(log) < MaxLog
  /\ Publish(w, o)
  /\ accepted' = IF o = "ok" THEN accepted \cup {w} ELSE accepted
  /\ Count(o)
  /\ UNCHANGED <<committed, owner, loop, replica, effects>>

(***************************************************************************)
(* The consumer group                                                      *)
(***************************************************************************)
Running(c) == pc[c] # "stopped"

\* Faulty variant: a group that has committed nothing starts with the messages
\* that arrive from now on.
LastOffset == IF committed = 0 THEN Len(log) ELSE committed

\* NewConsumer: after an assignment the reader goes on behind the committed
\* offset, at the first message when there is none.
StartOffset == committed

\* The coordinator gives the partition to c: when its owner has left, or in a
\* rebalance, which a consumer busy with a message does not notice.
Assign(c) ==
  /\ Running(c) /\ live[c]
  /\ IF owner # NoConsumer /\ Running(owner)
     THEN faults < MaxFaults /\ faults' = faults + 1
     ELSE UNCHANGED faults
  /\ owner' = c
  /\ pos' = [pos EXCEPT ![c] = StartOffset]
  /\ UNCHANGED <<log, accepted, committed, pc, cur, att, replica, effects>>

(***************************************************************************)
(* Consumer.Start                                                          *)
(***************************************************************************)

\* FetchMessage; it may return a message even when its context was cancelled.
Fetch(c) ==
  /\ pc[c] = "fetch"
  /\ owner = c
  /\ pos[c] < Len(log)
  /\ pos' = [pos EXCEPT ![c] = @ + 1]
  /\ cur' = [cur EXCEPT ![c] = pos[c] + 1]
  /\ pc' = [pc EXCEPT ![c] = "handle"]
  /\ UNCHANGED <<broker, att, replica, effects, faults>>

\* FetchMessage fails or its context is cancelled, and Start returns, or the
\* handler panics: Runner closes the consumer for good, in the middle of a
\* message or between two.  Nothing restarts it while the replica runs.
StopConsuming(c) ==
  /\ pc[c] \in {"fetch", "handle"}
  /\ IF live[c] \/ pc[c] = "handle"
     THEN faults < MaxFaults /\ faults' = faults + 1
     ELSE UNCHANGED faults
  /\ pc' = [pc EXCEPT ![c] = "stopped"]
  /\ owner' = IF owner = c THEN NoConsumer ELSE owner
  /\ UNCHANGED <<log, accepted, committed, pos, cur, att, replica, effects>>

\* HandleMessage of the order handler.  A creation that was applied before is
\* skipped; any other webhook applied before fails like a rejected one, since
\* the duplicate event aborts the transaction.  With its context cancelled the
\* handler fails.
HandleMessage(c, w, o) ==
  CASE w \in Poison -> "error"
    [] w \in applied -> IF w \in Creations /\ o = "ok" THEN "ok" ELSE "error"
    [] OTHER -> IF live[c] \/ o = "lost_ack" THEN o ELSE "error"

\* Faulty variant: an error of the last attempt is not returned.
NextAfterErrorForgets(c) ==
  IF live[c] /\ att[c] + 1 < MaxAttempts THEN "handle" ELSE "commit"

\* Faulty variant: one attempt too many.
NextAfterErrorOnceMore(c) ==
  IF live[c] /\ att[c] + 1 <= MaxAttempts THEN "handle" ELSE "dlq"

\* WithRetry: the next attempt, unless this was the last or the context is
\* cancelled, and then the error goes to WithDLQ.
NextAfterError(c) ==
  IF live[c] /\ att[c] + 1 < MaxAttempts THEN "handle" ELSE "dlq"

\* One attempt of WithRetry and the sleep after it.
Attempt(c, o) ==
  LET w == log[cur[c]]
      r == HandleMessage(c, w, o)
  IN /\ pc[c] = "handle"
     /\ applied' = IF w \in Poison \/ r = "error" THEN applied
                   ELSE applied \cup {w}
     /\ handled' = IF r = "ok" THEN handled \cup {cur[c]} ELSE handled
     /\ pc' = [pc EXCEPT ![c] = IF r = "ok" THEN "commit" ELSE NextAfterError(c)]
     /\ att' = [att EXCEPT ![c] = IF pc'[c] = "handle" THEN @ + 1 ELSE 0]
     /\ Count(o)
     /\ UNCHANGED <<broker, pos, cur, replica, gaveUp, dlq>>

\* A closed writer refuses every message.
PublishToDLQ(c, o) ==
  dlq' = IF dlqOpen[c] /\ o # "error" THEN dlq \cup {cur[c]} ELSE dlq

\* WithDLQ returns nil whether the message was written or not.
WithDLQ(c, o) ==
  /\ pc[c] = "dlq"
  /\ gaveUp' = gaveUp \cup {cur[c]}
  /\ PublishToDLQ(c, o)
  /\ pc' = [pc EXCEPT ![c] = "commit"]
  /\ Count(o)
  /\ UNCHANGED <<broker, pos, cur, att, replica, applied, handled>>

\* CommitMessages: an error is logged, and the loop goes on.  The broker takes
\* the offset of a member that has lost the partition, an older one too.
Commit(c, o) ==
  /\ pc[c] = "commit"
  /\ committed' = IF o = "error" THEN committed ELSE cur[c]
  /\ pc' = [pc EXCEPT ![c] = "fetch"]
  /\ Count(o)
  /\ UNCHANGED <<log, accepted, owner, pos, cur, att, replica, effects>>

(***************************************************************************)
(* The replica: StartWorkers and Run                                       *)
(***************************************************************************)

\* StartWorkers returns once it has started the runners, and its deferred
\* calls close the DLQ writers.
StartWorkersReturns(c) ==
  /\ dlqOpen[c]
  /\ dlqOpen' = [dlqOpen EXCEPT ![c] = FALSE]
  /\ UNCHANGED <<broker, loop, live, effects, faults>>

\* SIGTERM cancels the context; the goroutines run on until the process ends.
Cancel(c) ==
  /\ live[c]
  /\ faults < MaxFaults
  /\ live' = [live EXCEPT ![c] = FALSE]
  /\ faults' = faults + 1
  /\ UNCHANGED <<broker, loop, dlqOpen, effects>>

\* The process ends, wherever its consumer is, and is started again.
Restart(c) ==
  /\ ~live[c]
  /\ live' = [live EXCEPT ![c] = TRUE]
  /\ dlqOpen' = [dlqOpen EXCEPT ![c] = TRUE]
  /\ pc' = [pc EXCEPT ![c] = "fetch"]
  /\ pos' = [pos EXCEPT ![c] = 0]
  /\ cur' = [cur EXCEPT ![c] = 0]
  /\ att' = [att EXCEPT ![c] = 0]
  /\ owner' = IF owner = c THEN NoConsumer ELSE owner
  /\ UNCHANGED <<log, accepted, committed, effects, faults>>

Step(c) ==
  \/ Fetch(c)
  \/ \E o \in Outcomes : Attempt(c, o) \/ WithDLQ(c, o) \/ Commit(c, o)

Next ==
  \/ \E w \in Webhooks, o \in Outcomes : ProcessUpdate(w, o)
  \/ \E c \in Consumers :
       \/ Step(c)
       \/ Assign(c)
       \/ StopConsuming(c)
       \/ StartWorkersReturns(c)
       \/ Cancel(c)
       \/ Restart(c)

Spec == Init /\ [][Next]_vars

\* Goroutines run, calls time out, a cancelled process ends and is started
\* again, and the coordinator assigns a partition nobody owns.
FairSpec ==
  /\ Spec
  /\ \A c \in Consumers : WF_vars(Step(c)) /\ WF_vars(Restart(c))
  /\ WF_vars(owner = NoConsumer /\ \E c \in Consumers : Assign(c))

-----------------------------------------------------------------------------
(***************************************************************************)
(* Properties                                                              *)
(***************************************************************************)
Settled(i) == i \in handled \cup gaveUp

\* Failed commits, redelivery, a consumer that commits after it has lost the
\* partition, and restarts notwithstanding: the group never passes a message
\* which no handler has succeeded with and WithDLQ has not given up on.
PassedIsSettled == \A i \in 1..committed : Settled(i)

\* Messages take effect in the order of the log: whenever a handler succeeds,
\* every earlier message has been handled or given up on.
HandledInOrder ==
  [][\A i \in handled' \ handled : \A j \in 1..i - 1 : Settled(j)]_vars

\* One poison message cannot stall the partition: every message is settled in
\* the end, unless every consumer has stopped for good.
EverythingSettles ==
  \/ <>[](\A c \in Consumers : ~Running(c))
  \/ <>[](\A i \in Offsets : Settled(i))

\* What the comment in WithDLQ and the documentation say: a message that was
\* passed although its handler failed is in the DLQ.  The code does not ensure
\* it: the writers are closed when StartWorkers returns.
PassedIsHandledOrParked ==
  \A i \in 1..committed : i \in handled \cup dlq
=============================================================================
