---------------------------- MODULE CdcAnalytics ----------------------------
(***************************************************************************)
(* From the outbox to the search index: the CDC worker streams inserts of  *)
(* table events from the write-ahead log to a Kafka topic, and the         *)
(* analytics consumer writes them to OpenSearch.                           *)
(*                                                                         *)
(* Events are numbered in the order of their commits, and all of them are  *)
(* about one aggregate, so they share a partition.  PostgreSQL, Kafka and  *)
(* OpenSearch are external.                                                *)
(***************************************************************************)
EXTENDS Integers, Sequences, FiniteSets

CONSTANTS
  MaxEvents,  \* inserts into table events (a bound of the model)
  Rejected,   \* events OpenSearch refuses, because their payload clashes with
              \* the mapping it has derived from earlier ones
  Unreadable, \* events whose message does not unmarshal: none while the CDC
              \* worker is the topic's only producer
  MaxFaults   \* errors and stops (a bound of the model)

ASSUME CdcAssumption ==
  /\ MaxEvents \in Nat
  /\ Rejected \subseteq 1..MaxEvents
  /\ Unreadable \subseteq 1..MaxEvents
  /\ MaxFaults \in Nat

VARIABLES
  wal,        \* inserts into table events so far
  stream,     \* the worker is connected
  start,      \* the position at which its slot was created
  sent,       \* the last event it is through with
  topic,      \* the partition
  committed,  \* the offset the analytics group has committed
  pos,        \* the last offset its reader returned
  pc,         \* where consumeLoop is
  index,      \* documents, by event id
  failed,     \* events indexEvent has failed for, refused or not
  faults

cdc == <<stream, start, sent>>
consumer == <<committed, pos, pc>>
vars == <<wal, cdc, topic, consumer, index, failed, faults>>

TypeOK ==
  /\ wal \in 0..MaxEvents
  /\ stream \in BOOLEAN
  /\ start \in 0..wal /\ sent \in start..wal
  /\ topic \in Seq(1..wal)
  /\ committed \in 0..Len(topic)
  /\ pos \in 0..Len(topic)
  /\ pc \in {"fetch", "index", "commit", "stopped"}
  /\ index \subseteq 1..wal
  /\ failed \subseteq 1..wal
  /\ faults \in 0..MaxFaults

Init ==
  /\ wal = 0
  /\ stream = FALSE
  /\ start = 0 /\ sent = 0
  /\ topic = << >>
  /\ committed = 0 /\ pos = 0
  /\ pc = "fetch"
  /\ index = {} /\ failed = {}
  /\ faults = 0

\* How a call ends; after lost_ack it took effect although the caller sees an
\* error.
Outcomes ==
  {"ok"} \cup IF faults < MaxFaults THEN {"error", "lost_ack"} ELSE {}

Count(o) == faults' = IF o = "ok" THEN faults ELSE faults + 1

\* CreateEvent of Paymanager, when its transaction commits.
CreateEvent ==
  /\ wal < MaxEvents
  /\ wal' = wal + 1
  /\ UNCHANGED <<cdc, topic, consumer, index, failed, faults>>

(***************************************************************************)
(* The CDC worker                                                          *)
(***************************************************************************)

\* Faulty variant: the slot is kept, with nothing acknowledged since.
KeptSlot == start

\* The slot is dropped and created anew, at the current end of the log.
NewSlot == wal

\* runReplication
Connect ==
  /\ ~stream
  /\ stream' = TRUE
  /\ start' = NewSlot
  /\ sent' = NewSlot
  /\ UNCHANGED <<wal, topic, consumer, index, failed, faults>>

\* An error of WriteMessages ends streamLoop, and Run connects again.
KeepsStreaming(o) == o \in {"ok", "resent"}

\* handleWALMessage: decodeInsert and WriteMessages.  The Kafka writer resends
\* a message whose acknowledgement it missed.
HandleWALMessage(o) ==
  /\ stream
  /\ sent < wal
  /\ topic' = CASE o = "error" -> topic
                [] o = "resent" -> topic \o <<sent + 1, sent + 1>>
                [] OTHER -> Append(topic, sent + 1)
  /\ sent' = IF KeepsStreaming(o) THEN sent + 1 ELSE sent
  /\ stream' = KeepsStreaming(o)
  /\ Count(o)
  /\ UNCHANGED <<wal, start, consumer, index, failed>>

\* The connection breaks, a heartbeat fails, the process stops.
Disconnect ==
  /\ stream
  /\ faults < MaxFaults
  /\ stream' = FALSE
  /\ faults' = faults + 1
  /\ UNCHANGED <<wal, start, sent, topic, consumer, index, failed>>

(***************************************************************************)
(* The analytics consumer                                                  *)
(***************************************************************************)
\* FetchMessage and Unmarshal: a message that cannot be read is skipped, and
\* its offset committed.
Fetch ==
  /\ pc = "fetch"
  /\ pos < Len(topic)
  /\ pos' = pos + 1
  /\ pc' = IF topic[pos + 1] \in Unreadable THEN "commit" ELSE "index"
  /\ UNCHANGED <<wal, cdc, topic, committed, index, failed, faults>>

\* FetchMessage fails: consumeLoop returns and the process ends.
FetchFails ==
  /\ pc = "fetch"
  /\ faults < MaxFaults
  /\ faults' = faults + 1
  /\ pc' = "stopped"
  /\ UNCHANGED <<wal, cdc, topic, committed, pos, index, failed>>

\* Faulty variant: an event that could not be indexed is retried for ever.
AfterIndexErrorRetries == "index"

\* The message is not committed, and the loop goes on with the next one.
AfterIndexError == "fetch"

\* Faulty variant: the document's id is the aggregate's, which all events here
\* have in common.
IndexedByAggregate(e) == {e}

\* The document's id is the event's, so only its own repetition overwrites it.
Indexed(e) == index \cup {e}

\* indexEvent
IndexEvent(o) ==
  LET e == topic[pos]
      stored == o # "error" /\ e \notin Rejected
      ok == stored /\ o = "ok"
  IN /\ pc = "index"
     /\ index' = IF stored THEN Indexed(e) ELSE index
     /\ failed' = IF ok THEN failed ELSE failed \cup {e}
     /\ pc' = IF ok THEN "commit" ELSE AfterIndexError
     /\ Count(o)
     /\ UNCHANGED <<wal, cdc, topic, committed, pos>>

CommitMessage(o) ==
  /\ pc = "commit"
  /\ committed' = IF o = "error" THEN committed ELSE pos
  /\ pc' = "fetch"
  /\ Count(o)
  /\ UNCHANGED <<wal, cdc, topic, pos, index, failed>>

\* Faulty variant: the new process starts behind what is in the topic.
ResumeAtEnd == Len(topic)

\* Behind the committed offset, or at the first message.
ResumeAt == committed

Restart ==
  /\ \/ pc = "stopped" /\ UNCHANGED faults
     \/ faults < MaxFaults /\ faults' = faults + 1
  /\ pos' = ResumeAt
  /\ pc' = "fetch"
  /\ UNCHANGED <<wal, cdc, topic, committed, index, failed>>

Consume ==
  \/ Fetch
  \/ \E o \in Outcomes : IndexEvent(o) \/ CommitMessage(o)

Stream ==
  \/ \E o \in Outcomes : HandleWALMessage(o)
  \/ faults < MaxFaults /\ HandleWALMessage("resent")

Next ==
  \/ CreateEvent
  \/ Connect
  \/ Stream
  \/ Disconnect
  \/ Consume
  \/ FetchFails
  \/ Restart

Spec == Init /\ [][Next]_vars

\* Both processes run, the worker's loop connects again after an error, and a
\* consumer that has stopped is started again.
FairSpec ==
  /\ Spec
  /\ WF_vars(Connect) /\ WF_vars(Stream) /\ WF_vars(Consume)
  /\ WF_vars(pc = "stopped" /\ Restart)

-----------------------------------------------------------------------------
(***************************************************************************)
(* Properties                                                              *)
(***************************************************************************)

\* Although the worker reconnects after errors, a write that failed may have
\* reached the topic and the writer resends, the topic has the events in the
\* order of the commits: none is repeated behind a later one.
TopicInCommitOrder ==
  \A i, j \in DOMAIN topic : i < j => topic[i] <= topic[j]

\* Through failed commits and restarts, the consumer passes no event that it
\* could read and has not at least tried to index.  The attempt may have failed
\* for good or for the moment: in either case consumeLoop goes on to the next
\* event, whose commit covers this one, and no restart brings it again.
PassedIsTried ==
  \A i \in 1..committed : topic[i] \in index \cup failed \cup Unreadable

\* Events the consumer has passed and that are not searchable, although
\* OpenSearch would take them.
Lost ==
  {topic[i] : i \in 1..committed} \ (index \cup Rejected \cup Unreadable)

\* The consumer loses no more events than there were errors: by PassedIsTried an
\* event is lost only after an attempt of its own failed, and that is one error.
\* Stops of either process, failed commits and redeliveries, which leave other
\* events unconfirmed too, lose none besides.
LossesAreFaults == Cardinality(Lost) <= faults

\* What was written while the worker's last connection is up becomes
\* searchable, unless it cannot be read or an attempt to index it has failed.
\* What was written before, while it was down, need not.
SearchableInTheEnd ==
  <>[](\A e \in start + 1..wal : e \in index \cup failed \cup Unreadable)
=============================================================================
