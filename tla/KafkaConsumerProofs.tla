------------------------ MODULE KafkaConsumerProofs ------------------------
(***************************************************************************)
(* Proofs about KafkaConsumer for every number of replicas, webhooks,      *)
(* attempts and faults: the consumer group loses no message between its    *)
(* retries, rebalances, failed commits and restarts, and messages take     *)
(* effect in the order of the log.                                         *)
(***************************************************************************)
EXTENDS KafkaConsumer, TLAPS

InFlight(c) == pc[c] \in {"handle", "dlq", "commit"}

\* The reader of a running consumer may be ahead of what is settled by the
\* message in flight only.
ReadIsSettled ==
  \A c \in Consumers : Running(c) =>
    \A i \in 1..pos[c] : Settled(i) \/ (InFlight(c) /\ i = cur[c])

\* What precedes the message in flight is settled, even after the partition
\* has gone to another consumer and the reader was set back.
EarlierIsSettled ==
  \A c \in Consumers :
    InFlight(c) =>
      /\ cur[c] \in Offsets
      /\ \A i \in 1..cur[c] - 1 : Settled(i)

\* A consumer is about to commit a message only when it is settled.
CommitsSettled ==
  \A c \in Consumers : pc[c] = "commit" => Settled(cur[c])

\* The inductive invariant.
IInv ==
  /\ TypeOK
  /\ PassedIsSettled
  /\ ReadIsSettled
  /\ EarlierIsSettled
  /\ CommitsSettled

\* An outcome counted as a fault is within the bound.
LEMMA CountBounded ==
  ASSUME TypeOK, NEW o \in Outcomes, Count(o)
  PROVE  faults' \in 0..MaxFaults /\ o \in {"ok", "error", "lost_ack"}
BY KafkaAssumption DEF TypeOK, Outcomes, Count

LEMMA InitIInv == Init => IInv
BY KafkaAssumption DEF Init, IInv, TypeOK, PassedIsSettled, ReadIsSettled,
   EarlierIsSettled, CommitsSettled, InFlight, Running, Settled,
     Offsets

LEMMA ProcessUpdateStep ==
  ASSUME IInv, NEW w \in Webhooks, NEW o \in Outcomes, ProcessUpdate(w, o)
  PROVE  IInv'
<1>1. log' \in Seq(Webhooks) /\ Len(log') >= Len(log)
  BY DEF IInv, TypeOK, ProcessUpdate, Publish
<1>2. Len(log) \in Nat /\ Len(log') \in Nat
  BY <1>1 DEF IInv, TypeOK
<1>3. TypeOK'
  <2>1. faults' \in 0..MaxFaults
    BY CountBounded DEF ProcessUpdate, IInv
  <2>2. accepted' \subseteq Webhooks
    BY DEF ProcessUpdate, IInv, TypeOK
  <2>3. 0..Len(log) \subseteq 0..Len(log') /\ Offsets \subseteq Offsets'
    BY <1>1, <1>2 DEF Offsets
  <2>4. committed' \in 0..Len(log')
        /\ pos' \in [Consumers -> 0..Len(log')]
        /\ cur' \in [Consumers -> 0..Len(log')]
    BY <2>3 DEF ProcessUpdate, IInv, TypeOK, loop
  <2>5. handled' \subseteq Offsets' /\ gaveUp' \subseteq Offsets'
    BY <2>3 DEF ProcessUpdate, IInv, TypeOK, effects
  <2>6. QED
    BY <1>1, <2>1, <2>2, <2>4, <2>5
       DEF ProcessUpdate, IInv, TypeOK, loop, replica, effects
<1>4. QED
  BY <1>1, <1>2, <1>3 DEF IInv, TypeOK, ProcessUpdate, loop, replica, effects,
     PassedIsSettled, ReadIsSettled, EarlierIsSettled, CommitsSettled,
     InFlight, Running, Settled, Offsets

LEMMA AssignStep ==
  ASSUME IInv, NEW c \in Consumers, Assign(c)
  PROVE  IInv'
<1> Len(log) \in Nat BY DEF IInv, TypeOK
<1>1. TypeOK'
  BY KafkaAssumption DEF IInv, TypeOK, Assign, StartOffset, Offsets, replica, effects
<1>2. ReadIsSettled'
  BY DEF IInv, TypeOK, Assign, StartOffset, replica, effects, ReadIsSettled,
     PassedIsSettled, InFlight, Running, Settled
<1>3. QED
  BY <1>1, <1>2 DEF IInv, TypeOK, Assign, replica, effects,
     PassedIsSettled, EarlierIsSettled, CommitsSettled, InFlight, Running, Settled,
     Offsets

LEMMA FetchStep ==
  ASSUME IInv, NEW c \in Consumers, Fetch(c)
  PROVE  IInv'
<1> Len(log) \in Nat BY DEF IInv, TypeOK
<1>1. TypeOK'
  <2>1. /\ pos[c] + 1 \in 0..Len(log)
        /\ pos' = [pos EXCEPT ![c] = pos[c] + 1]
        /\ cur' = [cur EXCEPT ![c] = pos[c] + 1]
    BY DEF IInv, TypeOK, Fetch
  <2>2. QED
    BY <2>1 DEF IInv, TypeOK, Fetch, Offsets, broker, replica, effects
<1>2. \A i \in 1..pos[c] : Settled(i)
  BY DEF IInv, ReadIsSettled, InFlight, Running, Fetch
<1>3. QED
  BY <1>1, <1>2 DEF IInv, TypeOK, Fetch, broker, replica, effects,
     PassedIsSettled, ReadIsSettled, EarlierIsSettled, CommitsSettled,
     InFlight, Running, Settled, Offsets

LEMMA StopConsumingStep ==
  ASSUME IInv, NEW c \in Consumers, StopConsuming(c)
  PROVE  IInv'
<1> Len(log) \in Nat BY DEF IInv, TypeOK
<1>1. TypeOK'
  <2>1. faults' \in 0..MaxFaults
    BY KafkaAssumption DEF IInv, TypeOK, StopConsuming
  <2>2. owner' \in Consumers \cup {NoConsumer}
    BY DEF IInv, TypeOK, StopConsuming
  <2>3. pc' \in [Consumers -> {"fetch", "handle", "dlq", "commit", "stopped"}]
    BY DEF IInv, TypeOK, StopConsuming
  <2>4. QED
    BY <2>1, <2>2, <2>3
       DEF IInv, TypeOK, StopConsuming, Offsets, replica, effects
<1>2. QED
  BY <1>1 DEF IInv, TypeOK, StopConsuming, replica, effects,
     PassedIsSettled, ReadIsSettled, EarlierIsSettled, CommitsSettled,
     InFlight, Running, Settled, Offsets

LEMMA AttemptStep ==
  ASSUME IInv, NEW c \in Consumers, NEW o \in Outcomes, Attempt(c, o)
  PROVE  /\ IInv'
         /\ \A i \in handled' \ handled : \A j \in 1..i - 1 : Settled(j)
<1> DEFINE r == HandleMessage(c, log[cur[c]], o)
<1> Len(log) \in Nat BY DEF IInv, TypeOK
<1>1. pc[c] = "handle" /\ cur[c] \in Offsets /\ log[cur[c]] \in Webhooks
  BY DEF Attempt, IInv, TypeOK, EarlierIsSettled, InFlight, Offsets
<1>2. NextAfterError(c) \in {"handle", "dlq"}
      /\ (NextAfterError(c) = "handle" => att[c] + 1 < MaxAttempts)
  BY DEF NextAfterError
<1>3. /\ pc' = [pc EXCEPT ![c] = IF r = "ok" THEN "commit" ELSE NextAfterError(c)]
      /\ handled' = IF r = "ok" THEN handled \cup {cur[c]} ELSE handled
      /\ att' = [att EXCEPT ![c] = IF pc'[c] = "handle" THEN @ + 1 ELSE 0]
      /\ applied' \in {applied, applied \cup {log[cur[c]]}}
      /\ Count(o)
      /\ UNCHANGED <<log, accepted, committed, owner, pos, cur, live, dlqOpen,
                     gaveUp, dlq>>
  BY DEF Attempt, broker, replica
<1> HIDE DEF r
<1>4. TypeOK'
  <2>1. applied' \subseteq Webhooks /\ handled' \subseteq Offsets'
    BY <1>1, <1>3 DEF IInv, TypeOK, Offsets
  <2>2. pc' \in [Consumers -> {"fetch", "handle", "dlq", "commit", "stopped"}]
    BY <1>2, <1>3 DEF IInv, TypeOK
  <2>3. att' \in [Consumers -> 0..MaxAttempts - 1]
    BY <1>2, <1>3, KafkaAssumption DEF IInv, TypeOK
  <2>4. QED
    BY <1>3, <2>1, <2>2, <2>3, CountBounded DEF IInv, TypeOK, Offsets
<1>5. \A i \in 1..cur[c] - 1 : Settled(i)
  BY <1>1 DEF IInv, EarlierIsSettled, InFlight
<1>6. PassedIsSettled' /\ ReadIsSettled' /\ EarlierIsSettled' /\ CommitsSettled'
  BY <1>1, <1>2, <1>3 DEF IInv, TypeOK, PassedIsSettled, ReadIsSettled,
     EarlierIsSettled, CommitsSettled, InFlight, Running, Settled,
     Offsets
<1>7. \A i \in handled' \ handled : \A j \in 1..i - 1 : Settled(j)
  BY <1>3, <1>5
<1>8. QED
  BY <1>4, <1>6, <1>7 DEF IInv

LEMMA WithDLQStep ==
  ASSUME IInv, NEW c \in Consumers, NEW o \in Outcomes, WithDLQ(c, o)
  PROVE  IInv'
<1> Len(log) \in Nat BY DEF IInv, TypeOK
<1>1. cur[c] \in Offsets
  BY DEF WithDLQ, IInv, EarlierIsSettled, InFlight
<1>2. TypeOK'
  BY <1>1, CountBounded DEF IInv, TypeOK, WithDLQ, PublishToDLQ, Offsets,
     broker, replica
<1>3. QED
  BY <1>1, <1>2 DEF IInv, TypeOK, WithDLQ, broker, replica,
     PassedIsSettled, ReadIsSettled, EarlierIsSettled, CommitsSettled,
     InFlight, Running, Settled, Offsets

LEMMA CommitStep ==
  ASSUME IInv, NEW c \in Consumers, NEW o \in Outcomes, Commit(c, o)
  PROVE  IInv'
<1> Len(log) \in Nat BY DEF IInv, TypeOK
<1>1. /\ cur[c] \in Offsets
      /\ \A i \in 1..cur[c] : Settled(i)
  BY DEF Commit, IInv, TypeOK, EarlierIsSettled, CommitsSettled, InFlight, Offsets
<1>2. TypeOK'
  BY <1>1, CountBounded DEF IInv, TypeOK, Commit, Offsets, replica, effects
<1>3. PassedIsSettled'
  BY <1>1 DEF IInv, PassedIsSettled, Commit, effects, Settled
<1>4. QED
  BY <1>1, <1>2, <1>3 DEF IInv, TypeOK, Commit, replica, effects,
     ReadIsSettled, EarlierIsSettled, CommitsSettled, InFlight, Running, Settled,
     Offsets

\* The steps of a replica: its start, its end and the start of the next one.
LEMMA ReplicaStep ==
  ASSUME IInv, NEW c \in Consumers,
         StartWorkersReturns(c) \/ Cancel(c) \/ Restart(c)
  PROVE  IInv'
<1> Len(log) \in Nat BY DEF IInv, TypeOK
<1>1. CASE StartWorkersReturns(c)
  BY <1>1 DEF IInv, TypeOK, StartWorkersReturns, broker, loop, effects,
     PassedIsSettled, ReadIsSettled, EarlierIsSettled, CommitsSettled,
     InFlight, Running, Settled, Offsets
<1>2. CASE Cancel(c)
  BY <1>2, KafkaAssumption DEF IInv, TypeOK, Cancel, broker, loop, effects,
     PassedIsSettled, ReadIsSettled, EarlierIsSettled, CommitsSettled,
     InFlight, Running, Settled, Offsets
<1>3. CASE Restart(c)
  <2>1. TypeOK'
    BY <1>3, KafkaAssumption DEF IInv, TypeOK, Restart, effects, Offsets
  <2>2. QED
    BY <1>3, <2>1 DEF IInv, TypeOK, Restart, effects,
       PassedIsSettled, ReadIsSettled, EarlierIsSettled, CommitsSettled,
       InFlight, Running, Settled, Offsets
<1>4. QED
  BY <1>1, <1>2, <1>3

\* Every step keeps the invariant, and lets a handler succeed only behind
\* messages that are settled.
LEMMA IInvStep ==
  ASSUME IInv, [Next]_vars
  PROVE  /\ IInv'
         /\ \A i \in handled' \ handled : \A j \in 1..i - 1 : Settled(j)
<1>1. CASE UNCHANGED vars
  BY <1>1 DEF vars, broker, loop, replica, effects, IInv, TypeOK, Offsets,
     PassedIsSettled, ReadIsSettled, EarlierIsSettled, CommitsSettled,
     InFlight, Running, Settled
<1>2. ASSUME NEW w \in Webhooks, NEW o \in Outcomes, ProcessUpdate(w, o)
      PROVE  IInv' /\ handled' = handled
  BY <1>2, ProcessUpdateStep DEF ProcessUpdate, effects
<1>3. ASSUME NEW c \in Consumers, Fetch(c)
      PROVE  IInv' /\ handled' = handled
  BY <1>3, FetchStep DEF Fetch, effects
<1>4. ASSUME NEW c \in Consumers, NEW o \in Outcomes, WithDLQ(c, o)
      PROVE  IInv' /\ handled' = handled
  BY <1>4, WithDLQStep DEF WithDLQ
<1>5. ASSUME NEW c \in Consumers, NEW o \in Outcomes, Commit(c, o)
      PROVE  IInv' /\ handled' = handled
  BY <1>5, CommitStep DEF Commit, effects
<1>6. ASSUME NEW c \in Consumers, Assign(c)
      PROVE  IInv' /\ handled' = handled
  BY <1>6, AssignStep DEF Assign, effects
<1>7. ASSUME NEW c \in Consumers, StopConsuming(c)
      PROVE  IInv' /\ handled' = handled
  BY <1>7, StopConsumingStep DEF StopConsuming, effects
<1>8. ASSUME NEW c \in Consumers,
             StartWorkersReturns(c) \/ Cancel(c) \/ Restart(c)
      PROVE  IInv' /\ handled' = handled
  BY <1>8, ReplicaStep DEF StartWorkersReturns, Cancel, Restart, effects
<1>9. CASE UNCHANGED handled
  BY <1>1, <1>2, <1>3, <1>4, <1>5, <1>6, <1>7, <1>8, <1>9, AttemptStep
     DEF Next, Step
<1>10. QED
  BY <1>1, <1>2, <1>3, <1>4, <1>5, <1>6, <1>7, <1>8, <1>9, AttemptStep
     DEF Next, Step, vars, effects

\* The invariant holds in every reachable state: a reader is ahead of what is
\* settled by the message in flight at most, and only settled messages are
\* committed.
THEOREM Inductive == Spec => []IInv
<1>1. IInv /\ [Next]_vars => IInv'
  BY IInvStep
<1>2. QED
  BY InitIInv, <1>1, PTL DEF Spec

\* Every reachable state is well-typed: no offset runs ahead of the log, the
\* attempts of WithRetry stay within their limit, and the DLQ has only messages
\* that were given up on.
THEOREM TypeCorrect == Spec => []TypeOK
<1>1. IInv => TypeOK
  BY DEF IInv
<1>2. QED
  BY Inductive, <1>1, PTL

\* The consumer group passes no message that no handler succeeded with and
\* WithDLQ has not given up on.
THEOREM NothingPassedUnsettled == Spec => []PassedIsSettled
<1>1. IInv => PassedIsSettled
  BY DEF IInv
<1>2. QED
  BY Inductive, <1>1, PTL

\* Handlers succeed in the order of the log, up to messages given up on,
\* although two consumers may work on one partition at the same time.
THEOREM EffectsFollowTheLog == Spec => HandledInOrder
<1>1. IInv /\ [Next]_vars =>
        [\A i \in handled' \ handled : \A j \in 1..i - 1 : Settled(j)]_vars
  BY IInvStep
<1>2. QED
  BY Inductive, <1>1, PTL DEF Spec, HandledInOrder
=============================================================================
