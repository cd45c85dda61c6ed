------------------------- MODULE CdcAnalyticsProofs -------------------------
(***************************************************************************)
(* Proofs about CdcAnalytics for any number of events, errors, reconnects  *)
(* and restarts: the topic keeps the order of the commits, the analytics   *)
(* consumer passes no event it has not tried to index, and it loses no     *)
(* more events than there were errors.                                     *)
(***************************************************************************)
EXTENDS CdcAnalytics, SequenceTheorems, FiniteSetTheorems, TLAPS

\* The last event that can be in the topic.  A write that failed may have
\* reached it, but then the connection is over and the next one starts behind
\* everything that was written.
Published == IF stream THEN sent ELSE wal

TopicBounded == \A i \in DOMAIN topic : topic[i] <= Published

Tried(i) == topic[i] \in index \cup failed \cup Unreadable

\* The reader is ahead of what was tried by the message it is at, at most.
ReadIsTried ==
  \A i \in 1..pos : Tried(i) \/ (pc = "index" /\ i = pos)

\* Events that are not searchable after an attempt to index them, although
\* OpenSearch would take them.
Missing == failed \ (index \cup Rejected)

MissingAreFaults == Cardinality(Missing) <= faults

AtMessage == pc \in {"index", "commit"} => pos >= 1

\* The inductive invariant.
IInv ==
  /\ TypeOK
  /\ TopicBounded
  /\ TopicInCommitOrder
  /\ PassedIsTried
  /\ ReadIsTried
  /\ AtMessage
  /\ MissingAreFaults

\* What is missing is finite, so fewer are counted when fewer are missing.
LEMMA MissingFinite ==
  ASSUME IInv
  PROVE  IsFiniteSet(Missing) /\ Cardinality(Missing) \in Nat
<1>1. Missing \subseteq 1..wal /\ wal \in Int
  <2>1. failed \subseteq 1..wal /\ wal \in 0..MaxEvents
    BY DEF IInv, TypeOK
  <2>2. Missing \subseteq failed
    BY DEF Missing
  <2>3. QED
    BY <2>1, <2>2, CdcAssumption
<1>2. IsFiniteSet(1..wal)
  BY <1>1, FS_Interval
<1>3. IsFiniteSet(Missing)
  BY <1>1, <1>2, FS_Subset
<1>4. QED
  BY <1>3, FS_CardinalityType

\* A step that fails no event keeps the count.
LEMMA MissingKept ==
  ASSUME IInv, UNCHANGED <<index, failed>>, faults' \in Nat, faults' >= faults
  PROVE  MissingAreFaults'
<1>1. Missing' = Missing
  BY DEF Missing
<1>2. Cardinality(Missing) <= faults /\ faults \in Nat
  BY CdcAssumption DEF IInv, TypeOK, MissingAreFaults
<1>3. QED
  BY <1>1, <1>2, MissingFinite DEF MissingAreFaults

LEMMA CountBounded ==
  ASSUME TypeOK, NEW o, o \in Outcomes \/ faults < MaxFaults, Count(o)
  PROVE  faults' \in 0..MaxFaults /\ faults' >= faults
BY CdcAssumption DEF TypeOK, Outcomes, Count

LEMMA InitIInv == Init => IInv
<1> SUFFICES ASSUME Init PROVE IInv
  OBVIOUS
<1>1. topic \in Seq(1..wal) /\ Len(topic) = 0 /\ DOMAIN topic = {}
  BY EmptySeq DEF Init
<1>2. TypeOK
  <2>1. /\ wal \in 0..MaxEvents /\ start \in 0..wal /\ sent \in start..wal
        /\ committed \in 0..Len(topic) /\ pos \in 0..Len(topic)
        /\ faults \in 0..MaxFaults
    BY <1>1, CdcAssumption DEF Init
  <2>2. /\ stream \in BOOLEAN /\ index \subseteq 1..wal /\ failed \subseteq 1..wal
        /\ pc \in {"fetch", "index", "commit", "stopped"}
    BY DEF Init
  <2>3. QED
    BY <1>1, <2>1, <2>2 DEF TypeOK
<1>3. TopicBounded /\ TopicInCommitOrder
  BY <1>1 DEF TopicBounded, TopicInCommitOrder
<1>4. PassedIsTried /\ ReadIsTried /\ AtMessage
  BY DEF Init, PassedIsTried, ReadIsTried, AtMessage
<1>5. MissingAreFaults
  <2>1. Missing = {} /\ faults = 0
    BY DEF Init, Missing
  <2>2. QED
    BY <2>1, FS_EmptySet DEF MissingAreFaults
<1>6. QED
  BY <1>2, <1>3, <1>4, <1>5 DEF IInv

LEMMA CreateEventStep ==
  ASSUME IInv, CreateEvent
  PROVE  IInv'
<1>1. wal' = wal + 1 /\ wal' \in 0..MaxEvents /\ wal \in Nat
  BY CdcAssumption DEF CreateEvent, IInv, TypeOK
<1>2. /\ UNCHANGED <<stream, start, sent, topic, committed, pos, pc, index,
                     failed, faults>>
  BY DEF CreateEvent, cdc, consumer
<1>3. topic' \in Seq(1..wal')
  <2>1. 1..wal \subseteq 1..wal'
    BY <1>1
  <2>2. topic \in Seq(1..wal)
    BY DEF IInv, TypeOK
  <2>3. QED
    BY <1>2, <2>1, <2>2, SeqMonotonic
<1>4. TypeOK'
  BY <1>1, <1>2, <1>3 DEF IInv, TypeOK
<1>5. TopicBounded'
  BY <1>1, <1>2 DEF IInv, TypeOK, TopicBounded, Published
<1>6. QED
  BY <1>2, <1>4, <1>5 DEF IInv, TopicInCommitOrder, PassedIsTried,
     ReadIsTried, Tried, AtMessage, MissingAreFaults, Missing

\* Connecting and losing the connection.
LEMMA ConnectionStep ==
  ASSUME IInv, Connect \/ Disconnect
  PROVE  IInv'
<1>1. /\ TypeOK'
      /\ UNCHANGED <<wal, topic, committed, pos, pc, index, failed>>
  <2>1. wal \in Nat
    BY CdcAssumption DEF IInv, TypeOK
  <2>2. CASE Connect
    BY <2>1, <2>2 DEF IInv, TypeOK, Connect, NewSlot, consumer
  <2>3. CASE Disconnect
    <3>1. faults' \in 0..MaxFaults
      BY <2>3, CdcAssumption DEF IInv, TypeOK, Disconnect
    <3>2. stream' \in BOOLEAN
      BY <2>3 DEF Disconnect
    <3>3. UNCHANGED <<wal, start, sent, topic, committed, pos, pc, index, failed>>
      BY <2>3 DEF Disconnect, consumer
    <3>4. QED
      BY <3>1, <3>2, <3>3 DEF IInv, TypeOK
  <2>4. QED
    BY <2>2, <2>3
<1>2. Published <= Published' /\ Published \in Int /\ Published' \in Int
  BY <1>1 DEF IInv, TypeOK, Connect, Disconnect, NewSlot, Published
<1>3. TopicBounded'
  <2> SUFFICES ASSUME NEW i \in DOMAIN topic PROVE topic[i] <= Published'
    BY <1>1 DEF TopicBounded
  <2>1. topic[i] \in Int /\ topic[i] <= Published
    BY DEF IInv, TypeOK, TopicBounded
  <2>2. QED
    BY <1>2, <2>1
<1>4. MissingAreFaults'
  BY <1>1, MissingKept DEF IInv, TypeOK, Connect, Disconnect
<1>5. QED
  BY <1>1, <1>3, <1>4 DEF IInv, TopicInCommitOrder, PassedIsTried,
     ReadIsTried, Tried, AtMessage

\* What is appended to the topic: nothing, the next event, or the event twice.
LEMMA HandleWALMessageStep ==
  ASSUME IInv, NEW o, o \in Outcomes \/ (o = "resent" /\ faults < MaxFaults),
         HandleWALMessage(o)
  PROVE  IInv'
<1> DEFINE e == sent + 1
<1>1. stream /\ sent \in Nat /\ wal \in Nat /\ e \in 1..wal
  BY DEF HandleWALMessage, IInv, TypeOK
<1>2. topic \in Seq(1..wal) /\ Len(topic) \in Nat
  BY DEF IInv, TypeOK
<1>3. UNCHANGED <<wal, start, committed, pos, pc, index, failed>>
  BY DEF HandleWALMessage, consumer
<1>4. topic' \in {topic, Append(topic, e), topic \o <<e, e>>}
  BY DEF HandleWALMessage
<1>5. /\ topic' \in Seq(1..wal)
      /\ Len(topic') >= Len(topic) /\ Len(topic') \in Nat
      /\ \A i \in 1..Len(topic) : topic'[i] = topic[i]
      /\ \A i \in DOMAIN topic' : i > Len(topic) => topic'[i] = e
  <2>1. CASE topic' = topic
    BY <1>2, <2>1
  <2>2. CASE topic' = Append(topic, e)
    BY <1>1, <1>2, <2>2, AppendProperties
  <2>3. CASE topic' = topic \o <<e, e>>
    <3>1. /\ <<e, e>> \in Seq(1..wal)
          /\ Len(<<e, e>>) = 2
          /\ \A i \in 1..2 : <<e, e>>[i] = e
      BY <1>1
    <3>2. /\ topic' \in Seq(1..wal)
          /\ Len(topic') = Len(topic) + 2
          /\ \A i \in 1..Len(topic) + 2 : topic'[i] =
               IF i <= Len(topic) THEN topic[i] ELSE <<e, e>>[i - Len(topic)]
      BY <1>2, <2>3, <3>1, ConcatProperties
    <3>3. DOMAIN topic' = 1..Len(topic) + 2
      BY <3>2, LenProperties
    <3>4. QED
      BY <1>2, <3>1, <3>2, <3>3
  <2>4. QED
    BY <1>4, <2>1, <2>2, <2>3
<1>7. /\ stream' = KeepsStreaming(o)
      /\ sent' = IF KeepsStreaming(o) THEN e ELSE sent
      /\ Count(o)
  BY DEF HandleWALMessage
<1>8. TypeOK'
  BY <1>1, <1>2, <1>3, <1>5, <1>7, CountBounded
     DEF IInv, TypeOK, KeepsStreaming
<1>9. Published = sent /\ Published' >= e /\ Published' \in Nat
  <2>1. CASE KeepsStreaming(o)
    BY <1>1, <1>7, <2>1 DEF Published
  <2>2. CASE ~KeepsStreaming(o)
    BY <1>1, <1>3, <1>7, <2>2 DEF Published
  <2>3. QED
    BY <2>1, <2>2
<1> HIDE DEF e
<1>10. \A i \in 1..Len(topic) : topic[i] \in Nat /\ topic[i] <= sent
  <2> SUFFICES ASSUME NEW i \in 1..Len(topic)
               PROVE  topic[i] \in Nat /\ topic[i] <= sent
    OBVIOUS
  <2>1. topic[i] \in 1..wal
    BY <1>2, ElementOfSeq
  <2>2. i \in DOMAIN topic
    BY <1>2, LenProperties
  <2>3. topic[i] <= Published
    BY <2>2 DEF IInv, TopicBounded
  <2>4. QED
    BY <1>1, <1>9, <2>1, <2>3
<1>11. sent <= e /\ e \in Nat
  BY <1>1 DEF e
<1>12. TopicBounded'
  <2> SUFFICES ASSUME NEW i \in DOMAIN topic' PROVE topic'[i] <= Published'
    BY DEF TopicBounded
  <2>1. i \in Nat /\ i >= 1
    BY <1>5
  <2>2. CASE i <= Len(topic)
    <3>1. topic'[i] = topic[i] /\ topic[i] \in Nat /\ topic[i] <= sent
      BY <1>2, <1>5, <1>10, <2>1, <2>2
    <3>2. QED
      BY <1>1, <1>9, <1>11, <3>1
  <2>3. CASE i > Len(topic)
    BY <1>5, <1>9, <2>3
  <2>4. QED
    BY <1>2, <2>1, <2>2, <2>3
<1>13. TopicInCommitOrder'
  <2> SUFFICES ASSUME NEW i \in DOMAIN topic', NEW j \in DOMAIN topic', i < j
               PROVE  topic'[i] <= topic'[j]
    BY DEF TopicInCommitOrder
  <2>1. i \in Nat /\ j \in Nat /\ i >= 1 /\ j >= 1
    BY <1>5
  <2>2. CASE j <= Len(topic)
    BY <1>2, <1>5, <2>1, <2>2 DEF IInv, TopicInCommitOrder
  <2>3. CASE j > Len(topic) /\ i <= Len(topic)
    <3>1. topic'[i] = topic[i] /\ topic'[j] = e
      BY <1>2, <1>5, <2>1, <2>3
    <3>2. topic[i] \in Nat /\ topic[i] <= sent
      BY <1>2, <1>10, <2>1, <2>3
    <3>3. QED
      BY <1>1, <1>11, <3>1, <3>2
  <2>4. CASE i > Len(topic)
    BY <1>2, <1>5, <1>11, <2>1, <2>4
  <2>5. QED
    BY <1>2, <2>1, <2>2, <2>3, <2>4
<1>14. PassedIsTried' /\ ReadIsTried' /\ AtMessage'
  <2>1. committed \in 0..Len(topic) /\ pos \in 0..Len(topic)
    BY DEF IInv, TypeOK
  <2>2. PassedIsTried'
    <3> SUFFICES ASSUME NEW i \in 1..committed
                 PROVE  topic'[i] \in index \cup failed \cup Unreadable
      BY <1>3 DEF PassedIsTried
    <3>1. topic'[i] = topic[i]
      BY <1>2, <1>5, <2>1
    <3>2. QED
      BY <3>1 DEF IInv, PassedIsTried
  <2>3. ReadIsTried'
    <3> SUFFICES ASSUME NEW i \in 1..pos
                 PROVE  \/ topic'[i] \in index \cup failed \cup Unreadable
                        \/ pc = "index" /\ i = pos
      BY <1>3 DEF ReadIsTried, Tried
    <3>1. topic'[i] = topic[i]
      BY <1>2, <1>5, <2>1
    <3>2. QED
      BY <3>1 DEF IInv, ReadIsTried, Tried
  <2>4. AtMessage'
    BY <1>3 DEF IInv, AtMessage
  <2>5. QED
    BY <2>2, <2>3, <2>4
<1>15. MissingAreFaults'
  BY <1>3, <1>7, <1>8, CountBounded, MissingKept DEF IInv, TypeOK
<1>16. QED
  BY <1>8, <1>12, <1>13, <1>14, <1>15 DEF IInv

\* The steps of the analytics consumer leave the topic and the worker alone.
LEMMA TopicKept ==
  ASSUME IInv, UNCHANGED <<wal, stream, start, sent, topic>>
  PROVE  TopicBounded' /\ TopicInCommitOrder'
BY DEF IInv, TopicBounded, Published, TopicInCommitOrder

LEMMA FetchStep ==
  ASSUME IInv, Fetch
  PROVE  IInv'
<1> Len(topic) \in Nat BY DEF IInv, TypeOK
<1>1. TypeOK'
  BY DEF IInv, TypeOK, Fetch, cdc
<1>2. TopicBounded' /\ TopicInCommitOrder'
  BY TopicKept DEF Fetch, cdc
<1>3. PassedIsTried' /\ ReadIsTried' /\ AtMessage'
  BY DEF IInv, TypeOK, Fetch, cdc, PassedIsTried, ReadIsTried, Tried, AtMessage
<1>4. MissingAreFaults'
  BY <1>1, MissingKept DEF IInv, TypeOK, Fetch
<1>5. QED
  BY <1>1, <1>2, <1>3, <1>4 DEF IInv

LEMMA IndexEventStep ==
  ASSUME IInv, NEW o \in Outcomes, IndexEvent(o)
  PROVE  IInv'
<1> Len(topic) \in Nat BY DEF IInv, TypeOK
<1>1. pos \in 1..Len(topic) /\ topic[pos] \in 1..wal /\ pc = "index"
  BY DEF IndexEvent, IInv, TypeOK, AtMessage
<1>2. /\ index \subseteq index' /\ index' \subseteq index \cup {topic[pos]}
      /\ failed \subseteq failed' /\ failed' \subseteq failed \cup {topic[pos]}
      /\ topic[pos] \in index' \cup failed'
      /\ pc' \in {"commit", "fetch"}
      /\ UNCHANGED <<wal, stream, start, sent, topic, committed, pos>>
  BY DEF IndexEvent, Indexed, AfterIndexError, cdc
<1>3. faults' \in 0..MaxFaults /\ faults' >= faults
  BY CountBounded DEF IInv, IndexEvent
<1>4. TypeOK'
  BY <1>1, <1>2, <1>3 DEF IInv, TypeOK
<1>5. TopicBounded' /\ TopicInCommitOrder'
  BY <1>2, TopicKept
<1>6. PassedIsTried' /\ ReadIsTried' /\ AtMessage'
  BY <1>1, <1>2 DEF IInv, TypeOK, PassedIsTried, ReadIsTried, Tried, AtMessage
\* Only an error that is no refusal adds a missing event, and it is counted.
<1>7. MissingAreFaults'
  <2>1. faults \in Nat /\ faults' \in Nat /\ Cardinality(Missing) <= faults
    BY <1>3, CdcAssumption DEF IInv, TypeOK, MissingAreFaults
  <2>2. CASE o = "error" /\ topic[pos] \notin Rejected
    <3>1. Missing' \subseteq Missing \cup {topic[pos]}
      BY <1>2 DEF Missing
    <3>2. /\ IsFiniteSet(Missing \cup {topic[pos]})
          /\ Cardinality(Missing \cup {topic[pos]}) <= Cardinality(Missing) + 1
      <4>1. Cardinality(Missing \cup {topic[pos]}) =
              IF topic[pos] \in Missing THEN Cardinality(Missing)
              ELSE Cardinality(Missing) + 1
        BY MissingFinite, FS_AddElement, Zenon
      <4>2. IsFiniteSet(Missing \cup {topic[pos]})
        BY MissingFinite, FS_AddElement, Zenon
      <4>3. QED
        BY <4>1, <4>2, MissingFinite
    <3>3. /\ Cardinality(Missing') <= Cardinality(Missing \cup {topic[pos]})
          /\ Cardinality(Missing') \in Nat
      BY <3>1, <3>2, FS_Subset, FS_CardinalityType
    <3>4. faults' = faults + 1
      BY <2>2 DEF IndexEvent, Count
    <3>5. Cardinality(Missing \cup {topic[pos]}) \in Nat
      BY <3>2, FS_CardinalityType
    <3>6. QED
      BY <2>1, <3>2, <3>3, <3>4, <3>5, MissingFinite DEF MissingAreFaults
  <2>3. CASE ~(o = "error" /\ topic[pos] \notin Rejected)
    <3>1. Missing' \subseteq Missing
      BY <1>2, <2>3 DEF IndexEvent, Indexed, Missing
    <3>2. Cardinality(Missing') <= Cardinality(Missing) /\ Cardinality(Missing') \in Nat
      BY <3>1, MissingFinite, FS_Subset, FS_CardinalityType
    <3>3. QED
      BY <1>3, <2>1, <3>2, MissingFinite DEF MissingAreFaults
  <2>4. QED
    BY <2>2, <2>3
<1>8. QED
  BY <1>4, <1>5, <1>6, <1>7 DEF IInv

LEMMA CommitMessageStep ==
  ASSUME IInv, NEW o \in Outcomes, CommitMessage(o)
  PROVE  IInv'
<1> Len(topic) \in Nat BY DEF IInv, TypeOK
<1>1. faults' \in 0..MaxFaults /\ faults' >= faults
  BY CountBounded DEF IInv, CommitMessage
<1>2. TypeOK'
  BY <1>1 DEF IInv, TypeOK, CommitMessage, cdc
<1>3. TopicBounded' /\ TopicInCommitOrder'
  BY TopicKept DEF CommitMessage, cdc
<1>4. PassedIsTried' /\ ReadIsTried' /\ AtMessage'
  BY DEF IInv, TypeOK, CommitMessage, cdc, PassedIsTried, ReadIsTried, Tried,
     AtMessage
<1>5. MissingAreFaults'
  BY <1>1, MissingKept DEF CommitMessage
<1>6. QED
  BY <1>2, <1>3, <1>4, <1>5 DEF IInv

\* The consumer stops, and starts again behind the committed offset.
LEMMA RestartStep ==
  ASSUME IInv, FetchFails \/ Restart
  PROVE  IInv'
<1> Len(topic) \in Nat BY DEF IInv, TypeOK
<1>1. faults' \in 0..MaxFaults /\ faults' >= faults
  BY CdcAssumption DEF IInv, TypeOK, FetchFails, Restart
<1>2. TypeOK'
  BY <1>1 DEF IInv, TypeOK, FetchFails, Restart, ResumeAt, cdc
<1>3. TopicBounded' /\ TopicInCommitOrder'
  BY TopicKept DEF FetchFails, Restart, cdc
<1>4. PassedIsTried' /\ ReadIsTried' /\ AtMessage'
  BY DEF IInv, TypeOK, FetchFails, Restart, ResumeAt, cdc, PassedIsTried,
     ReadIsTried, Tried, AtMessage
<1>5. MissingAreFaults'
  BY <1>1, MissingKept DEF FetchFails, Restart
<1>6. QED
  BY <1>2, <1>3, <1>4, <1>5 DEF IInv

LEMMA IInvStep == IInv /\ [Next]_vars => IInv'
<1> SUFFICES ASSUME IInv, [Next]_vars PROVE IInv'
  OBVIOUS
<1>1. CASE UNCHANGED vars
  BY <1>1 DEF vars, cdc, consumer, IInv, TypeOK, TopicBounded, Published,
     TopicInCommitOrder, PassedIsTried, ReadIsTried, Tried, AtMessage,
     MissingAreFaults, Missing
<1>2. CASE CreateEvent
  BY <1>2, CreateEventStep
<1>3. CASE Connect \/ Disconnect
  BY <1>3, ConnectionStep
<1>4. CASE Stream
  BY <1>4, HandleWALMessageStep DEF Stream
<1>5. CASE Consume
  BY <1>5, FetchStep, IndexEventStep, CommitMessageStep DEF Consume
<1>6. CASE FetchFails \/ Restart
  BY <1>6, RestartStep
<1>7. QED
  BY <1>1, <1>2, <1>3, <1>4, <1>5, <1>6 DEF Next

\* The invariant holds in every reachable state.
THEOREM Inductive == Spec => []IInv
BY InitIInv, IInvStep, PTL DEF Spec

\* Events are in the topic in the order in which Paymanager committed them,
\* repeated next to each other at most, however often the worker reconnects.
THEOREM TopicOrdered == Spec => []TopicInCommitOrder
<1>1. IInv => TopicInCommitOrder
  BY DEF IInv
<1>2. QED
  BY Inductive, <1>1, PTL

\* The analytics consumer commits no offset of an event it could read and has
\* not tried to index, through failed commits and restarts.
THEOREM NothingPassedUntried == Spec => []PassedIsTried
<1>1. IInv => PassedIsTried
  BY DEF IInv
<1>2. QED
  BY Inductive, <1>1, PTL

\* Of the events it has passed and OpenSearch would take, no more are missing
\* from the index than there were errors: stops, failed commits, redeliveries
\* and reconnects lose none.
THEOREM LossesBounded == Spec => []LossesAreFaults
<1>1. IInv => LossesAreFaults
  <2> SUFFICES ASSUME IInv PROVE LossesAreFaults
    OBVIOUS
  <2>1. Lost \subseteq Missing
    BY DEF IInv, PassedIsTried, Lost, Missing
  <2>2. Cardinality(Lost) <= Cardinality(Missing) /\ Cardinality(Lost) \in Nat
    BY <2>1, MissingFinite, FS_Subset, FS_CardinalityType
  <2>3. faults \in Nat /\ Cardinality(Missing) <= faults
    BY CdcAssumption DEF IInv, TypeOK, MissingAreFaults
  <2>4. QED
    BY <2>2, <2>3, MissingFinite DEF LossesAreFaults
<1>2. QED
  BY Inductive, <1>1, PTL
=============================================================================
