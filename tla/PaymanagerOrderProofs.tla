----------------------- MODULE PaymanagerOrderProofs -----------------------
(***************************************************************************)
(* Proofs about PaymanagerOrder for any number of requests, with any keys, *)
(* and any number of faults: the outbox explains the order, a final status *)
(* stays, and captures are recorded.                                       *)
(***************************************************************************)
EXTENDS PaymanagerOrder, FiniteSetTheorems, TLAPS

RowTypes == {"webhook_received", "hold"}

\* The last event of type t says v; without one, v is the default.
LastSays(t, default, v) ==
  \/ OfType({t}) = {} /\ v = default
  \/ \E i \in OfType({t}) :
       (\A k \in OfType({t}) : k <= i) /\ events[i].arg = v

\* EventsExplainOrder, with the last event as a witness.
Explained ==
  /\ LastSays("webhook_received", "none", order.status)
  /\ LastSays("hold", "clear", order.hold)
  /\ order.ver = Cardinality(OfType(RowTypes))

\* A transaction whose row has not changed since its snapshot may still make
\* the update it has checked.
SnapshotsHold ==
  \A j \in Jobs :
    /\ snap[j] <= order.ver
    /\ pc[j] = "commit" /\ Op[j] = "update" /\ ~Creates(j) /\ RowUnchanged(j) =>
         CanBeUpdatedTo(order.status, Arg[j])

\* Only captures call the provider.
ProviderForCaptures ==
  \A j \in Jobs : pc[j] = "provider" => Op[j] = "capture"

\* The two events of a capture are committed together.
EventsPaired ==
  \A k \in CaptureKeys :
    /\ ResultKey(k) \in KeysOf(events) => SentKey(k) \in KeysOf(events)
    /\ CaptureKey(k) /\ SentKey(k) \in KeysOf(events) =>
         ResultKey(k) \in KeysOf(events)

\* A capture at the provider is in the outbox or about to be.
CapturedOrComing ==
  faults = 0 =>
    \A k \in provider :
      CaptureKey(k) =>
        \/ SentKey(k) \in KeysOf(events) /\ ResultKey(k) \in KeysOf(events)
        \/ \E j \in Jobs : Key[j] = k /\ pc[j] = "commit"

\* The second log has nothing the outbox lacks, and lacks without faults only
\* what is about to be written.
LogsAgree ==
  /\ legacy \subseteq KeysOf(events)
  /\ \A j \in Jobs : pc[j] = "legacy" => NewKeys(j) \subseteq KeysOf(events)
  /\ faults = 0 =>
       \A x \in KeysOf(events) :
         x \in legacy \/ \E j \in Jobs : pc[j] = "legacy" /\ x \in NewKeys(j)

\* The inductive invariant.
IInv ==
  /\ TypeOK
  /\ Explained
  /\ SnapshotsHold
  /\ ProviderForCaptures
  /\ EventsPaired
  /\ CapturedOrComing
  /\ LogsAgree

\* What is said only of the tables.
LEMMA SameTables ==
  ASSUME Explained, EventsPaired, UNCHANGED <<order, events>>
  PROVE  Explained' /\ EventsPaired'
BY DEF Explained, EventsPaired, LastSays, OfType, KeysOf

LEMMA CountBounded ==
  ASSUME TypeOK, NEW o \in Outcomes, Count(o)
  PROVE  /\ faults' \in 0..MaxFaults
         /\ o \in {"ok", "error", "lost_ack"}
         /\ faults' = 0 => o = "ok" /\ faults = 0
BY OrderAssumption DEF TypeOK, Outcomes, Count

LEMMA InitIInv == Init => IInv
<1> SUFFICES ASSUME Init PROVE IInv
  OBVIOUS
<1>1. TypeOK
  BY OrderAssumption DEF Init, TypeOK, NoOrder, HoldActions
<1>2. KeysOf(events) = {} /\ \A ts : OfType(ts) = {}
  BY DEF Init, KeysOf, OfType
<1>3. Explained
  BY <1>2, FS_EmptySet DEF Init, Explained, LastSays, NoOrder
<1> QED
  BY <1>1, <1>2, <1>3 DEF Init, IInv, SnapshotsHold, ProviderForCaptures,
     EventsPaired, CapturedOrComing, LogsAgree, NoOrder

LEMMA BeginStep ==
  ASSUME IInv, NEW j \in Jobs, Begin(j)
  PROVE  IInv'
<1>1. /\ pc[j] = "start" /\ UNCHANGED <<order, events, legacy, provider, faults>>
      /\ snap' = [snap EXCEPT ![j] = order.ver]
  BY DEF Begin
<1>2. PICK next \in {"done", "provider", "commit"} :
        /\ pc' = [pc EXCEPT ![j] = next]
        /\ next = "provider" => Op[j] = "capture"
        /\ next = "commit" => Allowed(j) /\ Op[j] # "capture"
  BY DEF Begin, GoTo
<1>3. TypeOK'
  BY <1>1, <1>2 DEF IInv, TypeOK
<1>4. pc'[j] = next /\ snap'[j] = order.ver
      /\ \A i \in Jobs : i # j => pc'[i] = pc[i] /\ snap'[i] = snap[i]
  BY <1>1, <1>2 DEF IInv, TypeOK
<1>5. order.ver \in Nat
  BY DEF IInv, TypeOK
<1>6. SnapshotsHold'
  <2>1. next = "commit" /\ Op[j] = "update" /\ ~Creates(j) =>
          CanBeUpdatedTo(order.status, Arg[j])
    BY <1>2 DEF Allowed
  <2> QED
    BY <1>1, <1>4, <1>5, <2>1
       DEF IInv, SnapshotsHold, Creates, RowUnchanged, CanBeUpdatedTo
<1>7. ProviderForCaptures' /\ CapturedOrComing' /\ LogsAgree'
  BY <1>1, <1>2, <1>4 DEF IInv, ProviderForCaptures, CapturedOrComing, LogsAgree,
     KeysOf, NewKeys, CaptureKey
<1> QED
  BY <1>1, <1>3, <1>6, <1>7, SameTables DEF IInv

LEMMA CallProviderStep ==
  ASSUME IInv, NEW j \in Jobs, NEW o \in Outcomes, CallProvider(j, o)
  PROVE  IInv'
<1>1. /\ pc[j] = "provider" /\ Op[j] = "capture"
      /\ UNCHANGED <<order, events, legacy, snap>>
      /\ provider' = IF o = "error" \/ AlreadyCaptured THEN provider
                     ELSE provider \cup {Key[j]}
      /\ pc' = [pc EXCEPT ![j] = IF o = "ok" /\ ~AlreadyCaptured THEN "commit"
                                ELSE "done"]
  BY DEF CallProvider, GoTo, IInv, ProviderForCaptures
<1>2. faults' \in 0..MaxFaults /\ (faults' = 0 => o = "ok" /\ faults = 0)
  BY CountBounded DEF CallProvider, IInv
<1>3. Key[j] \in CaptureKeys
  BY <1>1 DEF CaptureKeys
<1>4. TypeOK'
  BY <1>1, <1>2, <1>3 DEF IInv, TypeOK
<1>5. pc'[j] = (IF o = "ok" /\ ~AlreadyCaptured THEN "commit" ELSE "done")
      /\ \A i \in Jobs : i # j => pc'[i] = pc[i]
  BY <1>1 DEF IInv, TypeOK
<1>6. SnapshotsHold' /\ ProviderForCaptures'
  BY <1>1, <1>5 DEF IInv, SnapshotsHold, ProviderForCaptures, Creates,
     RowUnchanged, CanBeUpdatedTo
<1>7. CapturedOrComing'
  BY <1>1, <1>2, <1>5 DEF IInv, CapturedOrComing, KeysOf, CaptureKey
<1>8. LogsAgree'
  BY <1>1, <1>2, <1>5 DEF IInv, LogsAgree, KeysOf, NewKeys
<1> QED
  BY <1>1, <1>4, <1>6, <1>7, <1>8, SameTables DEF IInv

(***************************************************************************)
(* Writing events                                                          *)
(***************************************************************************)

\* An event whose key is new is appended.
LEMMA EventAppended ==
  ASSUME NEW es \in Seq(Event), NEW e \in Event, e.key \notin KeysOf(es)
  PROVE  /\ WriteEvent(es, e) \in Seq(Event)
         /\ Len(WriteEvent(es, e)) = Len(es) + 1
         /\ \A i \in 1..Len(es) : WriteEvent(es, e)[i] = es[i]
         /\ WriteEvent(es, e)[Len(es) + 1] = e
         /\ KeysOf(WriteEvent(es, e)) = KeysOf(es) \cup {e.key}
<1>1. WriteEvent(es, e) = Append(es, e)
  BY DEF WriteEvent
<1> DEFINE fs == Append(es, e)
<1>2. /\ fs \in Seq(Event) /\ Len(fs) = Len(es) + 1
      /\ \A i \in 1..Len(es) : fs[i] = es[i]
      /\ fs[Len(es) + 1] = e
      /\ Len(es) \in Nat
  OBVIOUS
<1>3. DOMAIN es = 1..Len(es) /\ DOMAIN fs = 1..Len(es) + 1
  BY <1>2
<1> HIDE DEF fs
<1>4. KeysOf(fs) = KeysOf(es) \cup {e.key}
  <2>1. KeysOf(fs) \subseteq KeysOf(es) \cup {e.key}
    BY <1>2, <1>3 DEF KeysOf
  <2>2. KeysOf(es) \cup {e.key} \subseteq KeysOf(fs)
    BY <1>2, <1>3 DEF KeysOf
  <2> QED
    BY <2>1, <2>2
<1> QED
  BY <1>1, <1>2, <1>4 DEF fs

LEMMA EventTypes ==
  ASSUME NEW j \in Jobs
  PROVE  /\ SentEvent(j) \in Event
         /\ SentEvent(j).key = SentKey(Key[j]) /\ SentEvent(j).arg = Arg[j]
         /\ SentEvent(j).type = CASE Op[j] = "update" -> "webhook_received"
                                  [] Op[j] = "hold" -> "hold"
                                  [] Op[j] = "capture" -> "capture_requested"
         /\ Op[j] = "capture" => ResultEvent(j) \in Event
         /\ ResultEvent(j).key = ResultKey(Key[j])
         /\ ResultEvent(j).type = "capture_result"
<1>1. SentKey(Key[j]) \in EventKeys
  BY DEF EventKeys
<1>2. Op[j] = "capture" => ResultKey(Key[j]) \in EventKeys
  BY DEF EventKeys, CaptureKeys
<1>3. Op[j] \in {"update", "hold", "capture"}
  BY OrderAssumption
<1> QED
  BY <1>1, <1>2, <1>3 DEF SentEvent, ResultEvent, Event

\* What a transaction that fits adds to the outbox.
LEMMA EventsWritten ==
  ASSUME TypeOK, NEW j \in Jobs, EventsFit(j)
  PROVE  /\ EventsAfter(j) \in Seq(Event)
         /\ KeysOf(EventsAfter(j)) = KeysOf(events) \cup NewKeys(j)
         /\ Len(EventsAfter(j)) = Len(events) + IF Op[j] = "capture" THEN 2 ELSE 1
         /\ \A i \in 1..Len(events) : EventsAfter(j)[i] = events[i]
         /\ EventsAfter(j)[Len(events) + 1] = SentEvent(j)
         /\ Op[j] = "capture" => EventsAfter(j)[Len(events) + 2] = ResultEvent(j)
<1> DEFINE es == WriteEvent(events, SentEvent(j))
<1>1. events \in Seq(Event) /\ Len(events) \in Nat
  BY DEF TypeOK
<1>2. /\ es \in Seq(Event) /\ Len(es) = Len(events) + 1
      /\ \A i \in 1..Len(events) : es[i] = events[i]
      /\ es[Len(events) + 1] = SentEvent(j)
      /\ KeysOf(es) = KeysOf(events) \cup {SentKey(Key[j])}
  <2>1. SentEvent(j).key \notin KeysOf(events)
    BY EventTypes DEF EventsFit, NewKeys
  <2> QED
    BY <1>1, <2>1, EventTypes, EventAppended
<1> HIDE DEF es
<1>3. CASE Op[j] # "capture"
  BY <1>2, <1>3 DEF EventsAfter, NewKeys, es
<1>4. CASE Op[j] = "capture"
  <2>1. ResultEvent(j).key \notin KeysOf(es) /\ ResultEvent(j) \in Event
    BY <1>2, <1>4, EventTypes DEF EventsFit, NewKeys
  <2> DEFINE fs == WriteEvent(es, ResultEvent(j))
  <2>2. /\ fs \in Seq(Event) /\ Len(fs) = Len(es) + 1
        /\ \A i \in 1..Len(es) : fs[i] = es[i]
        /\ fs[Len(es) + 1] = ResultEvent(j)
        /\ KeysOf(fs) = KeysOf(es) \cup {ResultKey(Key[j])}
    BY <1>2, <2>1, EventTypes, EventAppended
  <2>3. EventsAfter(j) = fs
    BY <1>4 DEF EventsAfter, es
  <2> HIDE DEF fs
  <2>4. KeysOf(fs) = KeysOf(events) \cup NewKeys(j)
    BY <1>2, <1>4, <2>2 DEF NewKeys
  <2>5. Len(fs) = Len(events) + 2
    BY <1>1, <1>2, <2>2
  <2>6. \A i \in 1..Len(events) : fs[i] = events[i]
    BY <1>1, <1>2, <2>2
  <2>7. fs[Len(events) + 1] = SentEvent(j) /\ fs[Len(events) + 2] = ResultEvent(j)
    BY <1>1, <1>2, <2>2
  <2> QED
    BY <1>4, <2>2, <2>3, <2>4, <2>5, <2>6, <2>7
<1> QED
  BY <1>3, <1>4

\* Positions of events when the outbox grows.
LEMMA OfTypeGrows ==
  ASSUME NEW ts, events \in Seq(Event), events' \in Seq(Event),
         Len(events') >= Len(events),
         \A i \in 1..Len(events) : events'[i] = events[i]
  PROVE  OfType(ts)' =
           OfType(ts) \cup
             {i \in Len(events) + 1..Len(events') : events'[i].type \in ts}
<1>1. Len(events) \in Nat /\ Len(events') \in Nat
      /\ DOMAIN events = 1..Len(events) /\ DOMAIN events' = 1..Len(events')
  OBVIOUS
<1> QED
  BY <1>1 DEF OfType

LEMMA OfTypeFinite ==
  ASSUME NEW ts, events \in Seq(Event)
  PROVE  /\ OfType(ts) \subseteq 1..Len(events)
         /\ IsFiniteSet(OfType(ts))
         /\ Len(events) \in Nat
<1>1. Len(events) \in Nat /\ DOMAIN events = 1..Len(events)
  OBVIOUS
<1>2. OfType(ts) \subseteq 1..Len(events)
  BY <1>1 DEF OfType
<1>3. IsFiniteSet(1..Len(events))
  BY <1>1, FS_Interval
<1> QED
  BY <1>1, <1>2, <1>3, FS_Subset

\* The events of a capture do not speak of the row.
LEMMA CaptureExplained ==
  ASSUME TypeOK, Explained, NEW j \in Jobs, EventsFit(j), Op[j] = "capture",
         order' = order, events' = EventsAfter(j)
  PROVE  Explained'
<1> DEFINE n == Len(events)
<1>1. n \in Nat /\ events \in Seq(Event)
  BY DEF TypeOK
<1>2. /\ events' \in Seq(Event) /\ Len(events') = n + 2
      /\ \A i \in 1..n : events'[i] = events[i]
      /\ events'[n + 1].type = "capture_requested"
      /\ events'[n + 2].type = "capture_result"
  BY EventsWritten, EventTypes
<1>3. ASSUME NEW ts \in SUBSET RowTypes
      PROVE  OfType(ts)' = OfType(ts)
  <2>1. {i \in n + 1..Len(events') : events'[i].type \in ts} = {}
    BY <1>1, <1>2 DEF RowTypes
  <2>2. OfType(ts)' =
          OfType(ts) \cup {i \in n + 1..Len(events') : events'[i].type \in ts}
    BY <1>1, <1>2, OfTypeGrows
  <2> QED
    BY <2>1, <2>2
<1>4. ASSUME NEW t \in RowTypes, NEW d, NEW v, LastSays(t, d, v)
      PROVE  LastSays(t, d, v)'
  <2>1. OfType({t})' = OfType({t}) /\ OfType({t}) \subseteq 1..n
    BY <1>1, <1>3, OfTypeFinite
  <2> QED
    BY <1>2, <1>4, <2>1 DEF LastSays
<1> QED
  BY <1>3, <1>4 DEF Explained, RowTypes

\* One more event about the row.
LEMMA RowEventExplained ==
  ASSUME TypeOK, Explained, NEW t \in RowTypes, NEW e \in Event, e.type = t,
         events' \in Seq(Event), Len(events') = Len(events) + 1,
         \A i \in 1..Len(events) : events'[i] = events[i],
         events'[Len(events) + 1] = e
  PROVE  /\ \A d : LastSays(t, d, e.arg)'
         /\ \A u \in RowTypes : u # t =>
              \A d, v : LastSays(u, d, v) => LastSays(u, d, v)'
         /\ Cardinality(OfType(RowTypes))' = Cardinality(OfType(RowTypes)) + 1
<1> DEFINE n == Len(events)
<1>1. n \in Nat /\ events \in Seq(Event)
  BY DEF TypeOK
<1>2. ASSUME NEW ts
      PROVE  OfType(ts)' = OfType(ts) \cup IF t \in ts THEN {n + 1} ELSE {}
  <2>1. OfType(ts)' =
          OfType(ts) \cup {i \in n + 1..n + 1 : events'[i].type \in ts}
    BY <1>1, OfTypeGrows
  <2>2. {i \in n + 1..n + 1 : events'[i].type \in ts} =
          IF t \in ts THEN {n + 1} ELSE {}
    BY <1>1
  <2> QED
    BY <2>1, <2>2
<1>3. ASSUME NEW ts
      PROVE  OfType(ts) \subseteq 1..n /\ IsFiniteSet(OfType(ts))
  BY <1>1, OfTypeFinite
<1>4. ASSUME NEW d PROVE LastSays(t, d, e.arg)'
  <2>1. OfType({t})' = OfType({t}) \cup {n + 1}
    BY <1>2
  <2>2. OfType({t}) \subseteq 1..n
    BY <1>3
  <2>3. \A k \in 1..n : k <= n + 1
    BY <1>1
  <2>4. PICK m : m = n + 1
    OBVIOUS
  <2>5. OfType({t})' = OfType({t}) \cup {m}
    BY <2>1, <2>4
  <2>6. m <= m /\ \A k \in OfType({t}) : k <= m
    <3>1. m <= m
      BY <1>1, <2>4
    <3>2. \A k \in 1..n : k <= m
      BY <2>3, <2>4
    <3> HIDE DEF n
    <3>3. \A k \in OfType({t}) : k \in 1..n
      BY <2>2, Zenon
    <3> QED
      BY <3>1, <3>2, <3>3, Zenon
  <2>7. m \in OfType({t})' /\ \A k \in OfType({t})' : k <= m
    BY <2>5, <2>6
  <2>8. events'[m].arg = e.arg
    BY <2>4
  <2> QED
    BY <2>7, <2>8 DEF LastSays
<1>5. ASSUME NEW u \in RowTypes, u # t, NEW d, NEW v, LastSays(u, d, v)
      PROVE  LastSays(u, d, v)'
  <2>1. OfType({u})' = OfType({u}) /\ OfType({u}) \subseteq 1..n
    BY <1>2, <1>3, <1>5
  <2> QED
    BY <1>5, <2>1 DEF LastSays
<1>6. Cardinality(OfType(RowTypes))' = Cardinality(OfType(RowTypes)) + 1
  <2>1. OfType(RowTypes)' = OfType(RowTypes) \cup {n + 1}
    BY <1>2
  <2>2. n + 1 \notin OfType(RowTypes)
    BY <1>1, <1>3
  <2>3. Cardinality(OfType(RowTypes) \cup {n + 1}) = Cardinality(OfType(RowTypes)) + 1
    BY <1>3, <2>2, FS_AddElement
  <2> QED
    BY <2>1, <2>3
<1> QED
  BY <1>4, <1>5, <1>6

\* What UpdateOrder, CreateOrder and UpdateOrderHold write.
LEMMA RowWritten ==
  ASSUME TypeOK, NEW j \in Jobs
  PROVE  /\ Written(j) \in [status : Status \cup {"none"}, hold : HoldActions, ver : Nat]
         /\ Op[j] = "update" => /\ Written(j).status = Arg[j]
                                /\ Written(j).hold = order.hold
                                /\ Written(j).ver = order.ver + 1
         /\ Op[j] = "hold" => /\ Written(j).status = order.status
                              /\ Written(j).hold = Arg[j]
                              /\ Written(j).ver = order.ver + 1
         /\ Op[j] = "capture" => Written(j) = order
<1>1. Op[j] \in {"update", "hold", "capture"}
      /\ (Op[j] = "update" => Arg[j] \in Status)
      /\ (Op[j] = "hold" => Arg[j] \in HoldActions)
  BY OrderAssumption
<1>2. order \in [status : Status \cup {"none"}, hold : HoldActions, ver : Nat]
  BY DEF TypeOK
<1>3. CASE Op[j] = "update"
  <2>1. Written(j) = [status |-> Arg[j], hold |-> order.hold, ver |-> order.ver + 1]
    BY <1>2, <1>3 DEF Written
  <2>2. Written(j) \in [status : Status \cup {"none"}, hold : HoldActions, ver : Nat]
    BY <1>1, <1>2, <1>3, <2>1
  <2> QED
    BY <1>3, <2>1, <2>2
<1>4. CASE Op[j] = "hold"
  <2>1. Written(j) = [status |-> order.status, hold |-> Arg[j], ver |-> order.ver + 1]
    BY <1>2, <1>4 DEF Written
  <2>2. Written(j) \in [status : Status \cup {"none"}, hold : HoldActions, ver : Nat]
    BY <1>1, <1>2, <1>4, <2>1
  <2> QED
    BY <1>4, <2>1, <2>2
<1>5. CASE Op[j] = "capture"
  BY <1>2, <1>5 DEF Written
<1> QED
  BY <1>1, <1>3, <1>4, <1>5

\* A committed transaction writes the row and its event, or for a capture its
\* two events, together.
LEMMA CommittedExplained ==
  ASSUME TypeOK, Explained, NEW j \in Jobs, EventsFit(j),
         order' = Written(j), events' = EventsAfter(j)
  PROVE  Explained'
<1>1. Op[j] \in {"update", "hold", "capture"} /\ order.ver \in Nat
  BY OrderAssumption DEF TypeOK
<1>2. CASE Op[j] = "capture"
  BY <1>2, RowWritten, CaptureExplained
<1>3. CASE Op[j] # "capture"
  <2>1. PICK e : e = SentEvent(j)
    OBVIOUS
  <2>2. PICK s : s = order.status
    OBVIOUS
  <2>3. PICK h : h = order.hold
    OBVIOUS
  <2>4. /\ events' \in Seq(Event) /\ Len(events') = Len(events) + 1
        /\ \A i \in 1..Len(events) : events'[i] = events[i]
        /\ events'[Len(events) + 1] = e
    BY <1>3, <2>1, EventsWritten
  <2>5. e \in Event /\ e.arg = Arg[j]
        /\ e.type = (IF Op[j] = "update" THEN "webhook_received" ELSE "hold")
    BY <1>1, <1>3, <2>1, EventTypes
  <2>6. e.type \in RowTypes
    BY <2>5 DEF RowTypes
  <2>7. /\ \A d : LastSays(e.type, d, e.arg)'
        /\ \A u \in RowTypes : u # e.type =>
             \A d, v : LastSays(u, d, v) => LastSays(u, d, v)'
        /\ Cardinality(OfType(RowTypes))' = Cardinality(OfType(RowTypes)) + 1
    BY <2>4, <2>5, <2>6, RowEventExplained
  <2>8. LastSays("webhook_received", "none", s) /\ LastSays("hold", "clear", h)
    BY <2>2, <2>3 DEF Explained
  <2>9. CASE Op[j] = "update"
    <3>1. order'.status = e.arg /\ order'.hold = h /\ order'.ver = order.ver + 1
      BY <2>3, <2>5, <2>9, RowWritten
    <3>2. LastSays("webhook_received", "none", e.arg)'
          /\ LastSays("hold", "clear", h)'
      BY <2>5, <2>7, <2>8, <2>9 DEF RowTypes
    <3> QED
      BY <2>7, <3>1, <3>2 DEF Explained, LastSays
  <2>10. CASE Op[j] = "hold"
    <3>1. order'.hold = e.arg /\ order'.status = s /\ order'.ver = order.ver + 1
      BY <2>2, <2>5, <2>10, RowWritten
    <3>2. LastSays("hold", "clear", e.arg)'
          /\ LastSays("webhook_received", "none", s)'
      BY <2>5, <2>7, <2>8, <2>10 DEF RowTypes
    <3> QED
      BY <2>7, <3>1, <3>2 DEF Explained, LastSays
  <2> QED
    BY <1>1, <1>3, <2>9, <2>10
<1> QED
  BY <1>2, <1>3

(***************************************************************************)
(* The steps that follow                                                   *)
(***************************************************************************)

\* Keys sent and keys made do not meet.
LEMMA KeysDiffer ==
  ASSUME NEW k, NEW l
  PROVE  /\ SentKey(k) # ResultKey(l)
         /\ SentKey(k) = SentKey(l) => k = l
         /\ ResultKey(k) = ResultKey(l) => k = l
BY DEF SentKey, ResultKey

LEMMA CommitStep ==
  ASSUME IInv, NEW j \in Jobs, NEW o \in Outcomes, Commit(j, o)
  PROVE  IInv'
<1> DEFINE done == o # "error" /\ RowWritable(j) /\ EventsFit(j)
<1>1. /\ pc[j] = "commit" /\ UNCHANGED <<legacy, provider>>
      /\ order' = IF done THEN Written(j) ELSE order
      /\ events' = IF done THEN EventsAfter(j) ELSE events
      /\ pc' = [pc EXCEPT ![j] = IF done /\ o = "ok" THEN "legacy" ELSE "done"]
      /\ snap' = [snap EXCEPT ![j] = 0]
  BY DEF Commit, GoTo
<1>2. faults' \in 0..MaxFaults /\ (faults' = 0 => o = "ok" /\ faults = 0)
  BY CountBounded DEF Commit, IInv
<1>3. Op[j] \in {"update", "hold", "capture"}
  BY OrderAssumption
<1> HIDE DEF done
<1>4. TypeOK'
  <2>1. done => EventsAfter(j) \in Seq(Event)
    BY EventsWritten DEF IInv, done
  <2>2. Written(j) \in [status : Status \cup {"none"}, hold : HoldActions, ver : Nat]
    BY RowWritten DEF IInv
  <2>3. order' \in [status : Status \cup {"none"}, hold : HoldActions, ver : Nat]
    BY <1>1, <2>2 DEF IInv, TypeOK
  <2>4. events' \in Seq(Event)
    BY <1>1, <2>1 DEF IInv, TypeOK
  <2>5. pc' \in [Jobs -> {"start", "provider", "commit", "legacy", "done"}]
    BY <1>1 DEF IInv, TypeOK
  <2>6. snap' \in [Jobs -> Nat]
    BY <1>1 DEF IInv, TypeOK
  <2> QED
    BY <1>1, <1>2, <2>3, <2>4, <2>5, <2>6 DEF IInv, TypeOK
<1>5. /\ pc'[j] = (IF done /\ o = "ok" THEN "legacy" ELSE "done") /\ snap'[j] = 0
      /\ \A i \in Jobs : i # j => pc'[i] = pc[i] /\ snap'[i] = snap[i]
  BY <1>1 DEF IInv, TypeOK
<1>6. KeysOf(events)' = KeysOf(events) \cup IF done THEN NewKeys(j) ELSE {}
  <2>1. CASE done
    BY <1>1, <2>1, EventsWritten DEF IInv, done
  <2>2. CASE ~done
    BY <1>1, <2>2
  <2> QED
    BY <2>1, <2>2
<1>7. Explained' 
  <2>1. CASE done
    BY <1>1, <2>1, CommittedExplained DEF IInv, done
  <2>2. CASE ~done
    BY <1>1, <2>2, SameTables DEF IInv
  <2> QED
    BY <2>1, <2>2
<1>8. SnapshotsHold'
  <2>1. order.ver \in Nat /\ \A i \in Jobs : snap[i] \in Nat /\ snap[i] <= order.ver
    BY DEF IInv, TypeOK, SnapshotsHold
  <2>2. order' = order \/ order'.ver = order.ver + 1
    BY <1>1, <1>3, RowWritten DEF IInv
  <2>3. ASSUME NEW i \in Jobs PROVE snap'[i] <= order'.ver
    BY <1>5, <2>1, <2>2
  <2>4. ASSUME NEW i \in Jobs, pc'[i] = "commit", Op[i] = "update", ~Creates(i),
               order'.ver = snap'[i]
        PROVE  CanBeUpdatedTo(order'.status, Arg[i])
    <3>1. i # j
      BY <1>5, <2>4
    <3>2. order' = order
      BY <1>5, <2>1, <2>2, <2>4, <3>1
    <3> QED
      BY <1>5, <2>4, <3>1, <3>2 DEF IInv, SnapshotsHold, RowUnchanged
  <2> QED
    BY <2>3, <2>4 DEF SnapshotsHold, RowUnchanged, Creates, CanBeUpdatedTo
<1>9. ProviderForCaptures'
  BY <1>5 DEF IInv, ProviderForCaptures
<1>10. EventsPaired'
  <2>1. ASSUME NEW k \in CaptureKeys, ResultKey(k) \in KeysOf(events)'
        PROVE  SentKey(k) \in KeysOf(events)'
    BY <1>6, <2>1, KeysDiffer DEF IInv, EventsPaired, NewKeys
  <2>2. ASSUME NEW k \in CaptureKeys, CaptureKey(k), SentKey(k) \in KeysOf(events)'
        PROVE  ResultKey(k) \in KeysOf(events)'
    BY <1>6, <2>2, KeysDiffer DEF IInv, EventsPaired, NewKeys, CaptureKey
  <2> QED
    BY <2>1, <2>2 DEF EventsPaired, CaptureKey
<1>11. CapturedOrComing'
  <2> SUFFICES ASSUME faults' = 0, NEW k \in provider, CaptureKey(k),
                      ~\E i \in Jobs : Key[i] = k /\ pc'[i] = "commit"
               PROVE  SentKey(k) \in KeysOf(events)' /\ ResultKey(k) \in KeysOf(events)'
    BY <1>1 DEF CapturedOrComing, CaptureKey
  <2>1. k \in CaptureKeys /\ o = "ok" /\ faults = 0
    BY <1>2 DEF IInv, TypeOK
  <2>2. CASE SentKey(k) \in KeysOf(events) /\ ResultKey(k) \in KeysOf(events)
    BY <1>6, <2>2
  <2>3. CASE Key[j] = k
    <3>1. Op[j] = "capture"
      BY <2>3 DEF CaptureKey
    <3>2. CASE done
      BY <1>6, <2>3, <3>1, <3>2 DEF NewKeys
    <3>3. CASE ~done
      <4>1. RowWritable(j)
        BY <3>1 DEF RowWritable, Creates
      <4>2. SentKey(k) \in KeysOf(events) \/ ResultKey(k) \in KeysOf(events)
        BY <2>1, <2>3, <3>1, <3>3, <4>1, KeysDiffer DEF done, EventsFit, NewKeys
      <4> QED
        BY <1>6, <2>1, <4>2 DEF IInv, EventsPaired
    <3> QED
      BY <3>2, <3>3
  <2> QED
    BY <1>5, <2>1, <2>2, <2>3 DEF IInv, CapturedOrComing
<1>12. LogsAgree'
  <2>1. legacy' \subseteq KeysOf(events)'
    BY <1>1, <1>6 DEF IInv, LogsAgree
  <2>2. ASSUME NEW i \in Jobs, pc'[i] = "legacy"
        PROVE  NewKeys(i) \subseteq KeysOf(events)'
    BY <1>5, <1>6, <2>2 DEF IInv, LogsAgree
  <2>3. ASSUME faults' = 0, NEW x \in KeysOf(events)'
        PROVE  x \in legacy' \/ \E i \in Jobs : pc'[i] = "legacy" /\ x \in NewKeys(i)
    <3>1. o = "ok" /\ faults = 0
      BY <1>2, <2>3
    <3>2. CASE x \in KeysOf(events)
      BY <1>1, <1>5, <3>1, <3>2 DEF IInv, LogsAgree
    <3>3. CASE x \notin KeysOf(events)
      BY <1>5, <1>6, <2>3, <3>1, <3>3
    <3> QED
      BY <3>2, <3>3
  <2> QED
    BY <2>1, <2>2, <2>3 DEF LogsAgree, NewKeys
<1> QED
  BY <1>4, <1>7, <1>8, <1>9, <1>10, <1>11, <1>12 DEF IInv

LEMMA WriteLegacyStep ==
  ASSUME IInv, NEW j \in Jobs, NEW o \in Outcomes, WriteLegacy(j, o)
  PROVE  IInv'
<1>1. /\ pc[j] = "legacy" /\ UNCHANGED <<order, events, snap, provider>>
      /\ legacy' = IF o = "error" THEN legacy ELSE legacy \cup NewKeys(j)
      /\ pc' = [pc EXCEPT ![j] = "done"]
  BY DEF WriteLegacy, GoTo
<1>2. faults' \in 0..MaxFaults /\ (faults' = 0 => o = "ok" /\ faults = 0)
  BY CountBounded DEF WriteLegacy, IInv
<1>3. KeysOf(events)' = KeysOf(events) /\ NewKeys(j) \subseteq KeysOf(events)
  BY <1>1 DEF IInv, LogsAgree
<1>4. KeysOf(events) \subseteq EventKeys
  <2>1. events \in Seq(Event)
    BY DEF IInv, TypeOK
  <2>2. \A i \in DOMAIN events : events[i] \in Event
    BY <2>1
  <2> QED
    BY <2>2 DEF KeysOf, Event
<1>5. TypeOK'
  BY <1>1, <1>2, <1>3, <1>4 DEF IInv, TypeOK
<1>6. pc'[j] = "done" /\ \A i \in Jobs : i # j => pc'[i] = pc[i]
  BY <1>1 DEF IInv, TypeOK
<1>7. SnapshotsHold' /\ ProviderForCaptures'
  BY <1>1, <1>6 DEF IInv, SnapshotsHold, ProviderForCaptures, Creates,
     RowUnchanged, CanBeUpdatedTo
<1>8. CapturedOrComing'
  BY <1>1, <1>2, <1>3, <1>6 DEF IInv, CapturedOrComing, CaptureKey
<1>9. LogsAgree'
  <2>1. legacy' \subseteq KeysOf(events)'
    BY <1>1, <1>3 DEF IInv, LogsAgree
  <2>2. ASSUME NEW i \in Jobs, pc'[i] = "legacy"
        PROVE  NewKeys(i) \subseteq KeysOf(events)'
    BY <1>3, <1>6, <2>2 DEF IInv, LogsAgree
  <2>3. ASSUME faults' = 0, NEW x \in KeysOf(events)'
        PROVE  x \in legacy' \/ \E i \in Jobs : pc'[i] = "legacy" /\ x \in NewKeys(i)
    BY <1>1, <1>2, <1>3, <1>6, <2>3 DEF IInv, LogsAgree
  <2> QED
    BY <2>1, <2>2, <2>3 DEF LogsAgree, NewKeys
<1> QED
  BY <1>1, <1>5, <1>7, <1>8, <1>9, SameTables DEF IInv

LEMMA CrashStep ==
  ASSUME IInv, NEW j \in Jobs, Crash(j)
  PROVE  IInv'
<1>1. /\ UNCHANGED <<order, events, legacy, snap, provider>>
      /\ pc' = [pc EXCEPT ![j] = "done"]
  BY DEF Crash, GoTo
<1>2. faults' \in 0..MaxFaults /\ faults' # 0
  BY OrderAssumption DEF Crash, IInv, TypeOK
<1>3. TypeOK'
  BY <1>1, <1>2 DEF IInv, TypeOK
<1>4. pc'[j] = "done" /\ \A i \in Jobs : i # j => pc'[i] = pc[i]
  BY <1>1 DEF IInv, TypeOK
<1>5. SnapshotsHold' /\ ProviderForCaptures'
  BY <1>1, <1>4 DEF IInv, SnapshotsHold, ProviderForCaptures, Creates,
     RowUnchanged, CanBeUpdatedTo
<1>6. CapturedOrComing' /\ LogsAgree'
  BY <1>1, <1>2, <1>4 DEF IInv, CapturedOrComing, LogsAgree, KeysOf, NewKeys
<1> QED
  BY <1>1, <1>3, <1>5, <1>6, SameTables DEF IInv

LEMMA IInvStep == IInv /\ [Next]_vars => IInv'
<1> SUFFICES ASSUME IInv, [Next]_vars PROVE IInv'
  OBVIOUS
<1>1. CASE Next
  BY <1>1, BeginStep, CallProviderStep, CommitStep, WriteLegacyStep, CrashStep
     DEF Next
<1>2. CASE UNCHANGED vars
  <2>1. UNCHANGED <<order, events, legacy, pc, snap, provider, faults>>
    BY <1>2 DEF vars
  <2>2. TypeOK'
    BY <2>1 DEF IInv, TypeOK
  <2>3. SnapshotsHold' /\ ProviderForCaptures'
    BY <2>1 DEF IInv, SnapshotsHold, ProviderForCaptures, Creates, RowUnchanged,
       CanBeUpdatedTo
  <2>4. CapturedOrComing' /\ LogsAgree'
    BY <2>1 DEF IInv, CapturedOrComing, LogsAgree, KeysOf, NewKeys, CaptureKey
  <2> QED
    BY <2>1, <2>2, <2>3, <2>4, SameTables DEF IInv
<1> QED
  BY <1>1, <1>2

(***************************************************************************)
(* Theorems                                                                *)
(***************************************************************************)

\* The invariant holds always.
THEOREM Inductive == Spec => []IInv
BY InitIInv, IInvStep, PTL DEF Spec

\* Every variable keeps its type: a capture writes no status, events have
\* known types and keys.
THEOREM TypeCorrect == Spec => []TypeOK
<1>1. IInv => TypeOK
  BY DEF IInv
<1> QED
  BY <1>1, Inductive, PTL

\* What the last event says is what replaying gives.
LEMMA LastIsReplayed ==
  ASSUME events \in Seq(Event), NEW t, NEW d, NEW v, LastSays(t, d, v)
  PROVE  Replayed(t, d) = v
<1>1. OfType({t}) \subseteq Nat
  <2>1. OfType({t}) \subseteq 1..Len(events)
    BY OfTypeFinite
  <2>2. 1..Len(events) \subseteq Nat
    OBVIOUS
  <2> QED
    BY <2>1, <2>2, Zenon
<1>2. CASE OfType({t}) = {}
  BY <1>2 DEF LastSays, Replayed
<1>3. CASE OfType({t}) # {}
  <2>1. PICK i \in OfType({t}) :
          (\A k \in OfType({t}) : k <= i) /\ events[i].arg = v
    BY <1>3 DEF LastSays
  <2> DEFINE m == CHOOSE l \in OfType({t}) : \A k \in OfType({t}) : k <= l
  <2>2. m \in OfType({t}) /\ \A k \in OfType({t}) : k <= m
    BY <2>1
  <2>3. m = i
    <3> HIDE DEF m
    <3>1. m <= i /\ i <= m /\ m \in Nat /\ i \in Nat
      BY <1>1, <2>1, <2>2
    <3> QED
      BY <3>1
  <2>4. Replayed(t, d) = events[m].arg
    BY <1>3 DEF Replayed
  <2> HIDE DEF m
  <2> QED
    BY <2>1, <2>3, <2>4
<1> QED
  BY <1>2, <1>3

\* The outbox is the history of the order: replaying what writeEvent stored
\* gives the row that UpdateOrder, CreateOrder and UpdateOrderHold left.
THEOREM EventsExplain == Spec => []EventsExplainOrder
<1>1. IInv => EventsExplainOrder
  <2> SUFFICES ASSUME IInv PROVE EventsExplainOrder
    OBVIOUS
  <2>1. events \in Seq(Event)
    BY DEF IInv, TypeOK
  <2>2. /\ LastSays("webhook_received", "none", order.status)
        /\ LastSays("hold", "clear", order.hold)
        /\ order.ver = Cardinality(OfType({"webhook_received", "hold"}))
    BY DEF IInv, Explained, RowTypes
  <2> QED
    BY <2>1, <2>2, LastIsReplayed DEF EventsExplainOrder
<1> QED
  BY <1>1, Inductive, PTL

\* Captures the provider has acted upon are recorded in both logs.
THEOREM CaptureRecorded == Spec => []CaptureIsRecorded
<1>1. IInv => CaptureIsRecorded
  <2> SUFFICES ASSUME IInv, faults = 0 
               PROVE  /\ \A k \in provider :
                           CaptureKey(k) =>
                             \/ {SentKey(k), ResultKey(k)} \subseteq KeysOf(events)
                             \/ \E j \in Jobs : Key[j] = k /\ pc[j] = "commit"
                      /\ (\A j \in Jobs : pc[j] # "legacy") => legacy = KeysOf(events)
    BY DEF CaptureIsRecorded
  <2>1. ASSUME NEW k \in provider, CaptureKey(k)
        PROVE  \/ {SentKey(k), ResultKey(k)} \subseteq KeysOf(events)
               \/ \E j \in Jobs : Key[j] = k /\ pc[j] = "commit"
    BY <2>1 DEF IInv, CapturedOrComing
  <2>2. ASSUME \A j \in Jobs : pc[j] # "legacy"
        PROVE  legacy = KeysOf(events)
    BY <2>2 DEF IInv, LogsAgree
  <2> QED
    BY <2>1, <2>2
<1> QED
  BY <1>1, Inductive, PTL

\* An update that was validated against an order that is final by now does not
\* overwrite it.
THEOREM FinalStays == Spec => FinalStaysFinal
<1> DEFINE Kept == order.status \in Final => order'.status = order.status
<1>1. IInv /\ [Next]_vars => [Kept]_vars
  <2> SUFFICES ASSUME IInv, Next, order.status \in Final
               PROVE  order'.status = order.status
    BY DEF Kept
  <2>1. PICK j \in Jobs :
          \/ Begin(j) \/ Crash(j)
          \/ \E o \in Outcomes : CallProvider(j, o) \/ Commit(j, o) \/ WriteLegacy(j, o)
    BY DEF Next
  <2>2. CASE order' = order
    BY <2>2
  <2>3. CASE order' # order
    <3>1. pc[j] = "commit" /\ order' = Written(j) /\ RowWritable(j)
      BY <2>1, <2>3 DEF Begin, Crash, CallProvider, WriteLegacy, Commit
    <3>2. CASE Op[j] = "update"
      <4>1. ~Creates(j) /\ RowUnchanged(j)
        BY <3>1, <3>2 DEF RowWritable, Creates, Final
      <4>2. order.status \in {"created", "updated"}
        BY <3>1, <3>2, <4>1 DEF IInv, SnapshotsHold, CanBeUpdatedTo
      <4> QED
        BY <4>2 DEF Final
    <3>3. CASE Op[j] \in {"hold", "capture"}
      BY <3>1, <3>3, RowWritten DEF IInv
    <3> QED
      BY <3>2, <3>3, OrderAssumption
  <2> QED
    BY <2>2, <2>3
<1> QED
  BY <1>1, Inductive, PTL DEF Spec, FinalStaysFinal
=============================================================================
