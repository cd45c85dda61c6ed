------------------------- MODULE IngestInboxProofs -------------------------
(***************************************************************************)
(* Proofs about IngestInbox for any number of webhooks, workers, retries   *)
(* and faults: a claimed row belongs to one worker, and the inbox          *)
(* implements WebhookDelivery.                                             *)
(***************************************************************************)
EXTENDS IngestInbox, FiniteSetTheorems, TLAPS

\* A worker holds rows in processing only, and no two hold the same one.
ClaimsAreExclusive ==
  /\ \A w \in Workers : \A h \in batch[w] : row[h].status = "processing"
  /\ \A v, w \in Workers : v # w => batch[v] \cap batch[w] = {}

\* Without faults every row in processing is in some worker's hands.
ClaimsAreHeld ==
  faults = 0 =>
    \A h \in Hooks :
      row[h].status = "processing" => \E w \in Workers : h \in batch[w]

\* A worker is at a message of its batch, and has a result only for that one.
WorksOnClaim ==
  \A w \in Workers :
    /\ cur[w] \in batch[w] \cup {NoHook}
    /\ res[w] # "none" => cur[w] \in batch[w]

\* A delivery that succeeded took effect.
OkIsApplied ==
  \A w \in Workers : res[w] = "ok" => cur[w] \in applied

\* Nothing takes effect before the order exists.
EffectsNeedOrder == order = "none" => applied = {}

\* A row that is not closed has failures left.
OpenHasRetries ==
  \A h \in Hooks :
    row[h].status \in {"none", "pending", "processing"} =>
      row[h].retries <= MaxRetries

\* Only the answer to an order update is permanent.
PermanentIsOrder ==
  \A w \in Workers :
    res[w] = "permanent" => Kind[cur[w]] \notin {"dispute", "payment"}

\* No request is about a payment webhook, and only a chargeback can find no
\* dispute although there is one by now.
LateKinds ==
  \A q \in late :
    Kind[q.hook] # "payment" /\ (q.fresh => Kind[q.hook] = "dispute")

\* The inductive invariant.
IInv ==
  /\ TypeOK
  /\ ClaimsAreExclusive
  /\ ClaimsAreHeld
  /\ WorksOnClaim
  /\ OkIsApplied
  /\ EffectsNeedOrder
  /\ OpenHasRetries
  /\ PermanentIsOrder
  /\ LateKinds
  /\ GivesUpOnlyAfterRetries

\* The promise's view of the rows.
Box == [h \in Hooks |-> BoxOf(row[h])]

\* The promise's view of the requests that may yet be carried out.
Asked == {q.hook : q \in late}

\* A step of the promise, or none.
Delivers == Delivery!Next \/ UNCHANGED <<Box, Asked, applied, again>>

LEMMA CountBounded ==
  ASSUME TypeOK, NEW o \in Outcomes, Count(o)
  PROVE  /\ faults' \in 0..MaxFaults
         /\ o \in {"ok", "db_error", "lost_ack"}
         /\ faults' = 0 => o = "ok" /\ faults = 0
BY InboxAssumption DEF TypeOK, Outcomes, Count

LEMMA InitIInv == Init => IInv
BY InboxAssumption DEF Init, IInv, TypeOK, ClaimsAreExclusive, ClaimsAreHeld,
   WorksOnClaim, OkIsApplied, EffectsNeedOrder, OpenHasRetries, RowStatus,
   PermanentIsOrder, LateKinds, GivesUpOnlyAfterRetries

\* Rewriting one row.
LEMMA BoxWritten ==
  ASSUME TypeOK, NEW h \in Hooks, NEW r, row' = [row EXCEPT ![h] = r]
  PROVE  Box' = [Box EXCEPT ![h] = BoxOf(r)]
BY DEF TypeOK, Box

LEMMA WebhookStep ==
  ASSUME IInv, NEW h \in Hooks, NEW o \in Outcomes, Webhook(h, o)
  PROVE  IInv' /\ Delivers
<1>1. faults' \in 0..MaxFaults /\ (faults' = 0 => faults = 0)
  BY CountBounded DEF Webhook, IInv
<1>2. CASE row' = row
  <2>1. TypeOK'
    BY <1>1, <1>2 DEF IInv, TypeOK, Webhook, worker, paymanager
  <2>2. UNCHANGED <<Box, Asked, applied, again>>
    BY <1>2 DEF Box, Asked, Webhook, paymanager
  <2>3. QED
    BY <1>1, <1>2, <2>1, <2>2 DEF IInv, Webhook, worker, paymanager,
       ClaimsAreExclusive, ClaimsAreHeld, WorksOnClaim, OkIsApplied,
       EffectsNeedOrder, OpenHasRetries, PermanentIsOrder, LateKinds,
       GivesUpOnlyAfterRetries, Delivers
<1>3. CASE row' # row
  <2>1. row[h].status = "none" /\ row' = [row EXCEPT ![h].status = "pending"]
    BY <1>3 DEF Webhook, Store, Duplicate
  <2>2. \A w \in Workers : h \notin batch[w]
    BY <2>1 DEF IInv, ClaimsAreExclusive
  <2>3. TypeOK'
    BY <1>1, <2>1 DEF IInv, TypeOK, Webhook, worker, paymanager, RowStatus
  <2>4. Delivery!Take(h)
    <3>1. row' = [row EXCEPT ![h] = [row[h] EXCEPT !.status = "pending"]]
      BY <2>1
    <3>2. Box' = [Box EXCEPT ![h] = BoxOf([row[h] EXCEPT !.status = "pending"])]
      BY <3>1, BoxWritten DEF IInv
    <3>3. BoxOf(row[h]) = "none"
      BY <2>1 DEF BoxOf
    <3>4. [row[h] EXCEPT !.status = "pending"].status = "pending"
      BY DEF IInv, TypeOK
    <3>5. BoxOf([row[h] EXCEPT !.status = "pending"]) = "open"
      BY <3>4 DEF BoxOf
    <3>6. UNCHANGED <<Asked, applied, again>>
      BY DEF Webhook, Asked, paymanager
    <3>7. QED
      BY <3>2, <3>3, <3>5, <3>6 DEF Delivery!Take, Delivery!Move, Box, Asked
  <2>5. \A g \in Hooks :
          /\ g # h => row'[g] = row[g]
          /\ row'[h].status = "pending" /\ row'[h].retries = row[h].retries
    BY <2>1 DEF IInv, TypeOK
  <2>6. ClaimsAreExclusive' /\ ClaimsAreHeld' /\ WorksOnClaim' /\ OkIsApplied'
        /\ EffectsNeedOrder' /\ OpenHasRetries'
    BY <1>1, <2>1, <2>2, <2>5 DEF IInv, TypeOK, Webhook, worker, paymanager,
       ClaimsAreExclusive, ClaimsAreHeld, WorksOnClaim, OkIsApplied,
       EffectsNeedOrder, OpenHasRetries
  <2>7. PermanentIsOrder' /\ LateKinds' /\ GivesUpOnlyAfterRetries'
    BY <2>1, <2>5 DEF IInv, Webhook, worker, paymanager, PermanentIsOrder,
       LateKinds, GivesUpOnlyAfterRetries
  <2>8. QED
    BY <2>3, <2>4, <2>6, <2>7 DEF IInv, Delivers, Delivery!Next
<1>4. QED
  BY <1>2, <1>3

LEMMA FetchPendingStep ==
  ASSUME IInv, NEW w \in Workers, NEW o \in Outcomes, FetchPending(w, o)
  PROVE  IInv' /\ Delivers
<1>1. faults' \in 0..MaxFaults /\ (faults' = 0 => faults = 0 /\ o = "ok")
      /\ o \in {"ok", "db_error", "lost_ack"}
  BY CountBounded DEF FetchPending, IInv
<1>2. Oldest \subseteq Hooks /\ \A h \in Oldest : row[h].status = "pending"
  BY DEF Oldest, Claimable
<1>3. \A h \in Hooks :
        /\ row'[h].status =
             IF o # "db_error" /\ h \in Oldest THEN "processing" ELSE row[h].status
        /\ row'[h].retries = row[h].retries
  BY DEF FetchPending, IInv, TypeOK
<1>4. TypeOK'
  <2>1. row' \in [Hooks -> [status : RowStatus, retries : 0..MaxRetries + 1]]
    BY DEF FetchPending, IInv, TypeOK, RowStatus
  <2>2. batch' \in [Workers -> SUBSET Hooks]
    BY <1>2 DEF FetchPending, IInv, TypeOK
  <2>3. QED
    BY <1>1, <2>1, <2>2 DEF FetchPending, IInv, TypeOK, paymanager
<1>5. ClaimsAreExclusive'
  <2>1. \A v \in Workers : batch[v] \cap Oldest = {}
    BY <1>2 DEF IInv, ClaimsAreExclusive
  <2>2. /\ batch[w] = {}
        /\ batch' = IF o = "ok" THEN [batch EXCEPT ![w] = Oldest] ELSE batch
    BY DEF FetchPending
  <2>3. ASSUME NEW v \in Workers, NEW h \in batch'[v]
        PROVE  row'[h].status = "processing"
    BY <1>2, <1>3, <2>2, <2>3 DEF IInv, TypeOK, ClaimsAreExclusive
  <2>4. ASSUME NEW u \in Workers, NEW v \in Workers, u # v
        PROVE  batch'[u] \cap batch'[v] = {}
    BY <2>1, <2>2, <2>4 DEF IInv, TypeOK, ClaimsAreExclusive
  <2>5. QED
    BY <2>3, <2>4 DEF ClaimsAreExclusive
<1>6. ClaimsAreHeld'
  BY <1>1, <1>3 DEF IInv, TypeOK, ClaimsAreHeld, FetchPending
<1>7. WorksOnClaim' /\ OkIsApplied' /\ EffectsNeedOrder' /\ OpenHasRetries'
  BY <1>2, <1>3 DEF IInv, TypeOK, WorksOnClaim, OkIsApplied, EffectsNeedOrder,
     OpenHasRetries, FetchPending, RowStatus, paymanager
<1>10. PermanentIsOrder' /\ LateKinds' /\ GivesUpOnlyAfterRetries'
  BY <1>2, <1>3 DEF IInv, PermanentIsOrder, LateKinds,
     GivesUpOnlyAfterRetries, FetchPending, paymanager
<1>8. UNCHANGED <<Box, Asked, applied, again>>
  <2>1. \A h \in Hooks : BoxOf(row[h])' = BoxOf(row[h])
    BY <1>2, <1>3 DEF BoxOf
  <2>2. QED
    BY <2>1 DEF Box, Asked, FetchPending, paymanager
<1>9. QED
  BY <1>4, <1>5, <1>6, <1>7, <1>8, <1>10 DEF IInv, Delivers

\* A request that Paymanager accepts is about a webhook that had not taken
\* effect: the primary key, the index of events and the status checks see to it.
LEMMA AcceptedIsNew ==
  ASSUME IInv, NEW h \in Hooks, Kind[h] # "payment", Answer(h) = "2xx"
  PROVE  h \notin applied /\ OrderAfter(h) # "none"
         /\ OrderAfter(h) \in {"none", "created", "updated", "final"}
BY InboxAssumption DEF IInv, TypeOK, EffectsNeedOrder, Answer, OrderAnswer,
   DisputeAnswer, OrderAfter, Kinds

LEMMA AnswerType ==
  ASSUME NEW h \in Hooks
  PROVE  Answer(h) \in {"2xx", "404", "422", "5xx"}
BY DEF Answer, OrderAnswer, DisputeAnswer

\* What applying a webhook leaves as it is.
LEMMA ApplyKeeps ==
  ASSUME IInv, NEW h \in Hooks, Kind[h] # "payment",
         Apply(h) \/ ApplyTwin(h) \/ UNCHANGED <<applied, order, again>>
  PROVE  /\ order' \in {"none", "created", "updated", "final"}
         /\ applied' \subseteq Hooks /\ applied \subseteq applied'
         /\ again' \subseteq Hooks
         /\ EffectsNeedOrder'
         /\ \/ UNCHANGED <<applied, again>>
            \/ /\ h \notin applied /\ applied' = applied \cup {h}
               /\ UNCHANGED again
            \/ /\ h \in applied /\ again' = again \cup {h}
               /\ ApplyTwin(h) /\ UNCHANGED applied
<1>1. CASE Apply(h)
  BY <1>1, AcceptedIsNew DEF Apply, IInv, TypeOK, EffectsNeedOrder
<1>2. CASE ApplyTwin(h)
  BY <1>2 DEF ApplyTwin, IInv, TypeOK, EffectsNeedOrder
<1>3. CASE UNCHANGED <<applied, order, again>>
  BY <1>3 DEF IInv, TypeOK, EffectsNeedOrder
<1>4. QED
  BY <1>1, <1>2, <1>3

LEMMA ProcessMessageStep ==
  ASSUME IInv, NEW w \in Workers, NEW h \in batch[w],
         NEW c \in {"ok", "down", "slow"}, ProcessMessage(w, h, c)
  PROVE  IInv' /\ Delivers
<1>1. h \in Hooks /\ row[h].status = "processing"
  BY DEF IInv, TypeOK, ClaimsAreExclusive
<1>2. cur' = [cur EXCEPT ![w] = h] /\ UNCHANGED <<row, taken, batch, faults>>
  BY DEF ProcessMessage
<1> DEFINE r == SendRequest(h, c)
           retry == r = "unavailable" /\ att[w] + 1 < MaxAttempts
           q == [hook |-> h,
                 fresh |-> Kind[h] = "dispute" /\ h \notin applied]
<1>3. r \in Results
      /\ (r = "ok" => c = "ok" /\ Answer(h) = "2xx")
      /\ (r = "permanent" => Kind[h] # "dispute")
  BY <1>1, AnswerType
     DEF SendRequest, Result, Results, Answer, DisputeAnswer
<1>4. \/ /\ Kind[h] = "payment" /\ res' = [res EXCEPT ![w] = "error"]
         /\ UNCHANGED <<att, paymanager>>
      \/ /\ Kind[h] # "payment"
         /\ res' = [res EXCEPT ![w] = IF retry THEN "none" ELSE r]
         /\ att' = [att EXCEPT ![w] = IF retry THEN @ + 1 ELSE 0]
         /\ IF c = "ok" THEN Apply(h) ELSE UNCHANGED <<applied, order, again>>
         /\ late' = IF c = "slow" THEN late \cup {q} ELSE late
  BY DEF ProcessMessage, DoWithRetry
<1>11. q \in Request /\ q.hook = h /\ (q.fresh => Kind[h] = "dispute")
  BY <1>1 DEF Request
<1> HIDE DEF r, q
<1>5. /\ att' \in [Workers -> 0..MaxAttempts - 1]
      /\ res' \in [Workers -> Results \cup {"none"}]
      /\ \A v \in Workers : v # w => res'[v] = res[v]
      /\ res'[w] = "ok" => c = "ok" /\ Answer(h) = "2xx" /\ Kind[h] # "payment"
      /\ res'[w] = "permanent" => Kind[h] \notin {"dispute", "payment"}
  <2>1. att' \in [Workers -> 0..MaxAttempts - 1]
    BY <1>4, InboxAssumption DEF IInv, TypeOK, paymanager
  <2>2. QED
    BY <1>3, <1>4, <2>1 DEF IInv, TypeOK, Results
<1>6. late' \in SUBSET Request /\ LateKinds'
  <2>1. \/ late' = late
        \/ Kind[h] # "payment" /\ late' = late \cup {q}
    BY <1>4 DEF paymanager
  <2>2. QED
    BY <1>11, <2>1 DEF IInv, TypeOK, LateKinds
<1>7. /\ order' \in {"none", "created", "updated", "final"}
      /\ applied' \subseteq Hooks /\ applied \subseteq applied'
      /\ again' \subseteq Hooks
      /\ EffectsNeedOrder'
      /\ res'[w] = "ok" => h \in applied'
  <2>1. CASE Kind[h] = "payment"
    BY <1>4, <1>5, <2>1 DEF IInv, TypeOK, EffectsNeedOrder, paymanager
  <2>2. CASE Kind[h] # "payment"
    BY <1>1, <1>4, <1>5, <2>2, ApplyKeeps DEF Apply
  <2>3. QED
    BY <2>1, <2>2
<1>8. IInv'
  <2>1. TypeOK'
    BY <1>1, <1>2, <1>5, <1>6, <1>7 DEF IInv, TypeOK
  <2>2. ClaimsAreExclusive' /\ ClaimsAreHeld' /\ OpenHasRetries'
        /\ GivesUpOnlyAfterRetries'
    BY <1>2 DEF IInv, ClaimsAreExclusive, ClaimsAreHeld, OpenHasRetries,
       GivesUpOnlyAfterRetries
  <2>3. WorksOnClaim' /\ OkIsApplied' /\ PermanentIsOrder'
    BY <1>1, <1>2, <1>5, <1>7 DEF IInv, TypeOK, WorksOnClaim, OkIsApplied,
       PermanentIsOrder
  <2>4. QED
    BY <1>6, <1>7, <2>1, <2>2, <2>3 DEF IInv
<1>9. Delivers
  <2>1. Box' = Box /\ Box[h] = "open"
    BY <1>1, <1>2 DEF Box, BoxOf
  <2>2. CASE UNCHANGED <<late, applied, again>>
    BY <2>1, <2>2 DEF Delivers, Asked
  <2>3. CASE c = "slow" /\ Kind[h] # "payment"
    <3>4. late' = late \cup {q}
      BY <1>4, <2>3
    <3>1. Asked' = Asked \cup {h}
      BY <1>11, <3>4 DEF Asked
    <3>2. Delivery!Ask(h)
      BY <1>4, <2>1, <2>3, <3>1 DEF Delivery!Ask, Box, Asked
    <3>3. QED
      BY <1>1, <3>2 DEF Delivers, Delivery!Next
  <2>4. CASE c = "ok" /\ Kind[h] # "payment" /\ Answer(h) = "2xx"
    <3>1. h \notin applied /\ applied' = applied \cup {h}
          /\ UNCHANGED <<again, late>>
      BY <1>1, <1>4, <2>4, AcceptedIsNew DEF Apply
    <3>2. Asked' = Asked
      BY <3>1 DEF Asked
    <3>3. Delivery!TakeEffect(h)
      BY <2>1, <3>1, <3>2
         DEF Delivery!TakeEffect, Delivery!Answered, Box, Asked
    <3>4. QED
      BY <1>1, <3>3 DEF Delivers, Delivery!Next
  <2>5. QED
    BY <1>4, <2>2, <2>3, <2>4 DEF Apply, paymanager
<1>10. QED
  BY <1>8, <1>9

LEMMA LateRequestStep ==
  ASSUME IInv, NEW q \in late, LateRequest(q)
  PROVE  IInv' /\ Delivers
<1> DEFINE h == q.hook
<1>1. /\ h \in Hooks /\ h \in Asked /\ Kind[h] # "payment"
      /\ q.fresh => Kind[h] = "dispute"
  BY DEF IInv, TypeOK, Request, LateKinds, Asked
<1>2. /\ late' = late \ {q}
      /\ \/ Apply(h)
         \/ q.fresh /\ ApplyTwin(h)
         \/ UNCHANGED <<applied, order, again>>
      /\ UNCHANGED <<row, taken, batch, cur, att, res, faults>>
  BY DEF LateRequest, worker
<1>3. Box' = Box
  BY <1>2 DEF Box
<1>4. Asked' \in {Asked, Asked \ {h}}
  BY <1>2 DEF Asked
<1>5. Answer(h) = "2xx" \/ UNCHANGED <<applied, order>>
  BY <1>2 DEF Apply, ApplyTwin
<1> HIDE DEF h
<1>6. /\ order' \in {"none", "created", "updated", "final"}
      /\ applied' \subseteq Hooks /\ applied \subseteq applied'
      /\ again' \subseteq Hooks
      /\ EffectsNeedOrder'
      /\ \/ UNCHANGED <<applied, again>>
         \/ /\ h \notin applied /\ applied' = applied \cup {h}
            /\ UNCHANGED again
         \/ /\ h \in applied /\ again' = again \cup {h}
            /\ Kind[h] = "dispute" /\ UNCHANGED applied
  <2>1. CASE Apply(h) \/ UNCHANGED <<applied, order, again>>
    BY <1>1, <2>1, ApplyKeeps DEF Apply
  <2>2. CASE q.fresh /\ ApplyTwin(h)
    BY <1>1, <2>2, ApplyKeeps DEF ApplyTwin
  <2>3. QED
    BY <1>2, <2>1, <2>2
<1>7. TypeOK'
  BY <1>2, <1>6 DEF IInv, TypeOK
<1>8. ClaimsAreExclusive' /\ ClaimsAreHeld' /\ WorksOnClaim' /\ OkIsApplied'
      /\ OpenHasRetries' /\ PermanentIsOrder' /\ LateKinds'
      /\ GivesUpOnlyAfterRetries'
  BY <1>2, <1>6 DEF IInv, ClaimsAreExclusive, ClaimsAreHeld, WorksOnClaim,
     OkIsApplied, OpenHasRetries, PermanentIsOrder, LateKinds,
     GivesUpOnlyAfterRetries
<1>9. CASE UNCHANGED <<applied, again>>
  <2>1. Delivery!Lose(h)
    BY <1>3, <1>4, <1>9 DEF Delivery!Lose, Delivery!Answered, Box, Asked
  <2>2. QED
    BY <1>1, <1>6, <1>7, <1>8, <2>1 DEF IInv, Delivers, Delivery!Next
<1>10. CASE h \notin applied /\ applied' = applied \cup {h} /\ UNCHANGED again
  <2>1. Delivery!TakeEffect(h)
    BY <1>1, <1>3, <1>4, <1>10
       DEF Delivery!TakeEffect, Delivery!Answered, Box, Asked
  <2>2. QED
    BY <1>1, <1>6, <1>7, <1>8, <2>1 DEF IInv, Delivers, Delivery!Next
<1>11. CASE /\ h \in applied /\ again' = again \cup {h}
           /\ Kind[h] = "dispute" /\ UNCHANGED applied
  <2>1. Delivery!TakeEffectAgain(h)
    BY <1>1, <1>3, <1>4, <1>11
       DEF Delivery!TakeEffectAgain, Delivery!Answered, Box, Asked
  <2>2. QED
    BY <1>1, <1>6, <1>7, <1>8, <2>1 DEF IInv, Delivers, Delivery!Next
<1>12. QED
  BY <1>6, <1>9, <1>10, <1>11

\* What MarkProcessed and MarkFailed make of a claimed row.
LEMMA Marked ==
  ASSUME NEW r \in [status : RowStatus, retries : 0..MaxRetries + 1],
         r.status = "processing", r.retries <= MaxRetries,
         NEW result \in Results
  PROVE  /\ Mark(r, result) \in [status : RowStatus, retries : 0..MaxRetries + 1]
         /\ Mark(r, result).status \in {"pending", "processed", "failed"}
         /\ Mark(r, result).status = "pending" =>
              Mark(r, result).retries <= MaxRetries
         /\ Mark(r, result).status = "processed" <=> result = "ok"
         /\ Mark(r, result).status = "failed" /\ result # "permanent" =>
              Mark(r, result).retries >= MaxRetries
BY InboxAssumption DEF Mark, MarkFailed, RowStatus, Results

LEMMA FinishStep ==
  ASSUME IInv, NEW w \in Workers, NEW o \in Outcomes, Finish(w, o)
  PROVE  IInv' /\ Delivers
<1> DEFINE h == cur[w]
           m == Mark(row[h], res[w])
<1>1. faults' \in 0..MaxFaults /\ (faults' = 0 => faults = 0 /\ o = "ok")
      /\ o \in {"ok", "db_error", "lost_ack"}
  BY CountBounded DEF Finish, IInv
<1>2. /\ h \in batch[w] /\ h \in Hooks /\ row[h].status = "processing"
      /\ row[h].retries <= MaxRetries
      /\ row[h] \in [status : RowStatus, retries : 0..MaxRetries + 1]
      /\ res[w] \in Results
  BY DEF Finish, IInv, TypeOK, ClaimsAreExclusive, WorksOnClaim, OpenHasRetries
<1>3. /\ m \in [status : RowStatus, retries : 0..MaxRetries + 1]
      /\ m.status \in {"pending", "processed", "failed"}
      /\ m.status = "pending" => m.retries <= MaxRetries
      /\ m.status = "processed" <=> res[w] = "ok"
      /\ m.status = "failed" /\ res[w] # "permanent" => m.retries >= MaxRetries
  BY <1>2, Marked
<1>4. /\ row' = IF o = "db_error" THEN row ELSE [row EXCEPT ![h] = m]
      /\ batch' = [batch EXCEPT ![w] = @ \ {h}]
      /\ cur' = [cur EXCEPT ![w] = NoHook]
      /\ res' = [res EXCEPT ![w] = "none"]
      /\ UNCHANGED <<taken, att, paymanager>>
  BY DEF Finish
<1> HIDE DEF h, m
<1>5. h = cur[w] BY DEF h
<1>6. TypeOK'
  BY <1>1, <1>2, <1>3, <1>4 DEF IInv, TypeOK, paymanager
<1>7. \A v \in Workers : v # w => h \notin batch[v]
  BY <1>2 DEF IInv, ClaimsAreExclusive
<1>8. ClaimsAreExclusive' /\ ClaimsAreHeld'
  BY <1>1, <1>2, <1>3, <1>4, <1>7
     DEF IInv, TypeOK, ClaimsAreExclusive, ClaimsAreHeld
<1>9. WorksOnClaim' /\ OkIsApplied' /\ EffectsNeedOrder' /\ OpenHasRetries'
  BY <1>2, <1>3, <1>4, <1>7 DEF IInv, TypeOK, WorksOnClaim, OkIsApplied,
     EffectsNeedOrder, OpenHasRetries, paymanager
<1>12. PermanentIsOrder' /\ LateKinds' /\ GivesUpOnlyAfterRetries'
  BY <1>2, <1>3, <1>4, <1>5 DEF IInv, TypeOK, PermanentIsOrder, LateKinds,
     GivesUpOnlyAfterRetries, paymanager
<1>10. Delivers
  <2>1. CASE o = "db_error"
    BY <1>4, <2>1 DEF Delivers, Box, Asked, paymanager
  <2>2. CASE o # "db_error"
    <3> UNCHANGED <<Asked, applied, again>>
      BY <1>4 DEF Asked, paymanager
    <3>1. Box' = [Box EXCEPT ![h] = BoxOf(m)] /\ Box[h] = "open"
      BY <1>2, <1>4, <2>2, BoxWritten DEF IInv, Box, BoxOf
    <3>2. CASE m.status = "processed"
      <4>1. h \in applied
        BY <1>3, <1>5, <3>2 DEF IInv, OkIsApplied
      <4>2. BoxOf(m) = "done"
        BY <3>2 DEF BoxOf
      <4>3. Delivery!Finish(h)
        BY <1>2, <1>4, <3>1, <4>1, <4>2
           DEF Delivery!Finish, Delivery!Move, Box, Asked
      <4>4. QED
        BY <1>2, <4>3 DEF Delivers, Delivery!Next
    <3>3. CASE m.status = "failed"
      <4>1. BoxOf(m) = "given_up"
        BY <3>3 DEF BoxOf
      <4>2. Delivery!GiveUp(h)
        BY <1>2, <1>4, <3>1, <4>1
           DEF Delivery!GiveUp, Delivery!Move, Box, Asked
      <4>3. QED
        BY <1>2, <4>2 DEF Delivers, Delivery!Next
    <3>4. CASE m.status = "pending"
      <4>1. BoxOf(m) = "open"
        BY <3>4 DEF BoxOf
      <4>2. Box' = Box
        BY <1>2, <3>1, <4>1 DEF Box
      <4>3. QED
        BY <1>4, <4>2 DEF Delivers
    <3>5. QED
      BY <1>3, <3>2, <3>3, <3>4
  <2>3. QED
    BY <2>1, <2>2
<1>11. QED
  BY <1>6, <1>8, <1>9, <1>10, <1>12 DEF IInv

LEMMA RestartStep ==
  ASSUME IInv, NEW w \in Workers, Restart(w)
  PROVE  IInv' /\ Delivers
<1>1. TypeOK'
  BY InboxAssumption DEF IInv, TypeOK, Restart, paymanager
<1>2. ClaimsAreExclusive' /\ ClaimsAreHeld' /\ WorksOnClaim' /\ OkIsApplied'
      /\ EffectsNeedOrder' /\ OpenHasRetries' /\ PermanentIsOrder'
      /\ LateKinds' /\ GivesUpOnlyAfterRetries'
  BY DEF IInv, TypeOK, Restart, ClaimsAreExclusive, ClaimsAreHeld,
     WorksOnClaim, OkIsApplied, EffectsNeedOrder, OpenHasRetries,
     PermanentIsOrder, LateKinds, GivesUpOnlyAfterRetries, paymanager
<1>3. UNCHANGED <<Box, Asked, applied, again>>
  BY DEF Restart, Box, Asked, paymanager
<1>4. QED
  BY <1>1, <1>2, <1>3 DEF IInv, Delivers

\* Every step keeps the invariant and is a step of the promise or none.
LEMMA IInvStep ==
  ASSUME IInv, [Next]_vars
  PROVE  IInv' /\ Delivers
<1>1. CASE UNCHANGED vars
  BY <1>1 DEF vars, worker, paymanager, IInv, TypeOK, ClaimsAreExclusive,
     ClaimsAreHeld, WorksOnClaim, OkIsApplied, EffectsNeedOrder,
     OpenHasRetries, PermanentIsOrder, LateKinds, GivesUpOnlyAfterRetries,
     Delivers, Box, Asked
<1>2. ASSUME NEW h \in Hooks, NEW o \in Outcomes, Webhook(h, o)
      PROVE  IInv' /\ Delivers
  BY <1>2, WebhookStep
<1>3. ASSUME NEW w \in Workers, Work(w)
      PROVE  IInv' /\ Delivers
  BY <1>3, FetchPendingStep, ProcessMessageStep, FinishStep DEF Work
<1>4. ASSUME NEW w \in Workers, Restart(w)
      PROVE  IInv' /\ Delivers
  BY <1>4, RestartStep
<1>5. ASSUME NEW q \in late, LateRequest(q)
      PROVE  IInv' /\ Delivers
  BY <1>5, LateRequestStep
<1>6. QED
  BY <1>1, <1>2, <1>3, <1>4, <1>5 DEF Next

\* The invariant holds in every reachable state: workers hold disjoint sets of
\* rows in processing, and a delivery that succeeded took effect.
THEOREM Inductive == Spec => []IInv
<1>1. IInv /\ [Next]_vars => IInv'
  BY IInvStep
<1>2. QED
  BY InitIInv, <1>1, PTL DEF Spec

\* Every reachable state is well-typed: retry_count stays within the limit of
\* MarkFailed and a delivery within the attempts of DoWithRetry.
THEOREM TypeCorrect == Spec => []TypeOK
<1>1. IInv => TypeOK
  BY DEF IInv
<1>2. QED
  BY Inductive, <1>1, PTL

\* FetchPending gives a row to one worker at a time, whatever stops or fails,
\* and without faults a row is in processing exactly while a worker has it.
THEOREM OneClaim == Spec => []ClaimedByOneWorker
<1>1. ASSUME IInv
      PROVE  ClaimedByOneWorker
  <2>1. SUFFICES ASSUME NEW h \in Hooks
        PROVE
          LET holders == Cardinality({w \in Workers : h \in batch[w]})
              claims == IF row[h].status = "processing" THEN 1 ELSE 0
          IN holders <= claims /\ (faults = 0 => holders = claims)
    BY DEF ClaimedByOneWorker
  <2>2. CASE \E w \in Workers : h \in batch[w]
    <3>1. PICK w \in Workers : h \in batch[w]
      BY <2>2
    <3>2. {v \in Workers : h \in batch[v]} = {w}
      BY <1>1, <3>1 DEF IInv, ClaimsAreExclusive
    <3>3. row[h].status = "processing"
      BY <1>1, <3>1 DEF IInv, ClaimsAreExclusive
    <3>4. Cardinality({v \in Workers : h \in batch[v]}) = 1
      BY <3>2, FS_Singleton
    <3>5. QED
      BY <3>3, <3>4
  <2>3. CASE ~\E w \in Workers : h \in batch[w]
    <3>1. {v \in Workers : h \in batch[v]} = {}
      BY <2>3
    <3>2. faults = 0 => row[h].status # "processing"
      BY <1>1, <2>3 DEF IInv, ClaimsAreHeld
    <3>3. Cardinality({v \in Workers : h \in batch[v]}) = 0
      BY <3>1, FS_EmptySet
    <3>4. QED
      BY <3>2, <3>3
  <2>4. QED
    BY <2>2, <2>3
<1>2. QED
  BY Inductive, <1>1, PTL

\* MarkFailed closes a row early only after a permanent answer, which only an
\* order update gets.
THEOREM GivesUpLate == Spec => []GivesUpOnlyAfterRetries
<1>1. IInv => GivesUpOnlyAfterRetries
  BY DEF IInv
<1>2. QED
  BY Inductive, <1>1, PTL

\* The inbox implements its promise: whatever workers, retries, requests
\* carried out after their timeout, failing statements and restarts do,
\* Paymanager is asked to apply a webhook only while its row is open, a row is
\* marked processed only after the webhook took effect, only a dispute takes
\* effect twice, and processed and failed rows stay as they are.
THEOREM Implements == Spec => ImplementsDelivery
<1>1. Init => Delivery!Init
  BY DEF Init, Delivery!Init, BoxOf
<1>2. IInv /\ [Next]_vars => [Delivery!Next]_<<Box, Asked, applied, again>>
  BY IInvStep DEF Delivers
<1>3. QED
  BY Inductive, <1>1, <1>2, PTL
     DEF Spec, ImplementsDelivery, Delivery!Spec, Delivery!vars, Box, Asked
=============================================================================
