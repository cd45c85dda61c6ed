---------------------- MODULE PaymanagerDisputeProofs ----------------------
(***************************************************************************)
(* Proofs about PaymanagerDispute for any number of webhooks and requests, *)
(* with any keys, and any number of faults: an event changes a dispute at  *)
(* most once, a decision is kept, and a submission is recorded whole.      *)
(***************************************************************************)
EXTENDS PaymanagerDispute, TLAPS

\* What a transaction has seen is still there, perhaps changed since, and a
\* row of the same version is the row it has seen.
SeenIsKept ==
  \A j \in Jobs :
    seen[j].id # NoDispute =>
      /\ seen[j].status \in Status
      /\ \E d \in disputes :
           /\ d.id = seen[j].id
           /\ seen[j].ver <= d.ver
           /\ d.ver = seen[j].ver => d.status = seen[j].status

\* A dispute's id is new: it is made by the commit of one request.
IdsAreFresh ==
  \A d \in disputes : pc[d.id] \in {"legacy", "done"}

\* What a request has found out by the step it is at: only an opening may
\* have found no dispute, and a submission found one that can be submitted.
Checked ==
  \A j \in Jobs :
    /\ pc[j] = "start" => seen[j] = NothingSeen
    /\ pc[j] = "provider" => Op[j] = "submit"
    /\ pc[j] \in {"provider", "commit"} /\ Op[j] # "chargeback" =>
         seen[j].id # NoDispute
    /\ pc[j] \in {"provider", "commit"} /\ Op[j] = "submit" =>
         seen[j].status \in {"open", "under_review"}

\* What a request has written, it wrote at its commit.
WrittenAtCommit ==
  /\ \A w \in history : pc[w.job] \in {"legacy", "done"}
  /\ \A e \in events :
       e.key \in Jobs /\ Op[e.key] # "chargeback" =>
         pc[e.key] \in {"legacy", "done"}

\* Every version of a dispute was written by some request.
VersionsAreWritten ==
  \A d \in disputes : \A v \in Nat :
    v <= d.ver => \E w \in history : w.dispute = d.id /\ w.ver = v

\* A submission s that the provider has received is about to be recorded, or
\* its request has committed or failed to.
Coming(s) ==
  /\ pc[s.job] = "commit" /\ Op[s.job] = "submit"
  /\ seen[s.job].id = s.dispute /\ seen[s.job].ver = s.ver

Settled(s) == RecordedAs(s) \/ Overtaken(s)

SubmissionTraced ==
  faults = 0 =>
    /\ nameless = {}
    /\ \A s \in submitted :
         \/ Coming(s)
         \/ pc[s.job] \in {"legacy", "done"} /\ Settled(s)

\* The inductive invariant.
IInv ==
  /\ TypeOK
  /\ SeenIsKept
  /\ IdsAreFresh
  /\ Checked
  /\ WrittenAtCommit
  /\ VersionsAreWritten
  /\ OneChangePerEvent
  /\ SubmissionTraced

LEMMA CountBounded ==
  ASSUME TypeOK, NEW o \in Outcomes, Count(o)
  PROVE  /\ faults' \in 0..MaxFaults
         /\ o \in {"ok", "error", "lost_ack"}
         /\ faults' = 0 => o = "ok" /\ faults = 0
BY DisputeAssumption DEF TypeOK, Outcomes, Count

LEMMA NothingSeenType ==
  /\ NothingSeen \in Seen
  /\ NothingSeen.id = NoDispute
BY DEF NothingSeen, Seen

LEMMA InitIInv == Init => IInv
<1> SUFFICES ASSUME Init PROVE IInv
  OBVIOUS
<1>1. TypeOK
  BY DisputeAssumption, NothingSeenType DEF Init, TypeOK, Ids
<1>2. \A j \in Jobs : seen[j] = NothingSeen /\ pc[j] = "start"
  BY DEF Init
<1> QED
  BY <1>1, <1>2, NothingSeenType DEF Init, IInv, SeenIsKept, IdsAreFresh, Checked,
     WrittenAtCommit, VersionsAreWritten, OneChangePerEvent, SubmissionTraced

\* Ids are unique, so the row a request has seen is the row it updates.
LEMMA RowIs ==
  ASSUME TypeOK, NEW j \in Jobs, NEW d \in disputes, d.id = seen[j].id
  PROVE  Row(j) = d
BY DEF TypeOK, Row

LEMMA RowKept ==
  ASSUME IInv, NEW j \in Jobs, seen[j].id # NoDispute
  PROVE  /\ Row(j) \in disputes /\ Row(j) \in Dispute
         /\ Row(j).id = seen[j].id
         /\ Row(j).ver \in Nat /\ seen[j].ver \in Nat
         /\ seen[j].ver <= Row(j).ver
         /\ Row(j).ver = seen[j].ver => Row(j).status = seen[j].status
         /\ seen[j].status \in Status
<1>1. PICK d \in disputes :
        /\ d.id = seen[j].id
        /\ seen[j].ver <= d.ver
        /\ d.ver = seen[j].ver => d.status = seen[j].status
  BY DEF IInv, SeenIsKept
<1>2. Row(j) = d
  BY <1>1, RowIs DEF IInv
<1>3. d \in Dispute /\ seen[j] \in Seen
  BY DEF IInv, TypeOK
<1>4. d.ver \in Nat /\ seen[j].ver \in Nat
  BY <1>3 DEF Dispute, Seen
<1>5. seen[j].status \in Status
  BY DEF IInv, SeenIsKept
<1> QED
  BY <1>1, <1>2, <1>3, <1>4, <1>5

(***************************************************************************)
(* Steps that leave the tables alone                                       *)
(***************************************************************************)

\* The parts of the invariant that a step of one request on its own state can
\* disturb, when the tables stay.
LEMMA LocalStep ==
  ASSUME IInv, NEW j \in Jobs, NEW next, NEW s, UNCHANGED <<tables, history>>,
         pc' = [pc EXCEPT ![j] = next], next \in {"provider", "commit", "done"},
         seen' = [seen EXCEPT ![j] = s], s \in Seen,
         s.id # NoDispute =>
           \/ s = seen[j]
           \/ \E d \in disputes : d.id = s.id /\ s.ver = d.ver /\ s.status = d.status,
         next = "provider" => Op[j] = "submit",
         next # "done" => /\ pc[j] \notin {"legacy", "done"}
                          /\ Op[j] # "chargeback" => s.id # NoDispute
                          /\ Op[j] = "submit" => s.status \in {"open", "under_review"},
         faults' \in 0..MaxFaults, faults' = 0 => faults = 0,
         legacy' \subseteq Jobs, nameless' \subseteq Jobs,
         submitted' \subseteq Submission,
         faults' = 0 =>
           /\ nameless' = {}
           /\ \A x \in submitted' :
                IF x.job = j THEN Coming(x)' \/ (next = "done" /\ Settled(x))
                ELSE x \in submitted
  PROVE  IInv'
<1>1. UNCHANGED <<disputes, evidence, events>>
  BY DEF tables
<1>2. /\ pc'[j] = next /\ seen'[j] = s
      /\ \A i \in Jobs : i # j => pc'[i] = pc[i] /\ seen'[i] = seen[i]
  BY DEF IInv, TypeOK
<1>3. TypeOK'
  BY <1>1 DEF IInv, TypeOK, Ids
<1>4. SeenIsKept'
  <2>1. ASSUME NEW i \in Jobs, seen'[i].id # NoDispute
        PROVE  /\ seen'[i].status \in Status
               /\ \E d \in disputes : /\ d.id = seen'[i].id /\ seen'[i].ver <= d.ver
                                      /\ d.ver = seen'[i].ver => d.status = seen'[i].status
    <3>1. CASE seen'[i] = seen[i]
      BY <2>1, <3>1 DEF IInv, SeenIsKept
    <3>2. CASE i = j /\ seen'[i] # seen[i]
      <4>1. PICK d \in disputes : d.id = s.id /\ s.ver = d.ver /\ s.status = d.status
        BY <1>2, <2>1, <3>2
      <4>2. d.ver \in Nat /\ d.status \in Status
        BY DEF IInv, TypeOK, Dispute
      <4>3. s.ver <= d.ver
        BY <4>1, <4>2
      <4> QED
        BY <1>2, <3>2, <4>1, <4>2, <4>3
    <3> QED
      BY <1>2, <3>1, <3>2
  <2> QED
    BY <1>1, <2>1 DEF SeenIsKept
<1>5. IdsAreFresh'
  <2>1. \A d \in disputes : d.id \in Jobs
    BY DEF IInv, TypeOK, Dispute
  <2>2. \A d \in disputes : d.id = j => next = "done"
    BY DEF IInv, IdsAreFresh
  <2> QED
    BY <1>1, <1>2, <2>1, <2>2 DEF IInv, IdsAreFresh
<1>6. Checked'
  BY <1>1, <1>2 DEF IInv, Checked
<1>7. VersionsAreWritten' /\ OneChangePerEvent'
  BY <1>1 DEF IInv, VersionsAreWritten, OneChangePerEvent
<1>9. WrittenAtCommit'
  <2>1. pc[j] \in {"legacy", "done"} => next = "done"
    OBVIOUS
  <2>2. \A i \in Jobs : pc[i] \in {"legacy", "done"} => pc'[i] \in {"legacy", "done"}
    BY <1>2, <2>1
  <2>3. \A w \in history : w.job \in Jobs
    BY DEF IInv, TypeOK
  <2> QED
    BY <1>1, <2>2, <2>3 DEF IInv, WrittenAtCommit
<1>8. SubmissionTraced'
  <2> SUFFICES ASSUME faults' = 0, NEW x \in submitted'
               PROVE  \/ Coming(x)'
                      \/ pc'[x.job] \in {"legacy", "done"} /\ Settled(x)'
    BY DEF SubmissionTraced
  <2>1. x.job \in Jobs
    BY DEF Submission
  <2>2. Settled(x)' = Settled(x)
    BY <1>1 DEF Settled, RecordedAs, Overtaken
  <2>3. x.job # j /\ Coming(x) => Coming(x)'
    BY <1>2, <2>1 DEF Coming
  <2> QED
    BY <1>2, <2>1, <2>2, <2>3 DEF IInv, SubmissionTraced
<1> QED
  BY <1>3, <1>4, <1>5, <1>6, <1>7, <1>8, <1>9 DEF IInv

\* The request is over.
LEMMA ReturnStep ==
  ASSUME IInv, NEW j \in Jobs, Return(j), UNCHANGED <<tables, provider, history>>,
         faults' \in 0..MaxFaults, faults' = 0 => faults = 0,
         legacy' \subseteq Jobs,
         faults' = 0 => \A x \in submitted : x.job = j => Settled(x)
  PROVE  IInv'
<1>1. /\ submitted' \subseteq Submission
      /\ nameless' \subseteq Jobs
      /\ faults' = 0 => nameless' = {}
  BY DEF IInv, TypeOK, SubmissionTraced, provider
<1> QED
  BY <1>1, LocalStep, NothingSeenType DEF Return, GoTo, provider

\* What the request has submitted, when it is not about to be recorded.
LEMMA NotComing ==
  ASSUME IInv, NEW j \in Jobs, pc[j] # "commit"
  PROVE  faults = 0 => \A x \in submitted : x.job = j => Settled(x)
BY DEF IInv, SubmissionTraced, Coming

\* The request has loaded dispute d and goes on.
LEMMA SeeStep ==
  ASSUME IInv, NEW j \in Jobs, NEW d \in disputes, NEW next \in {"provider", "commit"},
         pc[j] = "start", See(j, d), GoTo(j, next),
         next = "provider" => Op[j] = "submit",
         Op[j] = "submit" => d.status \in {"open", "under_review"},
         UNCHANGED <<tables, legacy, provider, history, faults>>
  PROVE  IInv'
<1> DEFINE s == [id |-> d.id, ver |-> d.ver, status |-> d.status]
<1>1. d \in Dispute
  BY DEF IInv, TypeOK
<1>2. s \in Seen /\ s.id # NoDispute /\ s.id = d.id /\ s.ver = d.ver
      /\ s.status = d.status
  BY <1>1, DisputeAssumption DEF Dispute, Seen
<1>3. seen' = [seen EXCEPT ![j] = s] /\ pc' = [pc EXCEPT ![j] = next]
  BY DEF See, GoTo
<1> HIDE DEF s
<1>4. submitted' \subseteq Submission
      /\ nameless' \subseteq Jobs /\ (faults' = 0 => nameless' = {})
      /\ faults' \in 0..MaxFaults /\ legacy' \subseteq Jobs
  BY DEF IInv, TypeOK, SubmissionTraced, provider
<1>5. faults = 0 => \A x \in submitted : x.job # j
  BY DEF IInv, SubmissionTraced, Coming
<1> QED
  BY <1>2, <1>3, <1>4, <1>5, LocalStep DEF provider

LEMMA BeginChargebackStep ==
  ASSUME IInv, NEW j \in Jobs, BeginChargeback(j)
  PROVE  IInv'
<1>1. Op[j] = "chargeback" /\ pc[j] = "start"
      /\ UNCHANGED <<tables, legacy, provider, history, faults>>
  BY DEF BeginChargeback
<1>2. faults = 0 => \A x \in submitted : x.job = j => Settled(x)
  BY <1>1, NotComing
<1>3. submitted \subseteq Submission
      /\ nameless \subseteq Jobs /\ (faults = 0 => nameless = {})
      /\ (faults = 0 => \A x \in submitted : x.job # j)
      /\ faults \in 0..MaxFaults /\ legacy \subseteq Jobs /\ seen[j] \in Seen
  BY <1>1 DEF IInv, TypeOK, SubmissionTraced, Coming
<1>4. CASE GoTo(j, "commit") /\ UNCHANGED seen
  <2>1. seen[j] = NothingSeen /\ seen' = [seen EXCEPT ![j] = NothingSeen]
    BY <1>1, <1>4 DEF IInv, Checked, TypeOK
  <2> QED
    BY <1>1, <1>3, <1>4, <2>1, LocalStep, NothingSeenType DEF GoTo, provider
<1>5. CASE DisputesOfOrder = {} /\ Return(j)
  BY <1>1, <1>2, <1>3, <1>5, ReturnStep
<1>6. CASE \E d \in DisputesOfOrder : See(j, d) /\ GoTo(j, "commit")
  BY <1>1, <1>6, SeeStep DEF DisputesOfOrder
<1> QED
  BY <1>4, <1>5, <1>6 DEF BeginChargeback

LEMMA BeginEvidenceStep ==
  ASSUME IInv, NEW j \in Jobs, BeginEvidence(j)
  PROVE  IInv'
<1>1. Op[j] = "evidence" /\ pc[j] = "start"
      /\ UNCHANGED <<tables, legacy, provider, history, faults>>
  BY DEF BeginEvidence
<1>2. faults = 0 => \A x \in submitted : x.job = j => Settled(x)
  BY <1>1, NotComing
<1>3. faults \in 0..MaxFaults /\ legacy \subseteq Jobs
  BY DEF IInv, TypeOK
<1>4. CASE Return(j)
  BY <1>1, <1>2, <1>3, <1>4, ReturnStep
<1>5. CASE \E d \in disputes : See(j, d) /\ GoTo(j, "commit")
  BY <1>1, <1>5, SeeStep
<1> QED
  BY <1>4, <1>5 DEF BeginEvidence

LEMMA BeginSubmitStep ==
  ASSUME IInv, NEW j \in Jobs, BeginSubmit(j)
  PROVE  IInv'
<1>1. Op[j] = "submit" /\ pc[j] = "start"
      /\ UNCHANGED <<tables, legacy, provider, history, faults>>
  BY DEF BeginSubmit
<1>2. faults = 0 => \A x \in submitted : x.job = j => Settled(x)
  BY <1>1, NotComing
<1>3. faults \in 0..MaxFaults /\ legacy \subseteq Jobs
  BY DEF IInv, TypeOK
<1>4. CASE Return(j)
  BY <1>1, <1>2, <1>3, <1>4, ReturnStep
<1>5. CASE \E d \in disputes : CanSubmit(d) /\ See(j, d) /\ GoTo(j, "provider")
  BY <1>1, <1>5, SeeStep DEF CanSubmit
<1> QED
  BY <1>4, <1>5 DEF BeginSubmit

LEMMA SubmitRepresentmentStep ==
  ASSUME IInv, NEW j \in Jobs, NEW o \in ProviderOutcomes, SubmitRepresentment(j, o)
  PROVE  IInv'
<1>0. PICK x : x = [job |-> j, dispute |-> seen[j].id, ver |-> seen[j].ver]
  OBVIOUS
<1>1. /\ pc[j] = "provider" /\ UNCHANGED <<tables, legacy, history>>
      /\ submitted' = IF o = "error" THEN submitted ELSE submitted \cup {x}
      /\ nameless' = IF o = "no_id" THEN nameless \cup {j} ELSE nameless
      /\ IF o \in {"ok", "no_id"} THEN GoTo(j, "commit") /\ UNCHANGED seen
         ELSE Return(j)
  BY <1>0 DEF SubmitRepresentment
<1>2. faults' \in 0..MaxFaults /\ (faults' = 0 => o = "ok" /\ faults = 0)
  BY DisputeAssumption
     DEF SubmitRepresentment, IInv, TypeOK, ProviderOutcomes, Outcomes, Count
<1>3. Op[j] = "submit" /\ seen[j].id # NoDispute /\ seen[j] \in Seen
      /\ seen[j].status \in {"open", "under_review"}
  BY <1>1 DEF IInv, Checked, TypeOK
<1>4. x \in Submission
      /\ x.job = j /\ x.dispute = seen[j].id /\ x.ver = seen[j].ver
  BY <1>0, <1>3 DEF Seen, Submission
<1>5. /\ submitted' \subseteq Submission
      /\ legacy' \subseteq Jobs /\ nameless' \subseteq Jobs
      /\ faults' = 0 => nameless' = {}
  BY <1>1, <1>2, <1>4 DEF IInv, TypeOK, SubmissionTraced
<1>6. faults = 0 => \A y \in submitted : y.job # j
  BY <1>1 DEF IInv, SubmissionTraced, Coming
<1>7. CASE o \in {"ok", "no_id"}
  <2>1. pc' = [pc EXCEPT ![j] = "commit"] /\ seen' = [seen EXCEPT ![j] = seen[j]]
    BY <1>1, <1>7 DEF GoTo, IInv, TypeOK
  <2>2. pc'[j] = "commit" /\ seen'[j] = seen[j]
    BY <2>1 DEF IInv, TypeOK
  <2>3. Coming(x)'
    BY <1>3, <1>4, <2>2 DEF Coming
  <2>4. ASSUME faults' = 0, NEW y \in submitted'
        PROVE  IF y.job = j THEN Coming(y)' ELSE y \in submitted
    <3>1. y = x \/ y \in submitted
      BY <1>1, <2>4
    <3>2. CASE y = x
      BY <1>4, <2>3, <3>2 DEF Coming
    <3>3. CASE y \in submitted
      BY <1>2, <1>6, <2>4, <3>3
    <3> QED
      BY <3>1, <3>2, <3>3
  <2>5. pc[j] \notin {"legacy", "done"} /\ (faults' = 0 => faults = 0)
    BY <1>1, <1>2
  <2> QED
    BY <1>1, <1>2, <1>3, <1>5, <2>1, <2>4, <2>5, LocalStep
<1>8. CASE o \notin {"ok", "no_id"}
  <2>1. faults' # 0 /\ (faults' = 0 => faults = 0)
    BY <1>2, <1>8
  <2> QED
    BY <1>1, <1>2, <1>5, <1>8, <2>1, LocalStep, NothingSeenType DEF Return, GoTo
<1> QED
  BY <1>7, <1>8

(***************************************************************************)
(* The commit                                                              *)
(***************************************************************************)

\* A chargeback keeps the status or takes the provider's word, evidence and a
\* submission find the row they have seen.
LEMMA StatusWritten ==
  ASSUME IInv, NEW j \in Jobs, pc[j] = "commit", seen[j].id # NoDispute,
         WritesRow(j), RowUnchanged(j)
  PROVE  /\ NewStatus(j) \in Status
         /\ Row(j).status \in Decided => NewStatus(j) \notin {"under_review", "submitted"}
<1>1. Row(j).status = seen[j].status /\ seen[j].status \in Status
  BY RowKept DEF RowUnchanged
<1>2. Op[j] \in {"chargeback", "evidence", "submit"}
  BY DisputeAssumption
<1>3. CASE Op[j] = "chargeback"
  BY <1>1, <1>3 DEF NewStatus, AfterChargeback, Resolved, Status, Decided
<1>4. CASE Op[j] = "evidence"
  BY <1>1, <1>4 DEF NewStatus, WritesRow, Status, Decided
<1>5. CASE Op[j] = "submit"
  <2>1. seen[j].status \in {"open", "under_review"}
    BY <1>5 DEF IInv, Checked
  <2> QED
    BY <1>1, <1>5, <2>1 DEF NewStatus, Status, Decided
<1> QED
  BY <1>2, <1>3, <1>4, <1>5

\* How a committed transaction changes table disputes: rows stay, with their
\* ids, a row that changes has a new version, and the only new row is the
\* request's own.
LEMMA DisputesAfter ==
  ASSUME IInv, NEW j \in Jobs, pc[j] = "commit", Fits(j), WriteDispute(j)
  PROVE  /\ disputes' \subseteq Dispute
         /\ \A d, e \in disputes' : d.id = e.id => d = e
         /\ \A d \in disputes : \E e \in disputes' :
              e.id = d.id /\ d.ver <= e.ver /\ (e.ver = d.ver => e = d)
         /\ \A e \in disputes' : e.id = j \/ e.id \in Ids
         /\ Event(j).dispute \in Ids'
         /\ \A d \in disputes, e \in disputes' :
              d.id = e.id /\ d.status \in Decided =>
                e.status \notin {"under_review", "submitted"}
<1>1. /\ disputes \subseteq Dispute
      /\ \A d, e \in disputes : d.id = e.id => d = e
      /\ \A d \in disputes : d.id \in Ids /\ d.ver \in Nat
  BY DEF IInv, TypeOK, Ids, Dispute
<1>2. \A d \in disputes : d.ver <= d.ver
  BY <1>1
<1>3. \A d \in disputes : d.status \in Decided => d.status \notin {"under_review", "submitted"}
  BY DEF Decided
<1>4. Event(j).dispute = IF seen[j].id = NoDispute THEN j ELSE seen[j].id
  BY DEF Event
<1>5. CASE seen[j].id = NoDispute
  <2>1. PICK n : n = [id |-> j, status |-> "open", ver |-> 0]
    OBVIOUS
  <2>2. disputes' = disputes \cup {n}
    BY <1>5, <2>1 DEF WriteDispute, CreateDispute
  <2>3. n \in Dispute /\ n.id = j /\ n.status = "open"
    BY <2>1 DEF Dispute, Status
  <2>4. \A d \in disputes : d.id # j
    BY DEF IInv, IdsAreFresh
  <2>5. Event(j).dispute \in Ids'
    BY <1>4, <1>5, <2>2, <2>3 DEF Ids
  <2>6. \A d, e \in disputes' : d.id = e.id => d = e
    BY <1>1, <2>2, <2>3, <2>4
  <2>7. \A d \in disputes : \E e \in disputes' :
          e.id = d.id /\ d.ver <= e.ver /\ (e.ver = d.ver => e = d)
    BY <1>2, <2>2
  <2>8. \A e \in disputes' : e.id = j \/ e.id \in Ids
    BY <1>1, <2>2, <2>3
  <2>9. \A d \in disputes, e \in disputes' :
          d.id = e.id /\ d.status \in Decided =>
            e.status \notin {"under_review", "submitted"}
    BY <1>1, <1>3, <2>2, <2>3, <2>4
  <2> QED
    BY <1>1, <2>2, <2>3, <2>5, <2>6, <2>7, <2>8, <2>9
<1>6. CASE seen[j].id # NoDispute /\ WritesRow(j)
  <2>1. RowUnchanged(j)
    BY <1>6 DEF Fits
  <2>2. PICK r : r = Row(j)
    OBVIOUS
  <2>3. /\ r \in disputes /\ r \in Dispute /\ r.id = seen[j].id /\ r.ver \in Nat
    BY <1>1, <1>6, <2>2, RowKept
  <2>4. PICK st : st = NewStatus(j)
    OBVIOUS
  <2>5. st \in Status /\ (r.status \in Decided => st \notin {"under_review", "submitted"})
    BY <1>6, <2>1, <2>2, <2>4, StatusWritten
  <2>6. PICK v : v = r.ver + 1
    OBVIOUS
  <2>7. PICK n : n = [r EXCEPT !.status = st, !.ver = v]
    OBVIOUS
  <2>8. disputes' = (disputes \ {r}) \cup {n}
    BY <1>6, <2>2, <2>4, <2>6, <2>7 DEF WriteDispute, UpdateDispute
  <2>9. n.id = r.id /\ n.status = st /\ n.ver = v
    BY <2>3, <2>7 DEF Dispute
  <2>10. n \in Dispute
    <3>1. v \in Nat
      BY <2>3, <2>6
    <3> QED
      BY <2>3, <2>5, <2>7, <3>1 DEF Dispute
  <2>11. r.ver <= n.ver /\ n.ver # r.ver
    BY <2>3, <2>6, <2>9
  <2>12. Event(j).dispute \in Ids'
    BY <1>4, <1>6, <2>3, <2>8, <2>9 DEF Ids
  <2>13. \A d, e \in disputes' : d.id = e.id => d = e
    BY <1>1, <2>3, <2>8, <2>9
  <2>14. \A d \in disputes : \E e \in disputes' :
           e.id = d.id /\ d.ver <= e.ver /\ (e.ver = d.ver => e = d)
    <3> TAKE d \in disputes
    <3>1. CASE d = r
      BY <2>8, <2>9, <2>11, <3>1
    <3>2. CASE d # r
      BY <1>2, <2>8, <3>2
    <3> QED
      BY <3>1, <3>2
  <2>15. \A e \in disputes' : e.id = j \/ e.id \in Ids
    BY <1>1, <2>3, <2>8, <2>9
  <2>16. \A d \in disputes, e \in disputes' :
           d.id = e.id /\ d.status \in Decided =>
             e.status \notin {"under_review", "submitted"}
    BY <1>1, <1>3, <2>3, <2>5, <2>8, <2>9
  <2> QED
    BY <1>1, <2>8, <2>10, <2>12, <2>13, <2>14, <2>15, <2>16
<1>7. CASE seen[j].id # NoDispute /\ ~WritesRow(j)
  <2>1. disputes' = disputes
    BY <1>7 DEF WriteDispute
  <2>2. seen[j].id \in Ids
    BY <1>7, RowKept DEF Ids
  <2>3. Ids' = Ids
    BY <2>1 DEF Ids
  <2>4. \A d \in disputes : \E e \in disputes' :
          e.id = d.id /\ d.ver <= e.ver /\ (e.ver = d.ver => e = d)
    BY <1>2, <2>1
  <2>5. \A d \in disputes, e \in disputes' :
          d.id = e.id /\ d.status \in Decided =>
            e.status \notin {"under_review", "submitted"}
    BY <1>1, <1>3, <2>1
  <2> QED
    BY <1>1, <1>4, <1>7, <2>1, <2>2, <2>3, <2>4, <2>5
<1> QED
  BY <1>5, <1>6, <1>7

\* What a committed transaction adds to the history: a write by the request,
\* of the version after the one it has seen, or none.
LEMMA HistoryAfter ==
  ASSUME IInv, NEW j \in Jobs, pc[j] = "commit", Fits(j), WriteDispute(j)
  PROVE  /\ \/ /\ seen[j].id # NoDispute /\ ~WritesRow(j)
               /\ UNCHANGED <<disputes, history>>
            \/ \E w : /\ history' = history \cup {w}
                      /\ w.job = j /\ w.key = EventKey(j) /\ w.ver \in Nat
                      /\ w.dispute = Event(j).dispute
                      /\ seen[j].id # NoDispute => w.ver = seen[j].ver + 1
         /\ VersionsAreWritten'
<1>1. CASE seen[j].id = NoDispute
  <2>1. PICK n : n = [id |-> j, status |-> "open", ver |-> 0]
    OBVIOUS
  <2>2. PICK w : w = [dispute |-> j, ver |-> 0, job |-> j, key |-> EventKey(j)]
    OBVIOUS
  <2>3. disputes' = disputes \cup {n} /\ history' = history \cup {w}
    BY <1>1, <2>1, <2>2 DEF WriteDispute, CreateDispute, Written
  <2>4. /\ w.job = j /\ w.key = EventKey(j) /\ w.ver = 0 /\ w.dispute = j
        /\ n.id = j /\ n.ver = 0
    BY <2>1, <2>2
  <2>5. Event(j).dispute = j
    BY <1>1 DEF Event
  <2>6. VersionsAreWritten'
    <3> SUFFICES ASSUME NEW d \in disputes', NEW v \in Nat, v <= d.ver
                 PROVE  \E x \in history' : x.dispute = d.id /\ x.ver = v
      BY DEF VersionsAreWritten
    <3>1. CASE d \in disputes
      BY <2>3, <3>1 DEF IInv, VersionsAreWritten
    <3>2. CASE d = n
      <4>1. v = 0
        BY <2>4, <3>2
      <4> QED
        BY <2>3, <2>4, <3>2, <4>1
    <3> QED
      BY <2>3, <3>1, <3>2
  <2> QED
    BY <1>1, <2>3, <2>4, <2>5, <2>6
<1>2. CASE seen[j].id # NoDispute /\ WritesRow(j)
  <2>1. PICK r : r = Row(j)
    OBVIOUS
  <2>2. /\ r \in disputes /\ r \in Dispute /\ r.id = seen[j].id /\ r.ver \in Nat
        /\ r.ver = seen[j].ver
    BY <1>2, <2>1, RowKept DEF Fits, RowUnchanged
  <2>3. PICK k : k = r.ver + 1
    OBVIOUS
  <2>4. PICK n : n = [r EXCEPT !.status = NewStatus(j), !.ver = k]
    OBVIOUS
  <2>5. PICK w : w = [dispute |-> seen[j].id, ver |-> k, job |-> j,
                      key |-> EventKey(j)]
    OBVIOUS
  <2>6. disputes' = (disputes \ {r}) \cup {n} /\ history' = history \cup {w}
    BY <1>2, <2>1, <2>3, <2>4, <2>5 DEF WriteDispute, UpdateDispute, Written
  <2>7. /\ w.job = j /\ w.key = EventKey(j) /\ w.ver = k
        /\ w.dispute = seen[j].id /\ n.id = seen[j].id /\ n.ver = k
    BY <2>2, <2>4, <2>5 DEF Dispute
  <2>8. k \in Nat /\ k = seen[j].ver + 1
    BY <2>2, <2>3
  <2>9. Event(j).dispute = seen[j].id
    BY <1>2 DEF Event
  <2>10. VersionsAreWritten'
    <3> SUFFICES ASSUME NEW d \in disputes', NEW v \in Nat, v <= d.ver
                 PROVE  \E x \in history' : x.dispute = d.id /\ x.ver = v
      BY DEF VersionsAreWritten
    <3>1. CASE d \in disputes
      BY <2>6, <3>1 DEF IInv, VersionsAreWritten
    <3>2. CASE d = n /\ v = k
      BY <2>6, <2>7, <3>2
    <3>3. CASE d = n /\ v # k
      <4>1. v <= r.ver
        BY <2>2, <2>3, <2>7, <3>3
      <4>2. \E x \in history : x.dispute = r.id /\ x.ver = v
        BY <2>2, <4>1 DEF IInv, VersionsAreWritten
      <4> QED
        BY <2>2, <2>6, <2>7, <3>3, <4>2
    <3> QED
      BY <2>6, <3>1, <3>2, <3>3
  <2> QED
    BY <1>2, <2>6, <2>7, <2>8, <2>9, <2>10
<1>3. CASE seen[j].id # NoDispute /\ ~WritesRow(j)
  BY <1>3 DEF WriteDispute, IInv, VersionsAreWritten
<1> QED
  BY <1>1, <1>2, <1>3

\* The key of a request's event is not another one's that is no chargeback.
LEMMA KeyIsOwn ==
  ASSUME NEW j \in Jobs, NEW i \in Jobs, EventKey(j) = i, Op[i] # "chargeback"
  PROVE  i = j
BY DisputeAssumption DEF EventKey

LEMMA CommittedStep ==
  ASSUME IInv, NEW j \in Jobs, NEW o \in {"ok", "lost_ack"}, pc[j] = "commit",
         Fits(j), WriteDispute(j),
         IF o = "ok" THEN GoTo(j, "legacy") /\ UNCHANGED seen ELSE Return(j),
         faults' \in 0..MaxFaults, faults' = 0 => o = "ok" /\ faults = 0,
         UNCHANGED <<legacy, provider>>
  PROVE  IInv'
<1>1. /\ disputes' \subseteq Dispute
      /\ \A d, e \in disputes' : d.id = e.id => d = e
      /\ \A e \in disputes' : e.id = j \/ e.id \in Ids
      /\ Event(j).dispute \in Ids'
  BY DisputesAfter
<1>2. \A d \in disputes : \E e \in disputes' :
        e.id = d.id /\ d.ver <= e.ver /\ (e.ver = d.ver => e = d)
  BY DisputesAfter
<1>3. Ids \subseteq Ids'
  BY <1>2 DEF Ids
<1>4. events' = events \cup {Event(j)}
  BY DEF WriteDispute
<1>5. /\ pc' = [pc EXCEPT ![j] = IF o = "ok" THEN "legacy" ELSE "done"]
      /\ seen' = IF o = "ok" THEN seen ELSE [seen EXCEPT ![j] = NothingSeen]
  BY DEF Return, GoTo
<1>6. /\ pc'[j] = (IF o = "ok" THEN "legacy" ELSE "done")
      /\ seen'[j] = (IF o = "ok" THEN seen[j] ELSE NothingSeen)
      /\ \A i \in Jobs : i # j => pc'[i] = pc[i] /\ seen'[i] = seen[i]
  BY <1>5 DEF IInv, TypeOK
<1>7. TypeOK'
  <2>1. evidence' \subseteq Ids'
    <3>1. Op[j] = "evidence" => seen[j].id \in Ids
      BY RowKept DEF IInv, Checked, Ids
    <3> QED
      BY <1>3, <3>1 DEF IInv, TypeOK, WriteDispute
  <2>2. \A e \in events' : e.dispute \in Ids'
    BY <1>1, <1>3, <1>4 DEF IInv, TypeOK
  <2>3. pc' \in [Jobs -> {"start", "provider", "commit", "legacy", "done"}]
    BY <1>5 DEF IInv, TypeOK
  <2>4. seen' \in [Jobs -> Seen]
    BY <1>5, NothingSeenType DEF IInv, TypeOK
  <2>5. legacy' \subseteq Jobs /\ nameless' \subseteq Jobs
        /\ submitted' \subseteq Submission
    BY DEF IInv, TypeOK, provider
  <2>6. ASSUME NEW w \in history'
        PROVE  w.dispute \in Ids' /\ w.ver \in Nat /\ w.job \in Jobs
    BY <1>1, <1>3, HistoryAfter DEF IInv, TypeOK
  <2> QED
    BY <1>1, <2>1, <2>2, <2>3, <2>4, <2>5, <2>6 DEF TypeOK
<1>8. SeenIsKept'
  <2> SUFFICES ASSUME NEW i \in Jobs, seen'[i].id # NoDispute
               PROVE  /\ seen'[i].status \in Status
                      /\ \E e \in disputes' :
                           /\ e.id = seen'[i].id
                           /\ seen'[i].ver <= e.ver
                           /\ e.ver = seen'[i].ver => e.status = seen'[i].status
    BY DEF SeenIsKept
  <2>1. seen'[i] = seen[i]
    BY <1>6, NothingSeenType
  <2>2. PICK d \in disputes :
          /\ d.id = seen[i].id
          /\ seen[i].ver <= d.ver
          /\ d.ver = seen[i].ver => d.status = seen[i].status
    BY <2>1 DEF IInv, SeenIsKept
  <2>3. PICK e \in disputes' :
          e.id = d.id /\ d.ver <= e.ver /\ (e.ver = d.ver => e = d)
    BY <1>2
  <2>4. d.ver \in Nat /\ e.ver \in Nat /\ seen[i].ver \in Nat
    <3>1. d \in Dispute /\ e \in Dispute /\ seen[i] \in Seen
      BY <1>1 DEF IInv, TypeOK
    <3> QED
      BY <3>1 DEF Dispute, Seen
  <2>5. seen[i].ver <= e.ver
    BY <2>2, <2>3, <2>4
  <2>6. e.ver = seen[i].ver => e.ver = d.ver /\ d.ver = seen[i].ver
    BY <2>2, <2>3, <2>4
  <2>7. seen[i].status \in Status
    BY <2>1 DEF IInv, SeenIsKept
  <2> QED
    BY <2>1, <2>2, <2>3, <2>5, <2>6, <2>7
<1>9. IdsAreFresh'
  <2> SUFFICES ASSUME NEW e \in disputes' PROVE pc'[e.id] \in {"legacy", "done"}
    BY DEF IdsAreFresh
  <2>1. e.id \in Jobs
    BY <1>1 DEF Dispute
  <2>2. CASE e.id = j
    BY <1>6, <2>2
  <2>3. CASE e.id # j
    <3>1. PICK d \in disputes : d.id = e.id
      BY <1>1, <2>3 DEF Ids
    <3> QED
      BY <1>6, <2>1, <2>3, <3>1 DEF IInv, IdsAreFresh
  <2> QED
    BY <2>2, <2>3
<1>10. Checked'
  BY <1>6, NothingSeenType DEF IInv, Checked
<1>11. VersionsAreWritten'
  BY HistoryAfter
<1>12. Event(j) \notin events /\ Event(j).key = EventKey(j)
  BY DEF Fits, Event
<1>13. OneChangePerEvent'
  <2>1. CASE history' = history
    BY <1>4, <2>1 DEF IInv, OneChangePerEvent
  <2>2. CASE \E w : /\ history' = history \cup {w}
                    /\ w.key = EventKey(j) /\ w.dispute = Event(j).dispute
    <3>1. PICK w : /\ history' = history \cup {w}
                   /\ w.key = EventKey(j) /\ w.dispute = Event(j).dispute
      BY <2>2
    <3>2. [dispute |-> w.dispute, key |-> w.key] = Event(j)
      BY <3>1 DEF Event
    <3>3. \A v \in history : ~(v.dispute = w.dispute /\ v.key = w.key)
      BY <1>12, <3>2 DEF IInv, OneChangePerEvent
    <3> QED
      BY <1>4, <3>1, <3>2, <3>3 DEF IInv, OneChangePerEvent
  <2> QED
    BY <2>1, <2>2, HistoryAfter
<1>14. WrittenAtCommit'
  <2>1. \A i \in Jobs : pc[i] \in {"legacy", "done"} => pc'[i] \in {"legacy", "done"}
    BY <1>6
  <2>2. pc'[j] \in {"legacy", "done"}
    BY <1>6
  <2>3. \A w \in history' : pc'[w.job] \in {"legacy", "done"}
    BY <2>1, <2>2, HistoryAfter DEF IInv, TypeOK, WrittenAtCommit
  <2>4. ASSUME NEW e \in events', e.key \in Jobs, Op[e.key] # "chargeback"
        PROVE  pc'[e.key] \in {"legacy", "done"}
    <3>1. CASE e \in events
      BY <2>1, <2>4, <3>1 DEF IInv, WrittenAtCommit
    <3>2. CASE e = Event(j)
      BY <1>12, <2>2, <2>4, <3>2, KeyIsOwn
    <3> QED
      BY <1>4, <3>1, <3>2
  <2> QED
    BY <2>3, <2>4 DEF WrittenAtCommit
<1>15. SubmissionTraced'
  <2> SUFFICES ASSUME faults' = 0
               PROVE  /\ nameless' = {}
                      /\ \A x \in submitted :
                           \/ Coming(x)'
                           \/ pc'[x.job] \in {"legacy", "done"} /\ Settled(x)'
    BY DEF SubmissionTraced, provider
  <2>1. faults = 0 /\ nameless = {} /\ nameless' = {}
    BY DEF IInv, SubmissionTraced, provider
  <2> SUFFICES ASSUME NEW x \in submitted
               PROVE  \/ Coming(x)'
                      \/ pc'[x.job] \in {"legacy", "done"} /\ Settled(x)'
    BY <2>1
  <2>2. x.job \in Jobs /\ Op[x.job] = "submit" /\ x.ver \in Nat
    BY DEF IInv, TypeOK, Submission
  <2>3. CASE Coming(x) /\ x.job # j
    BY <1>6, <2>2, <2>3 DEF Coming
  <2>4. CASE Coming(x) /\ x.job = j
    <3>1. /\ Op[j] = "submit" /\ seen[j].id = x.dispute /\ seen[j].ver = x.ver
          /\ seen[j].id # NoDispute /\ WritesRow(j)
      BY <2>4 DEF Coming, IInv, Checked, WritesRow
    <3>2. Event(j) = [dispute |-> x.dispute, key |-> x.job]
      BY <2>1, <2>4, <3>1 DEF Event, EventKey
    <3>3. PICK w : /\ history' = history \cup {w} /\ w.job = j
                   /\ w.dispute = Event(j).dispute /\ w.ver = seen[j].ver + 1
      BY <3>1, HistoryAfter
    <3>4. w.dispute = x.dispute
      BY <3>2, <3>3
    <3>5. RecordedAs(x)'
      BY <1>4, <2>4, <3>1, <3>2, <3>3, <3>4 DEF RecordedAs
    <3> QED
      BY <1>6, <2>4, <3>5 DEF Settled
  <2>5. CASE pc[x.job] \in {"legacy", "done"} /\ Settled(x)
    <3>1. x.job # j /\ pc'[x.job] = pc[x.job]
      BY <1>6, <2>2, <2>5
    <3>2. CASE RecordedAs(x)
      <4>1. RecordedAs(x)'
        BY <1>4, <3>2, HistoryAfter DEF RecordedAs
      <4> QED
        BY <2>5, <3>1, <4>1 DEF Settled
    <3>3. CASE Overtaken(x)
      <4>1. [dispute |-> x.dispute, key |-> x.job] # Event(j)
        BY <1>12, <2>2, <3>1, KeyIsOwn
      <4>2. Overtaken(x)'
        BY <1>4, <3>1, <3>3, <4>1, HistoryAfter DEF Overtaken
      <4> QED
        BY <2>5, <3>1, <4>2 DEF Settled
    <3> QED
      BY <2>5, <3>2, <3>3 DEF Settled
  <2> QED
    BY <2>1, <2>3, <2>4, <2>5 DEF IInv, SubmissionTraced
<1> QED
  BY <1>7, <1>8, <1>9, <1>10, <1>11, <1>13, <1>14, <1>15 DEF IInv

LEMMA CommitStep ==
  ASSUME IInv, NEW j \in Jobs, NEW o \in Outcomes, Commit(j, o)
  PROVE  IInv'
<1>1. pc[j] = "commit" /\ UNCHANGED <<legacy, provider>>
  BY DEF Commit
<1>2. /\ faults' \in 0..MaxFaults /\ o \in {"ok", "error", "lost_ack"}
      /\ faults' = 0 => o = "ok" /\ faults = 0
  BY CountBounded DEF Commit, IInv
<1>3. CASE o # "error" /\ Fits(j)
  BY <1>1, <1>2, <1>3, CommittedStep DEF Commit
<1>4. CASE ~(o # "error" /\ Fits(j))
  <2>1. Return(j) /\ UNCHANGED <<tables, history>> /\ legacy' \subseteq Jobs
    BY <1>1, <1>4 DEF Commit, IInv, TypeOK
  <2>2. ASSUME faults' = 0, NEW x \in submitted, x.job = j
        PROVE  Settled(x)
    <3>1. ~Fits(j) /\ faults = 0 /\ nameless = {}
      BY <1>2, <1>4, <2>2 DEF IInv, SubmissionTraced
    <3>2. Coming(x)
      BY <1>1, <2>2, <3>1 DEF IInv, SubmissionTraced
    <3>3. seen[j].id = x.dispute /\ seen[j].ver = x.ver /\ Op[j] = "submit"
          /\ seen[j].id # NoDispute
      BY <1>1, <2>2, <3>2 DEF Coming, IInv, Checked
    <3>4. Event(j) = [dispute |-> x.dispute, key |-> x.job]
          /\ Event(j).key = j
      BY <2>2, <3>1, <3>3 DEF Event, EventKey
    <3>5. Event(j) \notin events /\ \A w \in history : w.job # j
      BY <1>1, <3>3, <3>4 DEF IInv, WrittenAtCommit
    <3>6. ~RowUnchanged(j)
      BY <3>1, <3>5 DEF Fits
    <3>7. /\ Row(j) \in disputes /\ Row(j).id = seen[j].id
          /\ Row(j).ver \in Nat /\ seen[j].ver \in Nat
          /\ seen[j].ver <= Row(j).ver
      BY <3>3, RowKept
    <3>8. x.ver + 1 \in Nat /\ x.ver + 1 <= Row(j).ver
      BY <3>3, <3>6, <3>7 DEF RowUnchanged
    <3>9. \E w \in history : w.dispute = x.dispute /\ w.ver = x.ver + 1
      BY <3>3, <3>7, <3>8 DEF IInv, VersionsAreWritten
    <3> QED
      BY <2>2, <3>4, <3>5, <3>9 DEF Settled, Overtaken
  <2> QED
    BY <1>1, <1>2, <2>1, <2>2, ReturnStep
<1> QED
  BY <1>3, <1>4

LEMMA WriteLegacyStep ==
  ASSUME IInv, NEW j \in Jobs, NEW o \in Outcomes, WriteLegacy(j, o)
  PROVE  IInv'
<1>1. pc[j] = "legacy" /\ Return(j) /\ UNCHANGED <<tables, provider, history>>
  BY DEF WriteLegacy
<1>2. faults' \in 0..MaxFaults /\ (faults' = 0 => faults = 0)
  BY CountBounded DEF WriteLegacy, IInv
<1>3. legacy' \subseteq Jobs
  BY DEF WriteLegacy, IInv, TypeOK
<1> QED
  BY <1>1, <1>2, <1>3, NotComing, ReturnStep

LEMMA CrashStep ==
  ASSUME IInv, NEW j \in Jobs, Crash(j)
  PROVE  IInv'
<1>1. Return(j) /\ UNCHANGED <<tables, legacy, provider, history>>
  BY DEF Crash
<1>2. faults' \in 0..MaxFaults /\ faults' # 0
  BY DisputeAssumption DEF Crash, IInv, TypeOK
<1>3. legacy' \subseteq Jobs
  BY <1>1 DEF IInv, TypeOK
<1> QED
  BY <1>1, <1>2, <1>3, ReturnStep

LEMMA StutterStep ==
  ASSUME IInv, UNCHANGED vars
  PROVE  IInv'
<1>1. UNCHANGED <<disputes, evidence, events, legacy, pc, seen, submitted,
                  nameless, history, faults>>
  BY DEF vars, tables, provider
<1>2. TypeOK' /\ SeenIsKept' /\ IdsAreFresh' /\ Checked'
  BY <1>1 DEF IInv, TypeOK, Ids, SeenIsKept, IdsAreFresh, Checked
<1>3. WrittenAtCommit' /\ VersionsAreWritten' /\ OneChangePerEvent'
  BY <1>1 DEF IInv, WrittenAtCommit, VersionsAreWritten, OneChangePerEvent
<1>4. SubmissionTraced'
  BY <1>1 DEF IInv, SubmissionTraced, Coming, Settled, RecordedAs, Overtaken
<1> QED
  BY <1>2, <1>3, <1>4 DEF IInv

LEMMA IInvStep == IInv /\ [Next]_vars => IInv'
BY BeginChargebackStep, BeginEvidenceStep, BeginSubmitStep, SubmitRepresentmentStep,
   CommitStep, WriteLegacyStep, CrashStep, StutterStep DEF Next

(***************************************************************************)
(* Theorems                                                                *)
(***************************************************************************)

\* The invariant holds always.
THEOREM Inductive == Spec => []IInv
BY InitIInv, IInvStep, PTL DEF Spec

\* Every variable keeps its type: the statuses written are those of the
\* schema, and events, evidence and writes belong to a dispute.
THEOREM TypeCorrect == Spec => []TypeOK
<1>1. IInv => TypeOK
  BY DEF IInv
<1> QED
  BY <1>1, Inductive, PTL

\* However often a chargeback is delivered, it changes a dispute at most once,
\* and every change of a dispute's row has its event in table events.
THEOREM OneChange == Spec => []OneChangePerEvent
<1>1. IInv => OneChangePerEvent
  BY DEF IInv
<1> QED
  BY <1>1, Inductive, PTL

\* A submission the provider has received is recorded when Submit has returned
\* without a fault, event and row; or nothing of it is, and another request has
\* written over the version of the dispute it was prepared from.
THEOREM SubmissionRecorded == Spec => []SubmissionIsRecorded
<1>1. IInv => SubmissionIsRecorded
  BY DEF IInv, SubmissionTraced, Coming, Settled, SubmissionIsRecorded
<1> QED
  BY <1>1, Inductive, PTL

\* Evidence or a submission prepared before the provider's decision does not
\* overwrite it.
THEOREM DecisionStays == Spec => DecisionKept
<1> DEFINE Kept ==
      \A d \in disputes : \A e \in disputes' :
        d.id = e.id /\ d.status \in Decided =>
          e.status \notin {"under_review", "submitted"}
<1>1. IInv /\ [Next]_vars => [Kept]_vars
  <2> SUFFICES ASSUME IInv, Next PROVE Kept
    OBVIOUS
  <2>1. PICK j \in Jobs :
          \/ BeginChargeback(j) \/ BeginEvidence(j) \/ BeginSubmit(j) \/ Crash(j)
          \/ \E o \in ProviderOutcomes : SubmitRepresentment(j, o)
          \/ \E o \in Outcomes : Commit(j, o) \/ WriteLegacy(j, o)
    BY DEF Next
  <2>2. CASE disputes' = disputes
    <3>1. \A d, e \in disputes : d.id = e.id => d = e
      BY DEF IInv, TypeOK
    <3> QED
      BY <2>2, <3>1 DEF Decided
  <2>3. CASE disputes' # disputes
    <3>1. pc[j] = "commit" /\ Fits(j) /\ WriteDispute(j)
      BY <2>1, <2>3 DEF BeginChargeback, BeginEvidence, BeginSubmit, Crash,
         SubmitRepresentment, WriteLegacy, Commit, tables
    <3> QED
      BY <3>1, DisputesAfter
  <2> QED
    BY <2>2, <2>3
<1> QED
  BY <1>1, Inductive, PTL DEF Spec, DecisionKept
=============================================================================
