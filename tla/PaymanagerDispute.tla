------------------------- MODULE PaymanagerDispute -------------------------
(***************************************************************************)
(* Paymanager's dispute service: chargeback webhooks of the provider about *)
(* one order, evidence and its submission, concurrent and repeated.        *)
(*                                                                         *)
(* Each operation is one REPEATABLE READ transaction on tables disputes,   *)
(* evidence and events, and then a write to table dispute_events.  Nothing *)
(* in the schema keeps an order from having two disputes, and events are   *)
(* unique per dispute.  The order exists, so the foreign key holds.        *)
(***************************************************************************)
EXTENDS Integers, FiniteSets

CONSTANTS
  Jobs,       \* requests to the service
  Op,         \* "chargeback", "evidence" or "submit"
  Arg,        \* for a chargeback: "opened", "updated", "won", "lost", "closed"
  Key,        \* for a chargeback: the provider's event id
  NoDispute,
  NoId,       \* the key of an event whose provider sent no id
  MaxFaults   \* failing statements, bad answers, crashes (a model bound)

\* The provider's event ids, its submission ids and uuids do not coincide.
ASSUME DisputeAssumption ==
  /\ Op \in [Jobs -> {"chargeback", "evidence", "submit"}]
  /\ DOMAIN Arg = Jobs /\ DOMAIN Key = Jobs
  /\ \A i, j \in Jobs :
       Op[i] = "chargeback" /\ Op[j] # "chargeback" => Key[i] # j
  /\ NoDispute \notin Jobs /\ NoId \notin Jobs
  /\ MaxFaults \in Nat

VARIABLES
  disputes,   \* table disputes: a dispute is named by the job that created it
  evidence,   \* disputes with a row in table evidence
  events,     \* table events
  legacy,     \* jobs with a row in table dispute_events
  pc,         \* where a job is
  seen,       \* the dispute in its transaction's snapshot
  submitted,  \* what the provider has received, and about which version
  nameless,   \* submissions the provider has answered without an id
  history,    \* every write of a dispute's row, with its event's key
  faults

tables == <<disputes, evidence, events>>
provider == <<submitted, nameless>>
vars == <<tables, legacy, pc, seen, provider, history, faults>>

Status == {"open", "under_review", "submitted", "won", "lost", "closed"}
Decided == {"won", "lost"}

Dispute == [id : Jobs, status : Status, ver : Nat]
Ids == {d.id : d \in disputes}

NothingSeen == [id |-> NoDispute, ver |-> 0, status |-> "none"]

Seen ==
  [id : Jobs \cup {NoDispute}, ver : Nat, status : Status \cup {"none"}]

Submission ==
  [job : {j \in Jobs : Op[j] = "submit"}, dispute : Jobs, ver : Nat]

TypeOK ==
  /\ disputes \subseteq Dispute
  /\ \A d, e \in disputes : d.id = e.id => d = e
  /\ evidence \subseteq Ids
  /\ \A e \in events : e.dispute \in Ids
  /\ legacy \subseteq Jobs
  /\ pc \in [Jobs -> {"start", "provider", "commit", "legacy", "done"}]
  /\ seen \in [Jobs -> Seen]
  /\ submitted \subseteq Submission
  /\ nameless \subseteq Jobs
  /\ \A w \in history : w.dispute \in Ids /\ w.ver \in Nat /\ w.job \in Jobs
  /\ faults \in 0..MaxFaults

Init ==
  /\ disputes = {}
  /\ evidence = {}
  /\ events = {}
  /\ legacy = {}
  /\ pc = [j \in Jobs |-> "start"]
  /\ seen = [j \in Jobs |-> NothingSeen]
  /\ submitted = {}
  /\ nameless = {}
  /\ history = {}
  /\ faults = 0

\* How a statement or a call ends; after lost_ack it took effect although the
\* caller sees an error.
Outcomes ==
  {"ok"} \cup IF faults < MaxFaults THEN {"error", "lost_ack"} ELSE {}

ProviderOutcomes ==
  Outcomes \cup IF faults < MaxFaults THEN {"no_id"} ELSE {}

Count(o) == faults' = IF o = "ok" THEN faults ELSE faults + 1

GoTo(j, next) == pc' = [pc EXCEPT ![j] = next]

Return(j) == GoTo(j, "done") /\ seen' = [seen EXCEPT ![j] = NothingSeen]

(***************************************************************************)
(* Statuses                                                                *)
(***************************************************************************)

\* Faulty variant: the provider's word for it is taken as the status.
ResolvedRaw(arg) == arg

\* resolveChargebackStatus
Resolved(arg) == IF arg \in {"won", "lost", "closed"} THEN arg ELSE "open"

\* ApplyChargebackWebhook: whatever the status was.
AfterChargeback(status, arg) ==
  IF arg = "updated" THEN status ELSE Resolved(arg)

IsDisputeEditable(status) == status \notin Decided

CanSubmit(d) == d.status \in {"open", "under_review"} /\ d.id \in evidence

(***************************************************************************)
(* Tables                                                                  *)
(***************************************************************************)

\* GetDisputeByOrderID: the first row, in no particular order.
DisputesOfOrder == disputes

Row(j) == CHOOSE d \in disputes : d.id = seen[j].id

\* Faulty variant: READ COMMITTED, the update finds the row as it is now.
RowUnchangedReadCommitted(j) == TRUE

\* The rule of REPEATABLE READ for the row an UPDATE writes.
RowUnchanged(j) == Row(j).ver = seen[j].ver

\* Faulty variant: a submission moves only a dispute that is open.
WritesRowIfOpen(j) == Op[j] = "chargeback" \/ seen[j].status = "open"

\* An operation writes the dispute's row except for evidence that is added to
\* a dispute which is not open.
WritesRow(j) == Op[j] # "evidence" \/ seen[j].status = "open"

NewStatus(j) ==
  CASE Op[j] = "chargeback" -> AfterChargeback(seen[j].status, Arg[j])
    [] Op[j] = "evidence" -> "under_review"
    [] Op[j] = "submit" -> "submitted"

\* The provider's event id, the provider's submission id (which is empty when
\* its answer cannot be read), or a fresh uuid.
EventKey(j) ==
  CASE Op[j] = "chargeback" -> Key[j]
    [] Op[j] # "chargeback" -> IF j \in nameless THEN NoId ELSE j

Event(j) ==
  [dispute |-> IF seen[j].id = NoDispute THEN j ELSE seen[j].id,
   key |-> EventKey(j)]

(***************************************************************************)
(* ProcessChargeback, UpsertEvidence, Submit                               *)
(***************************************************************************)
See(j, d) ==
  seen' = [seen EXCEPT ![j] =
    [id |-> d.id, ver |-> d.ver, status |-> d.status]]

\* ProcessChargeback: without a dispute only an opening goes on.
BeginChargeback(j) ==
  /\ Op[j] = "chargeback" /\ pc[j] = "start"
  /\ \/ /\ DisputesOfOrder = {}
        /\ IF Arg[j] = "opened" THEN GoTo(j, "commit") /\ UNCHANGED seen
           ELSE Return(j)
     \/ \E d \in DisputesOfOrder : See(j, d) /\ GoTo(j, "commit")
  /\ UNCHANGED <<tables, legacy, provider, history, faults>>

BeginEvidence(j) ==
  /\ Op[j] = "evidence" /\ pc[j] = "start"
  /\ \E d \in disputes :
       IF IsDisputeEditable(d.status) THEN See(j, d) /\ GoTo(j, "commit")
       ELSE Return(j)
  /\ UNCHANGED <<tables, legacy, provider, history, faults>>

BeginSubmit(j) ==
  /\ Op[j] = "submit" /\ pc[j] = "start"
  /\ \E d \in disputes :
       IF CanSubmit(d) THEN See(j, d) /\ GoTo(j, "provider") ELSE Return(j)
  /\ UNCHANGED <<tables, legacy, provider, history, faults>>

\* SubmitRepresentment, within the transaction and without a key: the provider
\* takes every request as a new submission.  An answer that cannot be
\* unmarshalled is one without an id.
SubmitRepresentment(j, o) ==
  /\ pc[j] = "provider"
  /\ submitted' = IF o = "error" THEN submitted
       ELSE submitted \cup
         {[job |-> j, dispute |-> seen[j].id, ver |-> seen[j].ver]}
  /\ nameless' = IF o = "no_id" THEN nameless \cup {j} ELSE nameless
  /\ IF o \in {"ok", "no_id"} THEN GoTo(j, "commit") /\ UNCHANGED seen
     ELSE Return(j)
  /\ Count(o)
  /\ UNCHANGED <<tables, legacy, history>>

Written(j, id, ver) ==
  history' = history \cup
    {[dispute |-> id, ver |-> ver, job |-> j, key |-> EventKey(j)]}

CreateDispute(j) ==
  /\ disputes' = disputes \cup {[id |-> j, status |-> "open", ver |-> 0]}
  /\ Written(j, j, 0)

UpdateDispute(j) ==
  /\ disputes' = (disputes \ {Row(j)}) \cup
       {[Row(j) EXCEPT !.status = NewStatus(j), !.ver = @ + 1]}
  /\ Written(j, seen[j].id, Row(j).ver + 1)

WriteDispute(j) ==
  /\ IF seen[j].id = NoDispute THEN CreateDispute(j)
     ELSE IF WritesRow(j) THEN UpdateDispute(j)
     ELSE UNCHANGED <<disputes, history>>
  /\ evidence' = IF Op[j] = "evidence" THEN evidence \cup {seen[j].id}
                 ELSE evidence
  /\ events' = events \cup {Event(j)}

\* Faulty variant: an event that is stored already is ignored, and the rest of
\* the transaction commits.
FitsIgnoringDuplicates(j) ==
  seen[j].id # NoDispute /\ WritesRow(j) => RowUnchanged(j)

\* The transaction can commit: the row it updates has not changed, and its
\* event is new to the dispute.
Fits(j) ==
  /\ Event(j) \notin events
  /\ seen[j].id # NoDispute /\ WritesRow(j) => RowUnchanged(j)

Commit(j, o) ==
  LET done == o # "error" /\ Fits(j)
  IN /\ pc[j] = "commit"
     /\ IF done THEN WriteDispute(j) ELSE UNCHANGED <<tables, history>>
     /\ IF done /\ o = "ok" THEN GoTo(j, "legacy") /\ UNCHANGED seen
        ELSE Return(j)
     /\ Count(o)
     /\ UNCHANGED <<legacy, provider>>

\* saveWebhookEvent, createEvidenceAddedEvent, createEvidenceSubmittedEvent:
\* an error is returned although the transaction is committed.  A row of
\* dispute_events has created_at in its key, so it is always new.
WriteLegacy(j, o) ==
  /\ pc[j] = "legacy"
  /\ legacy' = IF o = "error" THEN legacy ELSE legacy \cup {j}
  /\ Return(j)
  /\ Count(o)
  /\ UNCHANGED <<tables, provider, history>>

\* The request is cancelled or the process stops.
Crash(j) ==
  /\ pc[j] \notin {"start", "done"}
  /\ faults < MaxFaults
  /\ faults' = faults + 1
  /\ Return(j)
  /\ UNCHANGED <<tables, legacy, provider, history>>

Next ==
  \E j \in Jobs :
    \/ BeginChargeback(j)
    \/ BeginEvidence(j)
    \/ BeginSubmit(j)
    \/ \E o \in ProviderOutcomes : SubmitRepresentment(j, o)
    \/ \E o \in Outcomes : Commit(j, o) \/ WriteLegacy(j, o)
    \/ Crash(j)

Spec == Init /\ [][Next]_vars

-----------------------------------------------------------------------------
(***************************************************************************)
(* Properties                                                              *)
(***************************************************************************)

\* A chargeback that is delivered again, while the first delivery runs or long
\* after, changes a dispute no second time: every write of a dispute's row has
\* an event of its own, which was committed with it.
OneChangePerEvent ==
  /\ \A w \in history : [dispute |-> w.dispute, key |-> w.key] \in events
  /\ \A v, w \in history : v.dispute = w.dispute /\ v.key = w.key => v = w

\* The provider's decision is final for the merchant: evidence or a submission
\* prepared before the decision never overwrites it; only another webhook of
\* the provider does.
DecisionKept ==
  [][\A d \in disputes : \A e \in disputes' :
       d.id = e.id /\ d.status \in Decided =>
         e.status \notin {"under_review", "submitted"}]_vars

\* Submission s is in the database: its event, and the dispute's row that it
\* wrote over the version it was prepared from.
RecordedAs(s) ==
  /\ [dispute |-> s.dispute, key |-> s.job] \in events
  /\ \E w \in history :
       w.job = s.job /\ w.dispute = s.dispute /\ w.ver = s.ver + 1

\* Another request wrote over that version first, and nothing of s is there.
Overtaken(s) ==
  /\ [dispute |-> s.dispute, key |-> s.job] \notin events
  /\ \A w \in history : w.job # s.job
  /\ \E w \in history : w.dispute = s.dispute /\ w.ver = s.ver + 1

\* Without faults, a submission the provider has received is recorded whole
\* once its request is over, or it is not recorded at all because another
\* transaction changed the dispute between Submit's read and its commit.
SubmissionIsRecorded ==
  faults = 0 =>
    \A s \in submitted :
      pc[s.job] = "commit" \/ RecordedAs(s) \/ Overtaken(s)
=============================================================================
