---------------------- MODULE SilvergatePurchaseProofs ----------------------
(***************************************************************************)
(* Proofs about SilvergatePurchase for any number of calls, keys, requests,*)
(* prices, edits and faults: repeated calls are one purchase, what the     *)
(* acquirer holds is accounted for, and the price is frozen by the first   *)
(* purchase.                                                               *)
(***************************************************************************)
EXTENDS SilvergatePurchase, TLAPS

TxStatus == {"authorized", "declined", "capture_pending", "captured",
             "capture_failed", "voided"}

Tx == [id : Calls, key : {Key[c] : c \in Calls}, body : {Body[c] : c \in Calls},
       amount : Prices \cup {NoPrice}, status : TxStatus]

Product == [status : {"active", "archived"}, price : Prices, bought : BOOLEAN]

Answers ==
  [kind : {"none", "internal_error", "idempotency_conflict", "product_archived"}]
    \cup [kind : {"ok", "partially_applied"}, tx : Calls, status : TxStatus]

TypeInv ==
  /\ product \in Product
  /\ txs \subseteq Tx
  /\ bank \subseteq Calls
  /\ pc \in [Calls -> {"start", "product", "authorize", "commit", "race",
                       "capture", "done"}]
  /\ snap \in [Calls -> Prices \cup {NoPrice}]
  /\ status \in [Calls -> {"authorized", "declined"}]
  /\ answer \in [Calls -> Answers]
  /\ edit \in Prices \cup {NoPrice}
  /\ edits \in Nat
  /\ faults \in Nat

\* A transaction is the one its call asked for, and no key has two.
TxOfCall ==
  /\ \A t \in txs : t.key = Key[t.id] /\ t.body = Body[t.id]
  /\ \A t, u \in txs : t.key = u.key => t = u

\* A call has inserted a transaction only past its commit.
InsertedByCommit == \A t \in txs : pc[t.id] \in {"capture", "done"}

\* A call that goes on to capture has its transaction.
CaptureHasTx == \A c \in Calls : pc[c] = "capture" => \E t \in txs : t.id = c

\* A call that lost the race lost it to a transaction with its key.
RaceHasWinner ==
  \A c \in Calls : pc[c] = "race" => \E t \in txs : t.key = Key[c]

\* The acquirer is asked once, after the checks.
AskedAfterChecks ==
  \A c \in bank : pc[c] \notin {"start", "product", "authorize"}

\* A transaction that a call is told about has the call's key and request.
ToldIsOwn ==
  \A c \in Calls :
    Names(c) => \E t \in txs : /\ t.id = answer[c].tx
                               /\ t.key = Key[c]
                               /\ t.body = Body[c]

\* The inductive invariant.
IInv ==
  /\ TypeInv
  /\ TxOfCall
  /\ InsertedByCommit
  /\ CaptureHasTx
  /\ RaceHasWinner
  /\ AskedAfterChecks
  /\ ToldIsOwn
  /\ OrphanHoldsHaveReason
  /\ UncapturedIsReported

LEMMA InitIInv == Init => IInv
<1> SUFFICES ASSUME Init PROVE IInv
  OBVIOUS
<1>1. TypeInv
  BY PurchaseAssumption DEF Init, TypeInv, Product, Answers, NoAnswer, NoPrice
<1>2. \A c \in Calls : ~Names(c)
  BY DEF Init, Names, NoAnswer
<1> QED
  BY <1>1, <1>2 DEF Init, IInv, TxOfCall, InsertedByCommit, CaptureHasTx,
     RaceHasWinner, AskedAfterChecks, ToldIsOwn, OrphanHoldsHaveReason,
     UncapturedIsReported

LEMMA CountGrows ==
  ASSUME TypeInv, NEW o \in Outcomes, Count(o)
  PROVE  /\ o \in {"ok", "db_error", "lost_ack"}
         /\ faults' \in Nat /\ faults' >= faults
         /\ o # "ok" => faults' > 0
BY DEF TypeInv, Outcomes, Count

\* Answers of a call, and what it was told about before.
LEMMA ReplayType ==
  ASSUME TypeInv, NEW c \in Calls, NEW t \in txs
  PROVE  /\ ResponseFromTx(t) \in Answers
         /\ ResponseFromTx(t).kind = "ok" /\ ResponseFromTx(t).tx = t.id
         /\ Failure("idempotency_conflict") \in Answers
         /\ Failure("idempotency_conflict").kind = "idempotency_conflict"
BY DEF TypeInv, Tx, TxStatus, ResponseFromTx, Answers, Failure

LEMMA FailureType ==
  ASSUME NEW f \in {"internal_error", "product_archived"}
  PROVE  Failure(f) \in Answers /\ Failure(f).kind = f
BY DEF Answers, Failure

\* A call goes on, or ends with an answer, and nothing else changes: what has
\* to be shown about the place it goes to and about the answer.
LEMMA CallMoves ==
  ASSUME IInv, NEW c \in Calls, NEW next, NEW r \in Answers,
         UNCHANGED <<product, txs, bank, edit, edits>>,
         snap' \in [Calls -> Prices \cup {NoPrice}],
         status' \in [Calls -> {"authorized", "declined"}],
         faults' \in Nat, faults' >= faults,
         next \in {"product", "authorize", "race", "done"},
         pc' = [pc EXCEPT ![c] = next],
         answer' = [answer EXCEPT ![c] = r],
         \A t \in txs : t.id # c,
         next \in {"product", "authorize"} => pc[c] \in {"start", "product"},
         next = "race" => \E t \in txs : t.key = Key[c],
         r.kind \in {"ok", "partially_applied"} =>
           \E t \in txs : t.id = r.tx /\ t.key = Key[c] /\ t.body = Body[c],
         \/ c \notin bank
         \/ next = "race"
         \/ \E t \in txs : t.key = Key[c]
         \/ faults' > 0 /\ r.kind \in {"none", "internal_error"}
  PROVE  IInv'
<1>1. TypeInv'
  BY DEF IInv, TypeInv
<1>2. \A d \in Calls : d # c => pc'[d] = pc[d] /\ answer'[d] = answer[d]
  BY DEF IInv, TypeInv
<1>3. pc'[c] = next /\ answer'[c] = r
  BY DEF IInv, TypeInv
<1>4. txs' = txs /\ bank' = bank
  OBVIOUS
<1>5. \A t \in txs : t.id \in Calls
  BY DEF IInv, TypeInv, Tx
<1>6. TxOfCall' /\ InsertedByCommit' /\ CaptureHasTx' /\ RaceHasWinner'
  BY <1>2, <1>3, <1>4, <1>5
     DEF IInv, TxOfCall, InsertedByCommit, CaptureHasTx, RaceHasWinner
<1>7. AskedAfterChecks'
  BY <1>2, <1>3, <1>4 DEF IInv, TypeInv, AskedAfterChecks
<1>8. ToldIsOwn'
  BY <1>2, <1>3, <1>4 DEF IInv, ToldIsOwn, Names
<1>9. OrphanHoldsHaveReason'
  <2> SUFFICES ASSUME NEW d \in bank
               PROVE  \/ \E t \in txs : t.id = d
                      \/ pc'[d] \in {"commit", "race"}
                      \/ \E t \in txs : t.key = Key[d] /\ t.id # d
                      \/ faults' > 0 /\ answer'[d].kind \in {"none", "internal_error"}
    BY <1>4 DEF OrphanHoldsHaveReason
  <2>1. CASE d = c
    BY <1>3, <2>1
  <2>2. CASE d # c
    BY <1>2, <2>2 DEF IInv, TypeInv, OrphanHoldsHaveReason
  <2> QED
    BY <2>1, <2>2
<1>10. UncapturedIsReported'
  BY <1>2, <1>4, <1>5 DEF IInv, TypeInv, UncapturedIsReported
<1> QED
  BY <1>1, <1>6, <1>7, <1>8, <1>9, <1>10 DEF IInv

\* A call that has not inserted anything has no transaction.
LEMMA NoTxYet ==
  ASSUME IInv, NEW c \in Calls, pc[c] \notin {"capture", "done"}
  PROVE  \A t \in txs : t.id # c
BY DEF IInv, InsertedByCommit

LEMMA ReplayStep ==
  ASSUME IInv, NEW c \in Calls, NEW t \in WithKey(Key[c]), Replay(c, t)
  PROVE  \E r \in Answers :
           /\ pc' = [pc EXCEPT ![c] = "done"]
           /\ answer' = [answer EXCEPT ![c] = r]
           /\ r.kind \in {"ok", "partially_applied"} =>
                \E u \in txs : u.id = r.tx /\ u.key = Key[c] /\ u.body = Body[c]
<1>1. t \in txs /\ t.key = Key[c]
  BY DEF WithKey
<1>2. CASE SameRequest(t, c)
  BY <1>1, <1>2, ReplayType DEF IInv, Replay, Return, SameRequest
<1>3. CASE ~SameRequest(t, c)
  BY <1>1, <1>3, ReplayType DEF IInv, Replay, Return
<1> QED
  BY <1>2, <1>3

LEMMA CheckIdempotencyStep ==
  ASSUME IInv, NEW c \in Calls, NEW o \in Outcomes, CheckIdempotency(c, o)
  PROVE  IInv'
<1>1. pc[c] = "start" /\ c \notin bank /\ \A t \in txs : t.id # c
  BY NoTxYet DEF CheckIdempotency, IInv, AskedAfterChecks
<1>2. o \in {"ok", "db_error", "lost_ack"} /\ faults' \in Nat /\ faults' >= faults
  BY CountGrows DEF CheckIdempotency, IInv
<1>3. /\ UNCHANGED <<product, txs, bank, edit, edits>>
      /\ snap' \in [Calls -> Prices \cup {NoPrice}]
      /\ status' \in [Calls -> {"authorized", "declined"}]
  BY DEF CheckIdempotency, IInv, TypeInv
<1>4. CASE o # "ok"
  <2>1. /\ pc' = [pc EXCEPT ![c] = "done"]
        /\ answer' = [answer EXCEPT ![c] = Failure("internal_error")]
    BY <1>4 DEF CheckIdempotency, Return
  <2> QED
    BY <1>1, <1>2, <1>3, <2>1, CallMoves, FailureType
<1>5. CASE o = "ok" /\ WithKey(Key[c]) = {}
  <2>1. /\ pc' = [pc EXCEPT ![c] = "product"]
        /\ answer' = [answer EXCEPT ![c] = answer[c]]
    BY <1>5 DEF CheckIdempotency, GoOn, IInv, TypeInv
  <2>2. answer[c] \in Answers
    BY DEF IInv, TypeInv
  <2>3. answer[c].kind \in {"ok", "partially_applied"} =>
          \E t \in txs : t.id = answer[c].tx /\ t.key = Key[c] /\ t.body = Body[c]
    BY DEF IInv, ToldIsOwn, Names
  <2> QED
    BY <1>1, <1>2, <1>3, <2>1, <2>2, <2>3, CallMoves
<1>6. CASE o = "ok" /\ WithKey(Key[c]) # {}
  <2>1. PICK t \in WithKey(Key[c]) : Replay(c, t)
    BY <1>6 DEF CheckIdempotency
  <2>2. PICK r \in Answers :
           /\ pc' = [pc EXCEPT ![c] = "done"]
           /\ answer' = [answer EXCEPT ![c] = r]
           /\ r.kind \in {"ok", "partially_applied"} =>
                \E u \in txs : u.id = r.tx /\ u.key = Key[c] /\ u.body = Body[c]
    BY <2>1, ReplayStep
  <2> QED
    BY <1>1, <1>2, <1>3, <2>2, CallMoves
<1> QED
  BY <1>4, <1>5, <1>6

LEMMA GetProductStep ==
  ASSUME IInv, NEW c \in Calls, NEW o \in Outcomes, GetProduct(c, o)
  PROVE  IInv'
<1>1. pc[c] = "product" /\ c \notin bank /\ \A t \in txs : t.id # c
  BY NoTxYet DEF GetProduct, IInv, AskedAfterChecks
<1>2. o \in {"ok", "db_error", "lost_ack"} /\ faults' \in Nat /\ faults' >= faults
  BY CountGrows DEF GetProduct, IInv
<1>3. /\ UNCHANGED <<product, txs, bank, edit, edits>>
      /\ snap' \in [Calls -> Prices \cup {NoPrice}]
      /\ status' \in [Calls -> {"authorized", "declined"}]
  BY DEF GetProduct, IInv, TypeInv, Product
<1>4. ASSUME NEW f \in {"internal_error", "product_archived"},
             Return(c, Failure(f))
      PROVE  IInv'
  BY <1>1, <1>2, <1>3, <1>4, CallMoves, FailureType DEF Return
<1>5. CASE GoOn(c, "authorize")
  <2>1. /\ pc' = [pc EXCEPT ![c] = "authorize"]
        /\ answer' = [answer EXCEPT ![c] = answer[c]]
    BY <1>5 DEF GoOn, IInv, TypeInv
  <2>2. answer[c] \in Answers
    BY DEF IInv, TypeInv
  <2>3. answer[c].kind \in {"ok", "partially_applied"} =>
          \E t \in txs : t.id = answer[c].tx /\ t.key = Key[c] /\ t.body = Body[c]
    BY DEF IInv, ToldIsOwn, Names
  <2> QED
    BY <1>1, <1>2, <1>3, <2>1, <2>2, <2>3, CallMoves
<1> QED
  BY <1>4, <1>5 DEF GetProduct

LEMMA AuthorizeStep ==
  ASSUME IInv, NEW c \in Calls, NEW v \in {"authorized", "declined"},
         Authorize(c, v)
  PROVE  IInv'
<1>1. /\ pc[c] = "authorize" /\ pc' = [pc EXCEPT ![c] = "commit"]
      /\ \A t \in txs : t.id # c
  BY NoTxYet DEF Authorize, GoOn
<1>2. TypeInv'
  BY DEF Authorize, GoOn, IInv, TypeInv
<1>3. bank \subseteq bank' /\ bank' \subseteq bank \cup {c}
  BY DEF Authorize
<1>4. UNCHANGED <<txs, answer, faults>>
  BY DEF Authorize, GoOn
<1>5. \A t \in txs : t.id \in Calls
  BY DEF IInv, TypeInv, Tx
<1>6. pc'[c] = "commit" /\ \A d \in Calls : d # c => pc'[d] = pc[d]
  BY <1>1 DEF IInv, TypeInv
<1>7. OrphanHoldsHaveReason'
  BY <1>3, <1>4, <1>6 DEF IInv, TypeInv, OrphanHoldsHaveReason
<1>8. UncapturedIsReported'
  BY <1>4, <1>5, <1>6 DEF IInv, UncapturedIsReported
<1> QED
  BY <1>1, <1>2, <1>3, <1>4, <1>5, <1>6, <1>7, <1>8 DEF IInv, TypeInv, TxOfCall,
     InsertedByCommit, CaptureHasTx, RaceHasWinner, AskedAfterChecks,
     ToldIsOwn, Names

LEMMA AuthorizeFailsStep ==
  ASSUME IInv, NEW c \in Calls, NEW held \in BOOLEAN, AuthorizeFails(c, held)
  PROVE  IInv'
<1> DEFINE r == Failure("internal_error")
<1>1. /\ pc[c] = "authorize" /\ pc' = [pc EXCEPT ![c] = "done"]
      /\ answer' = [answer EXCEPT ![c] = r]
      /\ bank \subseteq bank' /\ bank' \subseteq bank \cup {c}
      /\ UNCHANGED <<product, txs, snap, status, edit, edits>>
  BY DEF AuthorizeFails, Return
<1>2. \A t \in txs : t.id # c
  BY <1>1, NoTxYet
<1>3. faults' \in Nat /\ faults' > 0 /\ faults' >= faults
  BY DEF AuthorizeFails, IInv, TypeInv
<1>4. r \in Answers /\ r.kind = "internal_error"
  BY FailureType
<1> HIDE DEF r
<1>5. TypeInv'
  BY <1>1, <1>3, <1>4 DEF IInv, TypeInv
<1>6. pc'[c] = "done" /\ answer'[c] = r
      /\ \A d \in Calls : d # c => pc'[d] = pc[d] /\ answer'[d] = answer[d]
  BY <1>1 DEF IInv, TypeInv
<1>7. \A t \in txs : t.id \in Calls
  BY DEF IInv, TypeInv, Tx
<1>8. TxOfCall' /\ InsertedByCommit' /\ CaptureHasTx' /\ RaceHasWinner'
      /\ AskedAfterChecks' /\ ToldIsOwn'
  BY <1>1, <1>2, <1>4, <1>6, <1>7 DEF IInv, TypeInv, TxOfCall, InsertedByCommit,
     CaptureHasTx, RaceHasWinner, AskedAfterChecks, ToldIsOwn, Names
<1>9. OrphanHoldsHaveReason'
  BY <1>1, <1>3, <1>4, <1>6 DEF IInv, TypeInv, OrphanHoldsHaveReason
<1>10. UncapturedIsReported'
  BY <1>1, <1>2, <1>3, <1>6, <1>7 DEF IInv, TypeInv, UncapturedIsReported
<1> QED
  BY <1>5, <1>8, <1>9, <1>10 DEF IInv

LEMMA NewTxType ==
  ASSUME TypeInv, NEW c \in Calls
  PROVE  /\ NewTx(c) \in Tx
         /\ NewTx(c).id = c /\ NewTx(c).key = Key[c] /\ NewTx(c).body = Body[c]
         /\ NewTx(c).status = status[c]
<1>1. snap[c] \in Prices \cup {NoPrice}
  BY DEF TypeInv
<1>2. status[c] \in TxStatus
  BY DEF TypeInv, TxStatus
<1> QED
  BY <1>1, <1>2 DEF Tx, NewTx

\* The INSERT and its commit: the call has its transaction from now on.
LEMMA Inserts ==
  ASSUME IInv, NEW c \in Calls, pc[c] = "commit", ~KeyTaken(c),
         txs' = txs \cup {NewTx(c)}, product' \in Product,
         UNCHANGED <<bank, snap, status, edit, edits>>,
         faults' \in Nat, faults' >= faults,
         NEW next, NEW r \in Answers,
         next \in {"capture", "done"},
         pc' = [pc EXCEPT ![c] = next],
         answer' = [answer EXCEPT ![c] = r],
         r.kind \in {"ok", "partially_applied"} => r.tx = c \/ r = answer[c],
         next = "done" /\ status[c] = "authorized" =>
           faults' > 0 /\ r.kind = "internal_error"
  PROVE  IInv'
<1>1. /\ NewTx(c) \in Tx
      /\ NewTx(c).id = c /\ NewTx(c).key = Key[c] /\ NewTx(c).body = Body[c]
      /\ NewTx(c).status = status[c]
  BY NewTxType DEF IInv
<1>2. \A t \in txs : t.id # c /\ t.id \in Calls /\ t.key # Key[c]
  BY NoTxYet DEF KeyTaken, WithKey, IInv, TypeInv, Tx
<1>3. TypeInv'
  BY <1>1 DEF IInv, TypeInv
<1>4. pc'[c] = next /\ answer'[c] = r
      /\ \A d \in Calls : d # c => pc'[d] = pc[d] /\ answer'[d] = answer[d]
  BY DEF IInv, TypeInv
<1> DEFINE n == NewTx(c)
<1> HIDE DEF n
<1>5. txs' = txs \cup {n} /\ n.id = c /\ n.key = Key[c] /\ n.body = Body[c]
      /\ n.status = status[c]
  BY <1>1 DEF n
<1>6. TxOfCall'
  BY <1>2, <1>5 DEF IInv, TxOfCall
<1>7. InsertedByCommit' /\ CaptureHasTx' /\ RaceHasWinner' /\ AskedAfterChecks'
  BY <1>2, <1>4, <1>5 DEF IInv, TypeInv, InsertedByCommit, CaptureHasTx,
     RaceHasWinner, AskedAfterChecks
<1>8. ToldIsOwn'
  <2> SUFFICES ASSUME NEW d \in Calls,
                      answer'[d].kind \in {"ok", "partially_applied"}
               PROVE  \E t \in txs' : /\ t.id = answer'[d].tx
                                      /\ t.key = Key[d]
                                      /\ t.body = Body[d]
    BY DEF ToldIsOwn, Names
  <2>1. CASE d # c \/ r = answer[c]
    BY <1>4, <1>5, <2>1 DEF IInv, ToldIsOwn, Names
  <2>2. CASE d = c /\ r.tx = c
    BY <1>4, <1>5, <2>2
  <2> QED
    BY <1>4, <2>1, <2>2
<1>9. OrphanHoldsHaveReason'
  BY <1>4, <1>5 DEF IInv, TypeInv, OrphanHoldsHaveReason
<1>10. UncapturedIsReported'
  BY <1>2, <1>4, <1>5 DEF IInv, TypeInv, UncapturedIsReported
<1> QED
  BY <1>3, <1>6, <1>7, <1>8, <1>9, <1>10 DEF IInv

LEMMA CommitStep ==
  ASSUME IInv, NEW c \in Calls, NEW o \in Outcomes, Commit(c, o)
  PROVE  IInv'
<1>1. pc[c] = "commit" /\ \A t \in txs : t.id # c
  BY NoTxYet DEF Commit
<1>2. /\ o \in {"ok", "db_error", "lost_ack"}
      /\ faults' \in Nat /\ faults' >= faults /\ (o # "ok" => faults' > 0)
  BY CountGrows DEF Commit, IInv
<1>3. UNCHANGED <<bank, snap, status, edit, edits>> /\ product' \in Product
  BY DEF Commit, IInv, TypeInv, Product
<1>4. status[c] \in {"authorized", "declined"} /\ answer[c] \in Answers
  BY DEF IInv, TypeInv
<1>5. CASE o = "ok" /\ ~KeyTaken(c)
  <2>1. txs' = txs \cup {NewTx(c)}
    BY <1>5 DEF Commit, CanMark
  <2>2. CASE status[c] = "authorized"
    <3>1. pc' = [pc EXCEPT ![c] = "capture"]
          /\ answer' = [answer EXCEPT ![c] = answer[c]]
      BY <1>5, <2>2 DEF Commit, CanMark, GoOn, IInv, TypeInv
    <3> QED
      BY <1>1, <1>2, <1>3, <1>4, <1>5, <2>1, <3>1, Inserts
  <2>3. CASE status[c] = "declined"
    <3>1. pc' = [pc EXCEPT ![c] = "done"]
          /\ answer' = [answer EXCEPT ![c] = ResponseFromTx(NewTx(c))]
      BY <1>5, <2>3 DEF Commit, CanMark, Return
    <3>2. ResponseFromTx(NewTx(c)) \in Answers /\ ResponseFromTx(NewTx(c)).tx = c
      BY NewTxType DEF IInv, ResponseFromTx, Answers, Tx, TxStatus
    <3> QED
      BY <1>1, <1>2, <1>3, <1>5, <2>1, <2>3, <3>1, <3>2, Inserts
  <2> QED
    BY <1>4, <2>2, <2>3
<1>6. CASE o = "lost_ack" /\ ~KeyTaken(c)
  <2>1. txs' = txs \cup {NewTx(c)}
    BY <1>6 DEF Commit, CanMark
  <2>2. pc' = [pc EXCEPT ![c] = "done"]
        /\ answer' = [answer EXCEPT ![c] = Failure("internal_error")]
    BY <1>6 DEF Commit, Return
  <2> QED
    BY <1>1, <1>2, <1>3, <1>6, <2>1, <2>2, FailureType, Inserts
<1>7. CASE o = "db_error" \/ KeyTaken(c)
  <2>1. UNCHANGED <<txs, product>>
    BY <1>7 DEF Commit
  <2>2. snap' \in [Calls -> Prices \cup {NoPrice}]
        /\ status' \in [Calls -> {"authorized", "declined"}]
    BY <1>3 DEF IInv, TypeInv
  <2>3. CASE o = "ok"
    <3>1. pc' = [pc EXCEPT ![c] = "race"]
          /\ answer' = [answer EXCEPT ![c] = answer[c]]
      BY <1>7, <2>3 DEF Commit, GoOn, IInv, TypeInv
    <3>2. \E t \in txs : t.key = Key[c]
      BY <1>7, <2>3 DEF KeyTaken, WithKey
    <3>3. answer[c].kind \in {"ok", "partially_applied"} =>
            \E t \in txs : t.id = answer[c].tx /\ t.key = Key[c] /\ t.body = Body[c]
      BY DEF IInv, ToldIsOwn, Names
    <3> QED
      BY <1>1, <1>2, <1>3, <1>4, <2>1, <2>2, <3>1, <3>2, <3>3, CallMoves
  <2>4. CASE o # "ok"
    <3>1. pc' = [pc EXCEPT ![c] = "done"]
          /\ answer' = [answer EXCEPT ![c] = Failure("internal_error")]
      BY <2>4 DEF Commit, Return
    <3> QED
      BY <1>1, <1>2, <1>3, <2>1, <2>2, <2>4, <3>1, FailureType, CallMoves
  <2> QED
    BY <2>3, <2>4
<1> QED
  BY <1>2, <1>5, <1>6, <1>7

LEMMA ResolveRaceStep ==
  ASSUME IInv, NEW c \in Calls, NEW o \in Outcomes, ResolveRace(c, o)
  PROVE  IInv'
<1>1. pc[c] = "race" /\ \A t \in txs : t.id # c
  BY NoTxYet DEF ResolveRace
<1>2. \E t \in txs : t.key = Key[c]
  BY <1>1 DEF IInv, RaceHasWinner
<1>3. o \in {"ok", "db_error", "lost_ack"} /\ faults' \in Nat /\ faults' >= faults
  BY CountGrows DEF ResolveRace, IInv
<1>4. /\ UNCHANGED <<product, txs, bank, edit, edits>>
      /\ snap' \in [Calls -> Prices \cup {NoPrice}]
      /\ status' \in [Calls -> {"authorized", "declined"}]
  BY DEF ResolveRace, IInv, TypeInv
<1>5. CASE o # "ok"
  <2>1. /\ pc' = [pc EXCEPT ![c] = "done"]
        /\ answer' = [answer EXCEPT ![c] = Failure("internal_error")]
    BY <1>5 DEF ResolveRace, Return
  <2> QED
    BY <1>1, <1>2, <1>3, <1>4, <2>1, CallMoves, FailureType
<1>6. CASE o = "ok"
  <2>1. PICK t \in WithKey(Key[c]) : Replay(c, t)
    BY <1>6 DEF ResolveRace
  <2>2. PICK r \in Answers :
           /\ pc' = [pc EXCEPT ![c] = "done"]
           /\ answer' = [answer EXCEPT ![c] = r]
           /\ r.kind \in {"ok", "partially_applied"} =>
                \E u \in txs : u.id = r.tx /\ u.key = Key[c] /\ u.body = Body[c]
    BY <2>1, ReplayStep
  <2> QED
    BY <1>1, <1>2, <1>3, <1>4, <2>2, CallMoves
<1> QED
  BY <1>5, <1>6

\* A new status of a transaction that is not authorized any more.
LEMMA SetsStatus ==
  ASSUME IInv, NEW t \in txs, NEW s \in TxStatus \ {"authorized"},
         SetStatusOf(t, s), UNCHANGED <<product, bank, callState, edit, edits>>,
         faults' \in Nat, faults' >= faults
  PROVE  IInv'
<1> DEFINE n == [t EXCEPT !.status = s]
<1>1. n \in Tx /\ n.id = t.id /\ n.key = t.key /\ n.body = t.body /\ n.status = s
  BY DEF IInv, TypeInv, Tx
<1>2. txs' = (txs \ {t}) \cup {n}
  BY DEF SetStatusOf
<1> HIDE DEF n
<1>3. \A u \in txs : \E m \in txs' : m.id = u.id /\ m.key = u.key /\ m.body = u.body
  BY <1>1, <1>2
<1>4. \A m \in txs' : \E u \in txs :
        m.id = u.id /\ m.key = u.key /\ m.body = u.body
        /\ (m.status = "authorized" => m = u)
  BY <1>1, <1>2
<1>5. TypeInv'
  BY <1>1, <1>2 DEF IInv, TypeInv, callState
<1>6. TxOfCall'
  BY <1>1, <1>2 DEF IInv, TxOfCall
<1>7. InsertedByCommit' /\ CaptureHasTx' /\ RaceHasWinner' /\ AskedAfterChecks'
      /\ ToldIsOwn'
  BY <1>3, <1>4 DEF IInv, callState, InsertedByCommit, CaptureHasTx,
     RaceHasWinner, AskedAfterChecks, ToldIsOwn, Names
<1>8. OrphanHoldsHaveReason'
  BY <1>3 DEF IInv, TypeInv, callState, OrphanHoldsHaveReason
<1>9. UncapturedIsReported'
  BY <1>4 DEF IInv, TypeInv, callState, UncapturedIsReported
<1> QED
  BY <1>5, <1>6, <1>7, <1>8, <1>9 DEF IInv

LEMMA CaptureStep ==
  ASSUME IInv, NEW c \in Calls, NEW o \in Outcomes, Capture(c, o)
  PROVE  IInv'
<1>1. PICK t \in txs :
        /\ t.id = c
        /\ IF t.status = "authorized" /\ o # "db_error"
           THEN SetStatusOf(t, "capture_pending") ELSE UNCHANGED txs
        /\ Return(c, CaptureAnswer(c, t.status = "authorized" /\ o = "ok"))
  BY DEF Capture
<1>2. /\ o \in {"ok", "db_error", "lost_ack"}
      /\ faults' \in Nat /\ faults' >= faults
  BY CountGrows DEF Capture, IInv
<1> DEFINE r == CaptureAnswer(c, t.status = "authorized" /\ o = "ok")
           n == IF t.status = "authorized" /\ o # "db_error"
                THEN [t EXCEPT !.status = "capture_pending"] ELSE t
<1>3. /\ r \in Answers /\ r.kind \in {"ok", "partially_applied"} /\ r.tx = c
      /\ r.kind = "ok" => t.status = "authorized" /\ o = "ok"
  BY DEF CaptureAnswer, Answers, TxStatus
<1>4. n \in Tx /\ n.id = c /\ n.key = t.key /\ n.body = t.body
      /\ (n.status = "authorized" => r.kind = "partially_applied")
  BY <1>1, <1>3 DEF IInv, TypeInv, Tx, TxStatus
<1>5. txs' = (txs \ {t}) \cup {n}
  BY <1>1 DEF SetStatusOf
<1>6. pc' = [pc EXCEPT ![c] = "done"] /\ answer' = [answer EXCEPT ![c] = r]
  BY <1>1 DEF Return
<1> HIDE DEF r, n
<1>7. UNCHANGED <<product, bank, snap, status, edit, edits>> /\ pc[c] = "capture"
  BY DEF Capture
<1>8. TypeInv'
  BY <1>2, <1>3, <1>4, <1>5, <1>6, <1>7 DEF IInv, TypeInv
<1>9. pc'[c] = "done" /\ answer'[c] = r
      /\ \A d \in Calls : d # c => pc'[d] = pc[d] /\ answer'[d] = answer[d]
  BY <1>6 DEF IInv, TypeInv
<1>10. \A u \in txs : \E m \in txs' :
         m.id = u.id /\ m.key = u.key /\ m.body = u.body
  BY <1>1, <1>4, <1>5
<1>11. \A m \in txs' : m # n => m \in txs /\ m.id # c
  <2> SUFFICES ASSUME NEW m \in txs, m # t, m.id = c
               PROVE  FALSE
    BY <1>5
  <2> QED
    BY <1>1 DEF IInv, TxOfCall
<1>12. n \in txs' /\ t.key = Key[c] /\ t.body = Body[c]
  BY <1>1, <1>5 DEF IInv, TxOfCall
<1>13. \A m \in txs' : m.id \in Calls
  BY <1>8 DEF TypeInv, Tx
<1>14. TxOfCall'
  BY <1>1, <1>4, <1>5 DEF IInv, TxOfCall
<1>15. InsertedByCommit'
  BY <1>4, <1>9, <1>11, <1>13 DEF IInv, InsertedByCommit
<1>16. CaptureHasTx' /\ RaceHasWinner' /\ AskedAfterChecks'
  BY <1>7, <1>9, <1>10 DEF IInv, TypeInv, CaptureHasTx, RaceHasWinner,
     AskedAfterChecks
<1>17. ToldIsOwn'
  <2> SUFFICES ASSUME NEW d \in Calls,
                      answer'[d].kind \in {"ok", "partially_applied"}
               PROVE  \E m \in txs' : /\ m.id = answer'[d].tx
                                      /\ m.key = Key[d]
                                      /\ m.body = Body[d]
    BY DEF ToldIsOwn, Names
  <2>1. CASE d = c
    BY <1>3, <1>4, <1>9, <1>12, <2>1
  <2>2. CASE d # c
    BY <1>9, <1>10, <2>2 DEF IInv, ToldIsOwn, Names
  <2> QED
    BY <2>1, <2>2
<1>18. OrphanHoldsHaveReason'
  BY <1>2, <1>4, <1>7, <1>9, <1>10, <1>12
     DEF IInv, TypeInv, OrphanHoldsHaveReason
<1>19. UncapturedIsReported'
  BY <1>2, <1>4, <1>9, <1>11, <1>13 DEF IInv, TypeInv, UncapturedIsReported
<1> QED
  BY <1>8, <1>14, <1>15, <1>16, <1>17, <1>18, <1>19 DEF IInv

LEMMA CrashStep ==
  ASSUME IInv, NEW c \in Calls, Crash(c)
  PROVE  IInv'
<1>1. /\ pc' = [pc EXCEPT ![c] = "done"]
      /\ answer' = [answer EXCEPT ![c] = NoAnswer]
      /\ faults' = faults + 1
      /\ UNCHANGED <<product, txs, bank, snap, status, edit, edits>>
  BY DEF Crash, Return
<1>2. faults' \in Nat /\ faults' > 0 /\ faults' >= faults
  BY <1>1 DEF IInv, TypeInv
<1>3. NoAnswer \in Answers /\ NoAnswer.kind = "none"
  BY DEF NoAnswer, Answers
<1>4. TypeInv'
  BY <1>1, <1>2, <1>3 DEF IInv, TypeInv
<1>5. pc'[c] = "done" /\ answer'[c].kind = "none"
      /\ \A d \in Calls : d # c => pc'[d] = pc[d] /\ answer'[d] = answer[d]
  BY <1>1, <1>3 DEF IInv, TypeInv
<1>6. \A t \in txs : t.id \in Calls
  BY DEF IInv, TypeInv, Tx
<1>7. TxOfCall' /\ InsertedByCommit' /\ CaptureHasTx' /\ RaceHasWinner'
      /\ AskedAfterChecks' /\ ToldIsOwn'
  BY <1>1, <1>5, <1>6 DEF IInv, TypeInv, TxOfCall, InsertedByCommit,
     CaptureHasTx, RaceHasWinner, AskedAfterChecks, ToldIsOwn, Names
<1>8. OrphanHoldsHaveReason'
  BY <1>1, <1>2, <1>5 DEF IInv, TypeInv, OrphanHoldsHaveReason
<1>9. UncapturedIsReported'
  BY <1>1, <1>2, <1>5, <1>6 DEF IInv, TypeInv, UncapturedIsReported
<1> QED
  BY <1>4, <1>7, <1>8, <1>9 DEF IInv

\* The merchant's steps leave purchases alone.
LEMMA MerchantStep ==
  ASSUME IInv, UNCHANGED <<txs, bank, callState, faults>>, product' \in Product,
         edit' \in Prices \cup {NoPrice}, edits' \in Nat
  PROVE  IInv'
<1>1. TypeInv'
  BY DEF IInv, TypeInv, callState
<1> QED
  BY <1>1 DEF IInv, callState, TxOfCall, InsertedByCommit, CaptureHasTx,
     RaceHasWinner, AskedAfterChecks, ToldIsOwn, Names,
     OrphanHoldsHaveReason, UncapturedIsReported

LEMMA StepStep ==
  ASSUME IInv, NEW c \in Calls, Step(c) \/ Crash(c)
  PROVE  IInv'
BY CheckIdempotencyStep, GetProductStep, CommitStep, ResolveRaceStep,
   CaptureStep, AuthorizeStep, AuthorizeFailsStep, CrashStep DEF Step

LEMMA IInvStep ==
  ASSUME IInv, [Next]_vars
  PROVE  IInv'
<1>1. CASE UNCHANGED vars
  BY <1>1, MerchantStep DEF vars, IInv, TypeInv
<1>2. ASSUME NEW t \in txs, NEW s \in {"captured", "capture_failed"}, Settle(t, s)
      PROVE  IInv'
  <2>1. s \in TxStatus \ {"authorized"} /\ faults \in Nat
    BY <1>2 DEF TxStatus, IInv, TypeInv
  <2> QED
    BY <1>2, <2>1, SetsStatus DEF Settle
<1>3. ASSUME NEW t \in txs, Void(t)
      PROVE  IInv'
  <2>1. "voided" \in TxStatus \ {"authorized"} /\ faults \in Nat
    BY DEF TxStatus, IInv, TypeInv
  <2> QED
    BY <1>3, <2>1, SetsStatus DEF Void
<1>4. ASSUME NEW p \in Prices, ReadForUpdate(p)
      PROVE  IInv'
  BY <1>4, MerchantStep DEF ReadForUpdate, IInv, TypeInv
<1>5. CASE WriteUpdate
  BY <1>5, MerchantStep DEF WriteUpdate, IInv, TypeInv, Product
<1>6. ASSUME NEW s \in {"active", "archived"}, SetStatus(s)
      PROVE  IInv'
  BY <1>6, MerchantStep DEF SetStatus, IInv, TypeInv, Product
<1> QED
  BY <1>1, <1>2, <1>3, <1>4, <1>5, <1>6, StepStep DEF Next

\* The invariant holds in every reachable state: a call's transaction appears
\* when it commits, and what a call is told about has its key and request.
THEOREM Inductive == Spec => []IInv
<1>1. IInv /\ [Next]_vars => IInv'
  BY IInvStep
<1> QED
  BY InitIInv, <1>1, PTL DEF Spec

\* The unique index and ResolveRace make repeated calls one purchase: no key
\* has two transactions, and calls with one key that are told about a
\* transaction are told about the same one, for the same request.
THEOREM OnePurchase == Spec => []OnePurchasePerKey
<1>1. IInv => OnePurchasePerKey
  BY DEF IInv, TxOfCall, ToldIsOwn, OnePurchasePerKey
<1> QED
  BY Inductive, <1>1, PTL

\* The acquirer holds money without a transaction only for a call that is
\* still going on, that lost the race for its key, or that met a fault.
THEOREM OrphansExplained == Spec => []OrphanHoldsHaveReason
<1>1. IInv => OrphanHoldsHaveReason
  BY DEF IInv
<1> QED
  BY Inductive, <1>1, PTL

\* Purchase does not stay silent about a transaction that nobody captures,
\* unless a fault kept the caller from hearing.
THEOREM UncapturedReported == Spec => []UncapturedIsReported
<1>1. IInv => UncapturedIsReported
  BY DEF IInv
<1> QED
  BY Inductive, <1>1, PTL

\* A price is frozen by the first purchase, also for an update that was
\* validated before it: the condition in the UPDATE is checked again.
THEOREM PriceFrozen == Spec => PriceFrozenOnceBought
<1>1. ASSUME IInv, [Next]_vars
      PROVE  [product.bought =>
                product'.bought /\ product'.price = product.price]_vars
  <2>1. CASE product' = product
    BY <2>1
  <2>2. ASSUME NEW c \in Calls, NEW o \in Outcomes, Commit(c, o)
        PROVE  product.bought =>
                 product'.bought /\ product'.price = product.price
    BY <1>1, <2>2 DEF Commit, IInv, TypeInv, Product
  <2>3. CASE WriteUpdate
    BY <1>1, <2>3 DEF WriteUpdate, RowMatches
  <2>4. ASSUME NEW s \in {"active", "archived"}, SetStatus(s)
        PROVE  product.bought =>
                 product'.bought /\ product'.price = product.price
    BY <1>1, <2>4 DEF SetStatus, IInv, TypeInv, Product
  <2>5. ASSUME NEW c \in Calls, Step(c) \/ Crash(c),
               \A o \in Outcomes : ~Commit(c, o)
        PROVE  product' = product
    BY <2>5 DEF Step, Crash, CheckIdempotency, GetProduct, ResolveRace, Capture,
       Authorize, AuthorizeFails
  <2>6. ASSUME NEW t \in txs,
               Void(t) \/ \E s \in {"captured", "capture_failed"} : Settle(t, s)
        PROVE  product' = product
    BY <2>6 DEF Void, Settle
  <2>7. ASSUME NEW p \in Prices, ReadForUpdate(p)
        PROVE  product' = product
    BY <2>7 DEF ReadForUpdate
  <2> QED
    BY <1>1, <2>1, <2>2, <2>3, <2>4, <2>5, <2>6, <2>7 DEF Next
<1>2. QED
  BY Inductive, <1>1, PTL DEF Spec, PriceFrozenOnceBought
=============================================================================
