------------------------ MODULE MCPaymanagerDispute ------------------------
(***************************************************************************)
(* An instance of PaymanagerDispute for TLC: the opening of a dispute,     *)
(* delivered twice, a decision, a second opening, evidence and two         *)
(* submissions.                                                            *)
(***************************************************************************)
EXTENDS PaymanagerDispute, TLC

CONSTANTS opened1, opened2, reopened, won, evidence1, submit1, submit2

MCJobs == {opened1, opened2, reopened, won, evidence1, submit1, submit2}
MCOp ==
  [j \in MCJobs |->
     CASE j \in {submit1, submit2} -> "submit"
       [] j = evidence1 -> "evidence"
       [] OTHER -> "chargeback"]
MCArg == [j \in MCJobs |-> IF j = won THEN "won" ELSE "opened"]
MCKey == [j \in MCJobs |-> IF j \in {opened1, opened2} THEN "e1" ELSE j]

\* Two deliveries of one webhook, or two submissions, can be exchanged.
MCSymmetry ==
  Permutations({opened1, opened2}) \cup Permutations({submit1, submit2})
=============================================================================
