------------------------- MODULE MCPaymanagerOrder -------------------------
(***************************************************************************)
(* An instance of PaymanagerOrder for TLC: the creation of an order, an    *)
(* update delivered twice, the final update, a hold and a capture which is *)
(* requested twice with one key.                                           *)
(***************************************************************************)
EXTENDS PaymanagerOrder

MCJobs == {"created", "updated1", "updated2", "success", "hold", "capture1",
           "capture2"}
MCOp ==
  [j \in MCJobs |->
     CASE j \in {"capture1", "capture2"} -> "capture"
       [] j = "hold" -> "hold"
       [] OTHER -> "update"]
MCArg ==
  [j \in MCJobs |->
     CASE j \in {"capture1", "capture2"} -> "completed"
       [] j = "hold" -> "set"
       [] j \in {"updated1", "updated2"} -> "updated"
       [] OTHER -> j]
MCKey ==
  [j \in MCJobs |->
     CASE j \in {"capture1", "capture2"} -> "k"
       [] j \in {"updated1", "updated2"} -> "e2"
       [] OTHER -> j]
=============================================================================
