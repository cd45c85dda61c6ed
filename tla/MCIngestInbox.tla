--------------------------- MODULE MCIngestInbox ---------------------------
(***************************************************************************)
(* An instance of IngestInbox for TLC: the creation of an order, its final *)
(* update and a dispute, which can overtake each other on their way.  A    *)
(* webhook whose answer was lost is posted again.                          *)
(***************************************************************************)
EXTENDS IngestInbox

MCHooks == 1..3
MCKind == [h \in MCHooks |->
  CASE h = 1 -> "order_created"
    [] h = 2 -> "order_final"
    [] h = 3 -> "dispute"]
MCKey == [h \in MCHooks |-> h]
=============================================================================
