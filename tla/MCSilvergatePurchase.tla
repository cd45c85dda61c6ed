------------------------ MODULE MCSilvergatePurchase ------------------------
(***************************************************************************)
(* An instance of SilvergatePurchase for TLC: two calls that repeat one    *)
(* request, a third one that has their key for another request, and one    *)
(* with a key of its own.                                                  *)
(***************************************************************************)
EXTENDS SilvergatePurchase, TLC

CONSTANTS c1, c2, c3, c4

MCCalls == {c1, c2, c3, c4}
MCKey == [c \in MCCalls |-> IF c = c4 THEN "k2" ELSE "k1"]
MCBody == [c \in MCCalls |-> IF c = c3 THEN "b2" ELSE "b1"]
MCSymmetry == Permutations({c1, c2})
=============================================================================
