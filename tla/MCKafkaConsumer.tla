-------------------------- MODULE MCKafkaConsumer --------------------------
(***************************************************************************)
(* An instance of KafkaConsumer for TLC: the creation of an order, a       *)
(* webhook the service rejects, and two replicas of Paymanager.            *)
(***************************************************************************)
EXTENDS KafkaConsumer
=============================================================================
