------------------------------ MODULE MCBroker ------------------------------
(***************************************************************************)
(* A small instance of BrokerClient for TLC: the constructor and two calls *)
(* of setMessages.                                                         *)
(***************************************************************************)
EXTENDS BrokerClient

MCKinds == {"key", "values", "bytes"}
=============================================================================
