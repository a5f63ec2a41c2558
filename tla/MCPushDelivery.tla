--------------------------- MODULE MCPushDelivery ---------------------------
(* A small instance of PushDelivery for TLC. *)
EXTENDS PushDelivery
=============================================================================
