------------------------------ MODULE MCDelivery ------------------------------
(***************************************************************************)
(* Three Messages, two sockets, queues and pages of one or two.             *)
(***************************************************************************)
EXTENDS Delivery
=============================================================================
