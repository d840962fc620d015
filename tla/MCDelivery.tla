----------------------------- MODULE MCDelivery -----------------------------
(* TLC instances of Delivery.  Each configuration chooses the messages, the *)
(* events and the outcomes it admits.                                       *)
EXTENDS Delivery, TLC

CONSTANTS m1, m2, none
=============================================================================
