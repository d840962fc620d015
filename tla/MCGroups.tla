------------------------------ MODULE MCGroups ------------------------------
(* TLC instances of Groups: two members, of whom one or both are admins,    *)
(* and somebody who may be added.                                           *)
EXTENDS Groups, TLC

CONSTANTS alice, bob, carol
=============================================================================
