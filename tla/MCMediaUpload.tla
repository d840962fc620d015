---------------------------- MODULE MCMediaUpload ----------------------------
(* A TLC instance of MediaUpload: two members, two attachment ids that the  *)
(* server uses again, and two events of any kind.                           *)
EXTENDS MediaUpload

CONSTANTS alice, bob, s1, s2

=============================================================================
