--------------------------- MODULE MCSessionReset ---------------------------
(* TLC instances of SessionReset.  Five resets of 60 seconds in an hour are *)
(* scaled down to two or three cooldowns of 1 or 2 in a window of 4 to 6.   *)
EXTENDS SessionReset, TLC

CONSTANTS p1, p2
=============================================================================
