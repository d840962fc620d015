---------------------------- MODULE MCFlushClaim ----------------------------
(* TLC instance of FlushClaim: two event-triggered flushes and two workers  *)
(* that wait for theirs.                                                    *)
EXTENDS FlushClaim, TLC

CONSTANTS e1, e2, w1, w2

MCCallers == {e1, e2, w1, w2}
MCWaiting == {w1, w2}
=============================================================================
