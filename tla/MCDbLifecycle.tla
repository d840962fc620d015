--------------------------- MODULE MCDbLifecycle ---------------------------
(* TLC instances of DbLifecycle.  Each configuration chooses the jobs, the *)
(* callers, how often the platform reports, and whether there is a reset.  *)
EXTENDS DbLifecycle, TLC

\* Epochs are interchangeable; the runs with liveness do not use it.
EpochSymmetry == Permutations(Epochs)

=============================================================================
