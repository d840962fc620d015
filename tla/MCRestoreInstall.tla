-------------------------- MODULE MCRestoreInstall --------------------------
(* TLC instances of RestoreInstall: the app database, its write-ahead log   *)
(* and shared memory, and the settings in their own directory.              *)
EXTENDS RestoreInstall

MCOrder == <<"app", "wal", "shm", "user">>
=============================================================================
