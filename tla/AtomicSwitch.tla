---------------------------- MODULE AtomicSwitch ----------------------------
(* What restoring a backup promises: the account on the device is switched  *)
(* from one generation to a newer one in a single step, nobody is served    *)
(* anything but the current generation, and a restore reported as done is   *)
(* never taken back.  Crashes and power losses do not occur at this level.  *)
EXTENDS Integers

CONSTANT MaxInstalls

VARIABLES
    store,    \* the generation the device holds
    served,   \* the generation the app was last opened with
    done      \* the newest generation a restore was reported for

vars == <<store, served, done>>

Init == store = 0 /\ served = 0 /\ done = 0

(* A restore takes effect. *)
Switch ==
    /\ store' \in (store + 1)..MaxInstalls
    /\ UNCHANGED <<served, done>>

(* The app opens its databases. *)
Serve ==
    /\ served' = store
    /\ UNCHANGED <<store, done>>

(* The user is told that the restore succeeded. *)
Report ==
    /\ done' = store
    /\ UNCHANGED <<store, served>>

Next == Switch \/ Serve \/ Report

Spec == Init /\ [][Next]_vars
=============================================================================
