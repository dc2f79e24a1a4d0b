---------------------------- MODULE MCTaskQueue ----------------------------
(* Instances of the scheduler for TLC; the .cfg files give the constants.    *)
EXTENDS TaskQueueLife
=============================================================================
