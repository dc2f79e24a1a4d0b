------------------------------- MODULE MCLock -------------------------------
(* Instances of Lock for TLC; the Lock*.cfg files give the constants.        *)
EXTENDS Lock
=============================================================================
