---------------------------- MODULE MCCallStack -----------------------------
(* Instances of CallStack for TLC; the CallStack*.cfg files give the         *)
(* constants.                                                                *)
EXTENDS CallStack
=============================================================================
