---------------------------- MODULE MCLinkedList ----------------------------
(* Instances of LinkedList for TLC; the values of the constants are in the   *)
(* LinkedList*.cfg files.                                                    *)
EXTENDS LinkedList
=============================================================================
