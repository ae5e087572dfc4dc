---------------------------- MODULE MCLinkedTree ----------------------------
(***************************************************************************)
(* TLC instance of LinkedTree: three slot keys between the guards, two      *)
(* values, batches of at most two writes, and one forged leaf.              *)
(***************************************************************************)
EXTENDS LinkedTree

\* A leaf that would unlink everything after it: key 2 straight to the MAX guard.
MCForgeries == {[key |-> 2, value |-> 1, next |-> 1]}
=============================================================================
