---------------------------- MODULE MCVmLifeCycle ----------------------------
(* The queues are shorter than in the code, in the same order.             *)
EXTENDS VmLifeCycle
=============================================================================
