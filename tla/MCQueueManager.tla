--------------------------- MODULE MCQueueManager ---------------------------
(***************************************************************************)
(* Instances of QueueManager for TLC: the configurations give the messages *)
(* and the domains as model values.                                        *)
(***************************************************************************)
EXTENDS QueueManager
=============================================================================
