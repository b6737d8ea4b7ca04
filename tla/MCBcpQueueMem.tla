---------------------------- MODULE MCBcpQueueMem ----------------------------
(* TLC instance of BcpQueueMem. *)
EXTENDS BcpQueueMem
CONSTANTS blank, x, y
=============================================================================
