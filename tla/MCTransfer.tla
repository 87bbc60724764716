----------------------------- MODULE MCTransfer -----------------------------
(***************************************************************************)
(* Instances of Transfer and of its refinement for TLC.                    *)
(*                                                                         *)
(* Two files are enough for every conflict of the code: two children race  *)
(* for both pipes and, with Slots = 1, for one slot (files 0 and 50 of the *)
(* program).  MsgQueueInit = 1 makes them race for the last unit of the    *)
(* queue's semaphore, MsgQueueCap = 1 makes msgsnd block behind a part the *)
(* semaphore has let in.  A second round starts from what the first one    *)
(* leaves.                                                                 *)
(***************************************************************************)
EXTENDS TransferDelivery
=============================================================================
