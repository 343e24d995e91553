-------------------------- MODULE MCBlockingQueue --------------------------
(* Instances of BlockingQueue for TLC. *)
EXTENDS BlockingQueue, MCWorkload
=============================================================================
