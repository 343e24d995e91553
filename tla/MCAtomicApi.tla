---------------------------- MODULE MCAtomicApi ----------------------------
(***************************************************************************)
(* AtomicApi with widths scaled down to a few bits.                        *)
(***************************************************************************)
EXTENDS AtomicApi

MCBits == [bool |-> 1, char |-> 2, short |-> 3, int |-> 4, long |-> 5]
=============================================================================
