--------------------------- MODULE MCFifoQueue ---------------------------
(***************************************************************************)
(* Instantiates FifoQueue for TLC.  The constants are given in the .cfg    *)
(* files, the sets of threads, groups and deduplication ids as model       *)
(* values.  Consumer threads are interchangeable: every consumer runs the  *)
(* same code, Init gives them equal state, and no definition names one     *)
(* consumer, so permuting them is a sound symmetry for the invariants.     *)
(***************************************************************************)
EXTENDS FifoQueue, TLC

ConsumerSymmetry == Permutations(Consumers)

=============================================================================
