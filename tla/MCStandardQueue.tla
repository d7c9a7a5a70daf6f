------------------------- MODULE MCStandardQueue -------------------------
(***************************************************************************)
(* Instantiates StandardQueue for TLC; constants are given in the .cfg     *)
(* files.  Consumers run the same code from equal initial states and no    *)
(* definition names one of them, so permuting them is a sound symmetry    *)
(* for the invariants.                                                     *)
(***************************************************************************)
EXTENDS StandardQueue, TLC

ConsumerSymmetry == Permutations(Consumers)

=============================================================================
