------------------------ MODULE MCMessageMoveTask ------------------------
(***************************************************************************)
(* Instantiates MessageMoveTask for TLC; constants are given in the .cfg  *)
(* files.  Task ids are model values.                                      *)
(***************************************************************************)
EXTENDS MessageMoveTask, TLC

=============================================================================
