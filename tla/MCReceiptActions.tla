-------------------------- MODULE MCReceiptActions --------------------------
(***************************************************************************)
(* Instances of ReceiptActions for TLC.  Every bound is a CONSTANT of the  *)
(* module itself and gets its value in the .cfg files.                     *)
(***************************************************************************)
EXTENDS ReceiptActions
=============================================================================
