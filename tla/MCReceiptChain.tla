---- MODULE MCReceiptChain ----
(***************************************************************************)
(* Instance of ReceiptChain: two actions and a model request, two keys, a  *)
(* clock with two readings.  A budget of two rows and an age of zero let   *)
(* either bound choose the cutoff, and four or five rows under one key are *)
(* enough for a second compaction that supersedes the first.               *)
(***************************************************************************)
EXTENDS ReceiptChain, TLC

CONSTANTS a1, a2, q1
====
