---- MODULE MCReceiptKeys ----
(***************************************************************************)
(* Instance of ReceiptKeys: five keys, a history of at most four           *)
(* transitions, three crashes or failed writes.  MaxKeys exceeds MaxFaults *)
(* so that a first start can always be tried again.                        *)
(***************************************************************************)
EXTENDS ReceiptKeys
====
