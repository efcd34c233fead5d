---------------------------- MODULE MCBillCollector ----------------------------
(* Instances of BillCollector for TLC. *)
EXTENDS BillCollector

CONSTANTS w1, w2
=============================================================================
