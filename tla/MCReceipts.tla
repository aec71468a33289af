----------------------------- MODULE MCReceipts -----------------------------
(* An instance of Receipts for TLC: one voter at a browser and one with a phone. *)
EXTENDS Receipts

CONSTANTS w1, a1
=============================================================================
