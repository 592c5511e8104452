---------------------------- MODULE MCChangeEvents ----------------------------
(* ChangeEvents for TLC: two elements of two looks, two overlapping bulks. *)
EXTENDS ChangeEvents

CONSTANTS x, y, red, blue, b1, b2
=============================================================================
