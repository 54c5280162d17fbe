---------------------------- MODULE MCCashDrawer ----------------------------
(* A small shop for TLC: one branch, a few days, two requests at a time. *)
EXTENDS CashDrawer

MCAmounts == {-2, 1}
=============================================================================
