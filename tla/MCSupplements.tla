--------------------------- MODULE MCSupplements ---------------------------
(* A base trigger with one supplement, and the next one with none left.    *)
EXTENDS Supplements, TLC

TwoThenOne == <<1, 0>>
=============================================================================
