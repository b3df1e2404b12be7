----------------------------- MODULE Arithmetic -----------------------------
(***************************************************************************)
(* What the strategies and the orders compute with, on exact numbers.      *)
(***************************************************************************)
EXTENDS Integers

Minimum(a, b) == IF a < b THEN a ELSE b

(* floor_to_step and ceil_to_step; the precisions are steps as well.       *)
FloorTo(value, step) == (value \div step) * step
CeilTo(value, step) == ((value + step - 1) \div step) * step
=============================================================================
