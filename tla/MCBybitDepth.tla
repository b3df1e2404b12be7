---------------------------- MODULE MCBybitDepth ----------------------------
(* BybitDepth with model values for the levels.                            *)
EXTENDS BybitDepth
============================================================================
