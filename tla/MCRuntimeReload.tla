-------------------------- MODULE MCRuntimeReload ---------------------------
(* RuntimeReload needs only numbers.                                       *)
EXTENDS RuntimeReload
============================================================================
