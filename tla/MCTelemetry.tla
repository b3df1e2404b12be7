---------------------------- MODULE MCTelemetry -----------------------------
(* Telemetry with two strategies, of which s2 may be disabled.             *)
EXTENDS Telemetry

CONSTANTS s1, s2

MCCatalog == {{s1}, {s2}}
=============================================================================
