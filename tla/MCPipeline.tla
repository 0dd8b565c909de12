----------------------------- MODULE MCPipeline -----------------------------
(* Values for the constants of Pipeline. *)
EXTENDS Pipeline

\* Everything the documentation calls supported: no reverting exports, an engine
\* that works in order.
SupportedFaults == FaultKinds \ {"reverts", "reorder"}
=============================================================================
