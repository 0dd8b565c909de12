---------------------------- MODULE MCDeployment ----------------------------
(* Two provisionings, a probe that cleans up and one that keeps its bank, two      *)
(* commands, an end-to-end run and a contract run; any MaxStarts of them.          *)
EXTENDS Deployment
=============================================================================
