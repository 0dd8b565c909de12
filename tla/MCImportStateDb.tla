--------------------------- MODULE MCImportStateDb ---------------------------
(* Two importers and a status command over one file of two conversations.         *)
EXTENDS ImportStateDb

CONSTANTS a, b

OneOrder == {<<a, b>>}
=============================================================================
