----------------------------- MODULE MCService -----------------------------
(* One process that changes fields and one that listens.                   *)
EXTENDS ConfigurationService
=============================================================================
