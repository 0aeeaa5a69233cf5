--------------------------- MODULE MCPmd3Location ---------------------------
(* Instances of Pmd3Location for TLC; the constants are given in each .cfg. *)
EXTENDS Pmd3Location
=============================================================================
