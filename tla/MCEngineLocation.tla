--------------------------- MODULE MCEngineLocation ---------------------------
(* EngineLocation on small sets of clients and places, named in each .cfg.   *)
EXTENDS EngineLocation
===============================================================================
