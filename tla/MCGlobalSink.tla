--------------------------- MODULE MCGlobalSink ---------------------------
(* The model-checking instance of GlobalSink; its constants are in global.cfg. *)
EXTENDS GlobalSink
=============================================================================
