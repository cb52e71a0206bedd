-------------------------- MODULE MCEntryLifecycle --------------------------
(* Model-checking instances of EntryLifecycle; their constants are in         *)
(* entry.cfg and entry_close.cfg.                                             *)
EXTENDS EntryLifecycle
=============================================================================
