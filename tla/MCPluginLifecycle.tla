-------------------------- MODULE MCPluginLifecycle --------------------------
(* Small instances of PluginLifecycle for TLC; the values are in the .cfg files. *)
EXTENDS PluginLifecycle
=============================================================================
