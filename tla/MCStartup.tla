------------------------------ MODULE MCStartup ------------------------------
(* Small instances of Startup for TLC; the values are in the .cfg files.    *)
EXTENDS Startup
=============================================================================
