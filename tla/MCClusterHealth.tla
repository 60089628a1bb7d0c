---------------------------- MODULE MCClusterHealth ----------------------------
(* Small instances of ClusterHealth for TLC; the other values are in the .cfg files. *)
EXTENDS ClusterHealth

\* The three resources of cache.go.
MCResources == {"namespaces", "nodes", "pods"}
MCOrder == <<"namespaces", "nodes", "pods">>
=============================================================================
