---------------------------- MODULE MCNetnsScan ----------------------------
(* Two names and two or three processes in three namespaces.                *)
EXTENDS NetnsScan

CONSTANTS a, b

MCNs == {Root, a, b}
MCPids == {2, 3}
=============================================================================
