-------------------------- MODULE MCSampleClients --------------------------
(* Tables that start too small for the objects, or large enough.           *)
EXTENDS SampleClients

Counts == {1, 2, 3}
=============================================================================
