----------------------------- MODULE MCFbTable ------------------------------
(* A small screen for TLC. *)
EXTENDS FbTable

MCPrintable == {"a", "1", "[", "]"}
MCFinal == {"a", "[", "]"}
MCGeometries == {[width |-> 2, height |-> 7, pitch |-> 12, size |-> 84, depth |-> 32]}
=============================================================================
