------------------------------ MODULE MCKeyStore ------------------------------
(* A small instance of KeyStore for TLC: two ends, three keys and one spare value. *)
EXTENDS KeyStore

CONSTANTS a, b, d1, k1, k2, k3, k4

MCPeer   == [s \in {a, b} |-> IF s = a THEN b ELSE a]
ThreeKeys == [d \in {d1} |-> <<k1, k2, k3>>]
==============================================================================
