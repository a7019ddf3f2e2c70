----------------------------- MODULE MCCluster ------------------------------
(***************************************************************************)
(* A cluster of three endpoints for TLC: two that speak ssl, one of them   *)
(* where the client is, and one that does not.                             *)
(***************************************************************************)
EXTENDS Cluster

CONSTANTS local, remote, plain

MCAddrs      == {local, remote, plain}
MCSslOf      == [a \in MCAddrs |-> a # plain]
MCLocationOf == [a \in MCAddrs |-> IF a = remote THEN "dc2" ELSE "dc1"]
MCClient     == DiscoveryClient("/db", TRUE)

\* Every way a call fails, and the ways in which Discover returns an error.
MCFailures     == {TransportError, Garbage, OperationFailed}
MCLoudFailures == {TransportError, Garbage}
=============================================================================
