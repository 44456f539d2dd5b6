--------------------------- MODULE MCConnections ---------------------------
(***************************************************************************)
(* Values of Connections for TLC.  Each device has a user agent of its own *)
(* when its model value is the agent.  Requests and rows are symmetric;    *)
(* streams and devices are not (AnyStream and AnyDevice choose one).       *)
(***************************************************************************)
EXTENDS Connections, TLC

OwnAgents == [d \in Devices |-> d]

Symmetry == Permutations(Requests) \cup Permutations(Rows)
=============================================================================
