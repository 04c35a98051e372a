------------------------ MODULE MCEndpointCheckCache ------------------------
(***************************************************************************)
(* Three instances: two in the loop of the unhealthy ones, one in the loop *)
(* of the healthy ones.  They share a dependency, or two of them have no   *)
(* endpoints.                                                              *)
(***************************************************************************)
EXTENDS EndpointCheckCache

CONSTANTS p1, p2, p3, unhealthy, updated, etcd, none

MCProbers == {p1, p2, p3}
MCLoops == {unhealthy, updated}
MCLoopOf == [p \in MCProbers |-> IF p = p3 THEN updated ELSE unhealthy]

SharedEndpoints == {etcd}
Shared == [p \in MCProbers |-> etcd]

SomeEndpoints == {etcd, none}
WithoutEndpoints == [p \in MCProbers |-> IF p = p2 THEN none ELSE etcd]
=============================================================================
