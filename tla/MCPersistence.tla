---------------------------- MODULE MCPersistence ----------------------------
(* DefaultModel over two profiles, the first of which has a server. *)
EXTENDS DefaultModel

CONSTANTS p, q, s1, admin, worker

OwnedByP == [s \in Servers |-> p]

(* A bound: requests to the gateway are followed, and several downloads    *)
(* recorded, only apart from each other; a request meets no fault.         *)
OneThing ==
    (\E r \in Requests : request[r].pc # "new") => recorded = 0 /\ faults = 0
==============================================================================
