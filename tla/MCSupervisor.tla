---------------------------- MODULE MCSupervisor ----------------------------
(* Supervisor on small instances. *)
EXTENDS Supervisor, TLC

CONSTANTS s1, s2, p1, p2, q1, q2

(* Every profile lets the studio choose the port. *)
AllAuto == [p \in Profiles |-> NoPort]

(* p1 insists on port q1. *)
P1Fixed == [p \in Profiles |-> IF p = p1 THEN q1 ELSE NoPort]

(* Where the search of Supervisor_safe goes on.  Two servers: launches and *)
(* exits, with record updates and a crash, or with heartbeats, until one   *)
(* is ready by a stranger (which Supervisor_live follows to the end).  One *)
(* server (the other never starts): with stops and the deletion of its     *)
(* profile as well, but no heartbeats.                                     *)
NoBeats == \A s \in Servers : heartbeat[s].pc # "send"
NoUpdates == \A s \in Servers : serializer[s].pc # "write" /\ updates[s] = <<>>
NoStrangers == \A s \in Servers : heartbeat[s].by # Stranger
NoStops == studio # "stopping" /\ \A t \in Threads : call[t].pc = "idle"
OneServer == /\ \A s \in Servers : prof[s] = p1
             /\ \E s \in Servers : launch[s] = "none"
TwoServers == /\ NoStops /\ profiles = Profiles
              /\ NoBeats \/ (NoUpdates /\ NoStrangers /\ boots = 0)
Focused == TwoServers \/ (OneServer /\ NoBeats)

SymServers == Permutations(Servers)
=============================================================================
