------------------------------ MODULE PortLease ------------------------------
(***************************************************************************)
(* What the supervisor promises about TCP ports, with no locks, channels   *)
(* or records in it.  A launch leases a port nobody holds, a child runs    *)
(* only under a lease, and a lease ends only once its child is gone.  A    *)
(* restart of the studio forgets every lease (Forget) and takes back those *)
(* of the children it adopts (Adopt), which must not clash.                *)
(*                                                                         *)
(* Supervisor.tla implements this specification: see                       *)
(* Supervisor!LeaseSpec and SupervisorProofs!ImplementsPortLease.  That it *)
(* keeps its promise is SupervisorProofs!LeasesAreExclusive.               *)
(***************************************************************************)
CONSTANTS Servers,  \* server ids, one per launch
          Ports,    \* the TCP ports the studio hands out
          NoPort    \* what a server without a lease holds

VARIABLES holds,    \* holds[s]: the port leased to s, or NoPort
          running   \* the servers whose child process is alive

leaseVars == <<holds, running>>

(* No two servers hold one port. *)
Clashless(h) ==
    \A s, t \in Servers : s # t /\ h[s] # NoPort => h[s] # h[t]

Init ==
    /\ holds = [s \in Servers |-> NoPort]
    /\ running = {}

Acquire(s, p) ==
    /\ holds[s] = NoPort
    /\ s \notin running
    /\ \A t \in Servers : holds[t] # p
    /\ holds' = [holds EXCEPT ![s] = p]
    /\ UNCHANGED running

Launch(s) ==
    /\ holds[s] # NoPort
    /\ s \notin running
    /\ running' = running \union {s}
    /\ UNCHANGED holds

Exit(s) ==
    /\ s \in running
    /\ running' = running \ {s}
    /\ UNCHANGED holds

Release(s) ==
    /\ holds[s] # NoPort
    /\ s \notin running
    /\ holds' = [holds EXCEPT ![s] = NoPort]
    /\ UNCHANGED running

Forget ==
    /\ holds' = [s \in Servers |-> NoPort]
    /\ UNCHANGED running

Adopt ==
    /\ holds = [s \in Servers |-> NoPort]
    /\ holds' \in [Servers -> Ports \union {NoPort}]
    /\ Clashless(holds')
    /\ \A s \in Servers : holds'[s] # NoPort => s \in running
    /\ UNCHANGED running

Next ==
    \/ \E s \in Servers : \/ Launch(s) \/ Exit(s) \/ Release(s)
                          \/ \E p \in Ports : Acquire(s, p)
    \/ Forget
    \/ Adopt

Spec == Init /\ [][Next]_leaseVars

(* Two servers never hold the same port: what allocatePortLocked and the   *)
(* reservation in s.active are for.                                        *)
Exclusive == Clashless(holds)
==============================================================================
