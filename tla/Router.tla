-------------------------------- MODULE Router --------------------------------
(***************************************************************************)
(* Requests of gateway clients on their way to a llama-server:             *)
(* serveProfile and GetUpstreamURL of src/internal/router/proxy.go, called *)
(* by handleGatewayCatchAll and by handleAnthropicMessages, against the    *)
(* life of the servers.                                                    *)
(*                                                                         *)
(* A request looks the servers up once, keeps an address, and connects to  *)
(* it later.  Servers come and go meanwhile: a port is free again when     *)
(* monitorProcess has removed the entry, which is before the final status  *)
(* reaches the record.  (Supervisor.tla has the detail.)                   *)
(***************************************************************************)
EXTENDS Naturals, FiniteSets

CONSTANTS Servers,   \* server ids; each names one StartServer call
          Profiles,  \* profiles
          Ports,     \* ports StartServer chooses from
          Requests,  \* requests of clients
          MaxTime    \* bound: seconds on the clock of StartedAt

NoServer == "none"

ASSUME ConstAssumption ==
    /\ Servers # {} /\ Profiles # {} /\ Ports # {}
    /\ NoServer \notin Servers
    /\ MaxTime \in Nat

VARIABLES
    life,     \* life[s]: "none", "loading", "up", "exited" (entry active), "gone"
    prof,     \* prof[s]: its profile
    port,     \* port[s]: its port
    rec,      \* rec[s]: the status in db.servers[s], or "absent"
    started,  \* started[s]: StartedAt, in seconds
    now,      \* the clock
    request   \* request[r]: a request

vars == <<life, prof, port, rec, started, now, request>>
serverVars == <<life, prof, port, rec, started>>

Statuses == {"absent", "starting", "healthy", "unhealthy", "stopping", "stopped"}

TypeOK ==
    /\ life \in [Servers -> {"none", "loading", "up", "exited", "gone"}]
    /\ prof \in [Servers -> Profiles]
    /\ port \in [Servers -> Ports]
    /\ rec \in [Servers -> Statuses]
    /\ started \in [Servers -> 0..MaxTime]
    /\ now \in 0..MaxTime
    /\ request \in [Requests ->
          [pc : {"new", "list", "connect", "done"}, profile : Profiles, api : {"openai", "anthropic"},
           to : Servers \union {NoServer}, saw : Statuses, by : Servers \union {NoServer},
           answer : {"none", "conflict", "unreachable", "answered"}]]

Init ==
    /\ life = [s \in Servers |-> "none"]
    /\ prof \in [Servers -> Profiles]
    /\ port \in [Servers -> Ports]
    /\ rec = [s \in Servers |-> "absent"]
    /\ started = [s \in Servers |-> 0]
    /\ now = 0
    /\ \E p \in [Requests -> Profiles], a \in [Requests -> {"openai", "anthropic"}] :
          request = [r \in Requests |->
              [pc |-> "new", profile |-> p[r], api |-> a[r], to |-> NoServer,
               saw |-> "absent", by |-> NoServer, answer |-> "none"]]

------------------------------------------------------------------------------
(* Servers, as the supervisor runs them. *)

Active(s) == life[s] \in {"loading", "up", "exited"}

(* Mutant: the entry gives the port up when it is asked to stop. *)
PortFree_Early(p) == \A s \in Servers : Active(s) /\ rec[s] # "stopping" => port[s] # p

PortFree(p) == \A s \in Servers : Active(s) => port[s] # p

(* StartServer (its profile and port were drawn in Init). *)
Start(s) ==
    /\ life[s] = "none"
    /\ PortFree(port[s])
    /\ \A t \in Servers : Active(t) => prof[t] # prof[s]
    /\ life' = [life EXCEPT ![s] = "loading"]
    /\ rec' = [rec EXCEPT ![s] = "starting"]
    /\ started' = [started EXCEPT ![s] = now]
    /\ UNCHANGED <<prof, port, now, request>>

Listener(p) == {s \in Servers : life[s] = "up" /\ port[s] = p}

(* The process listens on its port, which one process can at a time. *)
Listen(s) ==
    /\ life[s] = "loading"
    /\ Listener(port[s]) = {}
    /\ life' = [life EXCEPT ![s] = "up"]
    /\ UNCHANGED <<prof, port, rec, started, now, request>>

(* A heartbeat or the mark of a stop reaches the record.  The port answers *)
(* for as long as the process is up.                                       *)
Report(s) ==
    /\ Active(s)
    /\ rec[s] \notin {"absent", "stopped"}
    /\ \E st \in {"starting", "healthy", "unhealthy", "stopping"} :
          /\ st = "healthy" => life[s] = "up"
          /\ st = "starting" => rec[s] # "healthy"
          /\ rec' = [rec EXCEPT ![s] = st]
    /\ UNCHANGED <<life, prof, port, started, now, request>>

Exit(s) ==
    /\ life[s] \in {"loading", "up"}
    /\ life' = [life EXCEPT ![s] = "exited"]
    /\ UNCHANGED <<prof, port, rec, started, now, request>>

(* The entry is removed: the port may be reserved again. *)
Reap(s) ==
    /\ life[s] = "exited"
    /\ life' = [life EXCEPT ![s] = "gone"]
    /\ UNCHANGED <<prof, port, rec, started, now, request>>

Record(s) ==
    /\ life[s] = "gone"
    /\ rec[s] \notin {"absent", "stopped"}
    /\ rec' = [rec EXCEPT ![s] = "stopped"]
    /\ UNCHANGED <<life, prof, port, started, now, request>>

Tick == now < MaxTime /\ now' = now + 1 /\ UNCHANGED <<serverVars, request>>

------------------------------------------------------------------------------
(* Requests. *)

(* The profile was found (see DefaultModel.tla). *)
Accept(r) ==
    /\ request[r].pc = "new"
    /\ request' = [request EXCEPT ![r].pc = "list"]

(* Mutant: every server that has not ended will do. *)
Candidates_NotEnded(r) ==
    {s \in Servers : prof[s] = request[r].profile /\ rec[s] \notin {"absent", "stopped"}}

(* serveProfile takes servers that are healthy or starting, GetUpstreamURL *)
(* only healthy ones; nothing in the code stores the status "ready".       *)
Candidates(r) ==
    {s \in Servers :
        /\ prof[s] = request[r].profile
        /\ \/ rec[s] = "healthy"
           \/ rec[s] = "starting" /\ request[r].api = "openai"}

(* The candidate with the latest StartedAt, or the first of a Go map: the  *)
(* clock has seconds, so several may be latest.                            *)
Best(r) ==
    {s \in Candidates(r) :
        request[r].api = "openai" => \A t \in Candidates(r) : started[t] <= started[s]}

Pick(r) ==
    /\ request[r].pc = "list"
    /\ \/ \E s \in Best(r) :
             request' = [request EXCEPT ![r] = [@ EXCEPT !.pc = "connect", !.to = s, !.saw = rec[s]]]
       \/ /\ Best(r) = {}
          /\ request' = [request EXCEPT ![r] = [@ EXCEPT !.pc = "done", !.answer = "conflict"]]

(* Whoever listens on the address by now answers. *)
Forward(r) ==
    /\ request[r].pc = "connect"
    /\ LET l == Listener(port[request[r].to]) IN
       request' = [request EXCEPT ![r] =
           [@ EXCEPT !.pc = "done",
                     !.answer = IF l = {} THEN "unreachable" ELSE "answered",
                     !.by = IF l = {} THEN NoServer ELSE CHOOSE s \in l : TRUE]]

Route(r) == (Accept(r) \/ Pick(r) \/ Forward(r)) /\ UNCHANGED <<serverVars, now>>

Serve(s) == Start(s) \/ Listen(s) \/ Report(s) \/ Exit(s) \/ Reap(s) \/ Record(s)

Next ==
    \/ \E s \in Servers : Serve(s)
    \/ \E r \in Requests : Route(r)
    \/ Tick

Spec == Init /\ [][Next]_vars

------------------------------------------------------------------------------
(* A request is answered by another server than the one it was sent to     *)
(* only when that one has ended and its entry is gone: until then nobody   *)
(* else is given its port.                                                 *)
StrayOnlyAfterEnd ==
    \A r \in Requests :
        request[r].answer = "answered" /\ request[r].by # request[r].to
        => life[request[r].to] = "gone"

(* A client that was sent to a server with a health check behind it is     *)
(* turned away only if that server has ended, however old the record is    *)
(* that the router went by.                                                *)
TurnedAwayOnlyAfterEnd ==
    \A r \in Requests :
        request[r].answer = "unreachable" /\ request[r].saw # "starting"
        => life[request[r].to] \in {"exited", "gone"}

(* "If only `starting` candidates exist (no healthy/ready), 409 - we don't *)
(* proxy to a server that hasn't passed its first health check."  Does not *)
(* hold: a server that is starting is a candidate.                         *)
NoStartingTarget ==
    \A r \in Requests : request[r].to # NoServer => request[r].saw # "starting"

(* "Profile has a running server -> forward": the answer is of a server of *)
(* the profile that was asked for.  Does not hold: its port may be another *)
(* server's by the time of the connection.                                 *)
AnsweredByOwn ==
    \A r \in Requests :
        request[r].answer = "answered" => prof[request[r].by] = request[r].profile
==============================================================================
