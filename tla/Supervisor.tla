----------------------------- MODULE Supervisor -----------------------------
(***************************************************************************)
(* The process supervisor of src/internal/process/supervisor.go: the       *)
(* phases of StartServer, the callers of StopServer, and the goroutines    *)
(* of one child (heartbeat, monitor, serializer of database updates, the   *)
(* 10 s killer), interleaved at the points where the code releases s.mu or *)
(* db.mu; the server records of storage/db.go as far as the supervisor     *)
(* reads and writes them; the boot and the shutdown of main.go.            *)
(*                                                                         *)
(* Time is abstracted: a timeout may fire at any moment after it is armed. *)
(* Any other program may hold a port, and answer or not: a port probe may  *)
(* fail although no child listens there, and succeed although none does.   *)
(***************************************************************************)
EXTENDS Naturals, Sequences, FiniteSets

CONSTANTS Servers,         \* server ids; each names one StartServer call
          Profiles,        \* profile ids
          Ports,           \* port_range_start..port_range_end
          NoPort,          \* "no port"
          Fixed,           \* Fixed[p]: the fixed port of p, or NoPort (auto)
          Callers,         \* concurrent calls of StopServer: HTTP requests, benchmarks
          Guarded,         \* the callers that net/http guards: HTTP requests
          QCap,            \* capacity of proc.updates (32 in the code)
          MaxBoots,        \* bound: how often the studio is started again
          Deletable,       \* bound: the profiles a user may delete
          ReattachMayFail  \* bound: may opening the log fail in Reattach?

NoServer == "none"
Stranger == "stranger"     \* a program that the studio did not start

ASSUME ConstAssumption ==
    /\ NoPort \notin Ports
    /\ Fixed \in [Profiles -> Ports \union {NoPort}]
    /\ QCap \in Nat \ {0}
    /\ MaxBoots \in Nat
    /\ ReattachMayFail \in BOOLEAN
    /\ Callers \intersect Servers = {}
    /\ Guarded \subseteq Callers
    /\ NoServer \notin Servers /\ Stranger \notin Servers

VARIABLES
    studio,      \* life of the studio process, with the way it went down
    boots,       \* restarts so far (bounded by MaxBoots)
    profiles,    \* ids in db.profiles
    launch,      \* launch[s]: the pc of the StartServer call that makes s
    prof,        \* prof[s]: the profile s is launched for
    port,        \* port[s]: the port reserved for s
    child,       \* child[s]: the llama-server process
    active,      \* keys of s.active
    stopped,     \* entries whose proc.stopped is set
    reattached,  \* entries made by Reattach
    killers,     \* entries sent SIGINT, with a 10 s killer armed
    updates,     \* updates[s]: the buffered channel proc.updates
    closed,      \* entries whose channel is closed
    serializer,  \* serializer[s]: serializeDBUpdates
    heartbeat,   \* heartbeat[s]: the health goroutine of monitorProcess
    monitor,     \* monitor[s]: the pc of monitorProcess
    rec,         \* rec[s]: db.servers[s]
    call         \* call[t]: a StopServer call in progress

entryVars == <<active, stopped, reattached, killers>>
chanVars  == <<updates, closed>>
launchVars == <<launch, prof, port>>
studioVars == <<studio, boots>>

vars == <<studioVars, profiles, launchVars, child, entryVars, chanVars,
          serializer, heartbeat, monitor, rec, call>>

------------------------------------------------------------------------------
(* Types. *)

Terminal == {"stopped", "crashed"}
Statuses == {"starting", "healthy", "unhealthy", "stopping"} \union Terminal
Absent   == [status |-> "absent", pid |-> FALSE]
Records  == [status : Statuses \union {"absent"}, pid : BOOLEAN]

(* main.go runs StopServer in a goroutine per server at shutdown: the id   *)
(* of the server names that goroutine.                                     *)
Threads == Callers \union Servers

Idle == [pc |-> "idle", target |-> NoServer, cur |-> Absent]
NoWrite == [pc |-> "off", cur |-> Absent]

(* isReady of a heartbeat, with whose answer has set it (the code knows    *)
(* only that one came), and the report on its way.                         *)
Beats == [pc : {"off", "tick", "send"}, by : Servers \union {NoServer, Stranger},
          msg : Statuses]
NoBeat == [pc |-> "off", by |-> NoServer, msg |-> "starting"]
IsReady(beat) == beat.by # NoServer

TypeOK ==
    /\ studio \in {"up", "stopping", "crashed", "panicked", "clean", "timeout"}
    /\ boots \in 0..MaxBoots
    /\ profiles \in SUBSET Profiles
    /\ launch \in [Servers -> {"none", "checked", "reserved", "forked",
                               "promoted", "saved", "failed"}]
    /\ prof \in [Servers -> Profiles]
    /\ port \in [Servers -> Ports \union {NoPort}]
    /\ child \in [Servers -> {"none", "booting", "ready", "exit0", "exit1"}]
    /\ active \in SUBSET Servers
    /\ stopped \in SUBSET Servers
    /\ reattached \in SUBSET Servers
    /\ killers \in SUBSET Servers
    /\ updates \in [Servers -> Seq(Statuses)]
    /\ closed \in SUBSET Servers
    /\ serializer \in [Servers -> [pc : {"off", "recv", "write"}, cur : Records]]
    /\ heartbeat \in [Servers -> Beats]
    /\ monitor \in [Servers -> {"off", "wait", "send", "close", "done"}]
    /\ rec \in [Servers -> Records]
    /\ call \in [Threads -> [pc : {"idle", "lookup", "found", "send",
                                   "signal", "save"},
                             target : Servers \union {NoServer},
                             cur : Records]]

------------------------------------------------------------------------------
(* Helpers. *)

Up == studio \in {"up", "stopping"}
Alive(s) == child[s] \in {"booting", "ready"}
Recorded(s) == rec[s] # Absent

(* proc.cmd # nil: the entry was promoted by StartServer. *)
HasHandle(s) == launch[s] \in {"promoted", "saved"} /\ s \notin reattached

(* A child has bound the port: nobody else can listen there. *)
Served(p) == \E s \in Servers : child[s] = "ready" /\ port[s] = p

(* Mutant: only the operating system is asked. *)
PortAvailable_OsOnly(p) == ~ Served(p)

(* isPortAvailableLocked: no entry of s.active and no socket on the port.  *)
(* The host only matters to the socket; a port that a stranger holds, or   *)
(* that is held on another host, is refused by Refuse.                     *)
PortAvailable(p) ==
    /\ \A t \in active : port[t] # p
    /\ ~ Served(p)

(* The loop of StartServer over s.active: it knows the profile of an entry *)
(* only through the record of the entry.                                   *)
ProfileBusy(p) == \E t \in active : Recorded(t) /\ prof[t] = p

Init ==
    /\ studio = "up"
    /\ boots = 0
    /\ profiles = Profiles
    /\ launch = [s \in Servers |-> "none"]
    /\ prof \in [Servers -> Profiles]
    /\ port = [s \in Servers |-> NoPort]
    /\ child = [s \in Servers |-> "none"]
    /\ active = {} /\ stopped = {}
    /\ reattached = {} /\ killers = {} /\ closed = {}
    /\ updates = [s \in Servers |-> <<>>]
    /\ serializer = [s \in Servers |-> NoWrite]
    /\ heartbeat = [s \in Servers |-> NoBeat]
    /\ monitor = [s \in Servers |-> "off"]
    /\ rec = [s \in Servers |-> Absent]
    /\ call = [t \in Threads |-> Idle]

------------------------------------------------------------------------------
(* StartServer, one action per critical section or side effect. *)

(* Phase 1: the profile is looked up without the lock.  prof[s], the       *)
(* argument of the call, is chosen in Init.                                *)
LookupProfile(s) ==
    /\ Up
    /\ launch[s] = "none"
    /\ prof[s] \in profiles
    /\ launch' = [launch EXCEPT ![s] = "checked"]
    /\ UNCHANGED <<studioVars, profiles, prof, port, child, entryVars, chanVars,
                   serializer, heartbeat, monitor, rec, call>>

(* Phase 2 grants a reservation under s.mu. *)
Reserve(s, p) ==
    /\ Up
    /\ launch[s] = "checked"
    /\ ~ ProfileBusy(prof[s])
    /\ Fixed[prof[s]] \in {NoPort, p}
    /\ PortAvailable(p)
    /\ active' = active \union {s}
    /\ port' = [port EXCEPT ![s] = p]
    /\ launch' = [launch EXCEPT ![s] = "reserved"]
    /\ UNCHANGED <<studioVars, profiles, prof, child, stopped,
                   reattached, killers, chanVars, serializer, heartbeat,
                   monitor, rec, call>>

(* Phase 2 refuses: the profile is busy, or no port is to be had (another  *)
(* program may hold any port).                                             *)
Refuse(s) ==
    /\ Up
    /\ launch[s] = "checked"
    /\ launch' = [launch EXCEPT ![s] = "failed"]
    /\ UNCHANGED <<studioVars, profiles, prof, port, child, entryVars, chanVars,
                   serializer, heartbeat, monitor, rec, call>>

(* Phase 3: cmd.Start succeeds. *)
Exec(s) ==
    /\ Up
    /\ launch[s] = "reserved"
    /\ child' = [child EXCEPT ![s] = "booting"]
    /\ launch' = [launch EXCEPT ![s] = "forked"]
    /\ UNCHANGED <<studioVars, profiles, prof, port, entryVars, chanVars,
                   serializer, heartbeat, monitor, rec, call>>

(* Phase 3 fails: BuildCommand, the log file or exec. *)
DiscardReservation(s) ==
    /\ Up
    /\ launch[s] = "reserved"
    /\ active' = active \ {s}
    /\ launch' = [launch EXCEPT ![s] = "failed"]
    /\ UNCHANGED <<studioVars, profiles, prof, port, child, stopped,
                   reattached, killers, chanVars, serializer, heartbeat,
                   monitor, rec, call>>

(* Phase 4: proc.cmd is set under s.mu (see HasHandle). *)
Promote(s) ==
    /\ Up
    /\ launch[s] = "forked"
    /\ launch' = [launch EXCEPT ![s] = "promoted"]
    /\ UNCHANGED <<studioVars, profiles, prof, port, child, entryVars, chanVars, serializer, heartbeat,
                   monitor, rec, call>>

(* The goroutines every entry gets, from StartServer and from Reattach. *)
Supervise(S) ==
    /\ serializer' = [s \in Servers |-> IF s \in S THEN [NoWrite EXCEPT !.pc = "recv"]
                                                  ELSE serializer[s]]
    /\ heartbeat' = [s \in Servers |-> IF s \in S THEN [NoBeat EXCEPT !.pc = "tick"]
                                                 ELSE heartbeat[s]]
    /\ monitor' = [s \in Servers |-> IF s \in S THEN "wait" ELSE monitor[s]]

(* SaveServer and the two go statements. *)
SaveRecord(s) ==
    /\ Up
    /\ launch[s] = "promoted"
    /\ rec' = [rec EXCEPT ![s] = [status |-> "starting", pid |-> TRUE]]
    /\ launch' = [launch EXCEPT ![s] = "saved"]
    /\ Supervise({s})
    /\ UNCHANGED <<studioVars, profiles, prof, port, child, entryVars, chanVars,
                   call>>

------------------------------------------------------------------------------
(* The studio process goes down: every goroutine, channel and map entry is *)
(* lost, the records and the children are not.  On Linux the children get  *)
(* SIGTERM (Pdeathsig); Exit below lets them die, or survive as they do on *)
(* macOS.                                                                  *)
GoDown(how) ==
    /\ studio' = how
    /\ launch' = [s \in Servers |-> IF launch[s] \in {"none", "saved"}
                                    THEN launch[s] ELSE "failed"]
    /\ active' = {} /\ stopped' = {}
    /\ reattached' = {} /\ killers' = {} /\ closed' = {}
    /\ updates' = [s \in Servers |-> <<>>]
    /\ serializer' = [s \in Servers |-> NoWrite]
    /\ heartbeat' = [s \in Servers |-> NoBeat]
    /\ monitor' = [s \in Servers |-> "off"]
    /\ call' = [t \in Threads |-> Idle]
    /\ UNCHANGED <<boots, profiles, prof, port, child, rec>>

(* proc.updates <- u, from a step that has set everything but the channel  *)
(* and the variables GoDown resets.  A full channel blocks, a closed one   *)
(* panics (Panic and StopPanics below).                                    *)
CanSend(s) == s \notin closed /\ Len(updates[s]) < QCap
Send(s, u) ==
    /\ CanSend(s)
    /\ updates' = [updates EXCEPT ![s] = Append(@, u)]
    /\ UNCHANGED closed

------------------------------------------------------------------------------
(* The child process. *)

(* llama-server binds its port and loads the model; a second one on the    *)
(* same port cannot bind.                                                  *)
Bind(s) ==
    /\ child[s] = "booting"
    /\ ~ Served(port[s])
    /\ child' = [child EXCEPT ![s] = "ready"]
    /\ UNCHANGED <<studioVars, profiles, launchVars, entryVars, chanVars,
                   serializer, heartbeat, monitor, rec, call>>

(* The child ends, by itself or on a signal, cleanly or not. *)
Exit(s) ==
    /\ Alive(s)
    /\ \E how \in {"exit0", "exit1"} : child' = [child EXCEPT ![s] = how]
    /\ UNCHANGED <<studioVars, profiles, launchVars, entryVars, chanVars,
                   serializer, heartbeat, monitor, rec, call>>

------------------------------------------------------------------------------
(* monitorProcess: the heartbeat goroutine. *)

(* What the heartbeat reports, from the answers to /health and /v1/models. *)
Beat(ok, ready) ==
    IF ok THEN (IF ready THEN "healthy" ELSE "starting")
          ELSE (IF ready THEN "unhealthy" ELSE "starting")

(* Who may answer on a port: a child that has bound it, or any program     *)
(* that is not the studio's.  A probe asks host and port, not a process.   *)
Answering(p) == {Stranger} \union {t \in Servers : child[t] = "ready" /\ port[t] = p}

(* A tick: leave if the entry is gone, else ask /health, and /v1/models as *)
(* long as it has not answered.  (Requests whose answer is still out when  *)
(* the entry goes are cancelled with healthCtx, and count as unanswered.)  *)
Probe(s) ==
    /\ Up
    /\ heartbeat[s].pc = "tick"
    /\ \/ /\ s \notin active
          /\ heartbeat' = [heartbeat EXCEPT ![s] = NoBeat]
       \/ /\ s \in active
          /\ \E ok, models \in BOOLEAN, who \in Answering(port[s]) :
                LET by == IF ok /\ models /\ ~ IsReady(heartbeat[s]) THEN who ELSE heartbeat[s].by
                IN heartbeat' = [heartbeat EXCEPT
                       ![s] = [pc |-> "send", by |-> by, msg |-> Beat(ok, by # NoServer)]]
    /\ UNCHANGED <<studioVars, profiles, launchVars, child, entryVars, chanVars,
                   serializer, monitor, rec, call>>

(* The report is sent with no further look at the context or at s.active.  *)
SendBeat(s) ==
    /\ Up
    /\ heartbeat[s].pc = "send"
    /\ Send(s, heartbeat[s].msg)
    /\ heartbeat' = [heartbeat EXCEPT ![s].pc = "tick", ![s].msg = "starting"]
    /\ UNCHANGED <<studioVars, profiles, launchVars, child, entryVars,
                   serializer, monitor, rec, call>>

------------------------------------------------------------------------------
(* serializeDBUpdates: GetServer and SaveServer are two critical sections. *)

Patch(cur, u) == [status |-> u, pid |-> cur.pid /\ u \notin Terminal]

(* Mutant: a healthy record only ever turns unhealthy. *)
Outdated_TooMuch(cur, u) == cur.status = "healthy" /\ u # "unhealthy"

Outdated(cur, u) == cur.status = "healthy" /\ u = "starting"

Receive(s) ==
    /\ Up
    /\ serializer[s].pc = "recv"
    /\ updates[s] # <<>>
    /\ updates' = [updates EXCEPT ![s] = Tail(@)]
    /\ LET u == Head(updates[s]) IN
       serializer' = IF Recorded(s) /\ ~ Outdated(rec[s], u)
                     THEN [serializer EXCEPT ![s] = [pc |-> "write", cur |-> Patch(rec[s], u)]]
                     ELSE serializer
    /\ UNCHANGED <<studioVars, profiles, launchVars, child, entryVars, closed,
                   heartbeat, monitor, rec, call>>

WriteRecord(s) ==
    /\ Up
    /\ serializer[s].pc = "write"
    /\ rec' = [rec EXCEPT ![s] = serializer[s].cur]
    /\ serializer' = [serializer EXCEPT ![s] = [NoWrite EXCEPT !.pc = "recv"]]
    /\ UNCHANGED <<studioVars, profiles, launchVars, child, entryVars, chanVars,
                   heartbeat, monitor, call>>

(* range over a closed, drained channel ends. *)
SerializerEnds(s) ==
    /\ Up
    /\ serializer[s].pc = "recv"
    /\ s \in closed /\ updates[s] = <<>>
    /\ serializer' = [serializer EXCEPT ![s] = NoWrite]
    /\ UNCHANGED <<studioVars, profiles, launchVars, child, entryVars, chanVars,
                   heartbeat, monitor, rec, call>>

------------------------------------------------------------------------------
(* monitorProcess: the wait for the exit, and what follows it. *)

(* Mutant: the entry is deleted without waiting for the child. *)
Reap_Early(s) ==
    /\ Up
    /\ monitor[s] = "wait"
    /\ active' = active \ {s}
    /\ monitor' = [monitor EXCEPT ![s] = "send"]
    /\ UNCHANGED <<studioVars, profiles, launchVars, child, stopped, reattached,
                   killers, chanVars, serializer, heartbeat, rec, call>>

(* cmd.Wait or the poll of the pid returns: cancel the heartbeat's context *)
(* and delete the entry.                                                   *)
Reap(s) ==
    /\ Up
    /\ monitor[s] = "wait"
    /\ ~ Alive(s)
    /\ active' = active \ {s}
    /\ monitor' = [monitor EXCEPT ![s] = "send"]
    /\ UNCHANGED <<studioVars, profiles, launchVars, child, stopped,
                   reattached, killers, chanVars, serializer, heartbeat, rec,
                   call>>

(* A reattached child is not ours to wait for: its exit code reads 0. *)
FinalStatus(s) ==
    IF child[s] = "exit1" /\ s \notin stopped /\ s \notin reattached
    THEN "crashed" ELSE "stopped"

SendFinal(s) ==
    /\ Up
    /\ monitor[s] = "send"
    /\ Send(s, FinalStatus(s))
    /\ monitor' = [monitor EXCEPT ![s] = "close"]
    /\ UNCHANGED <<studioVars, profiles, launchVars, child, entryVars,
                   serializer, heartbeat, rec, call>>

CloseUpdates(s) ==
    /\ Up
    /\ monitor[s] = "close"
    /\ closed' = closed \union {s}
    /\ monitor' = [monitor EXCEPT ![s] = "done"]
    /\ UNCHANGED <<studioVars, profiles, launchVars, child, entryVars, updates,
                   serializer, heartbeat, rec, call>>

------------------------------------------------------------------------------
(* StopServer, run by a request (t \in Callers) or by main's shutdown      *)
(* (t = s).  A client can only name a server whose record it has seen.     *)

Known(s) == launch[s] = "saved"

Looks(t, s) == \/ t \in Callers /\ call[t].pc = "idle" /\ Known(s)
               \/ t = s /\ call[t].pc = "lookup"

(* The entry is found under s.mu; the pointer is kept after the unlock. *)
StopFound(t, s) ==
    /\ Up
    /\ Looks(t, s)
    /\ s \in active
    /\ call' = [call EXCEPT ![t] = [pc |-> "found", target |-> s, cur |-> Absent]]
    /\ UNCHANGED <<studioVars, profiles, launchVars, child, entryVars, chanVars,
                   serializer, heartbeat, monitor, rec>>

(* Mutant: the map is not consulted. *)
StopMissing_NoLookup(t, s) ==
    /\ Up
    /\ Looks(t, s)
    /\ call' = [call EXCEPT ![t] =
                  IF Recorded(s) /\ rec[s].status \notin Terminal
                  THEN [pc |-> "save", target |-> s,
                        cur |-> [rec[s] EXCEPT !.status = "stopped"]]
                  ELSE Idle]
    /\ UNCHANGED <<studioVars, profiles, launchVars, child, entryVars, chanVars,
                   serializer, heartbeat, monitor, rec>>

(* No entry: a record that still looks alive is read, to be saved as       *)
(* "stopped" with its old PID.                                             *)
StopMissing(t, s) ==
    /\ Up
    /\ Looks(t, s)
    /\ s \notin active
    /\ call' = [call EXCEPT ![t] =
                  IF Recorded(s) /\ rec[s].status \notin Terminal
                  THEN [pc |-> "save", target |-> s,
                        cur |-> [rec[s] EXCEPT !.status = "stopped"]]
                  ELSE Idle]
    /\ UNCHANGED <<studioVars, profiles, launchVars, child, entryVars, chanVars,
                   serializer, heartbeat, monitor, rec>>

StopSave(t) ==
    /\ Up
    /\ call[t].pc = "save"
    /\ rec' = [rec EXCEPT ![call[t].target] = call[t].cur]
    /\ call' = [call EXCEPT ![t] = Idle]
    /\ UNCHANGED <<studioVars, profiles, launchVars, child, entryVars, chanVars,
                   serializer, heartbeat, monitor>>

(* proc.stopped = true, without a lock; a reattached entry (or one with no *)
(* handle) is signalled only if its record gives a PID.                    *)
StopMark(t) ==
    /\ Up
    /\ call[t].pc = "found"
    /\ LET s == call[t].target
           byPid == ~ HasHandle(s)
       IN /\ stopped' = stopped \union {s}
          /\ call' = [call EXCEPT ![t] =
                        IF byPid /\ ~ rec[s].pid THEN Idle ELSE [@ EXCEPT !.pc = "send"]]
    /\ UNCHANGED <<studioVars, profiles, launchVars, child, active,
                   reattached, killers, chanVars, serializer, heartbeat,
                   monitor, rec>>

StopSend(t) ==
    /\ Up
    /\ call[t].pc = "send"
    /\ Send(call[t].target, "stopping")
    /\ call' = [call EXCEPT ![t].pc = "signal"]
    /\ UNCHANGED <<studioVars, profiles, launchVars, child, entryVars,
                   serializer, heartbeat, monitor, rec>>

(* Mutant: no killer is armed. *)
StopSignal_NoKiller(t) ==
    /\ Up
    /\ call[t].pc = "signal"
    /\ call' = [call EXCEPT ![t] = Idle]
    /\ UNCHANGED <<studioVars, profiles, launchVars, child, entryVars, chanVars,
                   serializer, heartbeat, monitor, rec>>

(* SIGINT goes out (Exit lets the child obey it) and the killer is armed. *)
StopSignal(t) ==
    /\ Up
    /\ call[t].pc = "signal"
    /\ killers' = killers \union {call[t].target}
    /\ call' = [call EXCEPT ![t] = Idle]
    /\ UNCHANGED <<studioVars, profiles, launchVars, child, active,
                   stopped, reattached, chanVars, serializer, heartbeat,
                   monitor, rec>>

(* Mutant: only reattached children are killed. *)
Kill_ReattachedOnly(s) ==
    /\ Up
    /\ s \in killers \intersect reattached \intersect active
    /\ Alive(s)
    /\ child' = [child EXCEPT ![s] = "exit1"]
    /\ UNCHANGED <<studioVars, profiles, launchVars, entryVars, chanVars,
                   serializer, heartbeat, monitor, rec, call>>

(* 10 s later the child is still there: SIGKILL. *)
Kill(s) ==
    /\ Up
    /\ s \in killers
    /\ Alive(s)
    /\ s \in reattached => s \in active
    /\ child' = [child EXCEPT ![s] = "exit1"]
    /\ UNCHANGED <<studioVars, profiles, launchVars, entryVars, chanVars,
                   serializer, heartbeat, monitor, rec, call>>

(* A send on a closed channel panics.  Nothing recovers it in a heartbeat, *)
(* in main's shutdown or in a benchmark: the Go runtime ends the studio.   *)
Panic ==
    /\ Up
    /\ \/ \E s \in closed : heartbeat[s].pc = "send"
       \/ \E t \in Threads \ Guarded : call[t].pc = "send" /\ call[t].target \in closed
    /\ GoDown("panicked")

(* In the goroutine of an HTTP request net/http recovers it: the request   *)
(* ends without an answer, its entry marked and no signal sent.            *)
StopPanics(t) ==
    /\ Up
    /\ t \in Guarded
    /\ call[t].pc = "send" /\ call[t].target \in closed
    /\ call' = [call EXCEPT ![t] = Idle]
    /\ UNCHANGED <<studioVars, profiles, launchVars, child, entryVars, chanVars,
                   serializer, heartbeat, monitor, rec>>

------------------------------------------------------------------------------
(* db.DeleteProfile, from the profiles API: the profile and the records of *)
(* its servers go; the supervisor is not asked.                            *)
DeleteProfile(p) ==
    /\ Up
    /\ p \in profiles \intersect Deletable
    /\ profiles' = profiles \ {p}
    /\ rec' = [s \in Servers |-> IF prof[s] = p THEN Absent ELSE rec[s]]
    /\ UNCHANGED <<studioVars, launchVars, child, entryVars, chanVars,
                   serializer, heartbeat, monitor, call>>

------------------------------------------------------------------------------
(* main.go: shutdown, crash, boot. *)

(* SIGTERM: a StopServer goroutine for each record in one of three states. *)
ShutdownBegins ==
    /\ studio = "up"
    /\ studio' = "stopping"
    /\ call' = [t \in Threads |->
                  IF t \in Servers /\ rec[t].status \in {"healthy", "starting", "stopping"}
                  THEN [Idle EXCEPT !.pc = "lookup", !.target = t]
                  ELSE call[t]]
    /\ UNCHANGED <<boots, profiles, launchVars, child, entryVars, chanVars,
                   serializer, heartbeat, monitor, rec>>

(* stopWG is done: main logs "All child processes exited cleanly." and     *)
(* returns, which ends the studio.                                         *)
ShutdownDone ==
    /\ studio = "stopping"
    /\ \A s \in Servers : call[s].pc = "idle"
    /\ GoDown("clean")

ShutdownTimeout ==
    /\ studio = "stopping"
    /\ \E s \in Servers : call[s].pc # "idle"
    /\ GoDown("timeout")

StudioCrash ==
    /\ Up
    /\ boots < MaxBoots
    /\ GoDown("crashed")

(* Mutant: the records of dead children are kept too. *)
Kept_Dead(s) == rec[s].status \notin Terminal /\ rec[s].pid /\ prof[s] \in profiles

(* storage.Open keeps the records of live children whose profile exists;   *)
(* main.go reattaches each of them before the API is served.               *)
Kept(s) == /\ rec[s].status \notin Terminal
           /\ rec[s].pid
           /\ Alive(s)
           /\ prof[s] \in profiles

(* Mutant: main.go reattaches only the healthy servers. *)
Boot_HealthyOnly ==
    /\ ~ Up
    /\ boots < MaxBoots
    /\ boots' = boots + 1
    /\ studio' = "up"
    /\ rec' = [s \in Servers |-> IF Kept(s) THEN rec[s] ELSE Absent]
    /\ LET S == {s \in Servers : Kept(s) /\ rec[s].status = "healthy"} IN
       active' = S /\ reattached' = S /\ Supervise(S)
    /\ UNCHANGED <<profiles, launchVars, child, stopped, killers, chanVars, call>>

Boot ==
    /\ ~ Up
    /\ boots < MaxBoots
    /\ boots' = boots + 1
    /\ studio' = "up"
    /\ rec' = [s \in Servers |-> IF Kept(s) THEN rec[s] ELSE Absent]
    /\ \E S \in SUBSET {s \in Servers : Kept(s)} :
          /\ ReattachMayFail \/ \A s \in Servers : Kept(s) => s \in S
          /\ active' = S
          /\ reattached' = S
          /\ Supervise(S)
    /\ UNCHANGED <<profiles, launchVars, child, stopped, killers,
                   chanVars, call>>

------------------------------------------------------------------------------
Launching(s) == \/ LookupProfile(s) \/ Refuse(s) \/ Exec(s) \/ Promote(s)
                \/ DiscardReservation(s) \/ SaveRecord(s)
                \/ \E p \in Ports : Reserve(s, p)

Goroutines(s) == \/ Probe(s) \/ SendBeat(s)
                 \/ Receive(s) \/ WriteRecord(s) \/ SerializerEnds(s)
                 \/ Reap(s) \/ SendFinal(s) \/ CloseUpdates(s)
                 \/ Kill(s)

Stopping(t) == \/ \E s \in Servers : StopFound(t, s) \/ StopMissing(t, s)
               \/ StopSave(t) \/ StopMark(t) \/ StopSend(t) \/ StopSignal(t)
               \/ StopPanics(t)

Main == \/ ShutdownBegins \/ ShutdownDone \/ ShutdownTimeout
        \/ StudioCrash \/ Boot

Next ==
    \/ \E s \in Servers : Launching(s) \/ Bind(s) \/ Exit(s) \/ Goroutines(s)
    \/ \E t \in Threads : Stopping(t)
    \/ \E p \in Profiles : DeleteProfile(p)
    \/ Panic
    \/ Main

Spec == Init /\ [][Next]_vars

------------------------------------------------------------------------------
(* Safety. *)

(* Two entries of s.active never hold one port, whatever launches,         *)
(* refusals, exits, crashes and adoptions precede: the point of reserving  *)
(* under s.mu in StartServer and of the record being kept while its child  *)
(* lives.  Needs Reattach to succeed (see ReattachMayFail).                *)
PortExclusive ==
    \A s, t \in active : s # t => port[s] # port[t]

(* A record that says "stopped" or "crashed" is never about a living       *)
(* child, although three goroutines (serializer, StopServer without an     *)
(* entry, StartServer) write records from copies they read earlier.        *)
TerminalMeansDead ==
    \A s \in Servers : rec[s].status \in Terminal => ~ Alive(s)

(* The studio has lost a server: its launch was cut off by a crash between *)
(* exec and the first record, or its record went with its profile.         *)
Lost(t) == launch[t] = "failed" \/ ~ Recorded(t)

(* No heartbeat takes another server for its own, although it asks a port  *)
(* and launches, exits, adoptions and new owners of the port go on beside  *)
(* it: a server that made it ready is its own, or one the studio has lost. *)
(* (A stranger on the port is taken for the server: HealthyIsOwn.)         *)
NoNeighbourCounts ==
    \A s, t \in Servers : heartbeat[s].by = t /\ t # s => Lost(t)

(* "healthy" is said only of a child that has come up (docs/spec_v1.md:582 *)
(* "Studio marks server `healthy` when responsive").  Does not hold: any   *)
(* program that answers 200 on the port will do.                           *)
HealthyIsOwn ==
    \A s \in Servers : heartbeat[s].msg = "healthy" => child[s] \notin {"none", "booting"}

(* Once StopServer has marked an entry and every stop of it has returned,  *)
(* the child has been signalled and a killer armed, or it is gone: also    *)
(* for a reattached child, which is found by the PID in its record.  (As   *)
(* long as its profile is there: the record goes with the profile.)        *)
StopReachesChild ==
    \A s \in stopped :
        prof[s] \in profiles /\ (\A t \in Threads : call[t].target = s => call[t].pc = "lookup")
            => s \in killers \/ ~ Alive(s)

(* At most one entry per profile: the check at the head of phase 2, whose  *)
(* comment reads "Prevent duplicate starts for the same profile".  Does    *)
(* not hold: the check finds an entry only once its record is saved.       *)
OnePerProfile ==
    \A s, t \in active : s # t => prof[s] # prof[t]

(* No goroutine sends on a closed channel: monitorProcess closes           *)
(* proc.updates "to exit serializeDBUpdates loop cleanly".                 *)
NoPanic == studio # "panicked"

(* When main.go logs "All child processes exited cleanly." and returns,    *)
(* the children it has signalled are gone.  Does not hold: it waits for    *)
(* the records, which say "stopping" at once.                              *)
CleanShutdown ==
    [][studio' = "clean" /\ Up => \A s \in killers : ~ Alive(s)]_vars

(* Updates of a record are serialized: between the read and the write of   *)
(* serializeDBUpdates nobody else changes the record, so no update is lost *)
(* (the comment in StartServer: "Serialize DB updates through one          *)
(* goroutine").  Does not hold: StopServer without an entry and            *)
(* DeleteProfile write records, too.                                       *)
NoLostUpdate ==
    [][\A s \in Servers : serializer[s].pc = "write" /\ rec'[s] # rec[s]
          => rec'[s] = serializer[s].cur]_vars

(* A record that is terminal stays so: the final status is the last of     *)
(* proc.updates (the comment at supervisor.go:659, after which the channel *)
(* is closed).  Does not hold: a heartbeat whose probe was under way sends *)
(* between the final status and the close, and a dead server is "healthy"  *)
(* until someone stops it or the studio restarts.                          *)
FinalStays ==
    [][\A s \in Servers : rec[s].status \in Terminal
          => rec'[s].status \in Terminal \union {"absent"}]_vars

(* The leases of PortLease, read off the map of entries. *)
Lease == INSTANCE PortLease WITH
            holds <- [s \in Servers |-> IF s \in active THEN port[s] ELSE NoPort],
            running <- {s \in Servers : Alive(s)}

(* The supervisor implements PortLease. *)
LeaseSpec == Lease!Spec

------------------------------------------------------------------------------
(* The inductive invariant behind PortExclusive and TerminalMeansDead.     *)

Ended(s) == child[s] \in {"exit0", "exit1"}

(* A call past its lookup names a server, one with a record if it saves.   *)
TargetOK ==
    \A t \in Threads :
        /\ call[t].pc \in {"found", "send", "signal", "save"}
              => call[t].target \in Servers
        /\ call[t].pc = "save" => launch[call[t].target] = "saved"

(* How far a launch is says what else exists of the server. *)
LaunchOK ==
    \A s \in Servers :
        /\ launch[s] \in {"none", "checked", "reserved"} => child[s] = "none"
        /\ launch[s] \in {"none", "checked"} => s \notin active
        /\ launch[s] \in {"reserved", "forked", "promoted"} => s \in active
        /\ launch[s] \in {"forked", "promoted", "saved"} => child[s] # "none"
        /\ launch[s] # "saved" => monitor[s] = "off" /\ rec[s] = Absent
        /\ s \in active => port[s] \in Ports

(* The goroutines of an entry: the monitor holds the entry in the map      *)
(* until the child has ended, and the serializer never outlives a restart. *)
EntryOK ==
    \A s \in Servers :
        /\ monitor[s] = "wait" => s \in active
        /\ monitor[s] \in {"send", "close", "done"} => Ended(s)
        /\ serializer[s].pc # "off" => monitor[s] # "off"
        /\ s \in closed => Ended(s)
        /\ s \in active => monitor[s] = "wait"
                             \/ launch[s] \in {"reserved", "forked", "promoted"}

(* A living child with a record is supervised while the studio is up; if   *)
(* the studio is down, such children still have ports of their own.        *)
RecordOK ==
    \A s \in Servers :
        Recorded(s) /\ Alive(s) =>
            /\ Up => s \in active
            /\ port[s] \in Ports
            /\ \A t \in Servers \ {s} : Recorded(t) /\ Alive(t) => port[s] # port[t]

(* A terminal status under way is about a child that has ended. *)
TerminalOK ==
    /\ \A s \in Servers :
          /\ \A i \in DOMAIN updates[s] : updates[s][i] \in Terminal => Ended(s)
          /\ serializer[s].cur.status \in Terminal => Ended(s)
          /\ heartbeat[s].msg \notin Terminal
          /\ rec[s].status \in Terminal => Ended(s)
    /\ \A t \in Threads : call[t].pc = "save" => Ended(call[t].target)

(* Nothing of the studio process is left while it is down. *)
DownOK ==
    ~ Up => /\ active = {}
            /\ \A s \in Servers : monitor[s] = "off" /\ serializer[s].pc = "off"
                                      /\ launch[s] \in {"none", "saved", "failed"}
            /\ \A t \in Threads : call[t].pc = "idle"

IInv == /\ TypeOK /\ TargetOK /\ LaunchOK /\ EntryOK
        /\ RecordOK /\ TerminalOK /\ DownOK /\ PortExclusive

------------------------------------------------------------------------------
(* Liveness.  The Go scheduler runs every runnable goroutine, a blocked    *)
(* sender is served in FIFO order (so strong fairness for sends), and the  *)
(* killer's sleep ends.  Nothing is assumed of children, users or boots.   *)
Fairness ==
    /\ \A s \in Servers :
          /\ WF_vars(Receive(s)) /\ WF_vars(WriteRecord(s))
          /\ WF_vars(Reap(s)) /\ SF_vars(SendFinal(s)) /\ WF_vars(CloseUpdates(s))
          /\ WF_vars(Kill(s))
    /\ \A t \in Threads : /\ WF_vars(StopMark(t)) /\ SF_vars(StopSend(t))
                          /\ WF_vars(StopSignal(t)) /\ WF_vars(StopSave(t))

FairSpec == Spec /\ Fairness

(* A stop that finds an entry frees its port in the end: SIGINT, then      *)
(* SIGKILL after 10 s, then the monitor (unless the studio goes down).     *)
StopFreesPort ==
    \A s \in Servers :
        (\E t \in Threads : call[t].pc = "signal" /\ call[t].target = s)
            ~> (s \notin active \/ ~ Up)

(* The end of a supervised child reaches the records: at some later moment *)
(* the record is terminal or gone (but see FinalStays for how long).       *)
ExitIsRecorded ==
    \A s \in Servers :
        (monitor[s] = "wait" /\ ~ Alive(s))
            ~> (rec[s].status \in Terminal \union {"absent"} \/ ~ Up)
==============================================================================
