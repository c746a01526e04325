------------------------------- MODULE Bench -------------------------------
(***************************************************************************)
(* Benchmark runs of one profile (src/internal/bench/runner.go) and the    *)
(* requests that compete with them for the profile: a user who starts,     *)
(* stops and restarts servers and may delete the profile                   *)
(* (src/internal/httpapi/servers.go, profiles.go).                         *)
(*                                                                         *)
(* The supervisor is seen through what its callers rely on: StartServer is *)
(* one step that is refused while an entry of the profile is active;       *)
(* StopServer only asks; the exit, the removal of the entry and the final  *)
(* record follow later, in this order.  Supervisor.tla has the detail.     *)
(***************************************************************************)
EXTENDS Naturals, FiniteSets

CONSTANTS Runs,        \* concurrent POST /api/benchmarks for the profile
          Cells,       \* cells of a run: sweep values or concurrency levels
          MaxServers,  \* bound: servers ever started
          Users,       \* what users do: "start", "stop", "restart", "delete"
          Faults       \* what may go wrong: "exec" (a start), "exit" (a child)

ASSUME ConstAssumption ==
    /\ Cells \in Nat \ {0}
    /\ MaxServers \in Nat
    /\ Users \subseteq {"start", "stop", "restart", "delete"}
    /\ Faults \subseteq {"exec", "exit"}

VARIABLES
    profile,   \* the profile is in the database
    life,      \* life[s]: "none", "up", "exited" (entry active), "gone"
    rec,       \* rec[s]: the status in db.servers[s], or "absent"
    signalled, \* servers StopServer has sent a signal
    running,   \* br.running[profileID]
    pc,        \* pc[b]: where run b of RunBenchmark is
    orig,      \* orig[b]: origSrv, or NoServer when ~ origActive
    srv,       \* srv[b]: the server of the cell
    left,      \* left[b]: cells still to do
    run,       \* run[b]: the status of the stored BenchmarkRun
    by,        \* history: by[s]: the run that started s, and what for
    wasUp,     \* history: wasUp[b]: a server was up when run b began
    restart    \* handleRestartServer: "idle", "stop", "wait"

serverVars == <<life, rec, signalled, by>>
benchVars  == <<running, pc, orig, srv, left, run, wasUp>>
vars == <<profile, serverVars, benchVars, restart>>

Servers == 1..MaxServers
NoServer == 0
NoRun == <<"none", "user">>

Active(s) == life[s] \in {"up", "exited"}
Running(s) == life[s] = "up" /\ s \notin signalled
Terminal == "stopped"

TypeOK ==
    /\ profile \in BOOLEAN
    /\ life \in [Servers -> {"none", "up", "exited", "gone"}]
    /\ rec \in [Servers -> {"absent", "starting", "healthy", "unhealthy",
                            "stopping", Terminal}]
    /\ signalled \subseteq Servers
    /\ running \in BOOLEAN
    /\ pc \in [Runs -> {"idle", "claimed", "saved", "stop", "cell", "wait", "measure",
                        "stopcell", "finish", "restore", "release", "done"}]
    /\ orig \in [Runs -> Servers \union {NoServer}]
    /\ srv \in [Runs -> Servers \union {NoServer}]
    /\ left \in [Runs -> 0..Cells]
    /\ run \in [Runs -> {"none", "running", "error", "completed", "failed"}]
    /\ by \in [Servers -> (Runs \X {"cell", "restore"}) \union {NoRun}]
    /\ wasUp \in [Runs -> BOOLEAN]
    /\ restart \in {"idle", "stop", "wait"}

Init ==
    /\ profile = TRUE
    /\ life = [s \in Servers |-> "none"]
    /\ rec = [s \in Servers |-> "absent"]
    /\ signalled = {}
    /\ running = FALSE
    /\ pc = [b \in Runs |-> "idle"]
    /\ orig = [b \in Runs |-> NoServer]
    /\ srv = [b \in Runs |-> NoServer]
    /\ left = [b \in Runs |-> Cells]
    /\ run = [b \in Runs |-> "none"]
    /\ by = [s \in Servers |-> NoRun]
    /\ wasUp = [b \in Runs |-> FALSE]
    /\ restart = "idle"

------------------------------------------------------------------------------
(* The supervisor. *)

(* The id StartServer gives out next: ids are not used again. *)
Fresh(s) == life[s] = "none" /\ \A t \in Servers : t < s => life[t] # "none"

(* "Prevent duplicate starts": an entry counts while it has a record. *)
Busy == \E s \in Servers : Active(s) /\ rec[s] # "absent"

(* StartServer succeeds with server s on behalf of b. *)
Start(s, b) ==
    /\ profile
    /\ ~ Busy
    /\ Fresh(s)
    /\ life' = [life EXCEPT ![s] = "up"]
    /\ rec' = [rec EXCEPT ![s] = "starting"]
    /\ by' = [by EXCEPT ![s] = b]
    /\ UNCHANGED signalled

(* StartServer fails: the profile is busy or gone, or no port is to be     *)
(* had, or the exec fails.                                                 *)
StartFails ==
    /\ Busy \/ ~ profile \/ "exec" \in Faults
    /\ UNCHANGED serverVars

(* StopServer(s): a signal to an active entry; a record without an entry   *)
(* is closed.                                                              *)
Stop(s) ==
    /\ IF Active(s)
       THEN signalled' = signalled \union {s} /\ UNCHANGED rec
       ELSE /\ UNCHANGED signalled
            /\ rec' = IF rec[s] = "absent" THEN rec ELSE [rec EXCEPT ![s] = Terminal]
    /\ UNCHANGED <<life, by>>

(* serializeDBUpdates stores a heartbeat, or the mark of StopServer.       *)
Report(s) ==
    /\ Active(s)
    /\ rec[s] # "absent"
    /\ \E st \in {"starting", "healthy", "unhealthy", "stopping"} :
          /\ st = "starting" => rec[s] # "healthy"
          /\ st = "stopping" => s \in signalled
          /\ rec' = [rec EXCEPT ![s] = st]
    /\ UNCHANGED <<profile, life, signalled, by, benchVars, restart>>

(* The process ends, on the signal, the kill that follows, or by itself.   *)
Exit(s) ==
    /\ life[s] = "up"
    /\ s \in signalled \/ "exit" \in Faults
    /\ life' = [life EXCEPT ![s] = "exited"]
    /\ UNCHANGED <<profile, rec, signalled, by, benchVars, restart>>

(* monitorProcess removes the entry, *)
Reap(s) ==
    /\ life[s] = "exited"
    /\ life' = [life EXCEPT ![s] = "gone"]
    /\ UNCHANGED <<profile, rec, signalled, by, benchVars, restart>>

(* and the final status reaches the record. *)
Record(s) ==
    /\ life[s] = "gone"
    /\ rec[s] \notin {"absent", Terminal}
    /\ rec' = [rec EXCEPT ![s] = Terminal]
    /\ UNCHANGED <<profile, life, signalled, by, benchVars, restart>>

------------------------------------------------------------------------------
(* RunBenchmark. *)

Goto(b, l) == pc' = [pc EXCEPT ![b] = l]

(* Mutant: the flag is not looked at. *)
Claim_Unchecked(b) ==
    /\ pc[b] = "idle"
    /\ running' = TRUE /\ Goto(b, "claimed")
    /\ UNCHANGED <<profile, serverVars, orig, srv, left, run, wasUp, restart>>

(* br.running under br.mu: a second run of the profile is turned away. *)
Claim(b) ==
    /\ pc[b] = "idle"
    /\ IF running
       THEN UNCHANGED running /\ Goto(b, "done")
       ELSE running' = TRUE /\ Goto(b, "claimed")
    /\ UNCHANGED <<profile, serverVars, orig, srv, left, run, wasUp, restart>>

(* The profile and its model are looked up; the run is stored as running.  *)
SaveRun(b) ==
    /\ pc[b] = "claimed"
    /\ \/ /\ profile
          /\ run' = [run EXCEPT ![b] = "running"]
          /\ wasUp' = [wasUp EXCEPT ![b] = \E s \in Servers : Running(s)]
          /\ Goto(b, "saved")
       \/ /\ ~ profile
          /\ Goto(b, "release")
          /\ UNCHANGED <<run, wasUp>>
    /\ UNCHANGED <<profile, serverVars, running, orig, srv, left, restart>>

(* GetServerByProfile: some record of the profile, of any status, in the   *)
(* order of a Go map.                                                      *)
FindOriginal(b) ==
    /\ pc[b] = "saved"
    /\ IF \E s \in Servers : rec[s] # "absent"
       THEN /\ \E s \in Servers : rec[s] # "absent" /\ orig' = [orig EXCEPT ![b] = s]
            /\ Goto(b, "stop")
       ELSE UNCHANGED orig /\ Goto(b, "cell")
    /\ UNCHANGED <<profile, serverVars, running, srv, left, run, wasUp, restart>>

StopOriginal(b) ==
    /\ pc[b] = "stop"
    /\ Stop(orig[b])
    /\ Goto(b, "cell")
    /\ UNCHANGED <<profile, running, orig, srv, left, run, wasUp, restart>>

(* Mutant: an error of a cell is not an error of the run. *)
StartCell_Lenient(b) ==
    /\ pc[b] = "cell"
    /\ \/ \E s \in Servers :
             /\ Start(s, <<b, "cell">>)
             /\ srv' = [srv EXCEPT ![b] = s]
             /\ Goto(b, "wait")
             /\ UNCHANGED run
       \/ /\ StartFails
          /\ Goto(b, "finish")
          /\ UNCHANGED <<srv, run>>
    /\ UNCHANGED <<profile, running, orig, left, wasUp, restart>>

(* executeCell and executeConcurrencyCell start a server of their own.  An *)
(* error ends the suite.                                                   *)
StartCell(b) ==
    /\ pc[b] = "cell"
    /\ \/ \E s \in Servers :
             /\ Start(s, <<b, "cell">>)
             /\ srv' = [srv EXCEPT ![b] = s]
             /\ Goto(b, "wait")
             /\ UNCHANGED run
       \/ /\ StartFails
          /\ run' = [run EXCEPT ![b] = "error"]
          /\ Goto(b, "finish")
          /\ UNCHANGED srv
    /\ UNCHANGED <<profile, running, orig, left, wasUp, restart>>

Healthy(b) ==
    /\ pc[b] = "wait"
    /\ rec[srv[b]] = "healthy"
    /\ Goto(b, "measure")
    /\ UNCHANGED <<profile, serverVars, running, orig, srv, left, run, wasUp, restart>>

(* Mutant: the deferred stop is armed after the wait for health. *)
GiveUp_NoStop(b) ==
    /\ pc[b] = "wait"
    /\ run' = [run EXCEPT ![b] = "error"]
    /\ Goto(b, "finish")
    /\ UNCHANGED <<profile, serverVars, running, orig, srv, left, wasUp, restart>>

(* Mutant: the wait for health has no end. *)
GiveUp_Never(b) == FALSE /\ UNCHANGED vars

(* Eighty polls, 20 s, without "healthy". *)
GiveUp(b) ==
    /\ pc[b] = "wait"
    /\ run' = [run EXCEPT ![b] = "error"]
    /\ Goto(b, "stopcell")
    /\ UNCHANGED <<profile, serverVars, running, orig, srv, left, wasUp, restart>>

(* The requests of the cell.  A request that fails makes a sample with an  *)
(* error: the cell completes all the same.                                 *)
Measure(b) ==
    /\ pc[b] = "measure"
    /\ left' = [left EXCEPT ![b] = @ - 1]
    /\ Goto(b, "stopcell")
    /\ UNCHANGED <<profile, serverVars, running, orig, srv, run, wasUp, restart>>

(* The deferred StopServer of the cell. *)
StopCell(b) ==
    /\ pc[b] = "stopcell"
    /\ Stop(srv[b])
    /\ Goto(b, IF run[b] = "error" \/ left[b] = 0 THEN "finish" ELSE "cell")
    /\ UNCHANGED <<profile, running, orig, srv, left, run, wasUp, restart>>

(* The run is stored as failed or completed. *)
Finish(b) ==
    /\ pc[b] = "finish"
    /\ run' = [run EXCEPT ![b] = IF @ = "error" THEN "failed" ELSE "completed"]
    /\ Goto(b, IF orig[b] = NoServer THEN "release" ELSE "restore")
    /\ UNCHANGED <<profile, serverVars, running, orig, srv, left, wasUp, restart>>

(* The deferred StartServer; nobody looks at its error. *)
Restore(b) ==
    /\ pc[b] = "restore"
    /\ (\E s \in Servers : Start(s, <<b, "restore">>)) \/ StartFails
    /\ Goto(b, "release")
    /\ UNCHANGED <<profile, running, orig, srv, left, run, wasUp, restart>>

Release(b) ==
    /\ pc[b] = "release"
    /\ running' = FALSE
    /\ Goto(b, "done")
    /\ UNCHANGED <<profile, serverVars, orig, srv, left, run, wasUp, restart>>

Benching(b) ==
    \/ Claim(b) \/ SaveRun(b) \/ FindOriginal(b) \/ StopOriginal(b)
    \/ StartCell(b) \/ Healthy(b) \/ GiveUp(b) \/ Measure(b) \/ StopCell(b)
    \/ Finish(b) \/ Restore(b) \/ Release(b)

------------------------------------------------------------------------------
(* Users. *)

UserStart ==
    /\ "start" \in Users
    /\ \E s \in Servers : Start(s, NoRun)
    /\ UNCHANGED <<profile, benchVars, restart>>

UserStop(s) ==
    /\ "stop" \in Users
    /\ rec[s] # "absent"
    /\ Stop(s)
    /\ UNCHANGED <<profile, benchVars, restart>>

(* handleRestartServer: stop, *)
RestartStop(s) ==
    /\ "restart" \in Users
    /\ restart = "idle"
    /\ rec[s] # "absent"
    /\ Stop(s)
    /\ restart' = "wait"
    /\ UNCHANGED <<profile, benchVars>>

(* then start, when the record is terminal and the port free, or after     *)
(* 20 s, which may pass at any time.                                       *)
RestartStart ==
    /\ restart = "wait"
    /\ (\E s \in Servers : Start(s, NoRun)) \/ StartFails
    /\ restart' = "idle"
    /\ UNCHANGED <<profile, benchVars>>

(* DELETE /api/profiles: the records go with the profile; a process that   *)
(* is up is left alone.                                                    *)
DeleteProfile ==
    /\ "delete" \in Users
    /\ profile
    /\ profile' = FALSE
    /\ rec' = [s \in Servers |-> "absent"]
    /\ UNCHANGED <<life, signalled, by, benchVars, restart>>

Supervising(s) == Report(s) \/ Exit(s) \/ Reap(s) \/ Record(s)

Next ==
    \/ \E b \in Runs : Benching(b)
    \/ \E s \in Servers : Supervising(s) \/ UserStop(s) \/ RestartStop(s)
    \/ UserStart \/ RestartStart \/ DeleteProfile

Spec == Init /\ [][Next]_vars

(* A run is one goroutine whose every wait is bounded: eighty polls, the   *)
(* timeouts of the HTTP client.                                            *)
FairSpec == Spec /\ \A b \in Runs : WF_vars(Benching(b))

------------------------------------------------------------------------------
(* A server a run started for a cell does not outlive the cell: when the   *)
(* run has gone on, the server has ended or has been told to, whatever     *)
(* became of the cell, of its record and of its profile.                   *)
NoOrphan ==
    \A b \in Runs, s \in Servers :
        by[s] = <<b, "cell">> /\ Running(s)
        => pc[b] \in {"wait", "measure", "stopcell"} /\ srv[b] = s

(* Nothing but a user comes between a run and the server it measures: a    *)
(* second run of the profile neither stops it as the "original" server nor *)
(* as its own.  (A step in which a run goes on is not a user's.)           *)
Undisturbed ==
    [][\A b \in Runs :
          pc[b] \in {"wait", "measure"} /\ srv[b] \in signalled' \ signalled
          => UNCHANGED pc]_vars

(* A run that is stored as completed has done every cell of its plan.      *)
CompletedIsWhole ==
    \A b \in Runs : run[b] = "completed" => left[b] = 0

(* A run that was started ends, and lets the next run of the profile in.   *)
RunEnds == \A b \in Runs : pc[b] = "claimed" ~> pc[b] = "done"

(* "Save original server details to restore later if running": a profile   *)
(* that was served when the run began is served when it ends.  Does not    *)
(* hold, also if nothing fails: the start that restores is refused as long *)
(* as the entry of the last server is there.                               *)
Restored ==
    \A b \in Runs :
        pc[b] = "release" /\ wasUp[b] => \E s \in Servers : Running(s)

(* The same comment: a profile that was not served is left so.  Does not   *)
(* hold: a record of any status counts as an original.                     *)
NoneConjured ==
    \A b \in Runs, s \in Servers : by[s] = <<b, "restore">> => wasUp[b]
==============================================================================
