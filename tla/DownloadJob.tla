----------------------------- MODULE DownloadJob -----------------------------
(***************************************************************************)
(* The Hugging Face download manager: src/internal/models/hf_job.go and    *)
(* the worker, persister and retry goroutines of hf_download.go, with the  *)
(* two HTTP handlers of httpapi/models.go that delete what was downloaded. *)
(* A step is one critical section of activeJobMu or one file operation.    *)
(*                                                                         *)
(* The bytes of one file are left to FileDownload.tla, the temp file of    *)
(* persistJob to JobFile.tla: here a write of .job.json is one step.       *)
(***************************************************************************)
EXTENDS Naturals, Sequences, FiniteSets

CONSTANTS Jobs,        \* one per StartJob call
          NoJob,       \* activeJob = nil
          Repos,       \* repository ids (SafeRepoDir is one to one on them)
          Files,       \* file names
          RepoOf,      \* RepoOf[j]: the repository of j
          Select,      \* Select[j]: the files chosen, in order
          Purgeable,   \* bound: repositories the user removes things from
          MaxRetries,  \* bound: resumes by monitor workers
          MaxBoots     \* bound: crashes of the studio

ASSUME ConstAssumption ==
    /\ NoJob \notin Jobs
    /\ RepoOf \in [Jobs -> Repos]
    /\ Select \in [Jobs -> Seq(Files)]
    /\ \A j \in Jobs : Select[j] # <<>>
    /\ Purgeable \subseteq Repos
    /\ MaxRetries \in Nat /\ MaxBoots \in Nat

VARIABLES
    activeJob,  \* the singleton
    status,     \* status[j]: job.Status ("new" before StartJob, "lost" by a crash)
    file,       \* file[j][i]: Status of the i-th file
    cancelled,  \* jobs whose context is cancelled
    worker,     \* worker[j]: the goroutine of StartJob, then runJob
    loop,       \* loop[j]: persistJobLoop
    monitors,   \* jobs with a startMonitorWorker asleep
    history,    \* history[j]: the outcomes recorded by AddDownloadHistory
    clearing,   \* repositories between the deletion of a model and the clearing
    dirs,       \* repositories whose directory exists
    trail,      \* trail[r]: the content of .job.json
    part,       \* .part files on disk
    final,      \* finished files on disk
    retries, boots

memVars  == <<activeJob, status, file, cancelled, worker, loop, monitors, clearing>>
diskVars == <<history, dirs, trail, part, final>>
vars == <<memVars, diskVars, retries, boots>>

------------------------------------------------------------------------------
(* Types and helpers. *)

Done == {"completed", "skipped"}
FileStatuses == {"pending", "running", "failed", "cancelled"} \union Done
Terminal == {"completed", "partial", "cancelled"}

Len_(j) == Len(Select[j])
Disk(j, i) == <<RepoOf[j], Select[j][i]>>
InRepo(S, r) == {d \in S : d[1] = r}

NoTrail == [job |-> NoJob, status |-> "new", file |-> <<>>]
Snapshot(j) == [job |-> j, status |-> status[j], file |-> file[j]]

WorkerOff == [pc |-> "off", at |-> 1, shot |-> NoTrail]
LoopOff == [pc |-> "off", done |-> FALSE, shot |-> NoTrail]

Goes(j, pc) == worker' = [worker EXCEPT ![j].pc = pc]

(* The test of StartJob, ClearActiveJobIfMatches and startMonitorWorker.   *)
Busy == activeJob # NoJob /\ status[activeJob] \in {"running", "cancelling"}

(* Files still to be fetched, for the listing and the retry alike. *)
Pending(j) == {i \in 1..Len_(j) : file[j][i] \notin Done}

Init ==
    /\ activeJob = NoJob
    /\ status = [j \in Jobs |-> "new"]
    /\ file = [j \in Jobs |-> [i \in 1..Len_(j) |-> "pending"]]
    /\ cancelled = {} /\ monitors = {} /\ clearing = {}
    /\ worker = [j \in Jobs |-> WorkerOff]
    /\ loop = [j \in Jobs |-> LoopOff]
    /\ history = [j \in Jobs |-> <<>>]
    /\ dirs = {}
    /\ trail = [r \in Repos |-> NoTrail]
    /\ part = {} /\ final = {}
    /\ retries = 0 /\ boots = 0

------------------------------------------------------------------------------
(* StartJob and CancelJob. *)

(* Mutant: the busy test of the design document, which only knows running. *)
StartJob_RunningOnly(j) ==
    /\ status[j] = "new"
    /\ ~ (activeJob # NoJob /\ status[activeJob] = "running")
    /\ activeJob' = j
    /\ status' = [status EXCEPT ![j] = "running"]
    /\ dirs' = dirs \union {RepoOf[j]}
    /\ Goes(j, "init")
    /\ UNCHANGED <<file, cancelled, loop, monitors, clearing, history, trail,
                   part, final, retries, boots>>

(* A second job is refused while one is running or cancelling. *)
StartJob(j) ==
    /\ status[j] = "new"
    /\ ~ Busy
    /\ activeJob' = j
    /\ status' = [status EXCEPT ![j] = "running"]
    /\ dirs' = dirs \union {RepoOf[j]}
    /\ Goes(j, "init")
    /\ UNCHANGED <<file, cancelled, loop, monitors, clearing, history, trail,
                   part, final, retries, boots>>

(* Mutant: the context is not cancelled. *)
CancelJob_NoSignal ==
    /\ activeJob # NoJob
    /\ status[activeJob] = "running"
    /\ status' = [status EXCEPT ![activeJob] = "cancelling"]
    /\ UNCHANGED <<activeJob, file, cancelled, worker, loop, monitors, clearing, diskVars,
                   retries, boots>>

(* The running job, if any, turns to cancelling and its context is cancelled. *)
CancelJob ==
    /\ activeJob # NoJob
    /\ status[activeJob] = "running"
    /\ status' = [status EXCEPT ![activeJob] = "cancelling"]
    /\ cancelled' = cancelled \union {activeJob}
    /\ UNCHANGED <<activeJob, file, worker, loop, monitors, clearing, diskVars,
                   retries, boots>>

------------------------------------------------------------------------------
(* persistJob: a snapshot under the lock, then a write without it.  The    *)
(* write fails if the directory is gone.                                   *)

Saved(j, shot) == IF RepoOf[j] \in dirs THEN [trail EXCEPT ![RepoOf[j]] = shot] ELSE trail

(* The worker's persistJob: StartJob's before, runJob's after the files.   *)
TakeSnapshot(j) ==
    /\ \/ worker[j].pc = "init" /\ worker' = [worker EXCEPT ![j].pc = "initWrite",
                                                            ![j].shot = Snapshot(j)]
       \/ worker[j].pc = "snap" /\ worker' = [worker EXCEPT ![j].pc = "write",
                                                            ![j].shot = Snapshot(j)]
    /\ UNCHANGED <<activeJob, status, file, cancelled, loop, monitors, clearing,
                   diskVars, retries, boots>>

(* Mutant: the goroutines start before the first snapshot is written. *)
InitialPersist_Skipped(j) ==
    /\ worker[j].pc = "initWrite"
    /\ worker' = [worker EXCEPT ![j] = [WorkerOff EXCEPT !.pc = "next"]]
    /\ loop' = [loop EXCEPT ![j].pc = "tick"]
    /\ UNCHANGED <<activeJob, status, file, cancelled, monitors, clearing, diskVars,
                   retries, boots>>

(* The initial snapshot reaches the disk before the goroutines are spawned. *)
InitialPersist(j) ==
    /\ worker[j].pc = "initWrite"
    /\ trail' = Saved(j, worker[j].shot)
    /\ worker' = [worker EXCEPT ![j] = [WorkerOff EXCEPT !.pc = "next"]]
    /\ loop' = [loop EXCEPT ![j].pc = "tick"]
    /\ UNCHANGED <<activeJob, status, file, cancelled, monitors, clearing,
                   history, dirs, part, final, retries, boots>>

(* persistJobLoop: the test, the snapshot and the write of one tick. *)
LoopTick(j) ==
    /\ loop[j].pc = "tick"
    /\ loop' = [loop EXCEPT ![j].pc = "snap",
                            ![j].done = status[j] \notin {"running", "cancelling"}]
    /\ UNCHANGED <<activeJob, status, file, cancelled, worker, monitors, clearing,
                   diskVars, retries, boots>>

LoopSnapshot(j) ==
    /\ loop[j].pc = "snap"
    /\ loop' = [loop EXCEPT ![j].pc = "write", ![j].shot = Snapshot(j)]
    /\ UNCHANGED <<activeJob, status, file, cancelled, worker, monitors, clearing,
                   diskVars, retries, boots>>

(* Mutant: the loop always ends after a write of a snapshot it took late. *)
LoopWrite_Once(j) ==
    /\ loop[j].pc = "write"
    /\ trail' = Saved(j, loop[j].shot)
    /\ loop' = [loop EXCEPT ![j] = IF status[j] \notin {"running", "cancelling"} THEN LoopOff
                                   ELSE [LoopOff EXCEPT !.pc = "tick"]]
    /\ UNCHANGED <<activeJob, status, file, cancelled, worker, monitors, clearing,
                   history, dirs, part, final, retries, boots>>

LoopWrite(j) ==
    /\ loop[j].pc = "write"
    /\ trail' = Saved(j, loop[j].shot)
    /\ loop' = [loop EXCEPT ![j] = IF loop[j].done THEN LoopOff
                                   ELSE [LoopOff EXCEPT !.pc = "tick"]]
    /\ UNCHANGED <<activeJob, status, file, cancelled, worker, monitors, clearing,
                   history, dirs, part, final, retries, boots>>

------------------------------------------------------------------------------
(* runJob, with what downloadOne does to one file on disk. *)

SetFile(j, s) == file' = [file EXCEPT ![j][worker[j].at] = s]
Advance(j) == worker' = [worker EXCEPT ![j].pc = "next", ![j].at = @ + 1]
Here(j) == Disk(j, worker[j].at)

(* The checkpoint between two files. *)
NextFile(j) ==
    /\ worker[j].pc = "next"
    /\ worker[j].at <= Len_(j)
    /\ IF j \in cancelled
       THEN SetFile(j, "cancelled") /\ Advance(j)
       ELSE SetFile(j, "running") /\ Goes(j, "file")
    /\ UNCHANGED <<activeJob, status, cancelled, loop, monitors, clearing, diskVars,
                   retries, boots>>

(* A matching final file is there already.  Whether it matches (size, and  *)
(* hash when known) is FileDownload's business.                            *)
SkipFile(j) ==
    /\ worker[j].pc = "file"
    /\ Here(j) \in final
    /\ dirs' = dirs \union {RepoOf[j]}
    /\ SetFile(j, "skipped")
    /\ Advance(j)
    /\ UNCHANGED <<activeJob, status, cancelled, loop, monitors, clearing,
                   history, trail, part, final, retries, boots>>

(* The answer is 200 or 206: the .part file is opened. *)
OpenPart(j) ==
    /\ worker[j].pc = "file"
    /\ dirs' = dirs \union {RepoOf[j]}
    /\ part' = part \union {Here(j)}
    /\ Goes(j, "stream")
    /\ UNCHANGED <<activeJob, status, file, cancelled, loop, monitors, clearing,
                   history, trail, final, retries, boots>>

(* Any error but a cancellation, before or after the .part file is opened; *)
(* nothing is deleted.                                                     *)
FailFile(j) ==
    /\ worker[j].pc \in {"file", "stream"}
    /\ dirs' \in {dirs, dirs \union {RepoOf[j]}}
    /\ SetFile(j, "failed")
    /\ Advance(j)
    /\ UNCHANGED <<activeJob, status, cancelled, loop, monitors, clearing,
                   history, trail, part, final, retries, boots>>

(* context.Canceled comes out of the request or of the stream loop. *)
AbortFile(j) ==
    /\ worker[j].pc \in {"file", "stream"}
    /\ j \in cancelled
    /\ dirs' = dirs \union {RepoOf[j]}
    /\ SetFile(j, "cancelled")
    /\ Advance(j)
    /\ UNCHANGED <<activeJob, status, cancelled, loop, monitors, clearing,
                   history, trail, part, final, retries, boots>>

(* The stream is over and .part is renamed, which fails if somebody has    *)
(* removed it; the context is not looked at again.                         *)
FinishFile(j) ==
    /\ worker[j].pc = "stream"
    /\ IF Here(j) \in part
       THEN /\ part' = part \ {Here(j)}
            /\ final' = final \union {Here(j)}
            /\ SetFile(j, "completed")
       ELSE SetFile(j, "failed") /\ UNCHANGED <<part, final>>
    /\ Advance(j)
    /\ UNCHANGED <<activeJob, status, cancelled, loop, monitors, clearing,
                   history, dirs, trail, retries, boots>>

(* Mutant: the job's own status is not looked at first. *)
TerminalStatus_FilesOnly(j) ==
    LET outcomes == {file[j][i] : i \in 1..Len_(j)}
    IN IF outcomes \subseteq Done THEN "completed"
       ELSE IF "cancelled" \in outcomes /\ "failed" \notin outcomes THEN "cancelled"
       ELSE "partial"

(* Mutant: one good file makes a complete job. *)
TerminalStatus_AnyGood(j) ==
    LET outcomes == {file[j][i] : i \in 1..Len_(j)}
    IN IF status[j] = "cancelling" THEN "cancelled"
       ELSE IF outcomes \intersect Done # {} THEN "completed"
       ELSE IF "cancelled" \in outcomes /\ "failed" \notin outcomes THEN "cancelled"
       ELSE "partial"

(* computeTerminalStatus.  A job has at least one file, so it never        *)
(* returns "failed".                                                       *)
TerminalStatus(j) ==
    LET outcomes == {file[j][i] : i \in 1..Len_(j)}
    IN IF status[j] = "cancelling" THEN "cancelled"
       ELSE IF outcomes \subseteq Done THEN "completed"
       ELSE IF "cancelled" \in outcomes /\ "failed" \notin outcomes THEN "cancelled"
       ELSE "partial"

(* The deferred function takes the lock. *)
Finalize(j) ==
    /\ worker[j].pc = "next"
    /\ worker[j].at > Len_(j)
    /\ status' = [status EXCEPT ![j] = IF @ \in {"running", "cancelling"}
                                       THEN TerminalStatus(j) ELSE @]
    /\ Goes(j, "snap")
    /\ UNCHANGED <<activeJob, file, cancelled, loop, monitors, clearing, diskVars,
                   retries, boots>>

PersistFinal(j) ==
    /\ worker[j].pc = "write"
    /\ trail' = Saved(j, worker[j].shot)
    /\ Goes(j, "history")
    /\ UNCHANGED <<activeJob, status, file, cancelled, loop, monitors, clearing,
                   history, dirs, part, final, retries, boots>>

(* AddDownloadHistory, then a monitor worker for a job without success.    *)
RecordHistory(j) ==
    /\ worker[j].pc = "history"
    /\ history' = [history EXCEPT ![j] = Append(@, status[j])]
    /\ monitors' = IF status[j] \in {"failed", "partial"} THEN monitors \union {j}
                                                          ELSE monitors
    /\ worker' = [worker EXCEPT ![j] = WorkerOff]
    /\ UNCHANGED <<activeJob, status, file, cancelled, loop, clearing, dirs, trail,
                   part, final, retries, boots>>

------------------------------------------------------------------------------
(* startMonitorWorker: 10 minutes later, in one critical section.  By then *)
(* the persist loop of the run that failed has long ended (5 s ticks).     *)

Resume(j) ==
    /\ status' = [status EXCEPT ![j] = "running"]
    /\ cancelled' = cancelled \ {j}
    /\ file' = [file EXCEPT ![j] = [i \in 1..Len_(j) |->
                                      IF @[i] \in Done THEN @[i] ELSE "pending"]]
    /\ worker' = [worker EXCEPT ![j] = [WorkerOff EXCEPT !.pc = "next"]]
    /\ loop' = [loop EXCEPT ![j].pc = "tick"]
    /\ retries' = retries + 1

(* Mutant: the monitor resumes its job without comparing it to activeJob. *)
MonitorFires_AnyJob(j) ==
    /\ j \in monitors
    /\ loop[j].pc = "off"
    /\ retries < MaxRetries
    /\ monitors' = monitors \ {j}
    /\ IF ~ Busy /\ status[j] \in {"failed", "partial"} /\ Pending(j) # {}
       THEN Resume(j)
       ELSE UNCHANGED <<status, file, cancelled, worker, loop, retries>>
    /\ UNCHANGED <<activeJob, clearing, diskVars, boots>>

MonitorFires(j) ==
    /\ j \in monitors
    /\ loop[j].pc = "off"
    /\ retries < MaxRetries
    /\ monitors' = monitors \ {j}
    /\ IF ~ Busy /\ activeJob = j /\ status[j] \in {"failed", "partial"} /\ Pending(j) # {}
       THEN Resume(j)
       ELSE UNCHANGED <<status, file, cancelled, worker, loop, retries>>
    /\ UNCHANGED <<activeJob, clearing, diskVars, boots>>

------------------------------------------------------------------------------
(* The user deletes things; no check is made against a running job.        *)

(* The snapshot and the .part files go, and the directory if nothing else  *)
(* is in it.                                                               *)
Purge(r) ==
    /\ trail' = [trail EXCEPT ![r] = NoTrail]
    /\ part' = part \ InRepo(part, r)
    /\ dirs' = IF InRepo(final', r) = {} THEN dirs \ {r} ELSE dirs

RemoveResumableJob(r) ==
    /\ r \in dirs \intersect Purgeable
    /\ UNCHANGED final
    /\ Purge(r)
    /\ UNCHANGED <<memVars, history, retries, boots>>

(* handleDeleteModel.  With delete_file the file goes, and what Purge       *)
(* removes if there is a snapshot.  The job is cleared in a later step, if *)
(* the model knows its repository.                                         *)
DeleteModel(d) ==
    /\ d \in final
    /\ d[1] \in Purgeable
    /\ \/ UNCHANGED <<final, trail, part, dirs>>
       \/ /\ final' = final \ {d}
          /\ IF trail[d[1]] # NoTrail THEN Purge(d[1]) ELSE UNCHANGED <<trail, part, dirs>>
    /\ clearing' \in {clearing, clearing \union {d[1]}}
    /\ UNCHANGED <<activeJob, status, file, cancelled, worker, loop, monitors,
                   history, retries, boots>>

(* Mutant: a running job is cleared too. *)
ClearActiveJobIfMatches_Always(r) ==
    /\ r \in clearing
    /\ clearing' = clearing \ {r}
    /\ activeJob' = IF activeJob # NoJob /\ RepoOf[activeJob] = r THEN NoJob ELSE activeJob
    /\ UNCHANGED <<status, file, cancelled, worker, loop, monitors, diskVars,
                   retries, boots>>

ClearActiveJobIfMatches(r) ==
    /\ r \in clearing
    /\ clearing' = clearing \ {r}
    /\ activeJob' = IF activeJob # NoJob /\ RepoOf[activeJob] = r /\ ~ Busy
                    THEN NoJob ELSE activeJob
    /\ UNCHANGED <<status, file, cancelled, worker, loop, monitors, diskVars,
                   retries, boots>>

------------------------------------------------------------------------------
(* The studio dies and is started again: only the disk is left. *)
Restart ==
    /\ boots < MaxBoots
    /\ boots' = boots + 1
    /\ activeJob' = NoJob
    /\ status' = [j \in Jobs |-> IF status[j] = "new" THEN "new" ELSE "lost"]
    /\ cancelled' = {} /\ monitors' = {} /\ clearing' = {}
    /\ worker' = [j \in Jobs |-> WorkerOff]
    /\ loop' = [j \in Jobs |-> LoopOff]
    /\ UNCHANGED <<file, diskVars, retries>>

OwnStep(j) == \/ TakeSnapshot(j) \/ InitialPersist(j) \/ NextFile(j)
              \/ Finalize(j) \/ PersistFinal(j) \/ RecordHistory(j)

Downloading(j) == \/ SkipFile(j) \/ OpenPart(j) \/ FailFile(j)
                  \/ AbortFile(j) \/ FinishFile(j)

Looping(j) == LoopTick(j) \/ LoopSnapshot(j) \/ LoopWrite(j)

Next ==
    \/ \E j \in Jobs : StartJob(j) \/ OwnStep(j) \/ Downloading(j) \/ Looping(j) \/ MonitorFires(j)
    \/ CancelJob
    \/ \E r \in Repos : RemoveResumableJob(r) \/ ClearActiveJobIfMatches(r)
    \/ \E d \in Repos \X Files : DeleteModel(d)
    \/ Restart

Spec == Init /\ [][Next]_vars

------------------------------------------------------------------------------
(* What a user is shown. *)

(* ListResumableJobs for one directory (readPersistedJob demotes a running *)
(* job, which nothing here tells apart): the files of the snapshot that    *)
(* have a .part or no final file.                                          *)
Listed(r) ==
    IF trail[r] = NoTrail THEN {}
    ELSE {f \in {Select[trail[r].job][i] : i \in 1..Len_(trail[r].job)} :
            <<r, f>> \in part \/ <<r, f>> \notin final}

------------------------------------------------------------------------------
(* Safety. *)

Statuses == {"new", "running", "cancelling", "lost"} \union Terminal

(* The snapshots of a job, and those that the directory of r may hold. *)
Shots(j) == {NoTrail} \union [job : {j}, status : Statuses, file : [1..Len_(j) -> FileStatuses]]
Trails(r) == {NoTrail} \union UNION {Shots(j) : j \in {k \in Jobs : RepoOf[k] = r}}

TypeOK ==
    /\ activeJob \in Jobs \union {NoJob}
    /\ status \in [Jobs -> Statuses]
    /\ DOMAIN file = Jobs
    /\ \A j \in Jobs : file[j] \in [1..Len_(j) -> FileStatuses]
    /\ cancelled \subseteq Jobs /\ monitors \subseteq Jobs
    /\ clearing \subseteq Repos /\ dirs \subseteq Repos
    /\ DOMAIN worker = Jobs
    /\ \A j \in Jobs :
          /\ worker[j] \in [pc : {"off", "init", "initWrite", "next", "file", "stream",
                                "snap", "write", "history"},
                            at : 1..Len_(j) + 1, shot : Shots(j)]
          /\ worker[j].pc \in {"file", "stream"} => worker[j].at <= Len_(j)
    /\ DOMAIN loop = Jobs
    /\ \A j \in Jobs : loop[j] \in [pc : {"off", "tick", "snap", "write"},
                                    done : BOOLEAN, shot : Shots(j)]
    /\ history \in [Jobs -> Seq(Terminal)]
    /\ DOMAIN trail = Repos
    /\ \A r \in Repos : trail[r] \in Trails(r)
    /\ part \subseteq Repos \X Files /\ final \subseteq Repos \X Files
    /\ retries \in 0..MaxRetries /\ boots \in 0..MaxBoots

(* The worker has files before it, so it may still be told to stop. *)
Busily(j) == worker[j].pc \in {"init", "initWrite", "next", "file", "stream"}

(* A job holds the slot exactly while its worker is at its files: whatever *)
(* is downloading is what CancelJob cancels and what makes StartJob answer *)
(* 409, and no job keeps the slot with nobody working on it.  StartJob,    *)
(* the deferred function of runJob, a retry 10 minutes later and the       *)
(* deletion of a model all write activeJob or its status.                  *)
SlotMatchesWorker ==
    \A j \in Jobs :
        status[j] \in {"running", "cancelling"} <=> activeJob = j /\ Busily(j)

(* A cancel that was accepted is final, even if it arrives after the last  *)
(* file: the job ends as cancelled (or with the studio), so no monitor     *)
(* resumes it.                                                             *)
CancelSticks ==
    [][\A j \in Jobs : status[j] \in {"cancelling", "cancelled"} /\ status'[j] # status[j]
          => status'[j] \in {"cancelled", "lost"}]_vars

(* A completed job has all its files under their final names, also after a *)
(* retry, which trusts the outcomes of the earlier run (repositories the   *)
(* user deletes from excepted).                                            *)
CompletedOnDisk ==
    \A j \in Jobs : status[j] = "completed" /\ RepoOf[j] \notin Purgeable
        => \A i \in 1..Len_(j) : Disk(j, i) \in final

(* The directory of j is its own: the user does not delete there, and no   *)
(* other job has used it since the studio was started.                     *)
Alone(j) ==
    /\ RepoOf[j] \notin Purgeable
    /\ \A k \in Jobs \ {j} : RepoOf[k] = RepoOf[j] => status[k] \in {"new", "lost"}

(* Wherever the studio dies, a running job can be resumed: every file that *)
(* is not there yet is listed ("so a hard crash during the first few       *)
(* seconds of work still leaves a resumable trail", hf_job.go).            *)
CrashTrail ==
    \A j \in Jobs :
        Alone(j) /\ status[j] = "running" /\ worker[j].pc \notin {"init", "initWrite"}
        => \A i \in 1..Len_(j) : Disk(j, i) \in final
                               \/ Select[j][i] \in Listed(RepoOf[j])

(* Two goroutines write .job.json, each from a snapshot taken earlier: when *)
(* both are done the file describes the job as it ended.                   *)
QuietTrail ==
    \A j \in Jobs :
        /\ status[j] \in Terminal
        /\ worker[j].pc = "off" /\ loop[j].pc = "off"
        /\ Alone(j)
        => trail[RepoOf[j]] = Snapshot(j)

(* README.md says of .job.json "auto-removed on success".  Does not hold:  *)
(* runJob writes the final snapshot and nothing removes it.                *)
TrailRemoved ==
    \A j \in Jobs :
        status[j] = "completed" /\ worker[j].pc = "off" /\ loop[j].pc = "off"
            => trail[RepoOf[j]] = NoTrail

Slot == INSTANCE JobSlot WITH last <- activeJob, outcome <- status

(* The download manager implements JobSlot. *)
SlotSpec == Slot!Spec

------------------------------------------------------------------------------
(* The inductive invariant behind the theorems of DownloadJobProofs. *)

(* The context of a job is cancelled only while it is cancelling or after. *)
ContextOK ==
    \A j \in Jobs :
        /\ j \in cancelled => status[j] \in {"cancelling", "cancelled"}
        /\ status[j] = "cancelling" => j \in cancelled

(* Files are marked as cancelled only under a cancelled context. *)
FilesOK ==
    \A j \in Jobs : \A i \in 1..Len_(j) :
        file[j][i] = "cancelled" => status[j] \in {"cancelling", "cancelled", "lost"}

(* A job that was never started, or was lost in a crash, holds nothing. *)
IdleOK ==
    \A j \in Jobs :
        status[j] \in {"new", "lost"} => /\ worker[j].pc = "off" /\ loop[j].pc = "off"
                                         /\ j \notin monitors /\ activeJob # j

(* Nobody works on files but the worker of the active job, and a job past  *)
(* its files has ended.                                                    *)
WorkerOK ==
    \A j \in Jobs :
        /\ Busily(j) => activeJob = j
        /\ worker[j].pc \in {"snap", "write", "history"} => status[j] \in Terminal

(* A monitor sleeps only for a job that is partial, and no worker is up.   *)
MonitorOK == \A j \in monitors : status[j] = "partial" /\ worker[j].pc = "off"

(* What a file's outcome says is on disk, and what a job's says of its files. *)
OutcomeOK ==
    \A j \in Jobs : \A i \in 1..Len_(j) :
        /\ file[j][i] \in Done /\ RepoOf[j] \notin Purgeable => Disk(j, i) \in final
        /\ status[j] = "completed" => file[j][i] \in Done

(* The goroutines of a job that has its directory for itself, and what     *)
(* they have in hand.  The worker and the loop both write; whoever writes  *)
(* last writes a snapshot taken after the job had ended: the worker takes  *)
(* its last one then, and the loop ends only with a tick that saw the end  *)
(* before it took its snapshot.                                            *)
TrailOf(j) ==
    LET past == worker[j].pc \notin {"init", "initWrite"}
        over == status[j] \in Terminal
    IN /\ RepoOf[j] \in dirs
       /\ past => trail[RepoOf[j]].job = j
       /\ worker[j].pc = "initWrite" => worker[j].shot.job = j
       /\ worker[j].pc = "write" => worker[j].shot = Snapshot(j)
       /\ ~ over /\ past => loop[j].pc # "off"
       /\ loop[j].pc = "write" => loop[j].shot.job = j
       /\ loop[j].pc \in {"snap", "write"} /\ loop[j].done => over
       /\ loop[j].pc = "write" /\ loop[j].done => loop[j].shot = Snapshot(j)
       /\ over /\ loop[j].pc = "off" => trail[RepoOf[j]] = Snapshot(j)

TrailOK == \A j \in Jobs : Alone(j) /\ status[j] \notin {"new", "lost"} => TrailOf(j)

IInv == /\ TypeOK /\ SlotMatchesWorker /\ ContextOK /\ FilesOK /\ IdleOK
        /\ WorkerOK /\ MonitorOK /\ OutcomeOK

------------------------------------------------------------------------------
(* Liveness.  The goroutines' own steps are taken; a download ends only    *)
(* once its context is cancelled, which aborts request and stream (there   *)
(* is no timeout on the client).                                           *)
Fairness == \A j \in Jobs : /\ WF_vars(OwnStep(j))
                            /\ WF_vars(j \in cancelled /\ Downloading(j))

FairSpec == Spec /\ Fairness

(* A cancelled job frees the slot in the end, wherever its worker was. *)
CancelEnds == \A j \in Jobs : status[j] = "cancelling" ~> status[j] # "cancelling"
==============================================================================
