# Formal models of llama-server-studio

llama-server-studio is a Go program that catalogues GGUF models, downloads them
from the Hugging Face Hub, keeps profiles of `llama-server` command lines, runs
one child process per started profile, benchmarks them, and offers a gateway
that routes OpenAI and Anthropic requests to the child that serves a profile.
Its state is shared by HTTP handlers, by three goroutines per child, by the
goroutines of a download, by the benchmark runner and by a boot that finds what
an earlier life of the studio left behind. These modules model that state and
its interleavings in TLA+; TLC checks them on small instances and TLAPS proves
the invariants of every component that has steps, and most of what the
algorithms without steps compute, for every instance.

    tlc -config Supervisor_safe.cfg MCSupervisor     (one run)
    tlapm SupervisorProofs.tla                       (the proofs)

Paths below are relative to `src/`; `PROJECT.json` maps every definition to the
lines it models.

## 1. Inventory

| Component | State | Operations | Hard part |
|---|---|---|---|
| Process supervisor (`internal/process/supervisor.go`, boot and shutdown in `main.go`) | `active` entries, update channels, child processes, server records | StartServer in five phases, StopServer, heartbeat, serializer and monitor goroutines, the killer, Reattach, shutdown | locks released between phases; records read, then written; restart with living children |
| Download jobs (`internal/models/hf_job.go`, `hf_download.go`) | the slot `activeJob`, job and file statuses, `.job.json`, `.part` and final files, history | StartJob, CancelJob, runJob, persistJobLoop, the retry after 10 minutes, RemoveResumableJob, deletion of a model | many goroutines write one job; crash at any point |
| Snapshot file (`persistJob`) | `.job.json` and its temp file | write, rename | two writers, one temp name |
| Download of one file (`downloadOne`) | `.part`, offset, total | skip, 200/206/416, stream, hash, rename | resumption of a file that changed |
| Benchmark runner (`internal/bench/runner.go`) | `running`, stored runs, the original server | RunBenchmark, cells, restore | asynchronous stop; users act meanwhile |
| Benchmark statistics (same file) | none | streamRequest, computeAggregates, generateRecommendation | boundaries |
| Gateway default (`internal/httpapi/settings.go`, `profiles.go`, `internal/config/config.go`) | `GatewayDefaultModel`, `config.json` | set, clear, delete profile, resolve | no lock; two stores |
| Gateway router (`internal/router/proxy.go`) | none of its own | candidate selection, forwarding | the record is older than the connection |
| Model catalog (`internal/models/scanner.go`, `internal/storage/db.go`) | model records, the directory | scan and replace, AddManualModel with pairing, hide, delete | a scan and a download at once |
| Directory walk (`walkDirRecursive`) | visited set | recursive walk | symlink cycles and a depth limit |
| Command line (`internal/profiles/manager.go`, the merge in `supervisor.go`) | none | override merge, BuildCommand | flags without values, values without flags |
| Anthropic endpoint (`internal/httpapi/anthropic.go`) | none | request, reply and stream translation | chunks in any order |
| Model of a request (`extractModel` in `internal/httpapi/api.go`) | the request's body, replaced while it is read | look into query, JSON or form | size limits, bodies of unknown length |
| Storage (`internal/storage/db.go`) | tables in memory and as JSON files, bounded lists | put, delete, append, `save`, clean-up at boot, tail of a log | memory first, then one file after the other; crash and failure between |
| Telemetry (`internal/stats/monitor.go`, the samples of `proxy.go`) | `metricsCache`, the list of samples | a round every two seconds, one sample per request | records older than the scrape |
| GGUF reader (`internal/gguf/reader.go`) | the position in the file | read a header | nested and long arrays, cut files |
| Authentication (`internal/httpapi/api.go`), configuration, Hub metadata (`hf_api.go`), quick test, web UI | see section 8 | | |

How they interact. HTTP handlers call the supervisor, the job manager, the
runner and the database directly, each in its own goroutine. The supervisor
and the database have a mutex each (`s.mu`, `db.mu`) and neither is held
across a call to the other for long: every model here takes one critical
section as one step. The runner calls StartServerWithOverrides and StopServer
like any handler. The router reads server records only, so it sees what the
serializer has written. The downloader calls AddManualModel, which races with
a scan. Deleting a profile removes its server records, saves two files and, in a
separate step, clears the gateway default. The sampler reads server records
and asks whoever listens on their ports; it and the router write one list.

What makes each correct is, in short: no port is ever leased twice and a
record that calls a child dead is right (supervisor); the slot is held by the
job whose worker is at work, a cancel is final, and a crash loses nothing
(jobs); what is renamed into place is whole (file download); no measurement is
disturbed by another run and no server is left behind (runner); the default in
memory, on disk and in the profiles agree (default); what an admin was told is
on disk, whatever fails or dies later (storage); a request reaches the server
it was meant for unless that server has ended (router), and so do the counters
of a sample (telemetry); what was downloaded is listed and paired (catalog).

## 2. Modules

| Module | Models | Step |
|---|---|---|
| `Supervisor` | supervisor, its goroutines, server records, boot, shutdown | one critical section of `s.mu` or `db.mu`, one channel operation, one event of a child |
| `PortLease` | abstract: who holds which port | |
| `SupervisorProofs`, `DownloadJobProofs` | theorems about the module each is named after, and about its abstract specification | |
| `BenchProofs`, `CatalogProofs` | theorems about the module each is named after | |
| `FileDownloadProofs`, `StorageProofs`, `TelemetryProofs` | theorems about `FileDownload` and `JobFile`; about `Storage` and `DefaultModel`; about `Router` and `Telemetry` | |
| `AlgorithmProofs` | theorems about `Algorithms` | |
| `DownloadJob` | the job manager, its goroutines, the directory on disk | one critical section of `activeJobMu` or one file operation |
| `JobSlot` | abstract: who holds the download slot, how jobs end | |
| `JobFile` | `persistJob` of two goroutines | one system call |
| `FileDownload` | `downloadOne` over several attempts | one HTTP answer, one read, one rename |
| `Bench` | RunBenchmark, users who compete for the profile | one call of the supervisor or the database |
| `Storage` | the tables, `db.mu`, `save`, the opening of the store | a mutation under `db.mu`, one file operation of `save`, the return |
| `DefaultModel` (extends `Storage`) | default model, `config.json`, the handlers that touch profiles, resolution, the start of the studio | one read or write of `s.cfg`, one step of the store, one file operation |
| `Router` | a request from lookup to answer, lives of servers and ports | one lookup, one connection |
| `Telemetry` (extends `Router`) | the sampler beside the router, the list of samples | one look at the records, one process, one scrape, one append |
| `Catalog` | scan, AddManualModel, hide, delete | one call of the database, one look at the directory |
| `DirWalk`, `ProfileArgs`, `ChatStream`, `BenchReport`, `GatewayRequest`, `GgufReader`, `LogTail` | pure algorithms | none: operators |
| `Algorithms` | the algorithms, each with an input, and what must hold of it | none: invariants |
| `MC...` | instances for TLC | |

`Bench` and `Router` see the supervisor through what its callers rely on: a
start is one step that is refused while an entry of the profile is active, a
stop only asks, the exit, the removal of the entry and the final record follow
later in this order. `Supervisor` has these steps in full; the order (monitor
removes the entry, then sends the final status) is its `Reap`, `SendFinal`,
`CloseUpdates`. `DownloadJob` takes the write of `.job.json` and the bytes of a
file as one step each; `JobFile` and `FileDownload` have their insides.

How to read `Supervisor`. `launch[s]` is the program counter of the
StartServer call that makes server `s` (LookupProfile, Reserve, Exec, Promote,
SaveRecord); `call[t]` that of a StopServer call (`lookup` when it has the id,
`found` when it has the entry, `send`, `signal`; or `save` when there is no
entry and the record is written directly); `monitor[s]`, `serializer[s]`,
`heartbeat[s]` those of the goroutines; `updates[s]` is the buffered channel.
Timeouts may fire whenever they are armed, ports may be taken by other
programs and these may answer a health probe, children may end at any time, and
StudioCrash may strike between any two steps. `heartbeat[s].by` is `isReady`
with the server, or the `Stranger`, whose answer has set it; the code knows only
that one came. `Guarded` are the callers whose goroutine net/http guards: the
panic of an HTTP request that stops a server is recovered (`StopPanics`), that
of a heartbeat, a benchmark or the shutdown ends the studio (`Panic`). `Boot` is `Open`'s clean-up together with the reattach loop, which
run before any handler does.

How to read `DownloadJob`. `worker[j]` is the goroutine StartJob spawns
(initial write, files, final snapshot, history), `loop[j]` is persistJobLoop,
`monitors` are the startMonitorWorker goroutines asleep; `shot` is a snapshot
taken under the lock and not written yet, so that a write may carry old news.

How to read `Storage` and `DefaultModel`. `mem` and `disk` are the tables and
the files they are saved in; `call` is the writer that holds `db.mu`: what it
asked for, the tables it has `todo`, how far the file at hand is (`ready`, its
temp file `torn` by the truncation, `whole`), and whether it failed. `told[p]`
is what the last caller about profile `p` was answered. `DefaultModel` adds
`default` (`s.cfg`), `file` (`config.json`, which `SaveConfig` truncates in
place) and `op[t]`, the handler an admin is in; its steps that touch the store
are the steps of `Storage`, which `StudioUsesStorage` proves, so that a theorem
about the store holds of the studio.

How to read `Telemetry`. `sampler` is the round of StartMonitor (`todo`: the
servers whose records it has read and not looked at yet); `cache[s]` is
`metricsCache`; `from` says which server really answered a scrape and `real`
what the measured server had really generated by then, neither of which the
code can see: the properties compare the two.

Abstractions common to all: ids, names and payloads are model values; logs and
wording are left out; a clock is a nondeterministic choice.

## 3. Runs

Each run answers one question. Times are for two workers; every run is
exhaustive within its bounds.

| Run | Instance | Shows |
|---|---|---|
| `Supervisor_safe` | 2 servers, 2 profiles (one with a fixed port), 2 ports, 1 caller and the shutdown's callers, queue of 1, 1 restart, 1 deletable profile | `IInv`, `TerminalMeansDead`, `StopReachesChild`, `PortExclusive`, `NoNeighbourCounts`, refinement `LeaseSpec` |
| `Supervisor_live` | 1 server, queue of 1, fairness | `StopFreesPort`, `ExitIsRecorded` |
| `Supervisor_panic` | 1 server, queue of 2 | `NoPanic` is violated (section 6) |
| `DownloadJob_slot` | 2 jobs of one repository, 1 file each, 1 retry, a user who deletes | `SlotMatchesWorker`, `CancelSticks`, refinement `SlotSpec` |
| `DownloadJob_live` | 1 job of 2 files, 1 retry, 1 crash, fairness | `CompletedOnDisk`, `CrashTrail`, `QuietTrail`, `CancelEnds` |
| `JobFile_settle` | 4 versions of a job, 2 writers, fairness | `Settled`, `Heals` |
| `FileDownload` | 3 versions of 3, 4 and 3 bytes, with hash and without, 2 failures, fairness | `FinalIntact`, `DoneMatchesListing`, `NeverWedged` |
| `Bench` | 2 runs of 2 cells, 2 servers, all users and faults, fairness | `NoOrphan`, `CompletedIsWhole`, `Undisturbed`, `RunEnds` |
| `Persistence` | 2 profiles, 1 server, 1 admin and a background caller, history of 1 with 2 downloads, 1 failing write, 2 crashes, 1 request | `DefaultExists`, `ToldIsTrue`, `HistoryKept` |
| `Gateway` | 2 servers, 2 profiles, 2 ports, 1 request, 2 seconds, 1 token per server, a list of 1 sample | `StrayOnlyAfterEnd`, `TurnedAwayOnlyAfterEnd`, `CountersOwn`, `RatesMeasured` |
| `Catalog` | 2 models and a projector, 1 user | `DownloadListed`, `Paired`, `ScanIsExact` |
| `Algorithms` | every graph of 4 directories with depth 2, argument lists of 4 options, streams of 5 lines, 21 samples, 4 cells, requests of 4 parts around limits of 2 and 3, headers of 2 pairs with 7 cuts, logs of 5 bytes in pieces of 1 to 3 | `WalkFindsAll`, `CommandSound`, `StreamFaithful`, `FiguresAsMeasured`, `RequestWhole`, `FilesReadRight` |

The type invariants of the modules are conjuncts of the inductive invariants
(`IInv`, `StoreInv`, `RouterInv`); `IInv` of the supervisor is checked too.

Why the bounds are enough.

* `Supervisor_safe`. What can clash needs two entries and two claims on one
  port: a fixed port and one taken from the range. One restart makes every
  kind of record a boot can find. A queue of one makes every sender block.
  The constraint `Focused` of `MCSupervisor` cuts the product of what does
  not interact: with two servers the search has launches, exits and either
  record updates with a restart or heartbeats, the heartbeats until a stranger
  has made one ready (`Supervisor_live` has no such limit); with one server it
  has stops, shutdown and deletion of the profile. The callers of the runs are
  HTTP requests (`Guarded`), the shutdown's goroutines are the unguarded ones; a
  benchmark's stop is like theirs. `IInv` is proved without any of
  these bounds.
* `DownloadJob_slot` has `LastTick`: the persist loop is only followed at the
  end, because the slot does not depend on `.job.json`. `DownloadJob_live`
  has no such bound.
* `FileDownload`: three versions let a file grow and shrink back to the same
  length with other bytes, the case in which sizes do not tell versions
  apart; two failures make two resumptions. The length is left open by the
  server in some answers (`OpenEnded`).
* `Bench`: two servers are the one of a user and the one of a cell, in either
  order, so that a run may find an original, lose it, and be refused; two runs
  contend for one profile, which is the grain of `running`.
* `Persistence`: two profiles are the one being deleted and another whose save
  writes the same file; a history of one is cut by the second download; one
  failing write and two crashes hit any two places, also the start after the
  first crash. `OneThing` follows a request to the gateway only while no
  download was recorded and nothing has failed: neither reads what the other
  writes. All three properties are proved without bounds, `DefaultExists` for one admin.
* `Gateway`: a stray answer needs the end of one server and the start of
  another on its port. `OneObserver` follows either a request or the sampler,
  which share only the list of samples; servers are symmetric, their profiles
  are not. One token makes a rate of one, a rate of nothing and the rate of
  everything after a failed scrape. All four properties are proved without
  these bounds.
* `Catalog`: two models make partial pairing possible (one paired, one not).
* `Algorithms`: four directories and depth two give cycles, diamonds, nested
  and repeated roots, and paths cut by the limit; 21 samples separate the
  50th, 90th and 95th percentiles; bodies are shorter than, as long as and
  longer than both limits; arrays are up to two longer than what is kept and
  one is of arrays; a line of a log lies in up to five pieces. `MaxNesting`
  (values within values, which the code does not limit) and `Huge` (numbers are
  told apart up to it) are any numbers in the proofs.

CHECK_DEADLOCK is off where the system really comes to rest: every launch,
job, run or request of the instance is over, or the studio is down for good.

## 4. Fairness

* `Supervisor!Fairness`: the Go scheduler runs every goroutine that can run
  (weak fairness of Receive, WriteRecord, Reap, CloseUpdates, the steps of a
  StopServer call); a sender blocked on a full channel is served in FIFO order
  (strong fairness of SendFinal and StopSend); the 10 s sleep of the killer
  ends. Nothing is assumed of children, users, heartbeats or boots: a child
  may ignore SIGINT for ever, which is what the killer is for.
* `DownloadJob!Fairness`: the goroutines' own steps, and a download once its
  context is cancelled, since the context aborts request and stream. Nothing
  is assumed of a download that is not cancelled: the client has no timeout.
* `JobFile!FairSnapSpec`: the ticker fires and file operations end.
* `FileDownload!FairSpec`: the user keeps trying (strong fairness of a
  start), the server answers and the stream is read; failures are bounded.
* `Bench!FairSpec`: a run is one goroutine whose waits are bounded (80 polls,
  client timeouts). Nothing is assumed of users or of children.

## 5. Proofs

Eight modules hold theorems, for every value of the constants their assumptions
allow (TLC evaluates the assumptions in the runs).

### The supervisor

`SupervisorProofs`, for every set of servers, profiles, ports and callers,
every queue capacity and number of restarts:

| Theorem | States |
|---|---|
| `InductiveInvariant` | `Spec => []IInv` |
| `TypeCorrect` | `Spec => []TypeOK` |
| `PortsAreExclusive` | `Spec => []PortExclusive` |
| `TerminalRecordsAreTrue` | `Spec => []TerminalMeansDead` |
| `NeighboursDoNotCount` | `Spec => []NoNeighbourCounts` |
| `StopsReachTheChild` | `Spec => []StopReachesChild` |
| `ImplementsPortLease` | `Spec => LeaseSpec`: every step of the supervisor is a step of `PortLease` or leaves it unchanged |
| `LeasesAreExclusive` | `LeaseSpec => []Lease!Exclusive`: the abstract specification alone promises exclusive ports |

All but the last assume `~ ReattachMayFail`: Reattach opens the child's log file and gives
up on the child if that fails; the child then lives on without an entry, on a
port the studio believes to be free. Everything else is in the constants'
assumptions (`ConstAssumption`), which TLC evaluates in the runs.

The argument. `PortExclusive` is not inductive: a restart empties `active`
and rebuilds it from records, so exclusivity of the entries after a boot rests
on exclusivity of the ports in the records of living children before it.
`RecordOK` says so; it holds because a living child with a record is in
`active` as long as the studio is up (also `RecordOK`), which in turn holds
because an entry leaves `active` only in `Reap`, when its child has ended
(`EntryOK`), or in a refusal before its child exists (`LaunchOK`).
`TerminalMeansDead` is not inductive either: a terminal status may sit in the
channel, in the serializer's hand or in a StopServer call that found no entry
before it reaches the record. `TerminalOK` says that each of these is about a
child that has ended, and `TargetOK` that a call past its lookup names a server
whose launch is over. `DownOK` says that nothing of the process is left while
it is down. `IInv` is the conjunction of all of them with `TypeOK`; run
`Supervisor_safe` checks it as an invariant, and `NextIInv` proves that it is
inductive with one lemma per group of actions (launching, child, goroutines,
stopping, deletion, going down, boot, shutdown). `ImplementsPortLease` uses
`IInv` in both states of a step: `Reserve` maps to Acquire, `Exec` to Launch,
`Exit` to Exit, `Reap` and a discarded reservation to Release, the ways down to
Forget, `Boot` to Adopt.

Two invariants lie on top of `IInv`. `NeighbourInv`: a server that made the
heartbeat of another ready is `Forgotten`, a child that lives without an entry
although its launch is over. When a probe is answered by another server on the
port, ports being exclusive, that server has no entry (`AnsweringIsKnown`); and
since no serializer and no stop is left that would write its record, it stays
forgotten (`ForgottenStays`), also when it has ended long ago. `StopInv`: a marked entry has
its killer or a call that is about to send the signal (`StopHeld`), which for a
reattached child needs that no writer takes the PID out of its record
(`PidKept`), and that only servers whose launch is over are stopped or adopted
(`SavedOnly`).

### Download jobs

`DownloadJobProofs`, for every set of jobs, repositories and files, every
number of retries and restarts:

| Theorem | States |
|---|---|
| `InductiveInvariant` | `Spec => []IInv` |
| `SlotIsHeldByTheWorker` | `Spec => []SlotMatchesWorker` |
| `CompletedJobsAreOnDisk` | `Spec => []CompletedOnDisk` |
| `CancelIsFinal` | `Spec => CancelSticks` |
| `ImplementsJobSlot` | `Spec => SlotSpec` |
| `SlotsHaveOneHolder` | `SlotSpec => []Slot!OneHolder /\ Slot!EndsLast`: what the abstract specification promises |
| `TrailInvariant` | `Spec => []TrailOK` |
| `CrashesLeaveATrail` | `Spec => []CrashTrail` |
| `TrailsTellTheEnd` | `Spec => []QuietTrail` |

`SlotMatchesWorker` alone is not inductive: that the slot is given back by its
holder needs that only the active job's worker is at its files and that a worker
past them has a terminal status (`WorkerOK`), that a job that was never started
or was lost holds nothing (`IdleOK`), and that a monitor sleeps only for a
partial job without a worker (`MonitorOK`). `CompletedOnDisk` needs the outcome
a file was given to agree with the directory through a retry, which trusts it
(`OutcomeOK`); `CancelSticks` that a context is cancelled as long as its job is
cancelling, and that only its files are marked so (`ContextOK`, `FilesOK`).

The two properties of `.job.json` speak of a job whose directory is its own
(`Alone`); `TrailOK` says what holds of such a job beside `IInv`: whose
snapshots the worker and the persist loop have in their hands, that the loop
lives as long as the job does, and that a snapshot either of them has taken
after the end is the last state of the job. From it follows that whoever writes
last writes the truth, although each writes from a snapshot that may be old. A
job that is alone after a step was alone before it (`AloneBefore`), which is
what makes `TrailOK` inductive with its premise.

### The snapshot file and the download of one file

`FileDownloadProofs`, for any number of snapshots, and for any versions of a file,
of any length, and any number of attempts:

| Theorem | States |
|---|---|
| `SnapshotSettles` | `SnapSpec => []Settled` |
| `FinalFilesAreWhole` | `Spec => []FinalIntact` |
| `DoneFilesAreAsListed` | `Spec => []DoneMatchesListing` |

`Settled` speaks of the end; `WillBeGood` says what holds once the loop has
opened the temp file for the last time: the file that the next rename moves, or
the last one has moved, has the final state or has a writer that will put it
there, although the other writer may truncate, fill or rename the same inode.
`FinalIntact` needs, for a file without a hash, that everything on disk and on
its way is of the first version as long as the file has not changed upstream,
and that what is on disk and what is still to be read add up to its length
(`OneVersion`).

### The benchmark runner

`BenchProofs`, for every set of runs, number of cells and servers, and whatever
users there are and faults may happen:

| Theorem | States |
|---|---|
| `NoServerOutlivesItsCell` | `Spec => []NoOrphan` |
| `CompletedRunsAreWhole` | `Spec => []CompletedIsWhole` |
| `OnlyUsersDisturb` | `Spec => Undisturbed` |

`BenchInv` adds to the invariants that `br.running` is held by at most one run
and by whoever is past its claim (`OneInside`), that a run at a cell has started
the server it waits for (`CellOwned`), and how the status and the cells left
agree with the place a run is at (`CountTrue`). `OneInside` is what
`Undisturbed` rests on: while one run waits or measures, another can only be
turned away, and the run itself signals a server at the start of a suite
(`StopOriginal`) or after a cell (`StopCell`), where it goes on.

### The store

`StorageProofs`, for every set of profiles, servers and callers, every length of
history, number of downloads, failing writes and crashes:

| Theorem | States |
|---|---|
| `StoreInvariant` | `StoreSpec => []StoreInv` |
| `StudioUsesStorage` | `Spec => StoreSpec`: whatever the gateway's handlers, `config.json` and the start of the studio do, the store only makes steps of `Storage` |
| `AnswersAreTrue` | `Spec => []ToldIsTrue` |
| `DownloadsAreRemembered` | `Spec => []HistoryKept` |
| `DefaultsExist` | `Spec => []DefaultExists`, for one admin (`OneAdmin`); with two it does not hold (section 6) |

`ToldIsTrue` speaks of calls that have returned; `CallOK` says of the call that
holds `db.mu` what it has brought to disk when its list of tables is empty and
nothing has failed, and that its own profile is promised to nobody meanwhile.
`HistoryKept` needs that a history holds consecutive numbers in order
(`InOrder`), in memory and on disk: a save of the history after a failed one
writes both entries, and cutting at the old end can only drop entries that are
older than what was promised. `StudioUsesStorage` needs an invariant of the
handlers, `HandlerInv`: their types, and that what they save is a profile.
`DefaultExists` speaks of the time between two requests; `DefaultInv` says of the
request under way that a call about a profile is its own (`CallOfAdmin`), how far
its save of `config.json` is (`FileFollows`), and that what it is about to assign
is none or a profile (`DefaultFine`): after a deletion the default may name
nothing only until the same request has cleared it.

### The router and the sampler

`TelemetryProofs`, for every set of servers, profiles, ports and requests, any
clock, any number of tokens and any length of the list:

| Theorem | States |
|---|---|
| `StraysComeAfterTheEnd` | `Spec => []StrayOnlyAfterEnd` |
| `TurnedAwayAfterTheEnd` | `Spec => []TurnedAwayOnlyAfterEnd` |
| `CountersAreOwn` | `SampleSpec => []CountersOwn` |
| `RatesAreMeasured` | `SampleSpec => []RatesMeasured` |

`RouterInv` carries the argument of the first two: two servers whose entries
are both there have different ports, so whoever listens on a server's port
while its entry is there is that server; and a record that was ever healthy is
of a server that has listened. `SampleInv` adds that `cache`, the sampler's
hands and the list of samples are true of the past: a total that a server gave
itself is what it had generated at that time.

### The catalog

`CatalogProofs`, for every set of models and users:

| Theorem | States |
|---|---|
| `DownloadsStayListed` | `Spec => []DownloadListed` |
| `DownloadsArePaired` | `Spec => []Paired` |
| `ScansAreExact` | `Spec => ScanIsExact` |

Each needs to know what a scan under way has in its hands. A known model whose
record is one of a scan, which the scan will replace, has been or will be seen
(`KnownSeen`); a scan that has seen the projector pairs what it finds
(`ScanPairs`); a model without the projector is about to be paired by the
download that brought it (`ToPair`); and a scan that nothing has cut into knows
the directory as it is (`ScanTrue`).

### The algorithms

`AlgorithmProofs`, for whatever inputs the algorithms may be given; the premise
of each theorem is the type of its input and no more (for a model file: that it
is a header somebody may have written, or the beginning of one):

| Theorem | States |
|---|---|
| `ScansFindAll` | `WalkFindsAll`, for every graph of any number of directories, every depth limit, every list of configured directories |
| `CommandsSound` | `CommandSound`, for every list of arguments over any set of tokens; that an override replaces its option and nothing else, for lists of options that are `plain` (a flag, and at most one value, which has no dash) |
| `StreamsFaithful` | `StreamFaithful`, for every stream: any lines, pieces, reasons and counts |
| `RequestsWhole` | `RequestWhole`, for every request, any limits and any parts |
| `FiguresAreMeasured` | `FiguresAsMeasured`: the figures are what the code means by them, for any number of lines, samples and cells. Section 6 lists where docs/benchmark.md means something else |
| `FilesReadCorrectly` | `FilesReadRight`, for every header with values of every type, nested to any depth, and every place where it may be cut off; and for every log, every size of the pieces and every number of lines |

A loop of the code is a recursive function here, from the number of turns taken
to the state after them. That such a function has the values its definition
says (`Iteration`) and that what holds of the first turn and is kept by every
turn holds of all (by the least number for which it does not) is proved once in
the module and used for every loop. What then has to be found is the invariant
of the loop:

* the walk: a call adds its own directory, nothing that is not within reach, and
  with every directory it adds all that is in it, unless a path was cut
  (`Adds`, `Grown`). The depth of the recursion is the outer induction, from
  the deepest call up, and the directories of a call the inner one
  (`EachAdds`). So the directories seen in the end are closed, and hold every
  level;
* the merge: after the turns of one option the arguments are those of the
  options before it, each replaced or not, and no turn is to be skipped
  (`plain` says that a value is skipped exactly when its flag is replaced);
* `BuildCommand`: every flag of the studio is followed by the studio's value,
  no projector stands without its flag, and what has been seen is in `has`;
* the stream: after every line, the pieces are those of the lines that speak, in
  their order (`Gathered`), and reason and count those given last (`IsLatest`);
* the samples: each of the sorted speeds is in its place (`InPlace`): fewer good
  samples are slower than its index, and at least as many are no faster, which
  is what a percentile counts;
* the header of a model file: where a sequence of bytes stands in a file
  (`Holds`), its reader gives the value and the position behind it if the file
  goes that far (`LiesIn`), and fails if not (`Outcome`). So for numbers, which
  come back from their bytes by induction from the last byte (`IntegerWritten`),
  strings, the elements of a list after every turn (`ElementsAreRead`), values by
  induction over how deeply they are nested (`ValueRead`), and the pairs, of
  which the last with a key counts (`PairsUpTo`);
* the log: the text of the lines so far, with what is left over, is what has
  been read so far, after every byte of a chunk (`CutKeepsText`) and after every
  piece (`ReadKeepsText`), and no line holds a newline.

### Only model-checked

All liveness (ENABLED and fairness are outside the reach of the prover).
Every invariant and action property of the passing runs is a theorem, up to the
premises the theorems name.

## 6. What the code does otherwise than it says

`Supervisor_panic` exhibits one: `monitorProcess` closes `proc.updates` "to exit
serializeDBUpdates loop cleanly" (supervisor.go:659) while others may still send
on it. TLC's behaviour: a heartbeat has probed (:563-584) and is about to
report, its child ends, the monitor removes the entry, sends the final status
and closes the channel (:658-660), and the heartbeat sends (:588-598): a send on
a closed channel panics, nothing recovers it there, and the studio ends. So does
a StopServer call (:452, :471) that found the entry earlier, when the shutdown or
a benchmark makes it. In an HTTP handler (httpapi/servers.go:34-36) net/http
recovers the panic: the request ends without an answer, the studio goes on.

The modules state further expectations of comments and documents that the model
shows not to hold. They are kept as definitions that no run lists, each with
its reason in its comment:

| Definition | Says | What happens |
|---|---|---|
| `Supervisor!OnePerProfile` | supervisor.go:124 "Prevent duplicate starts for the same profile" | the check knows an entry by its record, which is saved in the last phase: two starts that overlap both pass |
| `Supervisor!CleanShutdown` | main.go:312 "All child processes exited cleanly." | the wait goes by records, which StopServer sets to "stopping" at once; killers die with the studio |
| `Supervisor!NoLostUpdate` | supervisor.go:220 "Serialize DB updates through one goroutine" | StopServer without an entry (:436-445) and DeleteProfile write too |
| `Supervisor!StopReachesChild` without its premise on the profile | supervisor.go:430 | a reattached child is signalled by the PID in its record, which goes with the profile |
| `Supervisor!HealthyIsOwn` | docs/spec_v1.md:582 "Studio marks server `healthy` when responsive" | the probe asks host and port (supervisor.go:563-570): any program that answers 200 there makes a server healthy that is still booting. `NoNeighbourCounts` says that no other server of the studio does, unless it has lost it |
| `Supervisor!FinalStays` | supervisor.go:659 "exit serializeDBUpdates loop cleanly" | a heartbeat under way may send between the final status and the close: a server that has ended is "healthy" again until someone stops it or the studio restarts. `ExitIsRecorded` promises the final record at some moment only |
| `DownloadJob!CrashTrail` and `QuietTrail` without their premise `Alone` | hf_job.go:173-175 "still leaves a resumable trail" | one directory, one `.job.json`: a later job or a late writer of the earlier overwrites it |
| `DownloadJob!TrailRemoved` | README.md:225 "auto-removed on success" | the final snapshot stays |
| `JobFile!WholeSnapshot` | hf_download.go:422-424 "atomically via a sibling temp file. Safe to call from any goroutine" | the temp name is shared: one writer truncates what the other renames. `Heals` shows that it does not last while the studio lives |
| `FileDownload!SizeChecked` | docs/hf_support.md:103 "size check only" | without a hash nothing is compared at the end of the stream |
| `FileDownload!PctInRange` | hf_download.go:398 "pct returns 0..100" | a 206 answer of unknown length makes the total one less than what is on disk |
| `Bench!Restored`, `Bench!NoneConjured` | runner.go:131 "restore later if running" | the stop is asynchronous, so the restoring start may be refused; a stopped or crashed record counts as an original |
| `BenchReport!P99IsReported` | docs/benchmark.md:51 "Always report **p50, p90, p99", also :118 | runner.go:536 fills p99 with the 95th percentile |
| `BenchReport!BrokenOffIsError` | docs/benchmark.md:47 "Fraction of requests that 5xx, time out" | runner.go:406-409 leaves the loop when reading fails, a timeout included; the sample counts as good, of speed 0 if no timings came |
| `BenchReport!TiesAreReported` | docs/benchmark.md:227 "Score ties (within 2%) are reported as ties" | runner.go:558-563 names the first of the fastest |
| `DefaultModel!Persisted`, `Transient` | docs/gateway_routing.md:106, :322 | check, assignment and save are separate steps without a lock |
| `DefaultModel!StaleMeansDefault` | docs/gateway_routing.md:238 | the blame compares the name asked for with the default, read again |
| `Router!NoStartingTarget` | docs/gateway_routing.md:212 | a starting server is a candidate |
| `Router!AnsweredByOwn` | docs/gateway_routing.md:69 | the port may have another owner when the connection is made; `StrayOnlyAfterEnd` says when |
| `Catalog!Paired` without its premise on `stale` | docs/multimodal.md:175 | a scan that read the directory before the projector came replaces the pairing |
| `DirWalk!Complete` | scanner.go:303 "up to maxDepth levels" | a directory first met at the limit is marked as seen and not entered again on a shorter path |
| `ProfileArgs!Replaces` with a negative value | supervisor.go:260 "If the original flag had a value, skip it" | `-c -1` overridden leaves `-1` behind |
| `ChatStream!TellsBrokenOff` | (no text: what a client may expect) | a stream that upstream breaks off, or a line beyond 64 KB, ends with `end_turn` |
| `GatewayRequest!CutOff` | api.go:510 "exceeds maximum allowed payload size" | the limit is tested on the announced length; an urlencoded body of unknown length is cut at it and forwarded cut |
| `DefaultModel!SaveBack` | main.go:182-183 "Added in memory only — not persisted to config.json" | `SaveConfig` at main.go:212 writes the configuration as it is in memory |

More behaviours the models have without a property. A failed DeleteProfile
leaves the profile out of memory and in the file: the default names nothing
until the studio restarts, and the next save of any other profile makes the
deletion final (hence the exception in `DefaultExists`). A scrape that fails
counts as a total of zero, so the next rate of that server is that of
everything it ever generated (hence `own` in `RatesMeasured`); entries of
`metricsCache` are never removed. The shutdown does not wait for a save under
way. A job that is deleted while it can be resumed keeps its sleeping monitor,
which downloads its files again; a rescan forgets that a model was hidden.
Furthermore, a crash between the
exec of a child and the save of its record leaves a child nobody knows of on
its port, which answers the probes of the next server that is given the port
(hence `Lost` in `NoNeighbourCounts`), and a heartbeat that was under way when a
server was stopped may set its record from "stopping" back to "healthy" until
the child ends.

## 7. Mutants

Definitions named `X_Something` before a definition `X` are plausible bugs of
the code `X` models: a guard dropped, a check in the wrong order, a missing
reset. `PROJECT.json` names, for every property of every passing run, one that
violates it, so no property holds by the shape of a model.

## 8. Not modelled

* Of the store: benchmark runs (kept like profiles) and metrics, and loss of
  power: a file that was renamed is on disk. A crash is that of the process.
* Of telemetry: seconds, CPU and memory, the gauges a server gives itself.
* Authentication: tests of one request against a map under a lock.
* Hub metadata, quick test, the figures of `ps`: input and output of one call.
  The listing's size and hash enter `FileDownload`.
* A negative number of log lines, and a log that grows while it is read.
* The web interface: it renders what the API returns.
* Of `.job.json`: an os.WriteFile that fails (hf_download.go:439-441, it is
  only logged). A stop before the first record of its server is saved: the API
  names a server only by its record, so `Known` lets no stop begin before.
* Of the runner: a StopServer that blocks on a full channel. It does in
  `Supervisor_live`, where every stop still frees its port.
* Of a request that is cut: a body that still parses because only bytes behind
  its closing brace or boundary were lost. `GatewayRequest` refuses every cut.
* PID reuse: every child has its own PID, so a record never names a process
  the studio did not start.
* Means and deviations of the statistics, times of a sample, headers and
  bodies in the router.

## 9. Plan

Done, most important first, each with its proofs: the supervisor and download
jobs with their abstract specifications, the snapshot file and the bytes of a
file, the runner, the store and the default model on top of it, the router and
the sampler, the catalog; and the algorithms. Left:

1. A composition of `JobFile` with `Storage`: the two ways of writing a file
   by way of a temp file, with and without a lock across the write.
2. The rates of benchmark cells beside a sampler that measures the same server.
