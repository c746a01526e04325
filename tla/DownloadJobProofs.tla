-------------------------- MODULE DownloadJobProofs --------------------------
(***************************************************************************)
(* Proofs about DownloadJob, for every set of jobs, repositories and files,*)
(* every selection and any number of retries and crashes: the inductive    *)
(* invariant IInv, what .job.json tells (TrailOK), the properties that     *)
(* follow from both, and that the download manager implements JobSlot.     *)
(***************************************************************************)
EXTENDS DownloadJob, TLAPS

(* What a goroutine's state may be. *)
Workers(j) == [pc : {"off", "init", "initWrite", "next", "file", "stream",
                     "snap", "write", "history"},
               at : 1..Len_(j) + 1, shot : Shots(j)]
Loops(j) == [pc : {"off", "tick", "snap", "write"}, done : BOOLEAN, shot : Shots(j)]

(* A selection has at least one file. *)
LEMMA Selections ==
    ASSUME NEW j \in Jobs
    PROVE  /\ Len_(j) \in Nat \ {0}
           /\ \A i \in 1..Len_(j) : Select[j][i] \in Files
           /\ RepoOf[j] \in Repos
BY ConstAssumption DEF Len_

(* The types of the constant records, and of what is read into them. *)
LEMMA RecordTypes ==
    ASSUME NEW j \in Jobs
    PROVE  /\ NoTrail \in Shots(j)
           /\ Shots(j) \subseteq Trails(RepoOf[j])
           /\ WorkerOff \in Workers(j) /\ WorkerOff.pc = "off" /\ WorkerOff.at = 1
           /\ [WorkerOff EXCEPT !.pc = "next"] \in Workers(j)
           /\ [WorkerOff EXCEPT !.pc = "next"].pc = "next"
           /\ LoopOff \in Loops(j) /\ LoopOff.pc = "off"
           /\ [LoopOff EXCEPT !.pc = "tick"] \in Loops(j)
           /\ [LoopOff EXCEPT !.pc = "tick"].pc = "tick"
           /\ TypeOK => Snapshot(j) \in Shots(j)
<1>1. NoTrail \in Shots(j)
  BY DEF Shots
<1>2. Shots(j) \subseteq Trails(RepoOf[j])
  BY DEF Trails
<1>3. WorkerOff \in Workers(j) /\ [WorkerOff EXCEPT !.pc = "next"] \in Workers(j)
  BY <1>1, Selections DEF WorkerOff, Workers
<1>4. LoopOff \in Loops(j) /\ [LoopOff EXCEPT !.pc = "tick"] \in Loops(j)
  BY <1>1 DEF LoopOff, Loops
<1>5. TypeOK => Snapshot(j) \in Shots(j)
  BY DEF TypeOK, Snapshot, Shots
<1>6. QED
  BY <1>1, <1>2, <1>3, <1>4, <1>5 DEF WorkerOff, LoopOff

(* The initial states satisfy the invariant. *)
LEMMA InitIInv == Init => IInv
<1> SUFFICES ASSUME Init PROVE IInv
  OBVIOUS
<1>1. \A j \in Jobs : file[j] = [i \in 1..Len_(j) |-> "pending"]
  BY DEF Init
<1>2. TypeOK
  <2>1. \A j \in Jobs : worker[j] \in Workers(j) /\ loop[j] \in Loops(j) /\ worker[j].pc = "off"
    BY RecordTypes DEF Init
  <2>2. \A r \in Repos : trail[r] \in Trails(r)
    BY DEF Init, Trails
  <2>3. history \in [Jobs -> Seq(Terminal)]
    BY DEF Init
  <2>4. status \in [Jobs -> Statuses] /\ \A j \in Jobs : file[j] \in [1..Len_(j) -> FileStatuses]
    BY <1>1 DEF Init, Statuses, FileStatuses
  <2>5. QED
    BY <2>1, <2>2, <2>3, <2>4, ConstAssumption DEF Init, TypeOK, Workers, Loops
<1>3. \A j \in Jobs : worker[j].pc = "off" /\ loop[j].pc = "off"
  BY RecordTypes DEF Init
<1>4. QED
  BY <1>1, <1>2, <1>3, ConstAssumption
     DEF Init, IInv, SlotMatchesWorker, ContextOK, FilesOK, IdleOK, WorkerOK,
         MonitorOK, OutcomeOK, Busily, Done

(* Stuttering keeps it. *)
LEMMA StutterIInv == IInv /\ UNCHANGED vars => IInv'
BY DEF IInv, TypeOK, SlotMatchesWorker, ContextOK, FilesOK, IdleOK, WorkerOK, MonitorOK,
       OutcomeOK, Busily, vars, memVars, diskVars

------------------------------------------------------------------------------
(* While the slot is free nobody is at work. *)
LEMMA SlotFree ==
    ASSUME IInv, ~ Busy, NEW k \in Jobs
    PROVE  status[k] \notin {"running", "cancelling"} /\ ~ Busily(k)
BY ConstAssumption DEF IInv, Busy, SlotMatchesWorker, WorkerOK

(* StartJob and CancelJob. *)
LEMMA StartJobIInv ==
    ASSUME IInv, NEW j \in Jobs, StartJob(j)
    PROVE  IInv'
<1> USE Selections DEF IInv
<1>1. worker' = [worker EXCEPT ![j].pc = "init"] /\ worker[j].pc = "off"
  BY DEF StartJob, Goes, IdleOK
<1>2. \A k \in Jobs : status[k] \notin {"running", "cancelling"} /\ ~ Busily(k)
  BY SlotFree DEF StartJob
<1>3. TypeOK'
  BY <1>1 DEF TypeOK, StartJob, Statuses
<1>4. SlotMatchesWorker' /\ WorkerOK'
  BY <1>1, <1>2 DEF StartJob, SlotMatchesWorker, WorkerOK, Busily, TypeOK
<1>5. ContextOK' /\ FilesOK' /\ OutcomeOK'
  BY DEF StartJob, ContextOK, FilesOK, OutcomeOK, TypeOK
<1>6. IdleOK' /\ MonitorOK'
  BY <1>1 DEF StartJob, IdleOK, MonitorOK, TypeOK
<1>7. QED
  BY <1>3, <1>4, <1>5, <1>6

LEMMA CancelJobIInv ==
    ASSUME IInv, CancelJob
    PROVE  IInv'
<1> USE Selections DEF IInv
<1>1. activeJob \in Jobs /\ status[activeJob] = "running"
  BY DEF CancelJob, TypeOK
<1>2. TypeOK'
  BY <1>1 DEF TypeOK, CancelJob, Statuses, diskVars
<1>3. SlotMatchesWorker' /\ WorkerOK'
  BY <1>1 DEF CancelJob, SlotMatchesWorker, WorkerOK, Busily, TypeOK, Terminal
<1>4. ContextOK' /\ FilesOK' /\ OutcomeOK'
  BY <1>1 DEF CancelJob, ContextOK, FilesOK, OutcomeOK, TypeOK, diskVars
<1>5. IdleOK' /\ MonitorOK'
  BY <1>1 DEF CancelJob, IdleOK, MonitorOK, TypeOK
<1>6. QED
  BY <1>2, <1>3, <1>4, <1>5

------------------------------------------------------------------------------
(* The snapshots and their writes. *)
LEMMA SavedType ==
    ASSUME TypeOK, NEW j \in Jobs, NEW shot \in Shots(j)
    PROVE  DOMAIN Saved(j, shot) = Repos /\ \A r \in Repos : Saved(j, shot)[r] \in Trails(r)
<1>1. Shots(j) \subseteq Trails(RepoOf[j])
  BY RecordTypes
<1>2. QED
  BY <1>1 DEF Saved, TypeOK

LEMMA PersistingIInv ==
    ASSUME IInv, NEW j \in Jobs,
           TakeSnapshot(j) \/ InitialPersist(j) \/ PersistFinal(j) \/ RecordHistory(j)
    PROVE  IInv'
<1> USE Selections, RecordTypes DEF IInv
<1>1. CASE TakeSnapshot(j)
  <2>1. PICK pc \in {"initWrite", "write"} :
           /\ pc = "initWrite" => worker[j].pc = "init"
           /\ pc = "write" => worker[j].pc = "snap"
           /\ worker' = [worker EXCEPT ![j].pc = pc, ![j].shot = Snapshot(j)]
    BY <1>1 DEF TakeSnapshot
  <2>2. TypeOK'
    <3>1. worker'[j] \in Workers(j) /\ worker'[j].pc \notin {"file", "stream"}
      BY <2>1 DEF TypeOK, Workers
    <3>2. DOMAIN worker' = Jobs /\ \A k \in Jobs \ {j} : worker'[k] = worker[k]
      BY <2>1 DEF TypeOK
    <3>3. QED
      BY <1>1, <3>1, <3>2 DEF TakeSnapshot, TypeOK, diskVars, Workers
  <2>3. SlotMatchesWorker' /\ WorkerOK'
    BY <1>1, <2>1 DEF TakeSnapshot, SlotMatchesWorker, WorkerOK, Busily, TypeOK
  <2>4. ContextOK' /\ FilesOK' /\ OutcomeOK'
    BY <1>1 DEF TakeSnapshot, ContextOK, FilesOK, OutcomeOK, diskVars
  <2>5. IdleOK' /\ MonitorOK'
    BY <1>1, <2>1 DEF TakeSnapshot, IdleOK, MonitorOK, TypeOK
  <2>6. QED
    BY <2>2, <2>3, <2>4, <2>5
<1>2. CASE InitialPersist(j)
  <2> DEFINE w == [WorkerOff EXCEPT !.pc = "next"]
  <2>1. w \in Workers(j) /\ w.pc = "next"
    OBVIOUS
  <2> HIDE DEF w
  <2>2. worker[j].pc = "initWrite" /\ worker' = [worker EXCEPT ![j] = w]
    BY <1>2 DEF InitialPersist, w
  <2>3. trail' = Saved(j, worker[j].shot) /\ worker[j].shot \in Shots(j)
    BY <1>2 DEF InitialPersist, TypeOK
  <2>4. TypeOK'
    <3>1. DOMAIN trail' = Repos /\ \A r \in Repos : trail'[r] \in Trails(r)
      BY <2>3, SavedType
    <3>2. \A k \in Jobs : worker'[k] = (IF k = j THEN w ELSE worker[k])
      BY <2>2 DEF TypeOK
    <3>3. \A k \in Jobs : loop'[k] \in Loops(k)
      BY <1>2 DEF InitialPersist, TypeOK, Loops
    <3>4. UNCHANGED <<activeJob, status, file, cancelled, monitors, clearing,
                      history, dirs, part, final, retries, boots>>
          /\ DOMAIN worker' = Jobs /\ DOMAIN loop' = Jobs
      BY <1>2 DEF InitialPersist, TypeOK
    <3>5. QED
      BY <2>1, <3>1, <3>2, <3>3, <3>4 DEF TypeOK, Workers, Loops
  <2>5. SlotMatchesWorker' /\ WorkerOK'
    BY <1>2, <2>1, <2>2 DEF InitialPersist, SlotMatchesWorker, WorkerOK, Busily, TypeOK
  <2>6. ContextOK' /\ FilesOK' /\ OutcomeOK'
    BY <1>2 DEF InitialPersist, ContextOK, FilesOK, OutcomeOK
  <2>7. IdleOK' /\ MonitorOK'
    BY <1>2, <2>1, <2>2 DEF InitialPersist, IdleOK, MonitorOK, TypeOK
  <2>8. QED
    BY <2>4, <2>5, <2>6, <2>7
<1>3. CASE PersistFinal(j)
  <2>1. trail' = Saved(j, worker[j].shot) /\ worker[j].shot \in Shots(j)
    BY <1>3 DEF PersistFinal, TypeOK
  <2>2. worker[j].pc = "write" /\ worker' = [worker EXCEPT ![j].pc = "history"]
    BY <1>3 DEF PersistFinal, Goes
  <2>3. TypeOK'
    <3>1. DOMAIN trail' = Repos /\ \A r \in Repos : trail'[r] \in Trails(r)
      BY <2>1, SavedType
    <3>2. QED
      BY <1>3, <2>2, <3>1 DEF PersistFinal, TypeOK
  <2>4. SlotMatchesWorker' /\ WorkerOK'
    BY <1>3, <2>2 DEF PersistFinal, SlotMatchesWorker, WorkerOK, Busily, TypeOK
  <2>5. ContextOK' /\ FilesOK' /\ OutcomeOK'
    BY <1>3 DEF PersistFinal, ContextOK, FilesOK, OutcomeOK
  <2>6. IdleOK' /\ MonitorOK'
    BY <1>3, <2>2 DEF PersistFinal, IdleOK, MonitorOK, TypeOK
  <2>7. QED
    BY <2>3, <2>4, <2>5, <2>6
<1>4. CASE RecordHistory(j)
  <2>1. worker[j].pc = "history" /\ status[j] \in Terminal
    BY <1>4 DEF RecordHistory, WorkerOK
  <2>2. worker' = [worker EXCEPT ![j] = WorkerOff]
    BY <1>4 DEF RecordHistory
  <2>3. history' \in [Jobs -> Seq(Terminal)]
    BY <1>4, <2>1 DEF RecordHistory, TypeOK
  <2>4. monitors' = monitors \/ (status[j] = "partial" /\ monitors' = monitors \union {j})
    BY <1>4, <2>1 DEF RecordHistory, Terminal
  <2>5. TypeOK'
    BY <1>4, <2>2, <2>3, <2>4 DEF RecordHistory, TypeOK, Workers
  <2>6. SlotMatchesWorker' /\ WorkerOK'
    BY <1>4, <2>1, <2>2 DEF RecordHistory, SlotMatchesWorker, WorkerOK, Busily, TypeOK
  <2>7. ContextOK' /\ FilesOK' /\ OutcomeOK'
    BY <1>4 DEF RecordHistory, ContextOK, FilesOK, OutcomeOK
  <2>8. IdleOK' /\ MonitorOK'
    <3>1. \A k \in Jobs : worker'[k].pc = (IF k = j THEN "off" ELSE worker[k].pc)
      BY <2>2 DEF TypeOK
    <3>2. status[j] \notin {"new", "lost"}
      BY <2>1 DEF Terminal
    <3>3. UNCHANGED <<activeJob, status, loop>>
      BY <1>4 DEF RecordHistory
    <3>4. IdleOK'
      BY <2>4, <3>1, <3>2, <3>3 DEF IdleOK
    <3>5. MonitorOK'
      BY <2>4, <3>1, <3>3 DEF MonitorOK, TypeOK
    <3>6. QED
      BY <3>4, <3>5
  <2>9. QED
    BY <2>5, <2>6, <2>7, <2>8
<1>5. QED
  BY <1>1, <1>2, <1>3, <1>4

(* persistJobLoop touches its own state and .job.json. *)
LEMMA LoopingIInv ==
    ASSUME IInv, NEW j \in Jobs, Looping(j)
    PROVE  IInv'
<1> USE Selections, RecordTypes DEF IInv
<1>1. UNCHANGED <<activeJob, status, file, cancelled, worker, monitors, clearing,
                  history, dirs, part, final, retries, boots>>
  BY DEF Looping, LoopTick, LoopSnapshot, LoopWrite, diskVars
<1>2. loop[j].pc # "off"
  BY DEF Looping, LoopTick, LoopSnapshot, LoopWrite
<1>3. DOMAIN loop' = Jobs /\ \A k \in Jobs : loop'[k] \in Loops(k) /\ (k # j => loop'[k] = loop[k])
  <2>1. CASE LoopTick(j)
    <3>1. (status[j] \notin {"running", "cancelling"}) \in BOOLEAN
      OBVIOUS
    <3>2. QED
      BY <2>1, <3>1 DEF LoopTick, TypeOK, Loops
  <2>2. CASE LoopSnapshot(j)
    BY <2>2 DEF LoopSnapshot, TypeOK, Loops
  <2>3. CASE LoopWrite(j)
    <3>1. \E l \in Loops(j) : loop' = [loop EXCEPT ![j] = l]
      BY <2>3 DEF LoopWrite
    <3>2. QED
      BY <3>1 DEF TypeOK, Loops
  <2>4. QED
    BY <2>1, <2>2, <2>3 DEF Looping
<1>4. DOMAIN trail' = Repos /\ \A r \in Repos : trail'[r] \in Trails(r)
  <2>1. trail' = trail \/ (trail' = Saved(j, loop[j].shot) /\ loop[j].shot \in Shots(j))
    BY DEF Looping, LoopTick, LoopSnapshot, LoopWrite, diskVars, TypeOK
  <2>2. QED
    BY <2>1, SavedType DEF TypeOK
<1>5. TypeOK'
  BY <1>1, <1>3, <1>4 DEF TypeOK, Loops
<1>6. SlotMatchesWorker' /\ WorkerOK' /\ ContextOK' /\ FilesOK' /\ MonitorOK' /\ OutcomeOK'
  BY <1>1 DEF SlotMatchesWorker, WorkerOK, Busily, ContextOK, FilesOK, MonitorOK, OutcomeOK
<1>7. IdleOK'
  BY <1>1, <1>2, <1>3 DEF IdleOK, TypeOK
<1>8. QED
  BY <1>5, <1>6, <1>7

------------------------------------------------------------------------------
(* The files.  What every step on a file leaves alone, and where it leaves *)
(* the worker.                                                             *)
LEMMA FileFrame ==
    ASSUME IInv, NEW j \in Jobs, NextFile(j) \/ Downloading(j)
    PROVE  /\ worker[j].pc \in {"next", "file", "stream"}
           /\ worker[j].at \in 1..Len_(j)
           /\ DOMAIN worker' = Jobs /\ \A k \in Jobs \ {j} : worker'[k] = worker[k]
           /\ worker'[j] \in Workers(j)
           /\ worker'[j].pc \in {"next", "file", "stream"}
           /\ worker'[j].pc \in {"file", "stream"} => worker'[j].at <= Len_(j)
           /\ UNCHANGED <<activeJob, status, cancelled, loop, monitors, clearing,
                          history, trail, retries, boots>>
           /\ dirs' \in {dirs, dirs \union {RepoOf[j]}}
<1> USE Selections DEF IInv
<1>1. worker[j].pc \in {"next", "file", "stream"} /\ worker[j].at \in 1..Len_(j)
  BY DEF Downloading, NextFile, SkipFile, OpenPart, FailFile, AbortFile, FinishFile, TypeOK
<1>2. \/ Advance(j)
      \/ \E pc \in {"file", "stream"} : Goes(j, pc)
  BY DEF Downloading, NextFile, SkipFile, OpenPart, FailFile, AbortFile, FinishFile
<1>3. /\ DOMAIN worker' = Jobs /\ \A k \in Jobs \ {j} : worker'[k] = worker[k]
      /\ worker'[j] \in Workers(j)
      /\ worker'[j].pc \in {"next", "file", "stream"}
      /\ worker'[j].pc \in {"file", "stream"} => worker'[j].at <= Len_(j)
  <2>1. DOMAIN worker = Jobs /\ worker[j] \in Workers(j)
    BY DEF TypeOK, Workers
  <2>2. CASE Advance(j)
    <3>1. worker' = [worker EXCEPT ![j] = [worker[j] EXCEPT !.pc = "next", !.at = worker[j].at + 1]]
      BY <2>2 DEF Advance
    <3>2. worker[j].at + 1 \in 1..Len_(j) + 1
      BY <1>1
    <3>3. QED
      BY <2>1, <3>1, <3>2 DEF Workers
  <2>3. CASE \E pc \in {"file", "stream"} : Goes(j, pc)
    BY <1>1, <2>1, <2>3 DEF Goes, Workers
  <2>4. QED
    BY <1>2, <2>2, <2>3
<1>4. /\ UNCHANGED <<activeJob, status, cancelled, loop, monitors, clearing,
                     history, trail, retries, boots>>
      /\ dirs' \in {dirs, dirs \union {RepoOf[j]}}
  BY DEF Downloading, NextFile, SkipFile, OpenPart, FailFile, AbortFile, FinishFile, diskVars
<1>5. QED
  BY <1>1, <1>3, <1>4

(* The outcome a step gives to its file: "cancelled" needs a cancelled     *)
(* context, and a file that counts as done is on disk.                     *)
LEMMA FileOutcome ==
    ASSUME IInv, NEW j \in Jobs, NextFile(j) \/ Downloading(j)
    PROVE  /\ final \subseteq final'
           /\ final' \subseteq Repos \X Files /\ part' \subseteq Repos \X Files
           /\ \/ UNCHANGED file
              \/ \E o \in FileStatuses :
                    /\ file' = [file EXCEPT ![j][worker[j].at] = o]
                    /\ o = "cancelled" => j \in cancelled
                    /\ o \in Done => Here(j) \in final'
<1> USE Selections DEF IInv
<1>1. Here(j) \in Repos \X Files
  BY FileFrame DEF Here, Disk
<1>2. CASE NextFile(j)
  BY <1>2 DEF NextFile, SetFile, FileStatuses, Done, diskVars, TypeOK
<1>3. CASE SkipFile(j)
  BY <1>3 DEF SkipFile, SetFile, FileStatuses, Done, TypeOK
<1>4. CASE OpenPart(j)
  BY <1>1, <1>4 DEF OpenPart, TypeOK
<1>5. CASE FailFile(j)
  BY <1>5 DEF FailFile, SetFile, FileStatuses, Done, TypeOK
<1>6. CASE AbortFile(j)
  BY <1>6 DEF AbortFile, SetFile, FileStatuses, Done, TypeOK
<1>7. CASE FinishFile(j)
  BY <1>1, <1>7 DEF FinishFile, SetFile, FileStatuses, Done, TypeOK
<1>8. QED
  BY <1>2, <1>3, <1>4, <1>5, <1>6, <1>7 DEF Downloading

LEMMA FilesIInv ==
    ASSUME IInv, NEW j \in Jobs, NextFile(j) \/ Downloading(j)
    PROVE  IInv'
<1>1. /\ worker[j].pc \in {"next", "file", "stream"}
      /\ worker[j].at \in 1..Len_(j)
      /\ DOMAIN worker' = Jobs /\ \A k \in Jobs \ {j} : worker'[k] = worker[k]
      /\ worker'[j] \in Workers(j)
      /\ worker'[j].pc \in {"next", "file", "stream"}
      /\ worker'[j].pc \in {"file", "stream"} => worker'[j].at <= Len_(j)
  BY FileFrame
<1>2. /\ UNCHANGED <<activeJob, status, cancelled, loop, monitors, clearing,
                     history, trail, retries, boots>>
      /\ dirs' \in {dirs, dirs \union {RepoOf[j]}}
  BY FileFrame
<1>3. /\ final \subseteq final'
      /\ final' \subseteq Repos \X Files /\ part' \subseteq Repos \X Files
  BY FileOutcome
<1>4. PICK o \in FileStatuses :
         \/ UNCHANGED file
         \/ /\ file' = [file EXCEPT ![j][worker[j].at] = o]
            /\ o = "cancelled" => j \in cancelled
            /\ o \in Done => Here(j) \in final'
  BY FileOutcome DEF FileStatuses
<1> USE Selections DEF IInv
<1>5. Busily(j) /\ Busily(j)' /\ status[j] \in {"running", "cancelling"}
  BY <1>1 DEF Busily, SlotMatchesWorker, WorkerOK
<1>6. /\ DOMAIN file' = Jobs
      /\ \A k \in Jobs : file'[k] \in [1..Len_(k) -> FileStatuses]
      /\ \A k \in Jobs : \A i \in 1..Len_(k) :
            \/ file'[k][i] = file[k][i]
            \/ k = j /\ i = worker[j].at /\ file'[k][i] = o
               /\ (o = "cancelled" => j \in cancelled)
               /\ (o \in Done => Here(j) \in final')
  <2>1. CASE UNCHANGED file
    BY <2>1 DEF TypeOK
  <2>2. CASE /\ file' = [file EXCEPT ![j][worker[j].at] = o]
             /\ o = "cancelled" => j \in cancelled
             /\ o \in Done => Here(j) \in final'
    <3>1. DOMAIN file' = Jobs /\ \A k \in Jobs \ {j} : file'[k] = file[k]
      BY <2>2 DEF TypeOK
    <3>2. file'[j] = [file[j] EXCEPT ![worker[j].at] = o] /\ file[j] \in [1..Len_(j) -> FileStatuses]
      BY <2>2 DEF TypeOK
    <3>3. /\ file'[j] \in [1..Len_(j) -> FileStatuses]
          /\ \A i \in 1..Len_(j) : file'[j][i] = IF i = worker[j].at THEN o ELSE file[j][i]
      BY <1>1, <3>2
    <3>4. \A k \in Jobs : file'[k] \in [1..Len_(k) -> FileStatuses]
      BY <3>1, <3>3 DEF TypeOK
    <3>5. QED
      BY <2>2, <3>1, <3>3, <3>4
  <2>3. QED
    BY <1>4, <2>1, <2>2
<1>7. TypeOK'
  <2>1. \A k \in Jobs : /\ worker'[k] \in Workers(k)
                        /\ worker'[k].pc \in {"file", "stream"} => worker'[k].at <= Len_(k)
    BY <1>1 DEF TypeOK, Workers
  <2>2. DOMAIN worker' = Jobs /\ dirs' \subseteq Repos
    BY <1>1, <1>2 DEF TypeOK
  <2>3. QED
    BY <1>2, <1>3, <1>6, <2>1, <2>2 DEF TypeOK, Workers
<1>8. SlotMatchesWorker' /\ WorkerOK'
  BY <1>1, <1>2, <1>5 DEF SlotMatchesWorker, WorkerOK, Busily
<1>9. ContextOK' /\ IdleOK' /\ MonitorOK'
  <2>1. ContextOK'
    BY <1>2 DEF ContextOK
  <2>2. IdleOK'
    BY <1>1, <1>2, <1>5 DEF IdleOK
  <2>3. MonitorOK'
    BY <1>1, <1>2, <1>5 DEF MonitorOK, TypeOK
  <2>4. QED
    BY <2>1, <2>2, <2>3
<1>10. FilesOK'
  BY <1>2, <1>5, <1>6 DEF FilesOK, ContextOK
<1>11. OutcomeOK'
  <2>1. ASSUME NEW k \in Jobs, NEW i \in 1..Len_(k), file'[k][i] \in Done, RepoOf[k] \notin Purgeable
        PROVE  Disk(k, i) \in final'
    BY <1>3, <1>6, <2>1 DEF OutcomeOK, Here, Disk
  <2>2. ASSUME NEW k \in Jobs, NEW i \in 1..Len_(k), status'[k] = "completed"
        PROVE  file'[k][i] \in Done
    BY <1>2, <1>5, <1>6, <2>2 DEF OutcomeOK
  <2>3. QED
    BY <2>1, <2>2 DEF OutcomeOK, Disk
<1>12. QED
  BY <1>7, <1>8, <1>9, <1>10, <1>11

(* The terminal status: complete only if every file is done, and cancelled *)
(* if the user said so; a file is never cancelled otherwise.               *)
LEMMA TerminalStatusFacts ==
    ASSUME IInv, NEW j \in Jobs
    PROVE  /\ TerminalStatus(j) \in Terminal
           /\ status[j] = "cancelling" => TerminalStatus(j) = "cancelled"
           /\ status[j] = "running" => TerminalStatus(j) \in {"completed", "partial"}
           /\ TerminalStatus(j) = "completed" => \A i \in 1..Len_(j) : file[j][i] \in Done
BY DEF TerminalStatus, Terminal, IInv, FilesOK

LEMMA FinalizeIInv ==
    ASSUME IInv, NEW j \in Jobs, Finalize(j)
    PROVE  IInv'
<1> USE Selections DEF IInv
<1>1. worker[j].pc = "next" /\ status[j] \in {"running", "cancelling"} /\ activeJob = j
  BY DEF Finalize, SlotMatchesWorker, WorkerOK, Busily
<1>2. PICK o \in Terminal :
         /\ status' = [status EXCEPT ![j] = o]
         /\ status[j] = "cancelling" => o = "cancelled"
         /\ status[j] = "running" => o \in {"completed", "partial"}
         /\ o = "completed" => \A i \in 1..Len_(j) : file[j][i] \in Done
  BY <1>1, TerminalStatusFacts DEF Finalize, TypeOK
<1>3. worker' = [worker EXCEPT ![j].pc = "snap"]
  BY DEF Finalize, Goes
<1>4. UNCHANGED <<activeJob, file, cancelled, loop, monitors, clearing, history, dirs,
                  trail, part, final, retries, boots>>
  BY DEF Finalize, diskVars
<1>5. TypeOK'
  BY <1>2, <1>3, <1>4 DEF TypeOK, Statuses
<1>6. SlotMatchesWorker' /\ WorkerOK'
  BY <1>1, <1>2, <1>3, <1>4 DEF SlotMatchesWorker, WorkerOK, Busily, TypeOK, Terminal
<1>7. ContextOK' /\ FilesOK' /\ OutcomeOK'
  BY <1>1, <1>2, <1>4 DEF ContextOK, FilesOK, OutcomeOK, TypeOK, Terminal
<1>8. IdleOK' /\ MonitorOK'
  BY <1>1, <1>2, <1>3, <1>4 DEF IdleOK, MonitorOK, TypeOK, Terminal
<1>9. QED
  BY <1>5, <1>6, <1>7, <1>8

------------------------------------------------------------------------------
(* The retry. *)
LEMMA MonitorFiresIInv ==
    ASSUME IInv, NEW j \in Jobs, MonitorFires(j)
    PROVE  IInv'
<1>1. status[j] = "partial" /\ worker[j].pc = "off" /\ loop[j].pc = "off"
  BY DEF MonitorFires, IInv, MonitorOK
<1>2. CASE UNCHANGED <<status, file, cancelled, worker, loop, retries>>
  BY <1>2 DEF MonitorFires, IInv, TypeOK, SlotMatchesWorker, ContextOK, FilesOK, IdleOK,
              WorkerOK, MonitorOK, OutcomeOK, Busily, diskVars
<1>3. CASE ~ Busy /\ activeJob = j /\ Resume(j)
  <2> DEFINE w == [WorkerOff EXCEPT !.pc = "next"]
  <2>1. w \in Workers(j) /\ w.pc = "next" /\ worker' = [worker EXCEPT ![j] = w]
    BY <1>3, RecordTypes DEF Resume
  <2> HIDE DEF w
  <2>2. \A k \in Jobs : status[k] \notin {"running", "cancelling"} /\ ~ Busily(k)
    BY <1>3, SlotFree
  <2> USE Selections DEF IInv
  <2>3. status' = [status EXCEPT ![j] = "running"] /\ cancelled' = cancelled \ {j}
        /\ loop' = [loop EXCEPT ![j].pc = "tick"] /\ retries' = retries + 1
    BY <1>3 DEF Resume
  <2>4. UNCHANGED <<activeJob, clearing, history, dirs, trail, part, final, boots>>
        /\ monitors' = monitors \ {j} /\ retries < MaxRetries
    BY DEF MonitorFires, diskVars
  <2>5. /\ DOMAIN file' = Jobs
        /\ \A k \in Jobs : file'[k] \in [1..Len_(k) -> FileStatuses]
        /\ \A k \in Jobs : \A i \in 1..Len_(k) :
              file'[k][i] = file[k][i] \/ (k = j /\ file'[k][i] = "pending")
    <3> DEFINE f == [i \in 1..Len_(j) |-> IF file[j][i] \in Done THEN file[j][i] ELSE "pending"]
    <3>1. file' = [file EXCEPT ![j] = f]
      BY <1>3 DEF Resume
    <3>2. f \in [1..Len_(j) -> FileStatuses] /\ \A i \in 1..Len_(j) : f[i] \in {file[j][i], "pending"}
      BY DEF TypeOK, FileStatuses
    <3> HIDE DEF f
    <3>3. DOMAIN file' = Jobs /\ \A k \in Jobs : file'[k] = (IF k = j THEN f ELSE file[k])
      BY <3>1 DEF TypeOK
    <3>4. QED
      BY <3>2, <3>3 DEF TypeOK
  <2>6. \A k \in Jobs : worker'[k] = (IF k = j THEN w ELSE worker[k])
    BY <2>1 DEF TypeOK
  <2>7. TypeOK'
    <3>1. DOMAIN worker' = Jobs /\ DOMAIN loop' = Jobs /\ \A k \in Jobs : loop'[k] \in Loops(k)
      BY <2>1, <2>3 DEF TypeOK, Loops
    <3>2. status' \in [Jobs -> Statuses] /\ cancelled' \subseteq Jobs /\ retries' \in 0..MaxRetries
      <4>1. status' \in [Jobs -> Statuses] /\ cancelled' \subseteq Jobs
        BY <2>3 DEF TypeOK, Statuses
      <4>2. retries' \in 0..MaxRetries
        BY <2>3, <2>4, ConstAssumption DEF TypeOK
      <4>3. QED
        BY <4>1, <4>2
    <3>3. \A k \in Jobs : /\ worker'[k] \in Workers(k)
                          /\ worker'[k].pc \in {"file", "stream"} => worker'[k].at <= Len_(k)
      BY <2>1, <2>6 DEF TypeOK, Workers
    <3>4. QED
      BY <2>4, <2>5, <3>1, <3>2, <3>3 DEF TypeOK, Workers, Loops
  <2>8. SlotMatchesWorker' /\ WorkerOK'
    BY <1>3, <2>1, <2>2, <2>3, <2>4, <2>6 DEF SlotMatchesWorker, WorkerOK, Busily, TypeOK, Terminal
  <2>9. ContextOK' /\ FilesOK' /\ OutcomeOK'
    <3>1. \A k \in Jobs : status'[k] = IF k = j THEN "running" ELSE status[k]
      BY <2>3 DEF TypeOK
    <3>2. ContextOK'
      BY <2>3, <3>1 DEF ContextOK
    <3>3. FilesOK'
      BY <1>1, <2>5, <3>1 DEF FilesOK
    <3>4. OutcomeOK'
      BY <2>4, <2>5, <3>1 DEF OutcomeOK, Disk, Done
    <3>5. QED
      BY <3>2, <3>3, <3>4
  <2>10. IdleOK' /\ MonitorOK'
    BY <1>1, <2>3, <2>4, <2>6 DEF IdleOK, MonitorOK, TypeOK
  <2>11. QED
    BY <2>7, <2>8, <2>9, <2>10
<1>4. QED
  BY <1>2, <1>3 DEF MonitorFires

------------------------------------------------------------------------------
(* The user deletes things, and the studio dies. *)
LEMMA DeletionIInv ==
    ASSUME IInv, NEW r \in Repos,
           RemoveResumableJob(r) \/ \E f \in Files : DeleteModel(<<r, f>>)
    PROVE  IInv'
<1>1. /\ r \in Purgeable
      /\ UNCHANGED <<activeJob, status, file, cancelled, worker, loop, monitors,
                     history, retries, boots>>
      /\ clearing' \in {clearing, clearing \union {r}}
      /\ final' \subseteq final /\ \A d \in final \ final' : d[1] = r
      /\ part' \subseteq part /\ dirs' \subseteq dirs
      /\ trail' = trail \/ trail' = [trail EXCEPT ![r] = NoTrail]
  <2>1. CASE RemoveResumableJob(r)
    BY <2>1 DEF RemoveResumableJob, Purge, InRepo, memVars
  <2>2. CASE \E f \in Files : DeleteModel(<<r, f>>)
    BY <2>2 DEF DeleteModel, Purge, InRepo
  <2>3. QED
    BY <2>1, <2>2
<1> USE Selections DEF IInv
<1>2. TypeOK'
  <2>1. DOMAIN trail' = Repos /\ \A q \in Repos : trail'[q] \in Trails(q)
    BY <1>1 DEF TypeOK, Trails
  <2>2. QED
    BY <1>1, <2>1 DEF TypeOK
<1>3. SlotMatchesWorker' /\ ContextOK' /\ FilesOK' /\ IdleOK' /\ WorkerOK' /\ MonitorOK'
  BY <1>1 DEF SlotMatchesWorker, ContextOK, FilesOK, IdleOK, WorkerOK, MonitorOK, Busily
<1>4. OutcomeOK'
  BY <1>1 DEF OutcomeOK, Disk
<1>5. QED
  BY <1>2, <1>3, <1>4

LEMMA ClearingIInv ==
    ASSUME IInv, NEW r \in Repos, ClearActiveJobIfMatches(r)
    PROVE  IInv'
<1>1. activeJob' = activeJob \/ (~ Busy /\ activeJob' = NoJob)
  BY DEF ClearActiveJobIfMatches
<1>2. UNCHANGED <<status, file, cancelled, worker, loop, monitors, diskVars, retries, boots>>
      /\ clearing' = clearing \ {r}
  BY DEF ClearActiveJobIfMatches
<1>3. TypeOK' /\ ContextOK' /\ FilesOK' /\ MonitorOK' /\ OutcomeOK'
  BY <1>1, <1>2 DEF IInv, TypeOK, ContextOK, FilesOK, MonitorOK, OutcomeOK, diskVars
<1>4. ~ Busy => \A k \in Jobs : status[k] \notin {"running", "cancelling"} /\ ~ Busily(k)
  BY SlotFree
<1>5. SlotMatchesWorker' /\ WorkerOK'
  BY <1>1, <1>2, <1>4 DEF IInv, SlotMatchesWorker, WorkerOK, Busily
<1>6. IdleOK'
  BY <1>1, <1>2, ConstAssumption DEF IInv, IdleOK
<1>7. QED
  BY <1>3, <1>5, <1>6 DEF IInv

LEMMA RestartIInv ==
    ASSUME IInv, Restart
    PROVE  IInv'
<1>1. \A j \in Jobs : /\ worker'[j] \in Workers(j) /\ worker'[j].pc = "off"
                      /\ loop'[j] \in Loops(j) /\ loop'[j].pc = "off"
                      /\ status'[j] = (IF status[j] = "new" THEN "new" ELSE "lost")
  BY RecordTypes DEF Restart
<1>2. TypeOK'
  BY <1>1, ConstAssumption DEF Restart, IInv, TypeOK, Statuses, Workers, Loops, diskVars
<1>3. SlotMatchesWorker' /\ WorkerOK' /\ IdleOK' /\ MonitorOK' /\ ContextOK'
  BY <1>1, ConstAssumption
     DEF Restart, SlotMatchesWorker, WorkerOK, Busily, IdleOK, MonitorOK, ContextOK
<1>4. FilesOK' /\ OutcomeOK'
  BY <1>1 DEF Restart, IInv, FilesOK, OutcomeOK, diskVars
<1>5. QED
  BY <1>2, <1>3, <1>4 DEF IInv

------------------------------------------------------------------------------
LEMMA NextIInv == IInv /\ [Next]_vars => IInv'
<1> SUFFICES ASSUME IInv, [Next]_vars PROVE IInv'
  OBVIOUS
<1>1. ASSUME NEW j \in Jobs, StartJob(j) PROVE IInv'
  BY <1>1, StartJobIInv
<1>2. ASSUME NEW j \in Jobs, OwnStep(j) PROVE IInv'
  BY <1>2, PersistingIInv, FilesIInv, FinalizeIInv DEF OwnStep
<1>3. ASSUME NEW j \in Jobs, Downloading(j) PROVE IInv'
  BY <1>3, FilesIInv
<1>4. ASSUME NEW j \in Jobs, Looping(j) PROVE IInv'
  BY <1>4, LoopingIInv
<1>5. ASSUME NEW j \in Jobs, MonitorFires(j) PROVE IInv'
  BY <1>5, MonitorFiresIInv
<1>6. CASE CancelJob
  BY <1>6, CancelJobIInv
<1>7. ASSUME NEW r \in Repos, RemoveResumableJob(r) PROVE IInv'
  BY <1>7, DeletionIInv
<1>8. ASSUME NEW d \in Repos \X Files, DeleteModel(d) PROVE IInv'
  <2>1. PICK r \in Repos, f \in Files : d = <<r, f>>
    OBVIOUS
  <2>2. QED
    BY <1>8, <2>1, DeletionIInv
<1>9. ASSUME NEW r \in Repos, ClearActiveJobIfMatches(r) PROVE IInv'
  BY <1>9, ClearingIInv
<1>10. CASE Restart
  BY <1>10, RestartIInv
<1>11. CASE UNCHANGED vars
  BY <1>11, StutterIInv
<1>12. QED
  BY <1>1, <1>2, <1>3, <1>4, <1>5, <1>6, <1>7, <1>8, <1>9, <1>10, <1>11 DEF Next

(* Every reachable state of the download manager satisfies the invariant.  *)
THEOREM InductiveInvariant == Spec => []IInv
<1>1. QED
  BY InitIInv, NextIInv, PTL DEF Spec

(* A job holds the slot exactly while its worker is at its files. *)
THEOREM SlotIsHeldByTheWorker == Spec => []SlotMatchesWorker
<1>1. IInv => SlotMatchesWorker
  BY DEF IInv
<1>2. QED
  BY <1>1, InductiveInvariant, PTL

(* A completed job has all its files under their final names. *)
THEOREM CompletedJobsAreOnDisk == Spec => []CompletedOnDisk
<1>1. IInv => CompletedOnDisk
  BY DEF IInv, OutcomeOK, CompletedOnDisk
<1>2. QED
  BY <1>1, InductiveInvariant, PTL

(* A cancel that was accepted is final. *)
THEOREM CancelIsFinal == Spec => CancelSticks
<1>1. ASSUME IInv, [Next]_vars, NEW j \in Jobs,
             status[j] \in {"cancelling", "cancelled"}, status'[j] # status[j]
      PROVE  status'[j] \in {"cancelled", "lost"}
  <2> USE <1>1 DEF IInv
  <2>1. ASSUME NEW k \in Jobs, StartJob(k) PROVE FALSE
    BY <2>1 DEF StartJob, TypeOK
  <2>2. CASE CancelJob
    BY <2>2 DEF CancelJob, TypeOK
  <2>3. ASSUME NEW k \in Jobs, Finalize(k) PROVE status'[j] = "cancelled"
    BY <2>3, TerminalStatusFacts DEF Finalize, TypeOK
  <2>4. ASSUME NEW k \in Jobs, MonitorFires(k) PROVE FALSE
    BY <2>4 DEF MonitorFires, Resume, TypeOK
  <2>5. CASE Restart
    BY <2>5 DEF Restart
  <2>6. status' = status \/ CancelJob \/ Restart
        \/ \E k \in Jobs : StartJob(k) \/ Finalize(k) \/ MonitorFires(k)
    BY DEF Next, OwnStep, Downloading, Looping, TakeSnapshot, InitialPersist, NextFile,
           PersistFinal, RecordHistory, SkipFile, OpenPart, FailFile, AbortFile, FinishFile,
           LoopTick, LoopSnapshot, LoopWrite, RemoveResumableJob, DeleteModel,
           ClearActiveJobIfMatches, vars, memVars
  <2>7. QED
    BY <2>1, <2>2, <2>3, <2>4, <2>5, <2>6
<1>2. IInv /\ [Next]_vars =>
        [\A j \in Jobs : status[j] \in {"cancelling", "cancelled"} /\ status'[j] # status[j]
             => status'[j] \in {"cancelled", "lost"}]_vars
  BY <1>1
<1>3. QED
  BY <1>2, InductiveInvariant, PTL DEF Spec, CancelSticks

------------------------------------------------------------------------------
(* What .job.json says of a job that has its directory for itself.         *)

(* A job that is unstarted or lost after a step was so before it, unless   *)
(* the studio died.                                                        *)
LEMMA UntouchedBefore ==
    ASSUME IInv, [Next]_vars, NEW k \in Jobs, status'[k] \in {"new", "lost"}
    PROVE  Restart \/ (status'[k] = status[k] /\ ~ StartJob(k))
<1> USE DEF IInv, TypeOK
<1>1. ASSUME NEW j \in Jobs, StartJob(j) PROVE status'[k] = status[k] /\ ~ StartJob(k)
  BY <1>1 DEF StartJob
<1>2. CASE CancelJob
  BY <1>2 DEF CancelJob, StartJob
<1>3. ASSUME NEW j \in Jobs, Finalize(j) PROVE status'[k] = status[k] /\ ~ StartJob(k)
  BY <1>3, TerminalStatusFacts DEF Finalize, Terminal, StartJob
<1>4. ASSUME NEW j \in Jobs, MonitorFires(j) PROVE status'[k] = status[k] /\ ~ StartJob(k)
  BY <1>4 DEF MonitorFires, Resume, StartJob
<1>5. status' = status \/ CancelJob \/ Restart
      \/ \E j \in Jobs : StartJob(j) \/ Finalize(j) \/ MonitorFires(j)
  BY DEF Next, OwnStep, Downloading, Looping, TakeSnapshot, InitialPersist, NextFile,
         PersistFinal, RecordHistory, SkipFile, OpenPart, FailFile, AbortFile, FinishFile,
         LoopTick, LoopSnapshot, LoopWrite, RemoveResumableJob, DeleteModel,
         ClearActiveJobIfMatches, vars, memVars
<1>6. status' = status => ~ StartJob(k)
  BY DEF StartJob
<1>7. QED
  BY <1>1, <1>2, <1>3, <1>4, <1>5, <1>6

(* A job that is alone after a step was alone before it, and had been      *)
(* started before it or is being started by it.                            *)
LEMMA AloneBefore ==
    ASSUME IInv, [Next]_vars, ~ Restart, NEW j \in Jobs,
           Alone(j)', status'[j] \notin {"new", "lost"}
    PROVE  /\ Alone(j)
           /\ \A k \in Jobs \ {j} : RepoOf[k] = RepoOf[j] => status[k] \in {"new", "lost"}
                                                             /\ ~ StartJob(k)
           /\ status[j] \in {"new", "lost"} => StartJob(j)
<1>1. ASSUME NEW k \in Jobs \ {j}, RepoOf[k] = RepoOf[j]
      PROVE  status[k] \in {"new", "lost"} /\ ~ StartJob(k)
  BY <1>1, UntouchedBefore DEF Alone
<1>2. status[j] \in {"new", "lost"} => StartJob(j)
  <2>1. SUFFICES ASSUME status[j] \in {"new", "lost"}, ~ StartJob(j) PROVE FALSE
    OBVIOUS
  <2> USE DEF IInv, TypeOK
  <2>2. ~ (CancelJob /\ status'[j] # status[j])
    BY <2>1 DEF CancelJob
  <2>3. ASSUME NEW k \in Jobs, StartJob(k) PROVE status'[j] = status[j]
    BY <2>1, <2>3 DEF StartJob
  <2>4. ASSUME NEW k \in Jobs, Finalize(k) PROVE status'[j] = status[j]
    BY <2>1, <2>4 DEF Finalize
  <2>5. ASSUME NEW k \in Jobs, MonitorFires(k) PROVE status'[j] = status[j]
    BY <2>1, <2>5 DEF MonitorFires, Resume
  <2>6. status' = status \/ CancelJob
        \/ \E k \in Jobs : StartJob(k) \/ Finalize(k) \/ MonitorFires(k)
    BY DEF Next, OwnStep, Downloading, Looping, TakeSnapshot, InitialPersist, NextFile,
           PersistFinal, RecordHistory, SkipFile, OpenPart, FailFile, AbortFile, FinishFile,
           LoopTick, LoopSnapshot, LoopWrite, RemoveResumableJob, DeleteModel,
           ClearActiveJobIfMatches, vars, memVars
  <2>7. QED
    BY <2>1, <2>2, <2>3, <2>4, <2>5, <2>6
<1>3. QED
  BY <1>1, <1>2 DEF Alone

(* Whatever leaves the job's goroutines, outcomes and snapshot alone, and  *)
(* its directory in place, keeps what holds of its trail.                  *)
LEMMA TrailUntouched ==
    ASSUME NEW j \in Jobs, TrailOf(j),
           worker'[j] = worker[j], loop'[j] = loop[j], status'[j] = status[j], file'[j] = file[j],
           trail'[RepoOf[j]] = trail[RepoOf[j]], RepoOf[j] \in dirs'
    PROVE  TrailOf(j)'
BY DEF TrailOf, Snapshot

(* The steps of the other jobs. *)
LEMMA OthersTrail ==
    ASSUME IInv, NEW j \in Jobs, NEW k \in Jobs \ {j}, TrailOf(j),
           RepoOf[k] = RepoOf[j] => status[k] \in {"new", "lost"} /\ ~ StartJob(k),
           StartJob(k) \/ OwnStep(k) \/ Downloading(k) \/ Looping(k) \/ MonitorFires(k)
    PROVE  TrailOf(j)'
<1> USE DEF IInv
<1>0. RepoOf[j] \in Repos /\ RepoOf[j] \in dirs
  BY Selections DEF TrailOf
<1>1. RepoOf[k] # RepoOf[j]
  <2>1. status[k] \in {"new", "lost"} =>
           worker[k].pc = "off" /\ loop[k].pc = "off" /\ k \notin monitors
    BY DEF IdleOK
  <2>2. QED
    BY <2>1 DEF OwnStep, Downloading, Looping, TakeSnapshot, InitialPersist, NextFile,
           Finalize, PersistFinal, RecordHistory, SkipFile, OpenPart, FailFile, AbortFile,
           FinishFile, LoopTick, LoopSnapshot, LoopWrite, MonitorFires
<1>2. ASSUME NEW shot PROVE Saved(k, shot)[RepoOf[j]] = trail[RepoOf[j]]
  BY <1>0, <1>1 DEF Saved, TypeOK
<1>3. CASE StartJob(k)
  BY <1>0, <1>3, TrailUntouched DEF StartJob, Goes, TypeOK
<1>4. CASE TakeSnapshot(k) \/ InitialPersist(k) \/ PersistFinal(k) \/ RecordHistory(k)
  <2>1. /\ worker'[j] = worker[j] /\ loop'[j] = loop[j]
        /\ UNCHANGED <<status, file, dirs>>
        /\ trail' = trail \/ \E shot \in Shots(k) : trail' = Saved(k, shot)
    BY <1>4 DEF TakeSnapshot, InitialPersist, PersistFinal, RecordHistory, Goes, TypeOK, diskVars
  <2>2. QED
    BY <1>0, <1>2, <2>1, TrailUntouched
<1>5. CASE NextFile(k) \/ Downloading(k)
  <2>1. worker'[j] = worker[j] /\ UNCHANGED <<status, loop, trail>> /\ dirs \subseteq dirs'
    BY <1>5, FileFrame
  <2>2. file'[j] = file[j]
    BY <1>5, FileOutcome DEF TypeOK
  <2>3. QED
    BY <1>0, <2>1, <2>2, TrailUntouched
<1>6. CASE Finalize(k)
  BY <1>0, <1>6, TrailUntouched DEF Finalize, Goes, TypeOK, diskVars
<1>7. CASE Looping(k)
  <2>1. /\ loop'[j] = loop[j] /\ UNCHANGED <<worker, status, file, dirs>>
        /\ trail' = trail \/ \E shot \in Shots(k) : trail' = Saved(k, shot)
    BY <1>7 DEF Looping, LoopTick, LoopSnapshot, LoopWrite, TypeOK, diskVars
  <2>2. QED
    BY <1>0, <1>2, <2>1, TrailUntouched
<1>8. CASE MonitorFires(k)
  BY <1>0, <1>8, TrailUntouched DEF MonitorFires, Resume, TypeOK, diskVars
<1>9. QED
  BY <1>3, <1>4, <1>5, <1>6, <1>7, <1>8 DEF OwnStep
(* The job's own steps. *)
LEMMA StartTrail ==
    ASSUME IInv, NEW j \in Jobs, StartJob(j)
    PROVE  TrailOf(j)'
<1> USE DEF IInv, TypeOK
<1>1. worker'[j].pc = "init" /\ loop'[j].pc = "off" /\ status'[j] = "running"
  BY DEF StartJob, Goes, IdleOK
<1>2. QED
  BY <1>1 DEF StartJob, TrailOf, Terminal

LEMMA PersistingTrail ==
    ASSUME IInv, NEW j \in Jobs, TrailOf(j), status[j] \notin {"new", "lost"},
           TakeSnapshot(j) \/ InitialPersist(j) \/ PersistFinal(j) \/ RecordHistory(j)
    PROVE  TrailOf(j)'
<1> USE RecordTypes, Selections DEF IInv
<1>0. RepoOf[j] \in dirs /\ UNCHANGED <<status, file, dirs>> /\ Snapshot(j)' = Snapshot(j)
  BY DEF TrailOf, TakeSnapshot, InitialPersist, PersistFinal, RecordHistory, diskVars, Snapshot
<1>1. Snapshot(j).job = j
  BY DEF Snapshot
<1>2. CASE TakeSnapshot(j)
  <2>1. /\ UNCHANGED <<loop, trail>>
        /\ \/ worker[j].pc = "init" /\ worker'[j].pc = "initWrite" /\ worker'[j].shot = Snapshot(j)
           \/ worker[j].pc = "snap" /\ worker'[j].pc = "write" /\ worker'[j].shot = Snapshot(j)
    BY <1>2 DEF TakeSnapshot, TypeOK, diskVars
  <2>2. QED
    BY <1>0, <1>1, <2>1 DEF TrailOf
<1>3. CASE InitialPersist(j)
  <2>1. worker[j].pc = "initWrite" /\ worker'[j].pc = "next" /\ loop'[j].pc = "tick"
    BY <1>3 DEF InitialPersist, TypeOK
  <2>2. trail'[RepoOf[j]] = worker[j].shot
    BY <1>0, <1>3 DEF InitialPersist, Saved, TypeOK
  <2>3. QED
    BY <1>0, <2>1, <2>2 DEF TrailOf
<1>4. CASE PersistFinal(j)
  <2>1. worker[j].pc = "write" /\ worker'[j].pc = "history" /\ UNCHANGED loop
    BY <1>4 DEF PersistFinal, Goes, TypeOK
  <2>2. trail'[RepoOf[j]] = Snapshot(j)
    BY <1>0, <1>4 DEF PersistFinal, Saved, TypeOK, TrailOf
  <2>3. QED
    BY <1>0, <1>1, <2>1, <2>2 DEF TrailOf
<1>5. CASE RecordHistory(j)
  <2>1. worker[j].pc = "history" /\ worker'[j].pc = "off" /\ UNCHANGED <<loop, trail>>
    BY <1>5 DEF RecordHistory, TypeOK
  <2>2. QED
    BY <1>0, <2>1 DEF TrailOf
<1>6. QED
  BY <1>2, <1>3, <1>4, <1>5

(* The loop ends only with a write of a snapshot taken after the end.      *)
LEMMA LoopingTrail ==
    ASSUME IInv, NEW j \in Jobs, TrailOf(j), status[j] \notin {"new", "lost"}, Looping(j)
    PROVE  TrailOf(j)'
<1> USE RecordTypes, Selections DEF IInv
<1>0. RepoOf[j] \in dirs /\ UNCHANGED <<status, file, dirs, worker>> /\ Snapshot(j)' = Snapshot(j)
  BY DEF TrailOf, Looping, LoopTick, LoopSnapshot, LoopWrite, diskVars, Snapshot
<1>1. Snapshot(j).job = j /\ (status[j] \notin {"running", "cancelling"} => status[j] \in Terminal)
  BY DEF Snapshot, TypeOK, Statuses
<1>2. CASE LoopTick(j)
  <2>1. loop'[j].pc = "snap" /\ loop'[j].done = (status[j] \notin {"running", "cancelling"})
    BY <1>2 DEF LoopTick, TypeOK
  <2>2. UNCHANGED trail
    BY <1>2 DEF LoopTick, diskVars
  <2>3. QED
    BY <1>0, <1>1, <2>1, <2>2 DEF TrailOf
<1>3. CASE LoopSnapshot(j)
  <2>1. /\ loop[j].pc = "snap" /\ loop'[j].pc = "write"
        /\ loop'[j].done = loop[j].done /\ loop'[j].shot = Snapshot(j)
    BY <1>3 DEF LoopSnapshot, TypeOK
  <2>2. UNCHANGED trail
    BY <1>3 DEF LoopSnapshot, diskVars
  <2>3. QED
    BY <1>0, <1>1, <2>1, <2>2 DEF TrailOf
<1>4. CASE LoopWrite(j)
  <2>1. loop[j].pc = "write" /\ loop'[j].pc = (IF loop[j].done THEN "off" ELSE "tick")
    BY <1>4 DEF LoopWrite, TypeOK
  <2>2. trail'[RepoOf[j]] = loop[j].shot
    BY <1>0, <1>4 DEF LoopWrite, Saved, TypeOK
  <2>3. QED
    BY <1>0, <1>1, <2>1, <2>2 DEF TrailOf
<1>5. QED
  BY <1>2, <1>3, <1>4 DEF Looping

LEMMA FilesTrail ==
    ASSUME IInv, NEW j \in Jobs, TrailOf(j), NextFile(j) \/ Downloading(j)
    PROVE  TrailOf(j)'
<1>1. /\ worker[j].pc \in {"next", "file", "stream"} /\ worker'[j].pc \in {"next", "file", "stream"}
      /\ UNCHANGED <<status, loop, trail>> /\ dirs \subseteq dirs'
  BY FileFrame
<1>2. status[j] \notin Terminal
  BY <1>1 DEF IInv, SlotMatchesWorker, WorkerOK, Busily, Terminal
<1>3. QED
  BY <1>1, <1>2 DEF TrailOf

LEMMA EndsTrail ==
    ASSUME IInv, NEW j \in Jobs, TrailOf(j), status[j] \notin {"new", "lost"},
           Finalize(j) \/ CancelJob \/ MonitorFires(j)
    PROVE  TrailOf(j)'
<1> USE RecordTypes DEF IInv
<1>0. UNCHANGED <<trail, dirs>>
  BY DEF Finalize, CancelJob, MonitorFires, diskVars
<1>1. CASE Finalize(j)
  <2>1. worker[j].pc = "next" /\ worker'[j].pc = "snap" /\ UNCHANGED loop
    BY <1>1 DEF Finalize, Goes, TypeOK
  <2>2. status[j] \notin Terminal
    BY <2>1 DEF SlotMatchesWorker, WorkerOK, Busily, Terminal
  <2>3. QED
    BY <1>0, <2>1, <2>2 DEF TrailOf
<1>2. CASE CancelJob
  <2>1. UNCHANGED <<worker, loop, file>>
    BY <1>2 DEF CancelJob
  <2>2. status'[j] = status[j]
        \/ (status[j] \notin Terminal /\ status'[j] \notin Terminal)
    BY <1>2 DEF CancelJob, TypeOK, Terminal
  <2>3. status[j] \notin Terminal => worker[j].pc # "write"
    BY DEF WorkerOK
  <2>4. QED
    BY <1>0, <2>1, <2>2, <2>3, TrailUntouched DEF TrailOf
<1>3. CASE MonitorFires(j)
  <2>1. worker[j].pc = "off" /\ loop[j].pc = "off"
    BY <1>3 DEF MonitorFires, MonitorOK
  <2>2. CASE UNCHANGED <<status, file, worker, loop>>
    BY <1>0, <2>2, TrailUntouched DEF TrailOf
  <2>3. CASE Resume(j)
    <3>1. worker'[j].pc = "next" /\ loop'[j].pc = "tick" /\ status'[j] = "running"
      BY <2>3 DEF Resume, TypeOK
    <3>2. QED
      BY <1>0, <2>1, <3>1 DEF TrailOf, Terminal
  <2>4. QED
    BY <1>3, <2>2, <2>3 DEF MonitorFires
<1>4. QED
  BY <1>1, <1>2, <1>3

(* What the user deletes is elsewhere. *)
LEMMA DeletionTrail ==
    ASSUME IInv, NEW j \in Jobs, TrailOf(j), RepoOf[j] \notin Purgeable,
           \/ \E r \in Repos : RemoveResumableJob(r) \/ ClearActiveJobIfMatches(r)
           \/ \E d \in Repos \X Files : DeleteModel(d)
    PROVE  TrailOf(j)'
<1>1. RepoOf[j] \in Repos /\ RepoOf[j] \in dirs
  BY Selections DEF TrailOf
<1>2. UNCHANGED <<worker, loop, status, file>>
  BY DEF RemoveResumableJob, ClearActiveJobIfMatches, DeleteModel, memVars
<1>3. trail'[RepoOf[j]] = trail[RepoOf[j]] /\ RepoOf[j] \in dirs'
  BY <1>1 DEF RemoveResumableJob, ClearActiveJobIfMatches, DeleteModel, Purge, diskVars, IInv, TypeOK
<1>4. QED
  BY <1>2, <1>3, TrailUntouched

LEMMA NextTrail == IInv /\ TrailOK /\ [Next]_vars => TrailOK'
<1> SUFFICES ASSUME IInv, TrailOK, [Next]_vars,
                    NEW j \in Jobs, Alone(j)', status'[j] \notin {"new", "lost"}
             PROVE  TrailOf(j)'
  BY DEF TrailOK
<1>1. ~ Restart
  BY DEF Restart, IInv, TypeOK
<1>2. /\ Alone(j)
      /\ \A k \in Jobs \ {j} : RepoOf[k] = RepoOf[j] => status[k] \in {"new", "lost"} /\ ~ StartJob(k)
      /\ status[j] \in {"new", "lost"} => StartJob(j)
  BY <1>1, AloneBefore
<1>3. CASE StartJob(j)
  BY <1>3, StartTrail
<1>4. ASSUME ~ StartJob(j) PROVE TrailOf(j)'
  <2>1. TrailOf(j) /\ status[j] \notin {"new", "lost"}
    BY <1>2, <1>4 DEF TrailOK
  <2>2. CASE OwnStep(j) \/ Downloading(j) \/ Looping(j) \/ MonitorFires(j) \/ CancelJob
    BY <2>1, <2>2, PersistingTrail, LoopingTrail, FilesTrail, EndsTrail DEF OwnStep
  <2>3. ASSUME NEW k \in Jobs \ {j},
               StartJob(k) \/ OwnStep(k) \/ Downloading(k) \/ Looping(k) \/ MonitorFires(k)
        PROVE  TrailOf(j)'
    BY <1>2, <2>1, <2>3, OthersTrail
  <2>4. CASE \/ \E r \in Repos : RemoveResumableJob(r) \/ ClearActiveJobIfMatches(r)
             \/ \E d \in Repos \X Files : DeleteModel(d)
    BY <1>2, <2>1, <2>4, DeletionTrail DEF Alone
  <2>5. CASE UNCHANGED vars
    BY <2>1, <2>5, TrailUntouched DEF vars, memVars, diskVars, TrailOf
  <2>6. QED
    BY <1>1, <1>4, <2>2, <2>3, <2>4, <2>5 DEF Next
<1>5. QED
  BY <1>3, <1>4

(* What every reachable state says of the snapshots in hand and on disk.   *)
THEOREM TrailInvariant == Spec => []TrailOK
<1>1. Init => TrailOK
  BY DEF Init, TrailOK
<1>2. IInv /\ TrailOK /\ [Next]_vars => TrailOK'
  BY NextTrail
<1>3. QED
  BY <1>1, <1>2, InductiveInvariant, PTL DEF Spec

(* Wherever the studio dies, a running job that has its directory for      *)
(* itself can be resumed with every file that is not there yet.            *)
THEOREM CrashesLeaveATrail == Spec => []CrashTrail
<1>1. IInv /\ TrailOK => CrashTrail
  <2>1. SUFFICES ASSUME IInv, TrailOK, NEW j \in Jobs, Alone(j), status[j] = "running",
                        worker[j].pc \notin {"init", "initWrite"},
                        NEW i \in 1..Len_(j), Disk(j, i) \notin final
                 PROVE  Select[j][i] \in Listed(RepoOf[j])
    BY DEF CrashTrail
  <2>2. trail[RepoOf[j]].job = j
    BY <2>1 DEF TrailOK, TrailOf
  <2>3. trail[RepoOf[j]] # NoTrail
    BY <2>2, ConstAssumption DEF NoTrail
  <2>4. QED
    BY <2>1, <2>2, <2>3 DEF Listed, Disk, Len_
<1>2. QED
  BY <1>1, InductiveInvariant, TrailInvariant, PTL

(* When worker and loop are done, .job.json describes the job as it ended. *)
THEOREM TrailsTellTheEnd == Spec => []QuietTrail
<1>1. TrailOK => QuietTrail
  BY DEF TrailOK, TrailOf, QuietTrail, Terminal
<1>2. QED
  BY <1>1, TrailInvariant, PTL
------------------------------------------------------------------------------
(* The download manager implements JobSlot, step by step. *)
LEMMA StepImplementsSlot ==
    ASSUME IInv, [Next]_vars
    PROVE  [Slot!Next]_(Slot!slotVars)
<1> USE DEF Slot!slotVars
<1>1. CASE UNCHANGED <<activeJob, status>>
  BY <1>1
<1>2. ASSUME NEW j \in Jobs, StartJob(j) PROVE Slot!Take(j)
  BY <1>2 DEF StartJob, Slot!Take, Slot!Held, Busy
<1>3. CASE CancelJob
  BY <1>3 DEF CancelJob, Slot!Next, Slot!Cancel
<1>4. ASSUME NEW j \in Jobs, Finalize(j) PROVE Slot!Finish
  <2>1. worker[j].pc = "next" /\ activeJob = j /\ status[j] \in {"running", "cancelling"}
    BY <1>4 DEF Finalize, IInv, SlotMatchesWorker, WorkerOK, Busily
  <2>2. status' = [status EXCEPT ![j] = TerminalStatus(j)] /\ activeJob' = activeJob
    BY <1>4, <2>1 DEF Finalize, IInv, TypeOK
  <2>3. status \in [Jobs -> Statuses] /\ status' \in [Jobs -> Statuses]
    BY <2>2, TerminalStatusFacts DEF IInv, TypeOK, Statuses
  <2>4. QED
    BY <2>1, <2>2, <2>3, TerminalStatusFacts, ConstAssumption
       DEF Slot!Finish, Slot!Held, Statuses, Terminal
<1>5. ASSUME NEW j \in Jobs, MonitorFires(j), status' # status PROVE Slot!Retake
  BY <1>5, ConstAssumption DEF MonitorFires, Resume, Slot!Retake, IInv, MonitorOK
<1>6. ASSUME NEW r \in Repos, ClearActiveJobIfMatches(r), activeJob' # activeJob PROVE Slot!Vacate
  BY <1>6 DEF ClearActiveJobIfMatches, Busy, Slot!Vacate, Slot!Held
<1>7. CASE Restart
  BY <1>7 DEF Restart, Slot!Next, Slot!Restart
<1>8. \/ UNCHANGED <<activeJob, status>> \/ CancelJob \/ Restart
      \/ \E j \in Jobs : StartJob(j) \/ Finalize(j) \/ (MonitorFires(j) /\ status' # status)
      \/ \E r \in Repos : ClearActiveJobIfMatches(r) /\ activeJob' # activeJob
  BY DEF Next, OwnStep, Downloading, Looping, TakeSnapshot, InitialPersist, NextFile,
         PersistFinal, RecordHistory, SkipFile, OpenPart, FailFile, AbortFile, FinishFile,
         LoopTick, LoopSnapshot, LoopWrite, RemoveResumableJob, DeleteModel,
         ClearActiveJobIfMatches, MonitorFires, vars, memVars
<1>9. QED
  BY <1>1, <1>2, <1>3, <1>4, <1>5, <1>6, <1>7, <1>8 DEF Slot!Next

THEOREM ImplementsJobSlot == Spec => SlotSpec
<1>1. Init => Slot!Init
  BY DEF Init, Slot!Init
<1>2. IInv /\ [Next]_vars => [Slot!Next]_(Slot!slotVars)
  BY StepImplementsSlot
<1>3. QED
  BY <1>1, <1>2, InductiveInvariant, PTL DEF Spec, SlotSpec, Slot!Spec

(* What is needed beside OneHolder. *)
SlotInv ==
    /\ activeJob \in Jobs \union {NoJob}
    /\ status \in [Jobs -> {"new", "running", "cancelling", "cancelled",
                           "completed", "partial", "lost"}]
    /\ Slot!OneHolder

LEMMA SlotStep ==
    ASSUME SlotInv, [Slot!Next]_(Slot!slotVars)
    PROVE  /\ SlotInv'
           /\ \A j \in Jobs : status[j] \in {"cancelled", "completed"}
                 => status'[j] \in {status[j], "lost"}
<1> USE DEF SlotInv, Slot!OneHolder, Slot!Held
<1>1. ASSUME NEW j \in Jobs, Slot!Take(j)
      PROVE  /\ SlotInv'
             /\ \A i \in Jobs : status[i] \in {"cancelled", "completed"}
                   => status'[i] \in {status[i], "lost"}
  <2>1. /\ activeJob' = j /\ status' = [status EXCEPT ![j] = "running"]
        /\ activeJob = NoJob \/ ~ (status[activeJob] \in {"running", "cancelling"})
    BY <1>1 DEF Slot!Take
  <2>2. \A i \in Jobs : ~ (status[i] \in {"running", "cancelling"})
    BY <2>1, ConstAssumption
  <2>3. status[j] = "new"
    BY <1>1 DEF Slot!Take
  <2>4. QED
    BY <2>1, <2>2, <2>3
<1>2. CASE Slot!Cancel
  BY <1>2 DEF Slot!Cancel
<1>3. CASE Slot!Finish
  BY <1>3 DEF Slot!Finish
<1>4. CASE Slot!Retake
  BY <1>4 DEF Slot!Retake
<1>5. CASE Slot!Vacate
  BY <1>5 DEF Slot!Vacate
<1>6. CASE Slot!Restart
  BY <1>6 DEF Slot!Restart
<1>7. CASE UNCHANGED Slot!slotVars
  BY <1>7 DEF Slot!slotVars
<1>8. QED
  BY <1>1, <1>2, <1>3, <1>4, <1>5, <1>6, <1>7 DEF Slot!Next

(* What JobSlot promises follows from its own steps, whoever takes them:   *)
(* one job at a time is at work, and one that was cancelled or completed   *)
(* stays so until a restart forgets it.                                    *)
THEOREM SlotsHaveOneHolder == SlotSpec => []Slot!OneHolder /\ Slot!EndsLast
<1>1. Slot!Init => SlotInv
  BY DEF Slot!Init, SlotInv, Slot!OneHolder
<1>2. SlotInv /\ [Slot!Next]_(Slot!slotVars) => SlotInv'
  BY SlotStep
<1>3. SlotInv => Slot!OneHolder
  BY DEF SlotInv
<1>4. SlotInv /\ [Slot!Next]_(Slot!slotVars)
         => [\A j \in Jobs : status[j] \in {"cancelled", "completed"}
               => status'[j] \in {status[j], "lost"}]_(Slot!slotVars)
  BY SlotStep
<1>5. QED
  BY <1>1, <1>2, <1>3, <1>4, PTL DEF SlotSpec, Slot!Spec, Slot!EndsLast
==============================================================================
