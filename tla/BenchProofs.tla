---------------------------- MODULE BenchProofs ------------------------------
(***************************************************************************)
(* Theorems about Bench: for any number of runs, cells and servers, and    *)
(* whatever users and faults there are, no server of a cell outlives it, a *)
(* run that is completed is whole, and only users disturb a measurement.   *)
(***************************************************************************)
EXTENDS Bench, TLAPS

(* A run between its claim and its release. *)
Inside(b) == pc[b] \notin {"idle", "done"}

(* br.running is a lock: whoever is inside holds it, and nobody else is. *)
OneInside ==
    /\ \A b \in Runs : Inside(b) => running
    /\ \A b, c \in Runs : Inside(b) /\ Inside(c) => b = c

AtCell == {"wait", "measure", "stopcell"}

(* The server of a cell is one the run has started for it. *)
CellOwned ==
    \A b \in Runs : pc[b] \in AtCell =>
        srv[b] \in Servers /\ by[srv[b]] = <<b, "cell">> /\ life[srv[b]] # "none"

(* The status of a run and the cells it has left tell how far it is. *)
CountTrue ==
    \A b \in Runs :
        /\ pc[b] \in {"idle", "claimed", "saved", "stop", "cell", "wait", "measure"} => left[b] > 0
        /\ pc[b] \in {"idle", "claimed"} => run[b] = "none"
        /\ pc[b] \in {"saved", "stop", "cell", "wait", "measure", "stopcell", "finish"} =>
              run[b] \in {"running", "error"}
        /\ pc[b] = "finish" => run[b] = "error" \/ left[b] = 0
        /\ run[b] = "completed" => left[b] = 0

(* A run that is about to stop the original server has found one. *)
OriginTrue == \A b \in Runs : pc[b] = "stop" => orig[b] \in Servers

(* The inductive invariant. *)
BenchInv ==
    /\ TypeOK /\ OneInside /\ CellOwned /\ CountTrue /\ OriginTrue
    /\ NoOrphan /\ CompletedIsWhole

LEMMA InitInv == Init => BenchInv
<1> SUFFICES ASSUME Init PROVE BenchInv
  OBVIOUS
<1>1. TypeOK
  <2>1. Cells \in 0..Cells
    BY ConstAssumption
  <2>2. /\ profile \in BOOLEAN /\ running \in BOOLEAN
        /\ restart \in {"idle", "stop", "wait"} /\ signalled \subseteq Servers
    BY DEF Init
  <2>3. /\ life \in [Servers -> {"none", "up", "exited", "gone"}]
        /\ rec \in [Servers -> {"absent", "starting", "healthy", "unhealthy",
                                "stopping", Terminal}]
        /\ by \in [Servers -> (Runs \X {"cell", "restore"}) \union {NoRun}]
    BY DEF Init
  <2>4. /\ pc \in [Runs -> {"idle", "claimed", "saved", "stop", "cell", "wait", "measure",
                            "stopcell", "finish", "restore", "release", "done"}]
        /\ run \in [Runs -> {"none", "running", "error", "completed", "failed"}]
        /\ wasUp \in [Runs -> BOOLEAN]
    BY DEF Init
  <2>5. /\ orig \in [Runs -> Servers \union {NoServer}]
        /\ srv \in [Runs -> Servers \union {NoServer}]
        /\ left \in [Runs -> 0..Cells]
    BY <2>1 DEF Init
  <2>6. QED
    BY <2>2, <2>3, <2>4, <2>5 DEF TypeOK
<1>2. OneInside /\ CellOwned /\ OriginTrue
  BY DEF Init, OneInside, Inside, CellOwned, AtCell, OriginTrue
<1>3. CountTrue /\ NoOrphan /\ CompletedIsWhole
  BY ConstAssumption DEF Init, CountTrue, NoOrphan, CompletedIsWhole, Running
<1>4. QED
  BY <1>1, <1>2, <1>3 DEF BenchInv

------------------------------------------------------------------------------
(* The calls of the supervisor, whoever makes them: what they leave of the *)
(* servers' types, and of the servers that were started before.            *)
ServerTypes ==
    /\ life \in [Servers -> {"none", "up", "exited", "gone"}]
    /\ rec \in [Servers -> {"absent", "starting", "healthy", "unhealthy", "stopping", Terminal}]
    /\ signalled \subseteq Servers
    /\ by \in [Servers -> (Runs \X {"cell", "restore"}) \union {NoRun}]

LEMMA StartStep ==
    ASSUME TypeOK, NEW s \in Servers, NEW b \in (Runs \X {"cell", "restore"}) \union {NoRun}, Start(s, b)
    PROVE  /\ ServerTypes'
           /\ life[s] = "none" /\ life'[s] = "up" /\ by'[s] = b
           /\ \A t \in Servers : t # s => life'[t] = life[t] /\ by'[t] = by[t]
           /\ signalled' = signalled
<1>1. ServerTypes'
  BY DEF TypeOK, Start, ServerTypes
<1>2. life[s] = "none" /\ life'[s] = "up" /\ by'[s] = b /\ signalled' = signalled
  BY DEF TypeOK, Start, Fresh
<1>3. \A t \in Servers : t # s => life'[t] = life[t] /\ by'[t] = by[t]
  BY DEF TypeOK, Start
<1>4. QED
  BY <1>1, <1>2, <1>3

LEMMA StopStep ==
    ASSUME TypeOK, NEW s \in Servers, Stop(s)
    PROVE  /\ ServerTypes'
           /\ life' = life /\ by' = by
           /\ signalled \subseteq signalled'
           /\ Active(s) => s \in signalled'
<1>1. life' = life /\ by' = by
  BY DEF Stop
<1>2. signalled' \in SUBSET Servers /\ signalled \subseteq signalled' /\ (Active(s) => s \in signalled')
  BY DEF TypeOK, Stop
<1>3. rec' \in [Servers -> {"absent", "starting", "healthy", "unhealthy", "stopping", Terminal}]
  BY DEF TypeOK, Stop
<1>4. QED
  BY <1>1, <1>2, <1>3 DEF TypeOK, ServerTypes

------------------------------------------------------------------------------
(* Users and the supervisor leave the runs alone, and the servers of the   *)
(* runs' cells do not come to life again.                                  *)
LEMMA UsersKeep ==
    ASSUME BenchInv, UNCHANGED benchVars, ServerTypes',
           profile' \in BOOLEAN, restart' \in {"idle", "stop", "wait"},
           \A s \in Servers : life[s] # "none" => by'[s] = by[s] /\ life'[s] # "none",
           \A s \in Servers : Running(s)' => by'[s] = NoRun \/ (by'[s] = by[s] /\ Running(s))
    PROVE  BenchInv'
<1>1. TypeOK'
  BY DEF BenchInv, TypeOK, ServerTypes, benchVars
<1>2. OneInside'
  BY DEF BenchInv, OneInside, Inside, benchVars
<1>3. CellOwned' /\ OriginTrue'
  BY DEF BenchInv, CellOwned, OriginTrue, benchVars
<1>4. CountTrue' /\ CompletedIsWhole'
  BY DEF BenchInv, CountTrue, CompletedIsWhole, benchVars
<1>5. NoOrphan'
  <2> SUFFICES ASSUME NEW b \in Runs, NEW s \in Servers, by'[s] = <<b, "cell">>, Running(s)'
               PROVE  pc'[b] \in AtCell /\ srv'[b] = s
    BY DEF NoOrphan, AtCell
  <2>1. by'[s] # NoRun
    BY DEF NoRun
  <2>2. by[s] = <<b, "cell">> /\ Running(s)
    BY <2>1
  <2>3. pc[b] \in AtCell /\ srv[b] = s
    BY <2>2 DEF BenchInv, NoOrphan, AtCell
  <2>4. QED
    BY <2>3 DEF benchVars
<1>6. QED
  BY <1>1, <1>2, <1>3, <1>4, <1>5 DEF BenchInv

LEMMA StartKeeps ==
    ASSUME BenchInv, UNCHANGED <<profile, benchVars>>, restart' \in {"idle", "stop", "wait"},
           NEW s \in Servers, Start(s, NoRun)
    PROVE  BenchInv'
<1>1. TypeOK
  BY DEF BenchInv
<1>2. /\ ServerTypes'
      /\ life[s] = "none" /\ life'[s] = "up" /\ by'[s] = NoRun
      /\ \A t \in Servers : t # s => life'[t] = life[t] /\ by'[t] = by[t]
      /\ signalled' = signalled
  BY <1>1, StartStep
<1>3. \A t \in Servers : life[t] # "none" => by'[t] = by[t] /\ life'[t] # "none"
  BY <1>2
<1>4. \A t \in Servers : Running(t)' => by'[t] = NoRun \/ (by'[t] = by[t] /\ Running(t))
  BY <1>2 DEF Running
<1>5. QED
  BY <1>1, <1>2, <1>3, <1>4, UsersKeep DEF TypeOK

LEMMA StopKeeps ==
    ASSUME BenchInv, UNCHANGED <<profile, benchVars>>, restart' \in {"idle", "stop", "wait"},
           NEW s \in Servers, Stop(s)
    PROVE  BenchInv'
<1>1. TypeOK
  BY DEF BenchInv
<1>2. ServerTypes' /\ life' = life /\ by' = by /\ signalled \subseteq signalled'
  BY <1>1, StopStep
<1>3. \A t \in Servers : Running(t)' => by'[t] = NoRun \/ (by'[t] = by[t] /\ Running(t))
  BY <1>2 DEF Running
<1>4. QED
  BY <1>1, <1>2, <1>3, UsersKeep DEF TypeOK

LEMMA SupervisingKeeps ==
    ASSUME BenchInv, NEW s \in Servers, Supervising(s)
    PROVE  BenchInv'
<1>1. TypeOK
  BY DEF BenchInv
<1>2. UNCHANGED <<profile, signalled, by, benchVars, restart>>
  BY DEF Supervising, Report, Exit, Reap, Record
<1>3. ServerTypes'
  BY <1>1 DEF Supervising, Report, Exit, Reap, Record, TypeOK, ServerTypes
<1>4. \A t \in Servers : /\ life[t] # "none" => life'[t] # "none"
                         /\ life'[t] = "up" => life[t] = "up"
  BY <1>1 DEF Supervising, Report, Exit, Reap, Record, TypeOK
<1>5. \A t \in Servers : Running(t)' => by'[t] = by[t] /\ Running(t)
  BY <1>2, <1>4 DEF Running
<1>6. QED
  BY <1>1, <1>2, <1>3, <1>4, <1>5, UsersKeep DEF TypeOK

LEMMA UsersStepKeeps ==
    ASSUME BenchInv,
           \/ \E s \in Servers : UserStop(s) \/ RestartStop(s)
           \/ UserStart \/ RestartStart \/ DeleteProfile
    PROVE  BenchInv'
<1>1. TypeOK
  BY DEF BenchInv
<1>2. ASSUME NEW s \in Servers, UserStop(s) \/ RestartStop(s) PROVE BenchInv'
  BY <1>1, <1>2, StopKeeps DEF UserStop, RestartStop, TypeOK
<1>3. CASE UserStart
  BY <1>1, <1>3, StartKeeps DEF UserStart, TypeOK
<1>4. CASE RestartStart
  <2>1. UNCHANGED <<profile, benchVars>> /\ restart' = "idle"
    BY <1>4 DEF RestartStart
  <2>2. CASE \E s \in Servers : Start(s, NoRun)
    BY <2>1, <2>2, StartKeeps
  <2>3. CASE StartFails
    <3>1. ServerTypes' /\ UNCHANGED serverVars
      BY <1>1, <2>3 DEF StartFails, serverVars, TypeOK, ServerTypes
    <3>2. QED
      BY <1>1, <2>1, <3>1, UsersKeep DEF serverVars, Running, TypeOK
  <2>4. QED
    BY <1>4, <2>2, <2>3 DEF RestartStart
<1>5. CASE DeleteProfile
  <2>1. UNCHANGED <<life, signalled, by, benchVars, restart>> /\ profile' = FALSE
    BY <1>5 DEF DeleteProfile
  <2>2. ServerTypes'
    BY <1>1, <1>5 DEF DeleteProfile, TypeOK, ServerTypes
  <2>3. QED
    BY <1>1, <2>1, <2>2, UsersKeep DEF Running, TypeOK
<1>6. QED
  BY <1>2, <1>3, <1>4, <1>5
------------------------------------------------------------------------------
(* The steps of a run.  Most of them leave the servers alone. *)
LEMMA GoingOn ==
    ASSUME BenchInv, NEW b \in Runs, Inside(b), UNCHANGED running,
           NEW l, Goto(b, l)
    PROVE  OneInside'
  BY DEF BenchInv, TypeOK, OneInside, Inside, Goto

(* A step that leaves the servers alone, enters no cell and leaves one     *)
(* only to stop its server is safe for the servers of all runs.            *)
LEMMA QuietStep ==
    ASSUME BenchInv, NEW b \in Runs, UNCHANGED <<serverVars, srv>>,
           NEW l, Goto(b, l),
           (pc[b] \in AtCell) = (l \in AtCell)
    PROVE  CellOwned' /\ NoOrphan'
<1>1. \A c \in Runs : (pc'[c] \in AtCell) = (pc[c] \in AtCell)
  BY DEF BenchInv, TypeOK, Goto
<1>2. CellOwned'
  BY <1>1 DEF BenchInv, CellOwned, serverVars
<1>3. NoOrphan'
  <2> SUFFICES ASSUME NEW c \in Runs, NEW s \in Servers, by'[s] = <<c, "cell">>, Running(s)'
               PROVE  pc'[c] \in AtCell /\ srv'[c] = s
    BY DEF NoOrphan, AtCell
  <2>1. by[s] = <<c, "cell">> /\ Running(s)
    BY DEF Running, serverVars
  <2>2. pc[c] \in AtCell /\ srv[c] = s
    BY <2>1 DEF BenchInv, NoOrphan, AtCell
  <2>3. QED
    BY <1>1, <2>2
<1>4. QED
  BY <1>2, <1>3

LEMMA ClaimKeeps ==
    ASSUME BenchInv, NEW b \in Runs, Claim(b) PROVE BenchInv'
<1>1. TypeOK'
  BY DEF BenchInv, TypeOK, Claim, Goto, serverVars
<1>2. OneInside'
  BY DEF BenchInv, TypeOK, OneInside, Inside, Claim, Goto
<1>3. CellOwned' /\ NoOrphan'
  BY QuietStep DEF Claim, AtCell
<1>4. CountTrue' /\ CompletedIsWhole' /\ OriginTrue'
  BY DEF BenchInv, TypeOK, CountTrue, CompletedIsWhole, OriginTrue, Claim, Goto
<1>5. QED
  BY <1>1, <1>2, <1>3, <1>4 DEF BenchInv

LEMMA SaveRunKeeps ==
    ASSUME BenchInv, NEW b \in Runs, SaveRun(b) PROVE BenchInv'
<1>1. TypeOK'
  BY DEF BenchInv, TypeOK, SaveRun, Goto, serverVars
<1>2. OneInside'
  BY GoingOn DEF SaveRun, Inside
<1>3. CellOwned' /\ NoOrphan'
  BY QuietStep DEF SaveRun, AtCell
<1>4. CountTrue' /\ CompletedIsWhole' /\ OriginTrue'
  BY DEF BenchInv, TypeOK, CountTrue, CompletedIsWhole, OriginTrue, SaveRun, Goto
<1>5. QED
  BY <1>1, <1>2, <1>3, <1>4 DEF BenchInv

LEMMA FindOriginalKeeps ==
    ASSUME BenchInv, NEW b \in Runs, FindOriginal(b) PROVE BenchInv'
<1>1. TypeOK'
  BY DEF BenchInv, TypeOK, FindOriginal, Goto, serverVars
<1>2. OneInside'
  BY GoingOn DEF FindOriginal, Inside
<1>3. CellOwned' /\ NoOrphan'
  BY QuietStep DEF FindOriginal, AtCell
<1>4. CountTrue' /\ CompletedIsWhole' /\ OriginTrue'
  BY DEF BenchInv, TypeOK, CountTrue, CompletedIsWhole, OriginTrue, FindOriginal, Goto
<1>5. QED
  BY <1>1, <1>2, <1>3, <1>4 DEF BenchInv

LEMMA MeasuringKeeps ==
    ASSUME BenchInv, NEW b \in Runs, Healthy(b) \/ GiveUp(b) \/ Measure(b) PROVE BenchInv'
<1>1. TypeOK'
  <2>1. CASE Healthy(b) \/ GiveUp(b)
    BY <2>1 DEF BenchInv, TypeOK, Healthy, GiveUp, Goto, serverVars
  <2>2. CASE Measure(b)
    <3>1. left[b] \in 0..Cells /\ left[b] > 0
      BY <2>2 DEF BenchInv, TypeOK, CountTrue, Measure
    <3>2. left[b] - 1 \in 0..Cells
      BY <3>1, ConstAssumption
    <3>3. QED
      BY <2>2, <3>2 DEF BenchInv, TypeOK, Measure, Goto, serverVars
  <2>3. QED
    BY <2>1, <2>2
<1>2. OneInside'
  BY GoingOn DEF Healthy, GiveUp, Measure, Inside
<1>3. CellOwned' /\ NoOrphan'
  BY QuietStep DEF Healthy, GiveUp, Measure, AtCell
<1>4. CountTrue' /\ CompletedIsWhole' /\ OriginTrue'
  BY DEF BenchInv, TypeOK, CountTrue, CompletedIsWhole, OriginTrue, Healthy, GiveUp, Measure, Goto
<1>5. QED
  BY <1>1, <1>2, <1>3, <1>4 DEF BenchInv

LEMMA FinishKeeps ==
    ASSUME BenchInv, NEW b \in Runs, Finish(b) PROVE BenchInv'
<1>1. TypeOK'
  BY DEF BenchInv, TypeOK, Finish, Goto, serverVars
<1>2. OneInside'
  BY GoingOn DEF Finish, Inside
<1>3. CellOwned' /\ NoOrphan'
  BY QuietStep DEF Finish, AtCell
<1>4. CountTrue' /\ CompletedIsWhole' /\ OriginTrue'
  BY DEF BenchInv, TypeOK, CountTrue, CompletedIsWhole, OriginTrue, Finish, Goto
<1>5. QED
  BY <1>1, <1>2, <1>3, <1>4 DEF BenchInv

LEMMA ReleaseKeeps ==
    ASSUME BenchInv, NEW b \in Runs, Release(b) PROVE BenchInv'
<1>1. TypeOK'
  BY DEF BenchInv, TypeOK, Release, Goto, serverVars
<1>2. OneInside'
  BY DEF BenchInv, TypeOK, OneInside, Inside, Release, Goto
<1>3. CellOwned' /\ NoOrphan'
  BY QuietStep DEF Release, AtCell
<1>4. CountTrue' /\ CompletedIsWhole' /\ OriginTrue'
  BY DEF BenchInv, TypeOK, CountTrue, CompletedIsWhole, OriginTrue, Release, Goto
<1>5. QED
  BY <1>1, <1>2, <1>3, <1>4 DEF BenchInv

(* A run's own calls of StopServer: only here is the server of a cell left *)
(* behind, and it has its signal by then if it has not ended before.       *)
LEMMA StoppingKeeps ==
    ASSUME BenchInv, NEW b \in Runs, StopOriginal(b) \/ StopCell(b) PROVE BenchInv'
<1>1. TypeOK
  BY DEF BenchInv
<1>2. PICK s \in Servers : /\ Stop(s)
                           /\ pc[b] = "stopcell" => s = srv[b]
  BY DEF BenchInv, OriginTrue, CellOwned, AtCell, StopOriginal, StopCell
<1>3. /\ ServerTypes'
      /\ life' = life /\ by' = by
      /\ signalled \subseteq signalled'
      /\ Active(s) => s \in signalled'
  BY <1>1, <1>2, StopStep
<1>4. /\ UNCHANGED <<profile, running, orig, srv, left, run, wasUp, restart>>
      /\ pc[b] \in {"stop", "stopcell"}
      /\ pc' = [pc EXCEPT ![b] = "cell"] \/ pc' = [pc EXCEPT ![b] = "finish"]
  BY DEF StopOriginal, StopCell, Goto
<1>5. TypeOK'
  BY <1>1, <1>3, <1>4 DEF TypeOK, ServerTypes
<1>6. OneInside'
  BY <1>4, GoingOn DEF Goto, Inside
<1>7. CellOwned' /\ OriginTrue'
  BY <1>1, <1>3, <1>4 DEF BenchInv, TypeOK, CellOwned, AtCell, OriginTrue
<1>8. CountTrue' /\ CompletedIsWhole'
  BY <1>1 DEF BenchInv, TypeOK, CountTrue, CompletedIsWhole, StopOriginal, StopCell, Goto
<1>9. NoOrphan'
  <2> SUFFICES ASSUME NEW c \in Runs, NEW t \in Servers, by'[t] = <<c, "cell">>, Running(t)'
               PROVE  pc'[c] \in AtCell /\ srv'[c] = t
    BY DEF NoOrphan, AtCell
  <2>1. by[t] = <<c, "cell">> /\ Running(t)
    BY <1>3 DEF Running
  <2>2. pc[c] \in AtCell /\ srv[c] = t
    BY <2>1 DEF BenchInv, NoOrphan, AtCell
  <2>3. c # b
    BY <1>2, <1>3, <1>4, <2>1, <2>2 DEF AtCell, Running, Active
  <2>4. QED
    BY <1>1, <1>4, <2>2, <2>3 DEF TypeOK
<1>10. QED
  BY <1>5, <1>6, <1>7, <1>8, <1>9 DEF BenchInv

(* A run's calls of StartServer: the server of a cell belongs to a run     *)
(* that is at the cell, a server restored belongs to no cell.              *)
LEMMA StartCellKeeps ==
    ASSUME BenchInv, NEW b \in Runs, StartCell(b) PROVE BenchInv'
<1>1. TypeOK
  BY DEF BenchInv
<1>2. CountTrue' /\ CompletedIsWhole' /\ OriginTrue'
  BY DEF BenchInv, TypeOK, CountTrue, CompletedIsWhole, OriginTrue, StartCell, Goto
<1>3. OneInside'
  BY GoingOn DEF StartCell, Inside
<1>4. ASSUME NEW s \in Servers, Start(s, <<b, "cell">>), srv' = [srv EXCEPT ![b] = s],
             Goto(b, "wait"), UNCHANGED run
      PROVE  TypeOK' /\ CellOwned' /\ NoOrphan'
  <2>1. /\ ServerTypes'
        /\ life[s] = "none" /\ life'[s] = "up" /\ by'[s] = <<b, "cell">>
        /\ \A t \in Servers : t # s => life'[t] = life[t] /\ by'[t] = by[t]
        /\ signalled' = signalled
    BY <1>1, <1>4, StartStep
  <2>2. TypeOK'
    BY <1>1, <1>4, <2>1 DEF TypeOK, ServerTypes, StartCell, Goto
  <2>3. /\ pc[b] = "cell" /\ pc'[b] = "wait" /\ srv'[b] = s
        /\ \A c \in Runs : c # b => pc'[c] = pc[c] /\ srv'[c] = srv[c]
    BY <1>1, <1>4 DEF TypeOK, StartCell, Goto
  <2>4. CellOwned'
    BY <2>1, <2>3 DEF BenchInv, CellOwned, AtCell
  <2>5. NoOrphan'
    <3> SUFFICES ASSUME NEW c \in Runs, NEW t \in Servers, by'[t] = <<c, "cell">>, Running(t)'
                 PROVE  pc'[c] \in AtCell /\ srv'[c] = t
      BY DEF NoOrphan, AtCell
    <3>1. CASE t = s
      BY <2>1, <2>3, <3>1 DEF AtCell
    <3>2. CASE t # s
      <4>1. by[t] = <<c, "cell">> /\ Running(t)
        BY <2>1, <3>2 DEF Running
      <4>2. pc[c] \in AtCell /\ srv[c] = t
        BY <4>1 DEF BenchInv, NoOrphan, AtCell
      <4>3. QED
        BY <2>3, <4>2 DEF AtCell
    <3>3. QED
      BY <3>1, <3>2
  <2>6. QED
    BY <2>2, <2>4, <2>5
<1>5. ASSUME StartFails, Goto(b, "finish"), UNCHANGED srv
      PROVE  CellOwned' /\ NoOrphan'
  BY <1>5, QuietStep DEF StartFails, StartCell, AtCell
<1>6. ASSUME StartFails, run' = [run EXCEPT ![b] = "error"], Goto(b, "finish"), UNCHANGED srv
      PROVE  TypeOK'
  BY <1>1, <1>6 DEF TypeOK, StartFails, StartCell, Goto, serverVars
<1>7. TypeOK' /\ CellOwned' /\ NoOrphan'
  BY <1>4, <1>5, <1>6 DEF StartCell
<1>8. QED
  BY <1>2, <1>3, <1>7 DEF BenchInv

LEMMA RestoreKeeps ==
    ASSUME BenchInv, NEW b \in Runs, Restore(b) PROVE BenchInv'
<1>1. TypeOK
  BY DEF BenchInv
<1>2. CountTrue' /\ CompletedIsWhole' /\ OriginTrue'
  BY DEF BenchInv, TypeOK, CountTrue, CompletedIsWhole, OriginTrue, Restore, Goto
<1>3. OneInside'
  BY GoingOn DEF Restore, Inside
<1>4. ASSUME NEW s \in Servers, Start(s, <<b, "restore">>)
      PROVE  TypeOK' /\ CellOwned' /\ NoOrphan'
  <2>1. /\ ServerTypes'
        /\ life[s] = "none" /\ life'[s] = "up" /\ by'[s] = <<b, "restore">>
        /\ \A t \in Servers : t # s => life'[t] = life[t] /\ by'[t] = by[t]
        /\ signalled' = signalled
    BY <1>1, <1>4, StartStep
  <2>2. TypeOK'
    BY <1>1, <2>1 DEF TypeOK, ServerTypes, Restore, Goto
  <2>3. /\ pc[b] = "restore" /\ pc'[b] = "release" /\ srv' = srv
        /\ \A c \in Runs : c # b => pc'[c] = pc[c]
    BY <1>1 DEF TypeOK, Restore, Goto
  <2>4. CellOwned'
    BY <2>1, <2>3 DEF BenchInv, CellOwned, AtCell
  <2>5. NoOrphan'
    <3> SUFFICES ASSUME NEW c \in Runs, NEW t \in Servers, by'[t] = <<c, "cell">>, Running(t)'
                 PROVE  pc'[c] \in AtCell /\ srv'[c] = t
      BY DEF NoOrphan, AtCell
    <3>1. t # s
      BY <2>1
    <3>2. by[t] = <<c, "cell">> /\ Running(t)
      BY <2>1, <3>1 DEF Running
    <3>3. pc[c] \in AtCell /\ srv[c] = t
      BY <3>2 DEF BenchInv, NoOrphan, AtCell
    <3>4. QED
      BY <2>3, <3>3 DEF AtCell
  <2>6. QED
    BY <2>2, <2>4, <2>5
<1>5. CASE StartFails
  <2>1. CellOwned' /\ NoOrphan'
    BY <1>5, QuietStep DEF StartFails, Restore, AtCell
  <2>2. TypeOK'
    BY <1>1, <1>5 DEF TypeOK, StartFails, Restore, Goto, serverVars
  <2>3. QED
    BY <1>2, <1>3, <2>1, <2>2 DEF BenchInv
<1>6. QED
  BY <1>2, <1>3, <1>4, <1>5 DEF BenchInv, Restore

LEMMA NextInv == BenchInv /\ [Next]_vars => BenchInv'
<1> SUFFICES ASSUME BenchInv, [Next]_vars PROVE BenchInv'
  OBVIOUS
<1>1. ASSUME NEW b \in Runs, Benching(b) PROVE BenchInv'
  BY <1>1, ClaimKeeps, SaveRunKeeps, FindOriginalKeeps, StoppingKeeps, StartCellKeeps,
     MeasuringKeeps, FinishKeeps, RestoreKeeps, ReleaseKeeps DEF Benching
<1>2. ASSUME NEW s \in Servers, Supervising(s) PROVE BenchInv'
  BY <1>2, SupervisingKeeps
<1>3. CASE UNCHANGED vars
  BY <1>3 DEF BenchInv, TypeOK, OneInside, Inside, CellOwned, CountTrue, OriginTrue,
     NoOrphan, Running, CompletedIsWhole, vars, serverVars, benchVars
<1>4. QED
  BY <1>1, <1>2, <1>3, UsersStepKeeps DEF Next

LEMMA Invariance == Spec => []BenchInv
  BY InitInv, NextInv, PTL DEF Spec

------------------------------------------------------------------------------
(* A server a run has started for a cell has ended or has been told to     *)
(* when the run goes on: StopServer is deferred as soon as StartServer has *)
(* returned, so no way out of a cell leaves it running.                    *)
THEOREM NoServerOutlivesItsCell == Spec => []NoOrphan
<1>1. BenchInv => NoOrphan
  BY DEF BenchInv
<1>2. QED
  BY <1>1, Invariance, PTL

(* A run stored as completed has done every cell of its plan: a cell that  *)
(* fails ends the suite with an error.                                     *)
THEOREM CompletedRunsAreWhole == Spec => []CompletedIsWhole
<1>1. BenchInv => CompletedIsWhole
  BY DEF BenchInv
<1>2. QED
  BY <1>1, Invariance, PTL

(* br.running keeps the runs of a profile apart: while one of them waits   *)
(* or measures no step of another stops its server.                        *)
THEOREM OnlyUsersDisturb == Spec => Undisturbed
<1> DEFINE Kept == \A b \in Runs :
                      pc[b] \in {"wait", "measure"} /\ srv[b] \in signalled' \ signalled
                      => UNCHANGED pc
<1>1. BenchInv /\ [Next]_vars => [Kept]_vars
  <2> SUFFICES ASSUME BenchInv, Next, NEW b \in Runs, pc[b] \in {"wait", "measure"},
                      srv[b] \in signalled' \ signalled
               PROVE  UNCHANGED pc
    OBVIOUS
  <2>1. ASSUME NEW c \in Runs, Benching(c) PROVE FALSE
    <3>1. CASE c = b
      BY <2>1, <3>1 DEF Benching, Claim, SaveRun, FindOriginal, StopOriginal, StartCell,
         Healthy, GiveUp, Measure, StopCell, Finish, Restore, Release, serverVars
    <3>2. CASE c # b
      <4>1. pc[c] \in {"idle", "done"}
        BY <3>2 DEF BenchInv, OneInside, Inside
      <4>2. Claim(c)
        BY <2>1, <4>1 DEF Benching, Claim, SaveRun, FindOriginal, StopOriginal, StartCell,
           Healthy, GiveUp, Measure, StopCell, Finish, Restore, Release
      <4>3. QED
        BY <4>2 DEF Claim, serverVars
    <3>3. QED
      BY <3>1, <3>2
  <2>2. QED
    BY <2>1 DEF Next, Supervising, Report, Exit, Reap, Record, UserStop, RestartStop,
       UserStart, RestartStart, DeleteProfile, benchVars
<1>2. QED
  BY <1>1, Invariance, PTL DEF Spec, Undisturbed
==============================================================================
