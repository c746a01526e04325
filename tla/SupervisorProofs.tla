-------------------------- MODULE SupervisorProofs --------------------------
(***************************************************************************)
(* Proofs about Supervisor, for every set of servers, profiles, ports and  *)
(* callers and every channel capacity: type correctness, and the inductive *)
(* invariant IInv from which PortExclusive and TerminalMeansDead follow.   *)
(* IInv has one lemma per group of actions that touch the same variables.  *)
(***************************************************************************)
EXTENDS Supervisor, TLAPS

(* The facts about record constants every step needs. *)
LEMMA ConstantRecords ==
    /\ Absent \in Records
    /\ Absent.status = "absent" /\ Absent.pid = FALSE
    /\ Idle.pc = "idle" /\ Idle.target = NoServer /\ Idle.cur = Absent
    /\ NoWrite.pc = "off" /\ NoWrite.cur = Absent
    /\ NoBeat.pc = "off" /\ NoBeat.msg = "starting"
    /\ Terminal \subseteq Statuses
    /\ "absent" \notin Terminal
BY DEF Absent, Records, Statuses, Terminal, Idle, NoWrite, NoBeat

(* The types of the constant records, for TypeOK. *)
LEMMA ConstantTypes ==
    /\ Idle \in [pc : {"idle", "lookup", "found", "send", "signal", "save"},
                 target : Servers \union {NoServer}, cur : Records]
    /\ NoWrite \in [pc : {"off", "recv", "write"}, cur : Records]
    /\ NoBeat \in Beats
BY ConstantRecords DEF Idle, NoWrite, NoBeat, Beats, Statuses, Terminal

(* Changing the status of a record, as StopServer and the serializer do,   *)
(* gives a record.                                                         *)
LEMMA RecordEdits ==
    ASSUME NEW r \in Records, NEW u \in Statuses
    PROVE  /\ [r EXCEPT !.status = u] \in Records
           /\ Patch(r, u) \in Records
           /\ Patch(r, u).status = u
<1> DEFINE b == r.pid /\ u \notin Terminal
<1>1. b \in BOOLEAN
  OBVIOUS
<1>2. Patch(r, u) = [status |-> u, pid |-> b]
  BY Zenon DEF Patch
<1> HIDE DEF b
<1>3. [status |-> u, pid |-> b] \in Records
  BY <1>1 DEF Records
<1>4. [r EXCEPT !.status = u] \in Records
  BY DEF Records
<1>5. QED
  BY <1>2, <1>3, <1>4

(* The initial states satisfy the invariant. *)
LEMMA InitIInv == Init => IInv
<1> SUFFICES ASSUME Init PROVE IInv
  OBVIOUS
<1> USE ConstantRecords, ConstantTypes
<1>1. TypeOK
  BY ConstAssumption DEF Init, TypeOK, Statuses, Terminal
<1>2. TargetOK /\ LaunchOK /\ EntryOK /\ RecordOK /\ DownOK /\ PortExclusive
  BY DEF Init, TargetOK, LaunchOK, EntryOK, RecordOK, DownOK, PortExclusive,
         Recorded, Alive, Up
<1>3. TerminalOK
  BY DEF Init, TerminalOK, Terminal
<1>4. QED
  BY <1>1, <1>2, <1>3 DEF IInv

(* Stuttering keeps it. *)
LEMMA StutterIInv == IInv /\ UNCHANGED vars => IInv'
BY DEF IInv, TypeOK, TargetOK, LaunchOK, EntryOK, RecordOK, TerminalOK, DownOK,
       PortExclusive, Recorded, Alive, Up, Ended, vars, studioVars, launchVars,
       entryVars, chanVars, Statuses, Records, Threads

------------------------------------------------------------------------------
(* StartServer. *)
LEMMA LaunchingIInv ==
    ASSUME IInv, NEW s \in Servers, Launching(s)
    PROVE  IInv'
<1> USE ConstantRecords, ConstantTypes, ConstAssumption
<1> USE DEF IInv, studioVars, launchVars, entryVars, chanVars, Threads
<1>1. CASE LookupProfile(s) \/ Refuse(s)
  <2>0. \E l \in {"checked", "failed"} :
           /\ launch[s] \in {"none", "checked"}
           /\ launch' = [launch EXCEPT ![s] = l]
           /\ l = "checked" => launch[s] = "none"
           /\ Up
           /\ UNCHANGED <<studioVars, profiles, prof, port, child, entryVars,
                          chanVars, serializer, heartbeat, monitor, rec, call>>
    BY <1>1 DEF LookupProfile, Refuse
  <2>1. TypeOK'
    BY <2>0 DEF TypeOK
  <2>2. LaunchOK' /\ EntryOK' /\ DownOK'
    BY <2>0 DEF TypeOK, LaunchOK, EntryOK, DownOK, Up, Ended
  <2>3. TargetOK'
    BY <2>0 DEF TargetOK, TypeOK
  <2>4. RecordOK' /\ TerminalOK' /\ PortExclusive'
    BY <1>1 DEF LookupProfile, Refuse, RecordOK, TerminalOK,
                PortExclusive, Recorded, Alive, Up, Ended
  <2>5. QED
    BY <2>1, <2>2, <2>3, <2>4
<1>2. CASE \E p \in Ports : Reserve(s, p)
  <2> PICK p \in Ports : Reserve(s, p)
    BY <1>2
  <2>1. TypeOK'
    BY DEF TypeOK, Reserve
  <2>2. LaunchOK' /\ EntryOK' /\ DownOK'
    BY DEF TypeOK, Reserve, LaunchOK, EntryOK, DownOK, Up, Ended
  <2>3. s \notin active /\ ~ Recorded(s) /\ \A t \in active : port[t] # p
    BY DEF Reserve, LaunchOK, PortAvailable, Recorded
  <2>4. PortExclusive'
    BY <2>3 DEF TypeOK, Reserve, PortExclusive
  <2>5. RecordOK'
    BY <2>3 DEF TypeOK, Reserve, RecordOK, Recorded, Alive, Up
  <2>6. TargetOK' /\ TerminalOK'
    BY DEF Reserve, TargetOK, TerminalOK, Ended
  <2>7. QED
    BY <2>1, <2>2, <2>4, <2>5, <2>6
<1>3. CASE Exec(s)
  <2>1. TypeOK'
    BY <1>3 DEF TypeOK, Exec
  <2>2. child[s] = "none" /\ ~ Recorded(s) /\ ~ Ended(s)
    BY <1>3 DEF Exec, LaunchOK, Recorded, Ended
  <2>3. LaunchOK' /\ EntryOK' /\ DownOK'
    BY <1>3, <2>2 DEF TypeOK, Exec, LaunchOK, EntryOK, DownOK, Up, Ended
  <2>4. RecordOK'
    BY <1>3, <2>2 DEF TypeOK, Exec, RecordOK, Recorded, Alive, Up
  <2>5. TerminalOK'
    <3>1. \A t \in Servers : Ended(t) => Ended(t)'
      BY <1>3, <2>2 DEF TypeOK, Exec, Ended
    <3>2. \A t \in Threads : call[t].pc = "save" => Ended(call[t].target)'
      BY <1>3, <2>2 DEF TypeOK, Exec, TerminalOK, TargetOK, Ended
    <3>3. QED
      BY <1>3, <3>1, <3>2 DEF Exec, TerminalOK
  <2>6. TargetOK' /\ PortExclusive'
    BY <1>3 DEF Exec, TargetOK, PortExclusive
  <2>7. QED
    BY <2>1, <2>3, <2>4, <2>5, <2>6
<1>4. CASE Promote(s)
  <2>1. TypeOK'
    BY <1>4 DEF TypeOK, Promote
  <2>2. LaunchOK' /\ EntryOK' /\ DownOK'
    BY <1>4 DEF TypeOK, Promote, LaunchOK, EntryOK, DownOK, Up, Ended
  <2>3. TargetOK' /\ RecordOK' /\ TerminalOK' /\ PortExclusive'
    BY <1>4 DEF Promote, TargetOK, RecordOK, TerminalOK, PortExclusive,
                Recorded, Alive, Up, Ended
  <2>4. QED
    BY <2>1, <2>2, <2>3
<1>5. CASE DiscardReservation(s)
  <2>1. TypeOK'
    BY <1>5 DEF TypeOK, DiscardReservation
  <2>2. child[s] = "none" /\ ~ Recorded(s)
    BY <1>5 DEF DiscardReservation, LaunchOK, Recorded
  <2>3. LaunchOK' /\ EntryOK' /\ DownOK'
    BY <1>5 DEF TypeOK, DiscardReservation, LaunchOK, EntryOK, DownOK, Up, Ended
  <2>4. RecordOK' /\ PortExclusive'
    BY <1>5, <2>2 DEF TypeOK, DiscardReservation, RecordOK, PortExclusive,
                      Recorded, Alive, Up
  <2>5. TargetOK' /\ TerminalOK'
    BY <1>5 DEF DiscardReservation, TargetOK, TerminalOK, Ended
  <2>6. QED
    BY <2>1, <2>3, <2>4, <2>5
<1>6. CASE SaveRecord(s)
  <2> DEFINE r == [status |-> "starting", pid |-> TRUE]
  <2>1. r \in Records /\ r.status = "starting" /\ r # Absent
    BY DEF Records, Statuses, Absent
  <2>2. s \in active /\ child[s] # "none"
    BY <1>6 DEF SaveRecord, LaunchOK
  <2>3. /\ rec' = [rec EXCEPT ![s] = r]
        /\ launch' = [launch EXCEPT ![s] = "saved"]
        /\ monitor' = [t \in Servers |-> IF t = s THEN "wait" ELSE monitor[t]]
        /\ serializer' = [t \in Servers |-> IF t = s THEN [NoWrite EXCEPT !.pc = "recv"]
                                                    ELSE serializer[t]]
        /\ heartbeat' = [t \in Servers |-> IF t = s THEN [NoBeat EXCEPT !.pc = "tick"]
                                                   ELSE heartbeat[t]]
        /\ UNCHANGED <<studioVars, profiles, prof, port, child, entryVars, chanVars, call>>
    BY <1>6 DEF SaveRecord, Supervise
  <2>4. TypeOK'
    <3>1. [NoWrite EXCEPT !.pc = "recv"] \in [pc : {"off", "recv", "write"}, cur : Records]
      OBVIOUS
    <3>2. [NoBeat EXCEPT !.pc = "tick"] \in Beats
      BY DEF Beats
    <3>3. QED
      BY <2>1, <2>3, <3>1, <3>2 DEF TypeOK
  <2>5. LaunchOK' /\ EntryOK' /\ DownOK'
    BY <1>6, <2>2, <2>3 DEF TypeOK, SaveRecord, LaunchOK, EntryOK, DownOK, Up, Ended
  <2>6. RecordOK'
    BY <1>6, <2>1, <2>2, <2>3 DEF TypeOK, SaveRecord, RecordOK, LaunchOK,
       PortExclusive, Recorded, Alive, Up
  <2>7. TerminalOK'
    BY <2>1, <2>3 DEF TypeOK, TerminalOK, Ended, NoWrite, NoBeat, Terminal
  <2>8. TargetOK' /\ PortExclusive'
    BY <2>3 DEF TargetOK, PortExclusive
  <2>9. QED
    BY <2>4, <2>5, <2>6, <2>7, <2>8
<1>7. QED
  BY <1>1, <1>2, <1>3, <1>4, <1>5, <1>6 DEF Launching

------------------------------------------------------------------------------
(* The child process, and the killer. *)
LEMMA ChildIInv ==
    ASSUME IInv, NEW s \in Servers, Bind(s) \/ Exit(s) \/ Kill(s)
    PROVE  IInv'
<1> USE ConstantRecords DEF IInv, studioVars, launchVars, entryVars, chanVars, Threads
<1>1. \E c \in {"ready", "exit0", "exit1"} :
         /\ Alive(s)
         /\ child' = [child EXCEPT ![s] = c]
         /\ UNCHANGED <<studioVars, profiles, launchVars, entryVars, chanVars,
                        serializer, heartbeat, monitor, rec, call>>
  BY DEF Bind, Exit, Kill, Alive
<1>2. TypeOK'
  BY <1>1 DEF TypeOK
<1>3. \A t \in Servers : (Ended(t) => Ended(t)') /\ (Alive(t)' => Alive(t))
  BY <1>1 DEF TypeOK, Ended, Alive
<1>4. LaunchOK' /\ EntryOK' /\ DownOK'
  <2>1. \A t \in Servers : child[t] = "none" <=> child'[t] = "none"
    BY <1>1 DEF TypeOK, Alive
  <2>2. LaunchOK'
    BY <1>1, <2>1 DEF LaunchOK
  <2>3. EntryOK' /\ DownOK'
    BY <1>1, <1>3 DEF EntryOK, DownOK, Up
  <2>4. QED
    BY <2>2, <2>3
<1>5. RecordOK'
  BY <1>1, <1>3 DEF RecordOK, Recorded, Up
<1>6. TerminalOK'
  <2>1. \A t \in Threads : call[t].pc = "save" => Ended(call[t].target)'
    BY <1>1, <1>3 DEF TerminalOK, TargetOK
  <2>2. QED
    BY <1>1, <1>3, <2>1 DEF TerminalOK
<1>7. TargetOK' /\ PortExclusive'
  BY <1>1 DEF TargetOK, PortExclusive
<1>8. QED
  BY <1>2, <1>4, <1>5, <1>6, <1>7

------------------------------------------------------------------------------
(* A send of a nonterminal update, or of one about an ended child, keeps   *)
(* the statements about the channel.                                       *)
LEMMA SendKeeps ==
    ASSUME TypeOK, NEW s \in Servers, NEW u \in Statuses, Send(s, u),
           u \in Terminal => Ended(s),
           \A t \in Servers : \A i \in DOMAIN updates[t] :
                updates[t][i] \in Terminal => Ended(t)
    PROVE  /\ updates' \in [Servers -> Seq(Statuses)]
           /\ \A t \in Servers : \A i \in DOMAIN updates'[t] :
                updates'[t][i] \in Terminal => Ended(t)
<1>1. /\ updates \in [Servers -> Seq(Statuses)]
      /\ updates' = [updates EXCEPT ![s] = Append(updates[s], u)]
  BY DEF TypeOK, Send
<1>2. updates' \in [Servers -> Seq(Statuses)]
  BY <1>1
<1>3. ASSUME NEW t \in Servers, NEW i \in DOMAIN updates'[t], updates'[t][i] \in Terminal
      PROVE  Ended(t)
  <2>1. CASE t # s
    BY <1>1, <1>3, <2>1
  <2>2. CASE t = s
    <3>1. updates'[s] = Append(updates[s], u)
      BY <1>1
    <3>2. i \in 1 .. Len(updates[s]) + 1
      BY <1>1, <1>3, <2>2, <3>1
    <3>3. CASE i = Len(updates[s]) + 1
      BY <1>1, <1>3, <2>2, <3>1, <3>3
    <3>4. CASE i \in 1 .. Len(updates[s])
      BY <1>1, <1>3, <2>2, <3>1, <3>4
    <3>5. QED
      BY <1>1, <3>2, <3>3, <3>4
  <2>3. QED
    BY <2>1, <2>2
<1>4. QED
  BY <1>2, <1>3

(* The goroutines of an entry, but for the killer. *)
LEMMA GoroutinesIInv ==
    ASSUME IInv, NEW s \in Servers, Goroutines(s), ~ Kill(s)
    PROVE  IInv'
<1> USE ConstantRecords, ConstantTypes
<1> USE DEF IInv, studioVars, launchVars, entryVars, chanVars, Threads
<1>1. CASE Probe(s)
  <2>1. /\ heartbeat' \in [Servers -> Beats]
        /\ \A t \in Servers : heartbeat'[t].msg \notin Terminal
    <3>1. \A ok, ready \in BOOLEAN :
             Beat(ok, ready) \in Statuses /\ Beat(ok, ready) \notin Terminal
      BY DEF Beat, Statuses, Terminal
    <3>2. CASE heartbeat' = [heartbeat EXCEPT ![s] = NoBeat]
      BY <3>2 DEF TypeOK, TerminalOK, Terminal
    <3>3. CASE \E ok, models \in BOOLEAN, who \in Answering(port[s]) :
                 LET by == IF ok /\ models /\ ~ IsReady(heartbeat[s]) THEN who ELSE heartbeat[s].by
                 IN heartbeat' = [heartbeat EXCEPT
                        ![s] = [pc |-> "send", by |-> by, msg |-> Beat(ok, by # NoServer)]]
      <4>1. PICK ok \in BOOLEAN, by \in {heartbeat[s].by} \union Answering(port[s]) :
               heartbeat' = [heartbeat EXCEPT
                        ![s] = [pc |-> "send", by |-> by, msg |-> Beat(ok, by # NoServer)]]
        BY <3>3, Zenon
      <4> DEFINE b == [pc |-> "send", by |-> by, msg |-> Beat(ok, by # NoServer)]
      <4>2. b \in Beats /\ b.msg \notin Terminal
        <5>1. by \in Servers \union {NoServer, Stranger}
          BY DEF Answering, Beats, TypeOK
        <5>2. QED
          BY <3>1, <5>1 DEF Beats
      <4>3. heartbeat' = [heartbeat EXCEPT ![s] = b]
        BY <4>1
      <4> HIDE DEF b
      <4>4. QED
        BY <4>2, <4>3 DEF TypeOK, TerminalOK
    <3>4. QED
      BY <1>1, <3>2, <3>3 DEF Probe
  <2>2. UNCHANGED <<studioVars, profiles, launchVars, child, entryVars, chanVars,
                    serializer, monitor, rec, call>>
    BY <1>1 DEF Probe
  <2>3. TypeOK'
    BY <2>1, <2>2 DEF TypeOK
  <2>4. QED
    BY <2>1, <2>2, <2>3 DEF LaunchOK, EntryOK, DownOK, Up, Ended, TargetOK,
       RecordOK, TerminalOK, PortExclusive, Recorded, Alive
<1>2. CASE SendBeat(s)
  <2>1. heartbeat[s].msg \in Statuses /\ heartbeat[s].msg \notin Terminal
    BY DEF TypeOK, TerminalOK, Beats
  <2>2. /\ updates' \in [Servers -> Seq(Statuses)]
        /\ \A t \in Servers : \A i \in DOMAIN updates'[t] :
                updates'[t][i] \in Terminal => Ended(t)
    BY <1>2, <2>1, SendKeeps DEF SendBeat, TerminalOK
  <2>3. /\ heartbeat' = [heartbeat EXCEPT ![s].pc = "tick", ![s].msg = "starting"]
        /\ UNCHANGED <<studioVars, profiles, launchVars, child, entryVars,
                       closed, serializer, monitor, rec, call>>
    BY <1>2 DEF SendBeat, Send
  <2>4. /\ heartbeat' \in [Servers -> Beats]
        /\ \A t \in Servers : heartbeat'[t].msg \notin Terminal
    <3>1. "starting" \in Statuses /\ "starting" \notin Terminal
      BY DEF Statuses, Terminal
    <3>2. heartbeat \in [Servers -> Beats]
      BY DEF TypeOK
    <3>3. heartbeat' = [heartbeat EXCEPT
              ![s] = [heartbeat[s] EXCEPT !.pc = "tick", !.msg = "starting"]]
      BY <2>3, <3>2
    <3>4. QED
      BY <3>1, <3>2, <3>3 DEF TerminalOK, Beats
  <2>5. TypeOK'
    BY <2>2, <2>3, <2>4 DEF TypeOK
  <2>6. QED
    BY <2>2, <2>3, <2>4, <2>5 DEF LaunchOK, EntryOK, DownOK, Up, Ended, TargetOK,
       RecordOK, TerminalOK, PortExclusive, Recorded, Alive
<1>3. CASE Receive(s)
  <2> DEFINE u == Head(updates[s])
  <2>1. /\ updates[s] \in Seq(Statuses) /\ updates[s] # <<>>
        /\ updates' = [updates EXCEPT ![s] = Tail(updates[s])]
        /\ UNCHANGED <<studioVars, profiles, launchVars, child, entryVars,
                       closed, heartbeat, monitor, rec, call>>
    BY <1>3 DEF Receive, TypeOK
  <2>2. u \in Statuses /\ (u \in Terminal => Ended(s))
    <3>1. 1 \in DOMAIN updates[s] /\ u = updates[s][1] /\ u \in Statuses
      BY <2>1
    <3>2. QED
      BY <3>1 DEF TerminalOK
  <2>3. /\ updates' \in [Servers -> Seq(Statuses)]
        /\ \A t \in Servers : \A i \in DOMAIN updates'[t] :
                updates'[t][i] \in Terminal => Ended(t)
    <3>1. Tail(updates[s]) \in Seq(Statuses)
      BY <2>1
    <3>2. \A i \in DOMAIN Tail(updates[s]) :
             i + 1 \in DOMAIN updates[s] /\ Tail(updates[s])[i] = updates[s][i + 1]
      BY <2>1
    <3>3. \A i \in DOMAIN updates'[s] : updates'[s][i] \in Terminal => Ended(s)
      BY <2>1, <3>2 DEF TypeOK, TerminalOK
    <3>4. QED
      BY <2>1, <3>1, <3>3 DEF TypeOK, TerminalOK
  <2>4. \/ serializer' = serializer
        \/ serializer' = [serializer EXCEPT ![s] = [pc |-> "write", cur |-> Patch(rec[s], u)]]
    BY <1>3 DEF Receive
  <2>5. Patch(rec[s], u) \in Records /\ Patch(rec[s], u).status = u
    <3>1. rec[s] \in Records
      BY DEF TypeOK
    <3> HIDE DEF u
    <3>2. QED
      BY <2>2, <3>1, RecordEdits
  <2> DEFINE w == [pc |-> "write", cur |-> Patch(rec[s], u)]
  <2>6. serializer' \in [Servers -> [pc : {"off", "recv", "write"}, cur : Records]]
    <3>1. w \in [pc : {"off", "recv", "write"}, cur : Records]
      BY <2>5
    <3>2. serializer' = serializer \/ serializer' = [serializer EXCEPT ![s] = w]
      BY <2>4
    <3>3. serializer \in [Servers -> [pc : {"off", "recv", "write"}, cur : Records]]
      BY DEF TypeOK
    <3> HIDE DEF w
    <3>4. QED
      BY <3>1, <3>2, <3>3
  <2>7. \A t \in Servers : /\ serializer'[t].cur.status \in Terminal => Ended(t)
                           /\ serializer'[t].pc # "off" => serializer[t].pc # "off"
    BY <1>3, <2>2, <2>4, <2>5 DEF TypeOK, TerminalOK, Receive
  <2>8. TypeOK'
    BY <2>1, <2>3, <2>6 DEF TypeOK
  <2>9. LaunchOK' /\ EntryOK' /\ DownOK'
    BY <1>3, <2>1, <2>6, <2>7 DEF Receive, LaunchOK, EntryOK, DownOK, Up, Ended
  <2>10. TargetOK' /\ RecordOK' /\ TerminalOK' /\ PortExclusive'
    BY <2>1, <2>3, <2>7 DEF TargetOK, RecordOK, TerminalOK, PortExclusive,
       Recorded, Alive, Up, Ended
  <2>11. QED
    BY <2>8, <2>9, <2>10
<1>4. CASE WriteRecord(s)
  <2>1. /\ rec' = [rec EXCEPT ![s] = serializer[s].cur]
        /\ serializer' = [serializer EXCEPT ![s] = [NoWrite EXCEPT !.pc = "recv"]]
        /\ UNCHANGED <<studioVars, profiles, launchVars, child, entryVars,
                       chanVars, heartbeat, monitor, call>>
    BY <1>4 DEF WriteRecord
  <2>2. /\ serializer[s].cur \in Records /\ serializer[s].pc # "off" /\ Up
        /\ [NoWrite EXCEPT !.pc = "recv"] \in [pc : {"off", "recv", "write"}, cur : Records]
    BY <1>4 DEF WriteRecord, TypeOK
  <2>3. TypeOK'
    BY <2>1, <2>2 DEF TypeOK
  <2>4. launch[s] = "saved" /\ (Alive(s) => s \in active)
    BY <2>2 DEF LaunchOK, EntryOK, Ended, Alive, TypeOK
  <2>5. LaunchOK'
    BY <2>1, <2>4 DEF LaunchOK, TypeOK
  <2>6. EntryOK' /\ DownOK'
    BY <2>1, <2>2 DEF EntryOK, DownOK, Up, Ended, TypeOK
  <2>7. RecordOK'
    <3>1. \A t \in Servers : Recorded(t)' /\ Alive(t) => t \in active /\ port[t] \in Ports
      BY <2>1, <2>2, <2>4 DEF RecordOK, LaunchOK, Recorded, TypeOK
    <3>2. QED
      BY <2>1, <3>1 DEF RecordOK, PortExclusive, Alive, Up, Recorded
  <2>8. TerminalOK'
    BY <2>1 DEF TerminalOK, Ended, NoWrite, TypeOK
  <2>9. TargetOK' /\ PortExclusive'
    BY <2>1 DEF TargetOK, PortExclusive
  <2>10. QED
    BY <2>3, <2>5, <2>6, <2>7, <2>8, <2>9
<1>5. CASE SerializerEnds(s)
  <2>1. /\ serializer' = [serializer EXCEPT ![s] = NoWrite]
        /\ UNCHANGED <<studioVars, profiles, launchVars, child, entryVars,
                       chanVars, heartbeat, monitor, rec, call>>
    BY <1>5 DEF SerializerEnds
  <2>2. TypeOK'
    BY <2>1 DEF TypeOK
  <2>3. \A t \in Servers : /\ serializer'[t].pc # "off" => serializer[t].pc # "off"
                           /\ serializer'[t].cur.status \in Terminal
                                  => serializer[t].cur.status \in Terminal
    BY <2>1 DEF TypeOK
  <2>4. QED
    BY <2>1, <2>2, <2>3, <1>5 DEF SerializerEnds, LaunchOK, EntryOK, DownOK, Up, Ended,
       TargetOK, RecordOK, TerminalOK, PortExclusive, Recorded, Alive
<1>6. CASE Reap(s)
  <2>1. /\ ~ Alive(s) /\ monitor[s] = "wait"
        /\ active' = active \ {s}
        /\ monitor' = [monitor EXCEPT ![s] = "send"]
        /\ UNCHANGED <<studioVars, profiles, launchVars, child, stopped,
                       reattached, killers, chanVars, serializer, heartbeat, rec,
                       call>>
    BY <1>6 DEF Reap
  <2>2. TypeOK'
    BY <2>1 DEF TypeOK
  <2>3. launch[s] = "saved" /\ Ended(s)
    BY <2>1 DEF LaunchOK, Ended, Alive, TypeOK
  <2>4. LaunchOK' /\ EntryOK'
    BY <2>1, <2>3 DEF LaunchOK, EntryOK, Ended, TypeOK
  <2>5. DownOK'
    BY <1>6 DEF Reap, DownOK, Up
  <2>6. RecordOK' /\ PortExclusive'
    BY <2>1 DEF RecordOK, PortExclusive, Recorded, Alive, Up
  <2>7. TargetOK' /\ TerminalOK'
    BY <2>1 DEF TargetOK, TerminalOK, Ended
  <2>8. QED
    BY <2>2, <2>4, <2>5, <2>6, <2>7
<1>7. CASE SendFinal(s)
  <2>1. FinalStatus(s) \in Statuses /\ Ended(s)
    BY <1>7 DEF FinalStatus, Statuses, Terminal, SendFinal, EntryOK
  <2>2. /\ updates' \in [Servers -> Seq(Statuses)]
        /\ \A t \in Servers : \A i \in DOMAIN updates'[t] :
                updates'[t][i] \in Terminal => Ended(t)
    BY <1>7, <2>1, SendKeeps DEF SendFinal, TerminalOK
  <2>3. /\ monitor[s] = "send"
        /\ monitor' = [monitor EXCEPT ![s] = "close"]
        /\ UNCHANGED <<studioVars, profiles, launchVars, child, entryVars,
                       closed, serializer, heartbeat, rec, call>>
    BY <1>7 DEF SendFinal, Send
  <2>4. TypeOK'
    BY <2>2, <2>3 DEF TypeOK
  <2>5. LaunchOK' /\ EntryOK'
    BY <2>1, <2>3 DEF LaunchOK, EntryOK, Ended, TypeOK
  <2>6. DownOK'
    BY <1>7 DEF SendFinal, DownOK, Up
  <2>7. QED
    BY <2>2, <2>3, <2>4, <2>5, <2>6 DEF TargetOK, RecordOK, TerminalOK,
       PortExclusive, Recorded, Alive, Up, Ended
<1>8. CASE CloseUpdates(s)
  <2>1. /\ monitor[s] = "close"
        /\ closed' = closed \union {s}
        /\ monitor' = [monitor EXCEPT ![s] = "done"]
        /\ UNCHANGED <<studioVars, profiles, launchVars, child, entryVars,
                       updates, serializer, heartbeat, rec, call>>
    BY <1>8 DEF CloseUpdates
  <2>2. TypeOK'
    BY <2>1 DEF TypeOK
  <2>3. LaunchOK' /\ EntryOK'
    BY <2>1 DEF LaunchOK, EntryOK, Ended, TypeOK
  <2>4. DownOK'
    BY <1>8 DEF CloseUpdates, DownOK, Up
  <2>5. QED
    BY <2>1, <2>2, <2>3, <2>4 DEF TargetOK, RecordOK, TerminalOK,
       PortExclusive, Recorded, Alive, Up, Ended
<1>9. QED
  BY <1>1, <1>2, <1>3, <1>4, <1>5, <1>6, <1>7, <1>8 DEF Goroutines

------------------------------------------------------------------------------
(* StopServer. *)
LEMMA StoppingIInv ==
    ASSUME IInv, NEW t \in Threads, Stopping(t)
    PROVE  IInv'
<1> USE ConstantRecords, ConstantTypes
<1> USE DEF IInv, studioVars, launchVars, entryVars, chanVars
<1> DEFINE CallTypes == [pc : {"idle", "lookup", "found", "send", "signal", "save"},
                         target : Servers \union {NoServer}, cur : Records]
<1>1. CASE \E s \in Servers : StopFound(t, s)
  <2> PICK s \in Servers : StopFound(t, s)
    BY <1>1
  <2> DEFINE c == [pc |-> "found", target |-> s, cur |-> Absent]
  <2>1. c \in CallTypes /\ c.pc = "found" /\ c.target = s
    OBVIOUS
  <2>2. /\ Up
        /\ call' = [call EXCEPT ![t] = c]
        /\ UNCHANGED <<studioVars, profiles, launchVars, child, entryVars, chanVars,
                       serializer, heartbeat, monitor, rec>>
    BY DEF StopFound
  <2> HIDE DEF c
  <2>3. TypeOK'
    BY <2>1, <2>2 DEF TypeOK
  <2>4. TargetOK' /\ TerminalOK'
    BY <2>1, <2>2 DEF TargetOK, TerminalOK, Ended, TypeOK
  <2>5. QED
    BY <2>2, <2>3, <2>4 DEF LaunchOK, EntryOK, DownOK, Up, Ended, RecordOK,
       PortExclusive, Recorded, Alive
<1>2. CASE \E s \in Servers : StopMissing(t, s)
  <2> PICK s \in Servers : StopMissing(t, s)
    BY <1>2
  <2> DEFINE c == IF Recorded(s) /\ rec[s].status \notin Terminal
                  THEN [pc |-> "save", target |-> s,
                        cur |-> [rec[s] EXCEPT !.status = "stopped"]]
                  ELSE Idle
  <2>1. "stopped" \in Statuses /\ [rec[s] EXCEPT !.status = "stopped"] \in Records
    <3>1. "stopped" \in Statuses /\ rec[s] \in Records
      BY DEF TypeOK, Statuses, Terminal
    <3>2. QED
      BY <3>1, RecordEdits
  <2>2. c \in CallTypes
    BY <2>1
  <2>3. Recorded(s) => Ended(s)
    BY DEF StopMissing, RecordOK, LaunchOK, Recorded, Alive, Ended, TypeOK
  <2>4. /\ c.pc \in {"save", "idle"}
        /\ c.pc = "save" => c.target = s /\ Ended(s) /\ launch[s] = "saved"
    BY <2>3 DEF LaunchOK, Recorded
  <2>5. /\ Up
        /\ call' = [call EXCEPT ![t] = c]
        /\ UNCHANGED <<studioVars, profiles, launchVars, child, entryVars, chanVars,
                       serializer, heartbeat, monitor, rec>>
    BY DEF StopMissing
  <2> HIDE DEF c
  <2>6. TypeOK'
    BY <2>2, <2>5 DEF TypeOK
  <2>7. TargetOK' /\ TerminalOK'
    BY <2>4, <2>5 DEF TargetOK, TerminalOK, Ended, TypeOK
  <2>8. QED
    BY <2>5, <2>6, <2>7 DEF LaunchOK, EntryOK, DownOK, Up, Ended, RecordOK,
       PortExclusive, Recorded, Alive
<1>3. CASE StopSave(t)
  <2> DEFINE s == call[t].target
  <2>1. /\ Up /\ call[t].pc = "save"
        /\ rec' = [rec EXCEPT ![s] = call[t].cur]
        /\ call' = [call EXCEPT ![t] = Idle]
        /\ UNCHANGED <<studioVars, profiles, launchVars, child, entryVars, chanVars,
                       serializer, heartbeat, monitor>>
    BY <1>3 DEF StopSave
  <2>2. s \in Servers /\ Ended(s) /\ call[t].cur \in Records
    BY <2>1 DEF TargetOK, TerminalOK, TypeOK
  <2> HIDE DEF s
  <2>3. TypeOK'
    BY <2>1, <2>2 DEF TypeOK
  <2>4. LaunchOK'
    BY <2>1, <2>2 DEF LaunchOK, TargetOK, TypeOK, s
  <2>5. RecordOK'
    BY <2>1, <2>2 DEF RecordOK, Recorded, Alive, Ended, Up, TypeOK
  <2>6. TerminalOK'
    BY <2>1, <2>2 DEF TerminalOK, Ended, TypeOK
  <2>7. TargetOK'
    BY <2>1 DEF TargetOK, TypeOK
  <2>8. QED
    BY <2>1, <2>3, <2>4, <2>5, <2>6, <2>7 DEF EntryOK, DownOK, Up, Ended, PortExclusive
<1>4. ASSUME StopMark(t) \/ StopSend(t) \/ StopSignal(t)
      PROVE  IInv'
  <2> DEFINE s == call[t].target
  <2>0. \E c \in CallTypes :
           /\ c.pc \in {"idle", "send", "signal"}
           /\ c.pc # "idle" => c.target = s
           /\ call' = [call EXCEPT ![t] = c]
    <3>1. call[t] \in CallTypes /\ call \in [Threads -> CallTypes]
      BY DEF TypeOK
    <3>2. \A pc \in {"send", "signal"} : /\ [call[t] EXCEPT !.pc = pc] \in CallTypes
                                         /\ [call[t] EXCEPT !.pc = pc].pc = pc
                                         /\ [call[t] EXCEPT !.pc = pc].target = s
      BY <3>1
    <3>3. \/ call' = [call EXCEPT ![t] = Idle]
          \/ call' = [call EXCEPT ![t] = [call[t] EXCEPT !.pc = "send"]]
          \/ call' = [call EXCEPT ![t] = [call[t] EXCEPT !.pc = "signal"]]
      BY <1>4 DEF StopMark, StopSend, StopSignal
    <3>4. QED
      BY <3>2, <3>3
  <2>1. /\ Up
        /\ s \in Servers
        /\ stopped' \in SUBSET Servers /\ killers' \in SUBSET Servers
        /\ UNCHANGED <<studioVars, profiles, launchVars, child, active, reattached, closed,
                       serializer, heartbeat, monitor, rec>>
    BY <1>4 DEF StopMark, StopSend, StopSignal, Send, TargetOK, TypeOK
  <2>2. /\ updates' \in [Servers -> Seq(Statuses)]
        /\ \A r \in Servers : \A i \in DOMAIN updates'[r] :
                updates'[r][i] \in Terminal => Ended(r)
    <3>1. CASE StopSend(t)
      <4>1. "stopping" \in Statuses /\ "stopping" \notin Terminal
        BY DEF Statuses, Terminal
      <4>2. Send(s, "stopping")
        BY <3>1 DEF StopSend
      <4>3. QED
        BY <2>1, <4>1, <4>2, SendKeeps DEF TerminalOK
    <3>2. CASE StopMark(t) \/ StopSignal(t)
      BY <3>2 DEF StopMark, StopSignal, TypeOK, TerminalOK
    <3>3. QED
      BY <1>4, <3>1, <3>2
  <2>a. call \in [Threads -> CallTypes]
    BY DEF TypeOK
  <2>b. PICK c \in CallTypes :
           /\ c.pc \in {"idle", "send", "signal"}
           /\ c.pc # "idle" => c.target = s
           /\ call' = [call EXCEPT ![t] = c]
    BY <2>0
  <2> HIDE DEF s
  <2>3. call' \in [Threads -> CallTypes]
    <3> HIDE DEF CallTypes
    <3>1. QED
      BY <2>a, <2>b
  <2>4. TypeOK'
    BY <2>1, <2>2, <2>3 DEF TypeOK
  <2>5. TargetOK'
    <3> HIDE DEF CallTypes
    <3>1. QED
      BY <2>a, <2>b, <2>1 DEF TargetOK
  <2>6. TerminalOK'
    <3>1. \A r \in Threads : call'[r].pc = "save" => call[r].pc = "save" /\ call'[r] = call[r]
      <4> HIDE DEF CallTypes
      <4>1. QED
        BY <2>a, <2>b
    <3>2. QED
      BY <2>1, <2>2, <3>1 DEF TerminalOK, Ended
  <2>7. QED
    BY <2>1, <2>4, <2>5, <2>6 DEF LaunchOK, EntryOK, DownOK, Up, Ended, RecordOK,
       PortExclusive, Recorded, Alive
<1>5. CASE StopPanics(t)
  <2>1. /\ Up
        /\ call' = [call EXCEPT ![t] = Idle]
        /\ UNCHANGED <<studioVars, profiles, launchVars, child, entryVars, chanVars,
                       serializer, heartbeat, monitor, rec>>
    BY <1>5 DEF StopPanics
  <2>2. TypeOK'
    BY <2>1 DEF TypeOK
  <2>3. TargetOK' /\ TerminalOK'
    BY <2>1 DEF TargetOK, TerminalOK, Ended, TypeOK
  <2>4. QED
    BY <2>1, <2>2, <2>3 DEF LaunchOK, EntryOK, DownOK, Up, Ended, RecordOK,
       PortExclusive, Recorded, Alive
<1>6. QED
  BY <1>1, <1>2, <1>3, <1>4, <1>5 DEF Stopping

------------------------------------------------------------------------------
(* DeleteProfile and main.go. *)
LEMMA DeleteIInv ==
    ASSUME IInv, NEW p \in Profiles, DeleteProfile(p)
    PROVE  IInv'
<1> USE ConstantRecords, ConstantTypes
<1> USE DEF IInv, studioVars, launchVars, entryVars, chanVars, Threads
<1>1. /\ rec' = [s \in Servers |-> IF prof[s] = p THEN Absent ELSE rec[s]]
      /\ profiles' = profiles \ {p}
      /\ UNCHANGED <<studioVars, launchVars, child, entryVars, chanVars,
                     serializer, heartbeat, monitor, call>>
  BY DEF DeleteProfile
<1>2. \A s \in Servers : rec'[s] = rec[s] \/ rec'[s] = Absent
  BY <1>1
<1>3. TypeOK'
  BY <1>1 DEF TypeOK
<1>4. LaunchOK' /\ RecordOK' /\ TerminalOK'
  BY <1>1, <1>2 DEF LaunchOK, RecordOK, TerminalOK, Recorded, Alive, Ended, Up
<1>5. QED
  BY <1>1, <1>3, <1>4 DEF TargetOK, EntryOK, DownOK, Up, Ended, PortExclusive

(* Whichever way the studio goes down, what it leaves satisfies IInv. *)
LEMMA GoDownIInv ==
    ASSUME IInv, Up, NEW how \in {"crashed", "panicked", "clean", "timeout"}, GoDown(how)
    PROVE  IInv'
<1> USE ConstantRecords, ConstantTypes
<1> USE DEF IInv, studioVars, launchVars, entryVars, chanVars, Threads, GoDown
<1>1. TypeOK'
  BY DEF TypeOK, Statuses, Terminal
<1>2. ~ Up'
  BY DEF Up
<1>3. LaunchOK'
  BY DEF LaunchOK, TypeOK
<1>4. TargetOK' /\ EntryOK' /\ DownOK' /\ PortExclusive'
  BY DEF TargetOK, EntryOK, DownOK, PortExclusive
<1>5. RecordOK'
  BY <1>2 DEF RecordOK, PortExclusive, Recorded, Alive
<1>6. TerminalOK'
  <2>1. \A s \in Servers : updates'[s] = <<>> /\ DOMAIN updates'[s] = {}
    OBVIOUS
  <2>2. \A s \in Servers : serializer'[s] = NoWrite /\ heartbeat'[s] = NoBeat
    OBVIOUS
  <2>3. \A t \in Threads : call'[t].pc = "idle"
    OBVIOUS
  <2>4. \A s \in Servers : rec'[s].status \in Terminal => Ended(s)'
    BY DEF TerminalOK, Ended
  <2>5. "starting" \notin Terminal
    BY DEF Terminal
  <2> HIDE DEF GoDown
  <2>6. QED
    BY <2>1, <2>2, <2>3, <2>4, <2>5 DEF TerminalOK
<1>7. QED
  BY <1>1, <1>3, <1>4, <1>5, <1>6

LEMMA BootIInv ==
    ASSUME IInv, Boot, ~ ReattachMayFail
    PROVE  IInv'
<1> USE ConstantRecords, ConstantTypes
<1> USE DEF IInv, studioVars, launchVars, entryVars, chanVars, Threads
<1> DEFINE S == {s \in Servers : Kept(s)}
<1>1. /\ ~ Up /\ Up'
      /\ boots < MaxBoots /\ boots' = boots + 1 /\ studio' = "up"
      /\ rec' = [s \in Servers |-> IF Kept(s) THEN rec[s] ELSE Absent]
      /\ active' = S /\ reattached' = S /\ Supervise(S)
      /\ UNCHANGED <<profiles, launchVars, child, stopped, killers, chanVars, call>>
  BY DEF Boot, Up
<1>2. S \in SUBSET Servers /\ \A s \in S : Kept(s)
  OBVIOUS
<1>3. \A s \in S : /\ Recorded(s) /\ Alive(s) /\ launch[s] = "saved"
                   /\ rec[s].status \notin Terminal /\ port[s] \in Ports
  BY <1>2 DEF Kept, Recorded, LaunchOK, RecordOK
<1>4. \A s, t \in S : s # t => port[s] # port[t]
  BY <1>2, <1>3 DEF RecordOK
<1>5. TypeOK'
  <2>1. boots' \in 0 .. MaxBoots
    BY <1>1, ConstAssumption DEF TypeOK
  <2>2. [NoWrite EXCEPT !.pc = "recv"] \in [pc : {"off", "recv", "write"}, cur : Records]
    OBVIOUS
  <2>3. [NoBeat EXCEPT !.pc = "tick"] \in Beats
    BY DEF Beats
  <2>4. /\ serializer' \in [Servers -> [pc : {"off", "recv", "write"}, cur : Records]]
        /\ heartbeat' \in [Servers -> Beats]
        /\ monitor' \in [Servers -> {"off", "wait", "send", "close", "done"}]
    BY <1>1, <2>2, <2>3 DEF TypeOK, Supervise
  <2>5. rec' \in [Servers -> Records]
    BY <1>1 DEF TypeOK
  <2>6. QED
    BY <1>1, <1>2, <2>1, <2>4, <2>5 DEF TypeOK
<1> HIDE DEF S
<1>6. \A s \in Servers : rec'[s] # Absent => s \in S /\ rec'[s] = rec[s]
  BY <1>1 DEF S
<1>7. /\ \A s \in Servers : s \in S => monitor'[s] = "wait"
      /\ \A s \in Servers : s \notin S => monitor'[s] = monitor[s]
      /\ \A s \in Servers : serializer'[s].pc # "off" => s \in S \/ serializer[s].pc # "off"
      /\ \A s \in Servers : serializer'[s].cur = Absent \/ serializer'[s].cur = serializer[s].cur
      /\ \A s \in Servers : heartbeat'[s].msg \in {"starting", heartbeat[s].msg}
  BY <1>1, <1>2 DEF Supervise
<1>8. LaunchOK'
  BY <1>1, <1>2, <1>3, <1>6, <1>7 DEF LaunchOK, DownOK
<1>9. EntryOK'
  BY <1>1, <1>2, <1>7 DEF EntryOK, DownOK, Ended
<1>10. RecordOK'
  BY <1>1, <1>2, <1>3, <1>4, <1>6 DEF RecordOK, Recorded, Alive
<1>11. TerminalOK'
  <2>1. \A s \in Servers : heartbeat'[s].msg \notin Terminal
    BY <1>7 DEF TerminalOK, Terminal
  <2>2. \A s \in Servers : rec'[s].status \notin Terminal
    BY <1>3, <1>6
  <2>3. QED
    BY <1>1, <1>7, <2>1, <2>2 DEF TerminalOK, Ended
<1>12. DownOK' /\ TargetOK' /\ PortExclusive'
  BY <1>1, <1>4 DEF DownOK, TargetOK, PortExclusive
<1>13. QED
  BY <1>5, <1>8, <1>9, <1>10, <1>11, <1>12

LEMMA ShutdownIInv ==
    ASSUME IInv, ShutdownBegins
    PROVE  IInv'
<1> USE ConstantRecords, ConstantTypes
<1> USE DEF IInv, studioVars, launchVars, entryVars, chanVars
<1> DEFINE CallTypes == [pc : {"idle", "lookup", "found", "send", "signal", "save"},
                         target : Servers \union {NoServer}, cur : Records]
<1>1. /\ Up /\ Up' /\ studio' = "stopping"
      /\ call' = [t \in Threads |->
                    IF t \in Servers /\ rec[t].status \in {"healthy", "starting", "stopping"}
                    THEN [Idle EXCEPT !.pc = "lookup", !.target = t]
                    ELSE call[t]]
      /\ UNCHANGED <<boots, profiles, launchVars, child, entryVars, chanVars,
                     serializer, heartbeat, monitor, rec>>
  BY DEF ShutdownBegins, Up
<1>2. \A t \in Servers : /\ [Idle EXCEPT !.pc = "lookup", !.target = t] \in CallTypes
                         /\ [Idle EXCEPT !.pc = "lookup", !.target = t].pc = "lookup"
  OBVIOUS
<1>3. \A t \in Threads : call[t] \in CallTypes
  BY DEF TypeOK
<1>4. \A t \in Threads : call'[t] \in CallTypes /\ (call'[t].pc = "lookup" \/ call'[t] = call[t])
  <2> HIDE DEF CallTypes
  <2>1. QED
    BY <1>1, <1>2, <1>3
<1>5. TypeOK'
  <2>1. call' \in [Threads -> CallTypes]
    <3> HIDE DEF CallTypes
    <3>1. QED
      BY <1>1, <1>4
  <2>2. QED
    BY <1>1, <2>1 DEF TypeOK
<1>6. TargetOK' /\ TerminalOK'
  BY <1>1, <1>4 DEF TargetOK, TerminalOK, Ended
<1>7. LaunchOK' /\ EntryOK'
  BY <1>1 DEF LaunchOK, EntryOK, Ended
<1>8. RecordOK' /\ DownOK' /\ PortExclusive'
  BY <1>1 DEF DownOK, RecordOK, PortExclusive, Recorded, Alive
<1>9. QED
  BY <1>5, <1>6, <1>7, <1>8

------------------------------------------------------------------------------
(* Every step keeps IInv if reattaching always succeeds. *)
LEMMA NextIInv ==
    ASSUME ~ ReattachMayFail
    PROVE  IInv /\ [Next]_vars => IInv'
<1> SUFFICES ASSUME IInv, [Next]_vars PROVE IInv'
  OBVIOUS
<1>1. ASSUME NEW s \in Servers, Launching(s) \/ Bind(s) \/ Exit(s) \/ Goroutines(s)
      PROVE  IInv'
  BY <1>1, LaunchingIInv, ChildIInv, GoroutinesIInv
<1>2. ASSUME Panic PROVE IInv'
  BY <1>2, GoDownIInv DEF Panic
<1>3. ASSUME Main PROVE IInv'
  <2>1. ASSUME ShutdownDone \/ ShutdownTimeout \/ StudioCrash PROVE IInv'
    <3>1. Up
      BY <2>1 DEF ShutdownDone, ShutdownTimeout, StudioCrash, Up
    <3>2. QED
      BY <2>1, <3>1, GoDownIInv DEF ShutdownDone, ShutdownTimeout, StudioCrash
  <2>2. QED
    BY <1>3, <2>1, ShutdownIInv, BootIInv DEF Main
<1>4. QED
  BY <1>1, <1>2, <1>3, StoppingIInv, DeleteIInv, StutterIInv DEF Next

(* Type correctness and the whole inductive invariant.  Needs Reattach to  *)
(* succeed: a child whose log cannot be reopened is left without an entry, *)
(* and its port may be handed out again before it binds it.                *)
THEOREM InductiveInvariant ==
    ASSUME ~ ReattachMayFail
    PROVE  Spec => []IInv
<1>1. Init => IInv
  BY InitIInv
<1>2. IInv /\ [Next]_vars => IInv'
  BY NextIInv
<1>3. QED
  BY <1>1, <1>2, PTL DEF Spec

(* The variables keep their types. *)
THEOREM TypeCorrect ==
    ASSUME ~ ReattachMayFail
    PROVE  Spec => []TypeOK
<1>1. IInv => TypeOK
  BY DEF IInv
<1>2. QED
  BY <1>1, InductiveInvariant, PTL

(* No two entries of s.active share a port, for any number of concurrent   *)
(* launches, stops, crashes and restarts (the reservation of StartServer). *)
THEOREM PortsAreExclusive ==
    ASSUME ~ ReattachMayFail
    PROVE  Spec => []PortExclusive
<1>1. IInv => PortExclusive
  BY DEF IInv
<1>2. QED
  BY <1>1, InductiveInvariant, PTL

(* A record says "stopped" or "crashed" only of a child that has ended,    *)
(* whichever of the racing writers wrote it.                               *)
THEOREM TerminalRecordsAreTrue ==
    ASSUME ~ ReattachMayFail
    PROVE  Spec => []TerminalMeansDead
<1>1. IInv => TerminalMeansDead
  BY DEF IInv, TerminalOK, TerminalMeansDead, Ended, Alive
<1>2. QED
  BY <1>1, InductiveInvariant, PTL

------------------------------------------------------------------------------
(* Heartbeats.  A living child without an entry is one the studio has      *)
(* lost, and nothing brings its record back: neither a serializer nor a    *)
(* stop is left that would write it.                                       *)
Forgotten(t) ==
    \/ launch[t] = "failed"
    \/ /\ launch[t] = "saved" /\ rec[t] = Absent
       /\ t \notin active /\ monitor[t] = "off"
       /\ \A c \in Threads : ~ (call[c].pc = "save" /\ call[c].target = t)

LEMMA ForgottenStays ==
    ASSUME IInv, NEW t \in Servers, Forgotten(t), [Next]_vars
    PROVE  Forgotten(t)'
<1> USE DEF studioVars, launchVars, entryVars, chanVars
<1>1. launch[t] = "failed" \/ (launch[t] = "saved" /\ serializer[t].pc = "off")
  BY DEF Forgotten, IInv, EntryOK
<1>2. ASSUME NEW s \in Servers, Launching(s) PROVE Forgotten(t)'
  <2>1. s # t
    BY <1>1, <1>2 DEF Launching, LookupProfile, Refuse, Reserve, Exec, DiscardReservation,
       Promote, SaveRecord
  <2>2. /\ launch'[t] = launch[t] /\ rec'[t] = rec[t] /\ monitor'[t] = monitor[t]
        /\ (t \in active' => t \in active) /\ call' = call
    BY <1>2, <2>1 DEF Launching, LookupProfile, Refuse, Reserve, Exec, DiscardReservation,
       Promote, SaveRecord, Supervise, IInv, TypeOK
  <2>3. QED
    BY <2>2 DEF Forgotten
<1>3. ASSUME NEW s \in Servers, Bind(s) \/ Exit(s) \/ Goroutines(s) PROVE Forgotten(t)'
  <2>1. launch' = launch /\ call' = call /\ (t \in active' => t \in active)
    BY <1>3 DEF Bind, Exit, Goroutines, Probe, SendBeat, Receive, WriteRecord, SerializerEnds,
       Reap, SendFinal, CloseUpdates, Kill
  <2>2. monitor[t] = "off" => monitor'[t] = "off"
    BY <1>3 DEF Bind, Exit, Goroutines, Probe, SendBeat, Receive, WriteRecord, SerializerEnds,
       Reap, SendFinal, CloseUpdates, Kill, IInv, TypeOK
  <2>3. launch[t] = "saved" => rec'[t] = rec[t]
    BY <1>1, <1>3 DEF Bind, Exit, Goroutines, Probe, SendBeat, Receive, WriteRecord,
       SerializerEnds, Reap, SendFinal, CloseUpdates, Kill, IInv, TypeOK
  <2>4. QED
    BY <2>1, <2>2, <2>3 DEF Forgotten
<1>4. ASSUME NEW c \in Threads, Stopping(c) PROVE Forgotten(t)'
  <2>1. /\ UNCHANGED <<launch, active, monitor>>
        /\ \A d \in Threads : d # c => call'[d] = call[d]
    BY <1>4 DEF Stopping, StopFound, StopMissing, StopSave, StopMark, StopSend, StopSignal,
       StopPanics, IInv, TypeOK
  <2>2. CASE \E s \in Servers : StopMissing(c, s)
    <3>1. PICK s \in Servers : StopMissing(c, s)
      BY <2>2
    <3>2. rec' = rec /\ (call'[c].pc = "save" => call'[c].target = s /\ Recorded(s))
      BY <3>1, ConstantRecords DEF StopMissing, IInv, TypeOK
    <3>3. QED
      BY <2>1, <3>2 DEF Forgotten, Recorded
  <2>3. CASE ~ \E s \in Servers : StopMissing(c, s)
    <3>1. call'[c].pc # "save"
      BY <1>4, <2>3, ConstantRecords DEF Stopping, StopFound, StopSave, StopMark, StopSend,
         StopSignal, StopPanics, IInv, TypeOK
    <3>2. rec'[t] = rec[t] \/ (call[c].pc = "save" /\ call[c].target = t)
      BY <1>4, <2>3 DEF Stopping, StopFound, StopSave, StopMark, StopSend, StopSignal,
         StopPanics, IInv, TypeOK
    <3>3. QED
      BY <2>1, <3>1, <3>2 DEF Forgotten
  <2>4. QED
    BY <2>2, <2>3
<1>5. ASSUME NEW how, GoDown(how) PROVE Forgotten(t)'
  BY <1>1, <1>5, ConstantRecords DEF GoDown, Forgotten
<1>6. ASSUME NEW p \in Profiles, DeleteProfile(p) PROVE Forgotten(t)'
  BY <1>6 DEF DeleteProfile, Forgotten
<1>7. CASE ShutdownBegins
  <2>1. \A c \in Threads : call'[c].pc = "save" => call'[c] = call[c]
    BY <1>7 DEF ShutdownBegins, Idle
  <2>2. QED
    BY <1>7, <2>1 DEF ShutdownBegins, Forgotten
<1>8. CASE Boot
  <2>1. UNCHANGED <<launch, call>>
    BY <1>8 DEF Boot
  <2>2. ASSUME rec[t] = Absent, t \notin active, monitor[t] = "off"
        PROVE  rec'[t] = Absent /\ t \notin active' /\ monitor'[t] = "off"
    <3>1. ~ Kept(t)
      BY <2>2, ConstantRecords DEF Kept
    <3>2. PICK S \in SUBSET {s \in Servers : Kept(s)} : active' = S /\ Supervise(S)
      BY <1>8 DEF Boot
    <3>3. QED
      BY <1>8, <2>2, <3>1, <3>2 DEF Boot, Supervise
  <2>3. QED
    BY <2>1, <2>2 DEF Forgotten
<1>9. CASE UNCHANGED vars
  BY <1>9 DEF vars, Forgotten
<1>10. QED
  BY <1>2, <1>3, <1>4, <1>5, <1>6, <1>7, <1>8, <1>9
  DEF Next, Main, Panic, ShutdownDone, ShutdownTimeout, StudioCrash

(* Whoever answers on the port of an entry is its own child, a stranger,   *)
(* or forgotten: any other server with a record has an entry of its own,   *)
(* and so another port.                                                    *)
LEMMA AnsweringIsKnown ==
    ASSUME IInv, Up, NEW s \in active, NEW t \in Servers \ {s}, t \in Answering(port[s])
    PROVE  Forgotten(t)
<1>1. s \in Servers /\ child[t] = "ready" /\ port[t] = port[s]
  BY ConstAssumption DEF Answering, IInv, TypeOK
<1>2. t \notin active /\ Alive(t) /\ ~ Ended(t)
  BY <1>1 DEF IInv, PortExclusive, Alive, Ended
<1>3. launch[t] \in {"saved", "failed"}
  BY <1>1, <1>2 DEF IInv, TypeOK, LaunchOK
<1>4. rec[t] = Absent
  BY <1>2 DEF IInv, RecordOK, Recorded
<1>5. monitor[t] = "off"
  BY <1>2 DEF IInv, TypeOK, EntryOK
<1>6. \A c \in Threads : ~ (call[c].pc = "save" /\ call[c].target = t)
  BY <1>2 DEF IInv, TerminalOK
<1>7. QED
  BY <1>2, <1>3, <1>4, <1>5, <1>6 DEF Forgotten

NeighbourInv ==
    \A s, t \in Servers : heartbeat[s].by = t /\ t # s => Forgotten(t)

LEMMA NeighbourStep ==
    ASSUME IInv, NeighbourInv, [Next]_vars
    PROVE  NeighbourInv'
<1> USE DEF studioVars, launchVars, entryVars, chanVars
<1> SUFFICES ASSUME NEW s \in Servers, NEW t \in Servers, heartbeat'[s].by = t, t # s
             PROVE  Forgotten(t)'
  BY DEF NeighbourInv
<1>1. CASE heartbeat[s].by = t
  <2>1. Forgotten(t)
    BY <1>1 DEF NeighbourInv
  <2>2. QED
    BY <2>1, ForgottenStays
<1>2. CASE heartbeat[s].by # t
  <2>1. t # NoServer /\ NoBeat.by = NoServer
    BY ConstAssumption DEF NoBeat
  <2>2. Probe(s)
    <3>1. ASSUME NEW r \in Servers, Launching(r) PROVE FALSE
      BY <1>2, <2>1, <3>1 DEF Launching, LookupProfile, Refuse, Reserve, Exec,
         DiscardReservation, Promote, SaveRecord, Supervise, NoBeat
    <3>2. ASSUME NEW r \in Servers, Bind(r) \/ Exit(r) \/ Goroutines(r), ~ Probe(s) PROVE FALSE
      <4>1. CASE SendBeat(r)
        BY <1>2, <4>1 DEF SendBeat, IInv, TypeOK, Beats
      <4>2. CASE Probe(r) /\ r # s
        BY <1>2, <4>2 DEF Probe, IInv, TypeOK
      <4>3. CASE ~ SendBeat(r) /\ ~ Probe(r)
        BY <1>2, <3>2, <4>3 DEF Bind, Exit, Goroutines, Receive, WriteRecord, SerializerEnds,
           Reap, SendFinal, CloseUpdates, Kill
      <4>4. QED
        BY <3>2, <4>1, <4>2, <4>3
    <3>3. ASSUME \/ \E c \in Threads : Stopping(c)
                 \/ \E p \in Profiles : DeleteProfile(p)
                 \/ ShutdownBegins \/ UNCHANGED vars
          PROVE  FALSE
      BY <1>2, <3>3 DEF Stopping, StopFound, StopMissing, StopSave, StopMark, StopSend,
         StopSignal, StopPanics, DeleteProfile, ShutdownBegins, vars
    <3>4. ASSUME Panic \/ ShutdownDone \/ ShutdownTimeout \/ StudioCrash PROVE FALSE
      BY <2>1, <3>4 DEF Panic, ShutdownDone, ShutdownTimeout, StudioCrash, GoDown
    <3>5. ~ Boot
      BY <1>2, <2>1 DEF Boot, Supervise, NoBeat
    <3>6. QED
      BY <3>1, <3>2, <3>3, <3>4, <3>5 DEF Next, Main
  <2>3. s \in active /\ t \in Answering(port[s])
    <3>1. \/ heartbeat' = [heartbeat EXCEPT ![s] = NoBeat]
          \/ /\ s \in active
             /\ \E ok \in BOOLEAN, by \in {heartbeat[s].by} \union Answering(port[s]) :
                   heartbeat' = [heartbeat EXCEPT
                       ![s] = [pc |-> "send", by |-> by, msg |-> Beat(ok, by # NoServer)]]
      BY <2>2, Zenon DEF Probe
    <3>2. QED
      BY <1>2, <2>1, <3>1 DEF IInv, TypeOK
  <2>4. Up
    BY <2>2 DEF Probe
  <2>5. QED
    BY <2>3, <2>4, AnsweringIsKnown, ForgottenStays
<1>3. QED
  BY <1>1, <1>2

(* However launches, exits, crashes and new owners of ports interleave, no *)
(* heartbeat takes another server for its own, unless the studio has lost  *)
(* that one: what the reservation of ports is worth to a probe that asks   *)
(* host and port (monitorProcess).                                         *)
THEOREM NeighboursDoNotCount ==
    ASSUME ~ ReattachMayFail
    PROVE  Spec => []NoNeighbourCounts
<1>1. Init => NeighbourInv
  BY ConstAssumption DEF Init, NeighbourInv, NoBeat
<1>2. IInv /\ NeighbourInv /\ [Next]_vars => NeighbourInv'
  BY NeighbourStep
<1>3. NeighbourInv => NoNeighbourCounts
  BY DEF NeighbourInv, NoNeighbourCounts, Forgotten, Lost, Recorded
<1>4. QED
  BY <1>1, <1>2, <1>3, InductiveInvariant, PTL DEF Spec

------------------------------------------------------------------------------
(* Stops.  An entry that is marked has its child signalled, or the call    *)
(* that marked it is on its way to do so.                                  *)
StopHeld ==
    \A s \in stopped :
        prof[s] \in profiles /\ Alive(s) =>
            \/ s \in killers
            \/ \E t \in Threads : call[t].pc \in {"send", "signal"} /\ call[t].target = s

(* Only servers with a record are stopped or reattached, *)
SavedOnly ==
    /\ \A s \in stopped \union reattached : launch[s] = "saved"
    /\ \A t \in Threads : call[t].pc = "found" => launch[call[t].target] = "saved"
    /\ \A s \in Servers : call[s].pc = "lookup" => launch[s] = "saved"

(* the goroutines of the shutdown come with the shutdown, *)
NoneEarly == studio = "up" => \A s \in Servers : call[s].pc = "idle"

(* and the record of a reattached child keeps the PID it is found by. *)
PidKept ==
    \A s \in reattached :
        prof[s] \in profiles /\ Alive(s) =>
            rec[s].pid /\ (serializer[s].pc = "write" => serializer[s].cur.pid)

StopInv == StopHeld /\ SavedOnly /\ NoneEarly /\ PidKept

(* A step that leaves the stops, the records and their serializers alone.  *)
LEMMA StopFrame ==
    ASSUME IInv, StopInv,
           UNCHANGED <<studio, profiles, prof, stopped, reattached, killers, call>>,
           \A s \in Servers : launch[s] = "saved" => launch'[s] = "saved" /\ (Alive(s)' => Alive(s)),
           \A s \in reattached : rec'[s] = rec[s] /\ serializer'[s] = serializer[s]
    PROVE  StopInv'
<1>1. /\ stopped \subseteq Servers /\ reattached \subseteq Servers
      /\ \A t \in Threads : call[t].pc = "found" => call[t].target \in Servers
  BY DEF IInv, TypeOK, TargetOK
<1>2. StopHeld'
  BY <1>1 DEF StopInv, StopHeld, SavedOnly
<1>3. SavedOnly' /\ NoneEarly'
  BY <1>1 DEF StopInv, SavedOnly, NoneEarly
<1>4. PidKept'
  BY <1>1 DEF StopInv, PidKept, SavedOnly
<1>5. QED
  BY <1>2, <1>3, <1>4 DEF StopInv

LEMMA ServersStop ==
    ASSUME IInv, StopInv, NEW s \in Servers, Launching(s) \/ Bind(s) \/ Exit(s) \/ Goroutines(s)
    PROVE  StopInv'
<1> USE DEF studioVars, launchVars, entryVars, chanVars
<1>1. UNCHANGED <<studio, profiles, prof, stopped, reattached, killers, call>>
  BY DEF Launching, LookupProfile, Refuse, Reserve, Exec, DiscardReservation, Promote,
     SaveRecord, Bind, Exit, Goroutines, Probe, SendBeat, Receive, WriteRecord, SerializerEnds,
     Reap, SendFinal, CloseUpdates, Kill
<1>2. reattached \subseteq Servers /\ \A t \in reattached : launch[t] = "saved"
  BY DEF StopInv, SavedOnly, IInv, TypeOK
<1>3. CASE Launching(s)
  <2>1. launch[s] # "saved"
    BY <1>3 DEF Launching, LookupProfile, Refuse, Reserve, Exec, DiscardReservation, Promote,
       SaveRecord
  <2>2. \A t \in Servers : t # s => /\ launch'[t] = launch[t] /\ child'[t] = child[t]
                                    /\ rec'[t] = rec[t] /\ serializer'[t] = serializer[t]
    BY <1>3 DEF Launching, LookupProfile, Refuse, Reserve, Exec, DiscardReservation, Promote,
       SaveRecord, Supervise, IInv, TypeOK
  <2>3. QED
    BY <1>1, <1>2, <2>1, <2>2, StopFrame DEF Alive
<1>4. CASE Bind(s) \/ Exit(s) \/ Kill(s)
  <2>1. UNCHANGED <<launch, rec, serializer>>
    BY <1>4 DEF Bind, Exit, Kill
  <2>2. \A t \in Servers : Alive(t)' => Alive(t)
    BY <1>4 DEF Bind, Exit, Kill, Alive, IInv, TypeOK
  <2>3. QED
    BY <1>1, <2>1, <2>2, StopFrame
<1>5. CASE Probe(s) \/ SendBeat(s) \/ Reap(s) \/ SendFinal(s) \/ CloseUpdates(s)
  <2>1. UNCHANGED <<launch, child, rec, serializer>>
    BY <1>5 DEF Probe, SendBeat, Reap, SendFinal, CloseUpdates
  <2>2. QED
    BY <1>1, <2>1, StopFrame DEF Alive
<1>6. CASE Receive(s) \/ WriteRecord(s) \/ SerializerEnds(s)
  <2>1. UNCHANGED <<launch, child>>
    BY <1>6 DEF Receive, WriteRecord, SerializerEnds
  <2>2. StopHeld' /\ SavedOnly' /\ NoneEarly'
    BY <1>1, <2>1 DEF StopInv, StopHeld, SavedOnly, NoneEarly, Alive
  <2>3. SUFFICES ASSUME NEW t \in reattached, prof[t] \in profiles, Alive(t)
                 PROVE  rec'[t].pid /\ (serializer'[t].pc = "write" => serializer'[t].cur.pid)
    BY <1>1, <2>1, <2>2 DEF StopInv, PidKept, Alive
  <2>4. rec[t].pid /\ (serializer[t].pc = "write" => serializer[t].cur.pid) /\ ~ Ended(t)
    BY <2>3 DEF StopInv, PidKept, Alive, Ended
  <2>5. CASE t # s
    <3>1. rec'[t] = rec[t] /\ serializer'[t] = serializer[t]
      BY <1>2, <1>6, <2>5 DEF Receive, WriteRecord, SerializerEnds, IInv, TypeOK
    <3>2. QED
      BY <2>4, <3>1
  <2>6. CASE t = s /\ Receive(s)
    <3> DEFINE u == Head(updates[s])
    <3>1. /\ rec' = rec /\ updates[s] # <<>>
          /\ \/ serializer' = serializer
             \/ serializer' = [serializer EXCEPT ![s] = [pc |-> "write", cur |-> Patch(rec[s], u)]]
      BY <2>6 DEF Receive
    <3>2. u \notin Terminal
      <4>1. 1 \in DOMAIN updates[s] /\ u = updates[s][1]
        BY <3>1 DEF IInv, TypeOK
      <4>2. QED
        BY <2>4, <2>6, <4>1 DEF IInv, TerminalOK
    <3>3. Patch(rec[s], u).pid = (rec[s].pid /\ u \notin Terminal)
      BY DEF Patch
    <3> HIDE DEF u
    <3>4. Patch(rec[s], u).pid
      BY <2>4, <2>6, <3>2, <3>3
    <3>5. QED
      BY <2>4, <2>6, <3>1, <3>4 DEF IInv, TypeOK
  <2>7. CASE t = s /\ WriteRecord(s)
    BY <2>4, <2>7 DEF WriteRecord, NoWrite, IInv, TypeOK
  <2>8. CASE t = s /\ SerializerEnds(s)
    BY <2>4, <2>8 DEF SerializerEnds, NoWrite, IInv, TypeOK
  <2>9. QED
    BY <1>6, <2>5, <2>6, <2>7, <2>8
<1>7. QED
  BY <1>3, <1>4, <1>5, <1>6 DEF Goroutines

(* The steps of StopServer: the mark is followed by the signal, for the    *)
(* entry has a handle or its record a PID.                                 *)
LEMMA CallsStop ==
    ASSUME IInv, StopInv, NEW t \in Threads, Stopping(t)
    PROVE  StopInv'
<1> USE DEF studioVars, launchVars, entryVars, chanVars
<1> USE ConstantRecords
<1>1. /\ UNCHANGED <<studio, profiles, prof, launch, child, reattached, serializer>>
      /\ Up
      /\ \A v \in Threads : v # t => call'[v] = call[v]
  BY DEF Stopping, StopFound, StopMissing, StopSave, StopMark, StopSend, StopSignal, StopPanics,
     IInv, TypeOK
<1>2. CASE \E s \in Servers : StopFound(t, s) \/ StopMissing(t, s)
  <2> PICK s \in Servers : StopFound(t, s) \/ StopMissing(t, s)
    BY <1>2
  <2>1. UNCHANGED <<stopped, killers, rec>> /\ Looks(t, s)
    BY DEF StopFound, StopMissing
  <2>2. call[t].pc \in {"idle", "lookup"} /\ launch[s] = "saved" /\ (studio = "up" => t \notin Servers)
    BY <2>1, ConstAssumption DEF Looks, Known, StopInv, SavedOnly, NoneEarly
  <2>3. call'[t].pc \in {"found", "save", "idle"} /\ (call'[t].pc = "found" => call'[t].target = s)
    BY DEF StopFound, StopMissing, IInv, TypeOK
  <2>4. StopHeld' /\ PidKept'
    BY <1>1, <2>1, <2>2 DEF StopInv, StopHeld, PidKept, Alive
  <2>5. SavedOnly' /\ NoneEarly'
    BY <1>1, <2>1, <2>2, <2>3 DEF StopInv, SavedOnly, NoneEarly, Threads
  <2>6. QED
    BY <2>4, <2>5 DEF StopInv
<1>3. CASE StopSave(t)
  <2> DEFINE s == call[t].target
  <2>1. /\ call[t].pc = "save" /\ call'[t].pc = "idle" /\ UNCHANGED <<stopped, killers>>
        /\ s \in Servers /\ Ended(s)
        /\ \A v \in Servers : v # s => rec'[v] = rec[v]
    BY <1>3 DEF StopSave, IInv, TypeOK, TargetOK, TerminalOK
  <2>2. StopHeld' /\ SavedOnly' /\ NoneEarly'
    BY <1>1, <2>1 DEF StopInv, StopHeld, SavedOnly, NoneEarly, Alive, Threads
  <2>3. PidKept'
    BY <1>1, <2>1 DEF StopInv, PidKept, Alive, Ended, IInv, TypeOK
  <2>4. QED
    BY <2>2, <2>3 DEF StopInv
<1>4. CASE StopMark(t)
  <2> DEFINE s == call[t].target
  <2>1. /\ call[t].pc = "found" /\ s \in Servers /\ launch[s] = "saved"
        /\ stopped' = stopped \union {s} /\ UNCHANGED <<killers, rec>>
    BY <1>4 DEF StopMark, IInv, TargetOK, StopInv, SavedOnly
  <2>2. \/ ~ HasHandle(s) /\ ~ rec[s].pid /\ call'[t].pc = "idle"
        \/ call'[t].pc = "send" /\ call'[t].target = s
    BY <1>4 DEF StopMark, IInv, TypeOK
  <2>3. prof[s] \in profiles /\ Alive(s) => call'[t].pc = "send" /\ call'[t].target = s
    BY <2>1, <2>2 DEF HasHandle, StopInv, PidKept
  <2>4. StopHeld'
    <3> SUFFICES ASSUME NEW v \in stopped', prof[v] \in profiles, Alive(v)
                 PROVE  \/ v \in killers
                        \/ \E c \in Threads : call'[c].pc \in {"send", "signal"} /\ call'[c].target = v
      BY <1>1, <2>1 DEF StopHeld, Alive
    <3>1. CASE v = s
      BY <2>3, <3>1
    <3>2. CASE v # s
      BY <1>1, <2>1, <3>2 DEF StopInv, StopHeld
    <3>3. QED
      BY <3>1, <3>2
  <2>5. SavedOnly' /\ NoneEarly' /\ PidKept'
    BY <1>1, <2>1, <2>2 DEF StopInv, SavedOnly, NoneEarly, PidKept, Alive, Threads
  <2>6. QED
    BY <2>4, <2>5 DEF StopInv
<1>5. CASE StopSend(t) \/ StopSignal(t)
  <2>1. /\ UNCHANGED <<stopped, rec>> /\ call[t].pc \in {"send", "signal"}
        /\ \/ UNCHANGED killers /\ call'[t].pc = "signal" /\ call'[t].target = call[t].target
           \/ killers' = killers \union {call[t].target} /\ call'[t].pc = "idle"
    BY <1>5 DEF StopSend, StopSignal, IInv, TypeOK
  <2>2. StopHeld'
    BY <1>1, <2>1 DEF StopInv, StopHeld, Alive
  <2>3. SavedOnly' /\ NoneEarly' /\ PidKept'
    BY <1>1, <2>1 DEF StopInv, SavedOnly, NoneEarly, PidKept, Alive, Threads
  <2>4. QED
    BY <2>2, <2>3 DEF StopInv
<1>6. CASE StopPanics(t)
  <2>1. /\ UNCHANGED <<stopped, killers, rec>> /\ call[t].pc = "send" /\ call'[t].pc = "idle"
        /\ call[t].target \in closed
    BY <1>6 DEF StopPanics, IInv, TypeOK
  <2>2. ~ Alive(call[t].target)
    BY <2>1 DEF IInv, TypeOK, EntryOK, Ended, Alive
  <2>3. StopHeld'
    BY <1>1, <2>1, <2>2 DEF StopInv, StopHeld, Alive
  <2>4. SavedOnly' /\ NoneEarly' /\ PidKept'
    BY <1>1, <2>1 DEF StopInv, SavedOnly, NoneEarly, PidKept, Alive, Threads
  <2>5. QED
    BY <2>3, <2>4 DEF StopInv
<1>7. QED
  BY <1>2, <1>3, <1>4, <1>5, <1>6 DEF Stopping

LEMMA MainStop ==
    ASSUME IInv, StopInv, Main \/ Panic \/ \E p \in Profiles : DeleteProfile(p)
    PROVE  StopInv'
<1> USE DEF studioVars, launchVars, entryVars, chanVars
<1> USE ConstantRecords
<1>1. ASSUME NEW how \in {"panicked", "clean", "timeout", "crashed"}, GoDown(how) PROVE StopInv'
  BY <1>1 DEF GoDown, StopInv, StopHeld, SavedOnly, NoneEarly, PidKept, Threads
<1>2. ASSUME NEW p \in Profiles, DeleteProfile(p) PROVE StopInv'
  <2>1. /\ profiles' = profiles \ {p}
        /\ \A s \in Servers : prof[s] # p => rec'[s] = rec[s]
        /\ UNCHANGED <<studioVars, launchVars, child, entryVars, serializer, call>>
    BY <1>2 DEF DeleteProfile
  <2>2. StopHeld' /\ SavedOnly' /\ NoneEarly'
    BY <2>1 DEF StopInv, StopHeld, SavedOnly, NoneEarly, Alive
  <2>3. PidKept'
    BY <2>1 DEF StopInv, PidKept, Alive, IInv, TypeOK
  <2>4. QED
    BY <2>2, <2>3 DEF StopInv
<1>3. CASE ShutdownBegins
  <2>1. /\ studio = "up" /\ studio' = "stopping"
        /\ UNCHANGED <<profiles, launchVars, child, entryVars, serializer, rec>>
    BY <1>3 DEF ShutdownBegins
  <2>2. /\ \A t \in Threads \ Servers : call'[t] = call[t]
        /\ \A s \in Servers : \/ call'[s] = call[s]
                              \/ call'[s].pc = "lookup" /\ rec[s].status # "absent"
    BY <1>3 DEF ShutdownBegins, Threads, Idle
  <2>3. \A s \in Servers : call[s].pc = "idle"
    BY <2>1 DEF StopInv, NoneEarly
  <2>4. \A s \in Servers : rec[s].status # "absent" => launch[s] = "saved"
    BY DEF IInv, LaunchOK
  <2>5. SavedOnly'
    BY <2>1, <2>2, <2>3, <2>4 DEF StopInv, SavedOnly, Threads
  <2>6. StopHeld' /\ NoneEarly' /\ PidKept'
    BY <2>1, <2>2, <2>3 DEF StopInv, StopHeld, NoneEarly, PidKept, Alive, Threads
  <2>7. QED
    BY <2>5, <2>6 DEF StopInv
<1>4. CASE Boot
  <2>1. PICK S \in SUBSET {s \in Servers : Kept(s)} : reattached' = S /\ Supervise(S)
    BY <1>4 DEF Boot
  <2>2. /\ ~ Up /\ UNCHANGED <<profiles, launchVars, child, stopped, killers, call>>
        /\ rec' = [s \in Servers |-> IF Kept(s) THEN rec[s] ELSE Absent]
    BY <1>4 DEF Boot
  <2>3. \A s \in S : /\ rec'[s].pid /\ serializer'[s].pc = "recv"
                     /\ launch[s] = "saved"
    BY <2>1, <2>2 DEF Kept, Supervise, NoWrite, IInv, LaunchOK
  <2>4. \A t \in Threads : call[t].pc = "idle"
    BY <2>2 DEF IInv, DownOK
  <2>5. SavedOnly' /\ NoneEarly'
    BY <2>1, <2>2, <2>3, <2>4 DEF StopInv, SavedOnly, NoneEarly, Threads
  <2>6. StopHeld' /\ PidKept'
    BY <2>1, <2>2, <2>3 DEF StopInv, StopHeld, PidKept, Alive
  <2>7. QED
    BY <2>5, <2>6 DEF StopInv
<1>5. QED
  BY <1>1, <1>2, <1>3, <1>4 DEF Main, Panic, ShutdownDone, ShutdownTimeout, StudioCrash

(* When a stop has returned, the child of the entry it marked is gone or   *)
(* has a killer behind it, reattached or not.                              *)
THEOREM StopsReachTheChild ==
    ASSUME ~ ReattachMayFail
    PROVE  Spec => []StopReachesChild
<1>1. Init => StopInv
  BY ConstantRecords DEF Init, StopInv, StopHeld, SavedOnly, NoneEarly, PidKept, Threads
<1>2. IInv /\ StopInv /\ [Next]_vars => StopInv'
  <2> SUFFICES ASSUME IInv, StopInv, [Next]_vars PROVE StopInv'
    OBVIOUS
  <2>1. CASE UNCHANGED vars
    BY <2>1, StopFrame DEF vars, studioVars, launchVars, entryVars, Alive
  <2>2. QED
    BY <2>1, ServersStop, CallsStop, MainStop DEF Next
<1>3. StopInv => StopReachesChild
  BY DEF StopInv, StopHeld, StopReachesChild
<1>4. QED
  BY <1>1, <1>2, <1>3, InductiveInvariant, PTL DEF Spec

------------------------------------------------------------------------------
(* The refinement of PortLease. *)

Held == [s \in Servers |-> IF s \in active THEN port[s] ELSE NoPort]
Running == {s \in Servers : Alive(s)}

(* A step that leaves the map, the ports and the children alone is a       *)
(* stutter of PortLease.                                                   *)
LEMMA LeaseStutter ==
    UNCHANGED <<active, port, child>> => UNCHANGED Lease!leaseVars
BY DEF Lease!leaseVars, Alive

(* StartServer takes a lease, launches under it, or gives it back.         *)
LEMMA LaunchingLease ==
    ASSUME IInv, NEW s \in Servers, Launching(s)
    PROVE  [Lease!Next]_(Lease!leaseVars)
<1> USE DEF IInv, studioVars, launchVars, entryVars, chanVars
<1>1. CASE LookupProfile(s) \/ Refuse(s) \/ Promote(s) \/ SaveRecord(s)
  <2>1. UNCHANGED <<active, port, child>>
    BY <1>1 DEF LookupProfile, Refuse, Promote, SaveRecord
  <2>2. QED
    BY <2>1, LeaseStutter
<1>2. CASE \E p \in Ports : Reserve(s, p)
  <2> PICK p \in Ports : Reserve(s, p)
    BY <1>2
  <2>1. /\ launch[s] = "checked" /\ \A t \in active : port[t] # p
        /\ active' = active \union {s}
        /\ port' = [port EXCEPT ![s] = p] /\ child' = child
    BY DEF Reserve, PortAvailable
  <2>2. s \notin active /\ ~ Alive(s)
    BY <2>1 DEF LaunchOK, Alive
  <2>3. \A t \in Servers : Held[t] # p
    BY <2>1, ConstAssumption DEF Held
  <2>4. Held' = [Held EXCEPT ![s] = p]
    BY <2>1, <2>2 DEF Held, TypeOK
  <2>5. UNCHANGED Running
    BY <2>1 DEF Running, Alive
  <2>6. Lease!Acquire(s, p)
    BY <2>2, <2>3, <2>4, <2>5 DEF Lease!Acquire, Held, Running
  <2>7. QED
    BY <2>6 DEF Lease!Next
<1>3. CASE Exec(s)
  <2>1. /\ launch[s] = "reserved"
        /\ child' = [child EXCEPT ![s] = "booting"]
        /\ UNCHANGED <<active, port>>
    BY <1>3 DEF Exec
  <2>2. s \in active /\ port[s] \in Ports /\ ~ Alive(s)
    BY <2>1 DEF LaunchOK, Alive
  <2>3. Held[s] # NoPort /\ UNCHANGED Held
    BY <2>1, <2>2, ConstAssumption DEF Held
  <2>4. Running' = Running \union {s}
    BY <2>1 DEF Running, Alive, TypeOK
  <2>5. Lease!Launch(s)
    BY <2>2, <2>3, <2>4 DEF Lease!Launch, Held, Running
  <2>6. QED
    BY <2>5 DEF Lease!Next
<1>4. CASE DiscardReservation(s)
  <2>1. /\ launch[s] = "reserved"
        /\ active' = active \ {s}
        /\ UNCHANGED <<port, child>>
    BY <1>4 DEF DiscardReservation
  <2>2. s \in active /\ port[s] \in Ports /\ ~ Alive(s)
    BY <2>1 DEF LaunchOK, Alive
  <2>3. Held[s] # NoPort /\ Held' = [Held EXCEPT ![s] = NoPort]
    BY <2>1, <2>2, ConstAssumption DEF Held
  <2>4. UNCHANGED Running
    BY <2>1 DEF Running, Alive
  <2>5. Lease!Release(s)
    BY <2>2, <2>3, <2>4 DEF Lease!Release, Held, Running
  <2>6. QED
    BY <2>5 DEF Lease!Next
<1>5. QED
  BY <1>1, <1>2, <1>3, <1>4 DEF Launching

(* The monitor gives a lease back only after the child has ended.          *)
LEMMA ReapLease ==
    ASSUME IInv, NEW s \in Servers, Reap(s)
    PROVE  Lease!Next
<1>1. /\ monitor[s] = "wait" /\ ~ Alive(s)
      /\ active' = active \ {s}
      /\ UNCHANGED <<port, child>>
  BY DEF Reap, launchVars
<1>2. s \in active /\ port[s] \in Ports
  BY <1>1 DEF IInv, EntryOK, LaunchOK
<1>3. Held[s] # NoPort /\ Held' = [Held EXCEPT ![s] = NoPort]
  BY <1>1, <1>2, ConstAssumption DEF Held
<1>4. UNCHANGED Running
  BY <1>1 DEF Running, Alive
<1>5. Lease!Release(s)
  BY <1>1, <1>3, <1>4 DEF Lease!Release, Held, Running
<1>6. QED
  BY <1>5 DEF Lease!Next

(* A child binds its port, which is no matter of leases, or it ends.       *)
LEMMA ChildLease ==
    ASSUME IInv, NEW s \in Servers, Bind(s) \/ Exit(s) \/ Kill(s)
    PROVE  [Lease!Next]_(Lease!leaseVars)
<1> USE DEF IInv, launchVars, entryVars
<1>1. UNCHANGED <<active, port>>
  BY DEF Bind, Exit, Kill
<1>2. UNCHANGED Held
  BY <1>1 DEF Held
<1>3. CASE Bind(s)
  <2>1. UNCHANGED Running
    BY <1>3 DEF Bind, Running, Alive, TypeOK
  <2>2. QED
    BY <1>2, <2>1 DEF Lease!leaseVars, Held, Running
<1>4. CASE Exit(s) \/ Kill(s)
  <2>1. \E how \in {"exit0", "exit1"} : Alive(s) /\ child' = [child EXCEPT ![s] = how]
    BY <1>4 DEF Exit, Kill
  <2>2. Running' = Running \ {s}
    BY <2>1 DEF Running, Alive, TypeOK
  <2>3. Lease!Exit(s)
    BY <1>2, <2>1, <2>2 DEF Lease!Exit, Held, Running
  <2>4. QED
    BY <2>3 DEF Lease!Next
<1>5. QED
  BY <1>3, <1>4

(* Going down forgets the leases; booting takes back those of the children *)
(* it adopts, which do not clash.                                          *)
LEMMA MainLease ==
    ASSUME IInv, Main \/ Panic, ~ ReattachMayFail
    PROVE  [Lease!Next]_(Lease!leaseVars)
<1> USE DEF IInv, launchVars, entryVars, chanVars
<1>1. ASSUME NEW how, GoDown(how) PROVE Lease!Next
  <2>1. Held' = [s \in Servers |-> NoPort] /\ UNCHANGED Running
    BY <1>1 DEF GoDown, Held, Running, Alive
  <2>2. Lease!Forget
    BY <2>1 DEF Lease!Forget, Held, Running
  <2>3. QED
    BY <2>2 DEF Lease!Next
<1>2. CASE ShutdownBegins
  <2>1. UNCHANGED <<active, port, child>>
    BY <1>2 DEF ShutdownBegins
  <2>2. QED
    BY <2>1, LeaseStutter
<1>3. CASE Boot
  <2> DEFINE S == {s \in Servers : Kept(s)}
  <2>1. ~ Up /\ active' = S /\ UNCHANGED <<port, child>>
    BY <1>3 DEF Boot
  <2>2. active = {}
    BY <2>1 DEF DownOK
  <2>3. \A s \in S : Recorded(s) /\ Alive(s) /\ port[s] \in Ports
    BY DEF Kept, Recorded, RecordOK, Absent
  <2>4. \A s, t \in S : s # t => port[s] # port[t]
    BY <2>3 DEF RecordOK
  <2> HIDE DEF S
  <2>5. Held = [s \in Servers |-> NoPort]
    BY <2>2 DEF Held
  <2>6. /\ Held' = [s \in Servers |-> IF s \in S THEN port[s] ELSE NoPort]
        /\ UNCHANGED Running
    BY <2>1 DEF Held, Running, Alive
  <2>7. /\ Held' \in [Servers -> Ports \union {NoPort}]
        /\ \A s \in Servers : Held'[s] # NoPort => s \in Running
    BY <2>3, <2>6 DEF Running
  <2>8. Lease!Clashless(Held')
    BY <2>3, <2>4, <2>6, ConstAssumption DEF Lease!Clashless
  <2>9. Lease!Adopt
    BY <2>5, <2>6, <2>7, <2>8 DEF Lease!Adopt, Held, Running
  <2>10. QED
    BY <2>9 DEF Lease!Next
<1>4. QED
  BY <1>1, <1>2, <1>3 DEF Main, Panic, ShutdownDone, ShutdownTimeout, StudioCrash

(* The supervisor implements PortLease: a child runs only under a lease,   *)
(* a lease ends only after its child, and a restart adopts without clash.  *)
THEOREM ImplementsPortLease ==
    ASSUME ~ ReattachMayFail
    PROVE  Spec => LeaseSpec
<1>1. Init => Lease!Init
  BY DEF Init, Lease!Init, Alive
<1>2. IInv /\ [Next]_vars => [Lease!Next]_(Lease!leaseVars)
  <2> SUFFICES ASSUME IInv, [Next]_vars PROVE [Lease!Next]_(Lease!leaseVars)
    OBVIOUS
  <2>1. ASSUME NEW s \in Servers, Goroutines(s), ~ Kill(s), ~ Reap(s)
        PROVE  UNCHANGED <<active, port, child>>
    BY <2>1 DEF Goroutines, Probe, SendBeat, Receive, WriteRecord, SerializerEnds,
                SendFinal, CloseUpdates, launchVars, entryVars
  <2>2. ASSUME NEW t \in Threads, Stopping(t)
        PROVE  UNCHANGED <<active, port, child>>
    BY <2>2 DEF Stopping, StopFound, StopMissing, StopSave, StopMark, StopSend,
                StopSignal, StopPanics, launchVars, entryVars
  <2>3. ASSUME NEW p \in Profiles, DeleteProfile(p)
        PROVE  UNCHANGED <<active, port, child>>
    BY <2>3 DEF DeleteProfile, launchVars, entryVars
  <2>4. UNCHANGED vars => UNCHANGED <<active, port, child>>
    BY DEF vars, launchVars, entryVars
  <2>5. ASSUME NEW s \in Servers, Launching(s) \/ Bind(s) \/ Exit(s) \/ Goroutines(s)
        PROVE  [Lease!Next]_(Lease!leaseVars)
    BY <2>1, <2>5, LaunchingLease, ChildLease, ReapLease, LeaseStutter
  <2>6. QED
    BY <2>2, <2>3, <2>4, <2>5, MainLease, LeaseStutter DEF Next
<1>3. QED
  BY <1>1, <1>2, InductiveInvariant, PTL DEF Spec, LeaseSpec, Lease!Spec

(* Steps of PortLease keep the leases apart. *)
LEMMA LeaseStep ==
    ASSUME Lease!Clashless(Held), [Lease!Next]_(Lease!leaseVars)
    PROVE  Lease!Clashless(Held')
<1>1. ASSUME NEW s \in Servers, NEW p \in Ports, Lease!Acquire(s, p)
      PROVE  Lease!Clashless(Held')
  <2>1. Held' = [Held EXCEPT ![s] = p] /\ \A t \in Servers : Held[t] # p
    BY <1>1 DEF Lease!Acquire, Held
  <2>2. Held \in [Servers -> Ports \union {NoPort} \union {Held[t] : t \in Servers}]
    BY DEF Held
  <2>3. Held'[s] = p /\ \A t \in Servers : t # s => Held'[t] = Held[t]
    BY <2>1, <2>2
  <2>4. QED
    BY <2>1, <2>3 DEF Lease!Clashless
<1>2. ASSUME NEW s \in Servers, Lease!Release(s)
      PROVE  Lease!Clashless(Held')
  <2>1. Held' = [Held EXCEPT ![s] = NoPort]
    BY <1>2 DEF Lease!Release, Held
  <2>2. Held \in [Servers -> {Held[t] : t \in Servers}]
    BY DEF Held
  <2>3. Held'[s] = NoPort /\ \A t \in Servers : t # s => Held'[t] = Held[t]
    BY <2>1, <2>2
  <2>4. QED
    BY <2>3 DEF Lease!Clashless
<1>3. CASE Lease!Forget
  <2>1. Held' = [s \in Servers |-> NoPort]
    BY <1>3 DEF Lease!Forget, Held
  <2>2. QED
    BY <2>1 DEF Lease!Clashless
<1>4. CASE Lease!Adopt
  BY <1>4 DEF Lease!Adopt, Held
<1>5. ASSUME NEW s \in Servers, Lease!Launch(s) \/ Lease!Exit(s)
      PROVE  Held' = Held
  BY <1>5 DEF Lease!Launch, Lease!Exit, Held
<1>6. UNCHANGED Lease!leaseVars => Held' = Held
  BY DEF Lease!leaseVars, Held
<1>7. QED
  BY <1>1, <1>2, <1>3, <1>4, <1>5, <1>6 DEF Lease!Next

(* What PortLease promises follows from its own steps, whoever takes them: *)
(* two servers never hold the same port.                                   *)
THEOREM LeasesAreExclusive == LeaseSpec => []Lease!Exclusive
<1>1. Lease!Init => Lease!Clashless(Held)
  <2>1. ASSUME Lease!Init PROVE Held = [s \in Servers |-> NoPort]
    BY <2>1 DEF Lease!Init, Held
  <2>2. QED
    BY <2>1 DEF Lease!Clashless
<1>2. Lease!Clashless(Held) /\ [Lease!Next]_(Lease!leaseVars) => Lease!Clashless(Held)'
  BY LeaseStep DEF Lease!Clashless
<1>3. Lease!Clashless(Held) => Lease!Exclusive
  BY DEF Lease!Exclusive, Held
<1>4. QED
  BY <1>1, <1>2, <1>3, PTL DEF LeaseSpec, Lease!Spec
==============================================================================
