--------------------------- MODULE TelemetryProofs ---------------------------
(***************************************************************************)
(* Proofs about Router and Telemetry, for any number of servers, profiles, *)
(* ports and requests: whoever answers a request or the sampler in a       *)
(* server's stead does so only when that server has ended, and the rates   *)
(* are those of the tokens generated.                                      *)
(***************************************************************************)
EXTENDS Telemetry, SequenceTheorems, TLAPS

(* Two active servers have two ports. *)
PortsApart == \A s, t \in Servers : Active(s) /\ Active(t) /\ port[s] = port[t] => s = t

(* A record is of a server that was started; it has said "healthy" only    *)
(* after its first health check.                                           *)
RecordsTrue ==
    \A s \in Servers :
        /\ rec[s] # "absent" => life[s] # "none"
        /\ rec[s] = "healthy" => life[s] \in {"up", "exited", "gone"}

(* What a request remembers of the server it was sent to is as true. *)
RequestsTrue ==
    \A r \in Requests :
        LET q == request[r] IN
        /\ q.pc \in {"new", "list"} => q.answer = "none"
        /\ q.pc = "connect" \/ q.answer \in {"answered", "unreachable"} =>
              /\ q.to \in Servers
              /\ life[q.to] # "none"
              /\ q.saw # "starting" => life[q.to] \in {"up", "exited", "gone"}
        /\ q.pc = "connect" => q.answer = "none"
        /\ q.answer = "unreachable" => q.by = NoServer

RouterInv ==
    /\ TypeOK /\ PortsApart /\ RecordsTrue /\ RequestsTrue
    /\ StrayOnlyAfterEnd /\ TurnedAwayOnlyAfterEnd

------------------------------------------------------------------------------
LEMMA RouterInitInv == Init => RouterInv
<1> SUFFICES ASSUME Init PROVE RouterInv
  OBVIOUS
<1>1. PICK p \in [Requests -> Profiles], a \in [Requests -> {"openai", "anthropic"}] :
         request = [r \in Requests |->
              [pc |-> "new", profile |-> p[r], api |-> a[r], to |-> NoServer,
               saw |-> "absent", by |-> NoServer, answer |-> "none"]]
  BY DEF Init
<1>2. /\ life = [s \in Servers |-> "none"] /\ prof \in [Servers -> Profiles]
      /\ port \in [Servers -> Ports] /\ rec = [s \in Servers |-> "absent"]
      /\ started = [s \in Servers |-> 0] /\ now = 0
  BY DEF Init
<1>3. request \in [Requests ->
          [pc : {"new", "list", "connect", "done"}, profile : Profiles, api : {"openai", "anthropic"},
           to : Servers \union {NoServer}, saw : Statuses, by : Servers \union {NoServer},
           answer : {"none", "conflict", "unreachable", "answered"}]]
  BY <1>1 DEF Statuses
<1>4. TypeOK
  BY <1>2, <1>3, ConstAssumption DEF TypeOK, Statuses
<1>5. PortsApart /\ RecordsTrue
  BY <1>2 DEF PortsApart, RecordsTrue, Active
<1>6. RequestsTrue /\ StrayOnlyAfterEnd /\ TurnedAwayOnlyAfterEnd
  BY <1>1 DEF RequestsTrue, StrayOnlyAfterEnd, TurnedAwayOnlyAfterEnd
<1>7. QED
  BY <1>4, <1>5, <1>6 DEF RouterInv

(* No life goes back: what has been seen of it stays true of it. *)
LivesGoOn ==
    \A s \in Servers :
        /\ life[s] # "none" => life'[s] # "none"
        /\ life[s] \in {"up", "exited", "gone"} => life'[s] \in {"up", "exited", "gone"}
        /\ life[s] \in {"exited", "gone"} => life'[s] \in {"exited", "gone"}
        /\ life[s] = "gone" => life'[s] = "gone"

LEMMA StepLivesGoOn ==
    ASSUME TypeOK, [Next]_vars
    PROVE  LivesGoOn
<1>1. CASE UNCHANGED vars
  BY <1>1 DEF vars, LivesGoOn
<1>2. ASSUME NEW s \in Servers, Serve(s) PROVE LivesGoOn
  <2>1. life' \in {life, [life EXCEPT ![s] = "loading"], [life EXCEPT ![s] = "up"],
                   [life EXCEPT ![s] = "exited"], [life EXCEPT ![s] = "gone"]}
    BY <1>2 DEF Serve, Start, Listen, Report, Exit, Reap, Record
  <2>2. /\ life' = [life EXCEPT ![s] = "loading"] => life[s] \in {"none", "loading"}
        /\ life' = [life EXCEPT ![s] = "up"] => life[s] \in {"loading", "up"}
        /\ life' = [life EXCEPT ![s] = "exited"] => life[s] \in {"loading", "up", "exited"}
        /\ life' = [life EXCEPT ![s] = "gone"] => life[s] \in {"exited", "gone"}
    BY <1>2 DEF TypeOK, Serve, Start, Listen, Report, Exit, Reap, Record
  <2>3. QED
    BY <2>1, <2>2 DEF LivesGoOn, TypeOK
<1>3. CASE (\E r \in Requests : Route(r)) \/ Tick
  BY <1>3 DEF Route, Tick, serverVars, LivesGoOn
<1>4. QED
  BY <1>1, <1>2, <1>3 DEF Next

(* What a server does leaves every request as true as it was. *)
LEMMA ServeInv ==
    ASSUME RouterInv, NEW s \in Servers, Serve(s)
    PROVE  RouterInv'
<1>1. request' = request /\ prof' = prof /\ port' = port /\ now' = now
  BY DEF Serve, Start, Listen, Report, Exit, Reap, Record
<1>2. LivesGoOn
  BY StepLivesGoOn DEF RouterInv, Next
<1>3. /\ life \in [Servers -> {"none", "loading", "up", "exited", "gone"}]
      /\ rec \in [Servers -> Statuses] /\ started \in [Servers -> 0..MaxTime] /\ now \in 0..MaxTime
      /\ port \in [Servers -> Ports]
  BY DEF RouterInv, TypeOK
<1>4. /\ life' \in [Servers -> {"none", "loading", "up", "exited", "gone"}]
      /\ rec' \in [Servers -> Statuses] /\ started' \in [Servers -> 0..MaxTime]
  BY <1>3 DEF Serve, Start, Listen, Report, Exit, Reap, Record, Statuses
<1>5. TypeOK'
  BY <1>1, <1>4 DEF RouterInv, TypeOK
<1>6. \A t \in Servers \ {s} : life'[t] = life[t] /\ rec'[t] = rec[t]
  BY <1>3 DEF Serve, Start, Listen, Report, Exit, Reap, Record
<1>7. PortsApart'
  <2>1. CASE Start(s)
    <3>1. life' = [life EXCEPT ![s] = "loading"] /\ \A t \in Servers : Active(t) => port[t] # port[s]
      BY <2>1 DEF Start, PortFree
    <3>2. QED
      BY <1>1, <1>3, <1>6, <3>1 DEF RouterInv, PortsApart, Active
  <2>2. CASE ~ Start(s)
    <3>1. life'[s] \in {"loading", "up", "exited"} => life[s] \in {"loading", "up", "exited"}
      BY <1>3, <2>2 DEF Serve, Listen, Report, Exit, Reap, Record, Active
    <3>2. QED
      BY <1>1, <1>6, <3>1 DEF RouterInv, PortsApart, Active
  <2>3. QED
    BY <2>1, <2>2
<1>8. RecordsTrue'
  <2>1. rec'[s] # "absent" => life'[s] # "none"
    BY <1>2, <1>3 DEF RouterInv, RecordsTrue, LivesGoOn, Serve, Start, Listen, Report, Exit, Reap, Record,
                      Active
  <2>2. rec'[s] = "healthy" => life'[s] \in {"up", "exited", "gone"}
    <3>1. CASE rec'[s] = rec[s]
      BY <1>2, <3>1 DEF RouterInv, RecordsTrue, LivesGoOn
    <3>2. CASE Start(s) \/ Record(s)
      BY <1>3, <3>2 DEF Start, Record
    <3>3. CASE Report(s)
      BY <1>3, <3>3 DEF Report
    <3>4. QED
      BY <3>1, <3>2, <3>3 DEF Serve, Listen, Exit, Reap
  <2>3. QED
    BY <1>2, <1>6, <2>1, <2>2 DEF RouterInv, RecordsTrue
<1>9. RequestsTrue'
  BY <1>1, <1>2 DEF RouterInv, RequestsTrue, LivesGoOn
<1>10. StrayOnlyAfterEnd'
  <2> SUFFICES ASSUME NEW r \in Requests, request[r].answer = "answered", request[r].by # request[r].to
               PROVE  life'[request[r].to] = "gone"
    BY <1>1 DEF StrayOnlyAfterEnd
  <2>1. life[request[r].to] = "gone" /\ request[r].to \in Servers
    BY DEF RouterInv, StrayOnlyAfterEnd, RequestsTrue
  <2>2. QED
    BY <1>2, <2>1 DEF LivesGoOn
<1>11. TurnedAwayOnlyAfterEnd'
  <2> SUFFICES ASSUME NEW r \in Requests, request[r].answer = "unreachable",
                      request[r].saw # "starting"
               PROVE  life'[request[r].to] \in {"exited", "gone"}
    BY <1>1 DEF TurnedAwayOnlyAfterEnd
  <2>1. life[request[r].to] \in {"exited", "gone"} /\ request[r].to \in Servers
    BY DEF RouterInv, TurnedAwayOnlyAfterEnd, RequestsTrue
  <2>2. QED
    BY <1>2, <2>1 DEF LivesGoOn
<1>12. QED
  BY <1>5, <1>7, <1>8, <1>9, <1>10, <1>11 DEF RouterInv

(* Whoever listens on the port of a server is that server, unless its      *)
(* entry is gone; and nobody does only if it is not up.                    *)
LEMMA WhoListens ==
    ASSUME RouterInv, NEW s \in Servers, life[s] # "none"
    PROVE  /\ \A t \in Listener(port[s]) : t \in Servers /\ (t # s => life[s] = "gone")
           /\ Listener(port[s]) = {} => life[s] # "up"
<1>1. life[s] \in {"none", "loading", "up", "exited", "gone"}
  BY DEF RouterInv, TypeOK
<1>2. ASSUME NEW t \in Listener(port[s]), t # s PROVE life[s] = "gone"
  BY <1>1, <1>2 DEF Listener, RouterInv, PortsApart, Active
<1>3. QED
  BY <1>2 DEF Listener

LEMMA RouteInv ==
    ASSUME RouterInv, NEW r \in Requests, Route(r)
    PROVE  RouterInv'
<1> DEFINE Rs == [pc : {"new", "list", "connect", "done"}, profile : Profiles,
                  api : {"openai", "anthropic"}, to : Servers \union {NoServer}, saw : Statuses,
                  by : Servers \union {NoServer},
                  answer : {"none", "conflict", "unreachable", "answered"}]
           Sound(q) ==
             /\ q.pc \in {"new", "list"} => q.answer = "none"
             /\ q.pc = "connect" \/ q.answer \in {"answered", "unreachable"} =>
                   /\ q.to \in Servers
                   /\ life[q.to] # "none"
                   /\ q.saw # "starting" => life[q.to] \in {"up", "exited", "gone"}
             /\ q.pc = "connect" => q.answer = "none"
             /\ q.answer = "unreachable" => q.by = NoServer
             /\ q.answer = "answered" /\ q.by # q.to => life[q.to] = "gone"
             /\ q.answer = "unreachable" /\ q.saw # "starting" => life[q.to] \in {"exited", "gone"}
<1>1. /\ life' = life /\ prof' = prof /\ port' = port /\ rec' = rec /\ started' = started /\ now' = now
  BY DEF Route, serverVars
<1>2. request \in [Requests -> Rs] /\ request[r] \in Rs
  BY DEF RouterInv, TypeOK
<1>3. Sound(request[r])
  BY DEF RouterInv, RequestsTrue, StrayOnlyAfterEnd, TurnedAwayOnlyAfterEnd
<1>4. SUFFICES \E q \in Rs : request' = [request EXCEPT ![r] = q] /\ Sound(q)
  <2>1. ASSUME NEW q \in Rs, request' = [request EXCEPT ![r] = q], Sound(q)
        PROVE  RouterInv'
    <3>1. request'[r] = q /\ \A u \in Requests \ {r} : request'[u] = request[u]
      BY <1>2, <2>1
    <3>2. request' \in [Requests -> Rs]
      BY <1>2, <2>1
    <3>3. TypeOK' /\ PortsApart' /\ RecordsTrue'
      BY <1>1, <3>2 DEF RouterInv, TypeOK, PortsApart, RecordsTrue, Active
    <3>4. RequestsTrue' /\ StrayOnlyAfterEnd' /\ TurnedAwayOnlyAfterEnd'
      BY <1>1, <2>1, <3>1 DEF RouterInv, RequestsTrue, StrayOnlyAfterEnd, TurnedAwayOnlyAfterEnd
    <3>5. QED
      BY <3>3, <3>4 DEF RouterInv
  <2>2. QED
    BY <2>1
<1>5. CASE Accept(r)
  <2> DEFINE q == [request[r] EXCEPT !.pc = "list"]
  <2>1. request' = [request EXCEPT ![r] = q] /\ request[r].pc = "new"
    BY <1>2, <1>5 DEF Accept
  <2>2. q \in Rs /\ q.pc = "list" /\ q.answer = request[r].answer
    BY <1>2
  <2>3. request[r].answer = "none"
    BY <1>3, <2>1
  <2>4. Sound(q)
    BY <2>2, <2>3
  <2>5. QED
    BY <2>1, <2>2, <2>4
<1>6. CASE Pick(r)
  <2>1. request[r].pc = "list" /\ request[r].answer = "none"
    BY <1>3, <1>6 DEF Pick
  <2>2. CASE request' = [request EXCEPT ![r] =
                            [request[r] EXCEPT !.pc = "done", !.answer = "conflict"]]
    <3> DEFINE q == [request[r] EXCEPT !.pc = "done", !.answer = "conflict"]
    <3>1. q \in Rs /\ q.pc = "done" /\ q.answer = "conflict"
      BY <1>2
    <3>2. QED
      BY <2>2, <3>1
  <2>3. ASSUME NEW s \in Best(r),
               request' = [request EXCEPT ![r] =
                              [request[r] EXCEPT !.pc = "connect", !.to = s, !.saw = rec[s]]]
        PROVE  \E q \in Rs : request' = [request EXCEPT ![r] = q] /\ Sound(q)
    <3> DEFINE q == [request[r] EXCEPT !.pc = "connect", !.to = s, !.saw = rec[s]]
    <3>1. s \in Servers /\ rec[s] \in {"healthy", "starting"}
      BY DEF Best, Candidates
    <3>2. life[s] # "none" /\ (rec[s] # "starting" => life[s] \in {"up", "exited", "gone"})
      BY <3>1 DEF RouterInv, RecordsTrue
    <3>3. /\ q \in Rs /\ q.pc = "connect" /\ q.answer = "none"
          /\ q.to = s /\ q.saw = rec[s]
      BY <1>2, <2>1, <3>1 DEF Statuses
    <3>4. Sound(q)
      BY <3>1, <3>2, <3>3
    <3>5. QED
      BY <2>3, <3>3, <3>4
  <2>4. QED
    BY <1>2, <1>6, <2>2, <2>3 DEF Pick
<1>7. CASE Forward(r)
  <2> DEFINE s == request[r].to
             l == Listener(port[s])
             q == [request[r] EXCEPT !.pc = "done",
                                     !.answer = IF l = {} THEN "unreachable" ELSE "answered",
                                     !.by = IF l = {} THEN NoServer ELSE CHOOSE t \in l : TRUE]
  <2>1. request' = [request EXCEPT ![r] = q] /\ request[r].pc = "connect"
    BY <1>2, <1>7 DEF Forward
  <2>2. s \in Servers /\ life[s] # "none" /\ (request[r].saw # "starting" => life[s] \in {"up", "exited", "gone"})
    BY <1>3, <2>1
  <2>3. /\ \A t \in l : t \in Servers /\ (t # s => life[s] = "gone")
        /\ l = {} => life[s] # "up"
    BY <2>2, WhoListens
  <2>4. CASE l = {}
    <3>1. q \in Rs /\ q.pc = "done" /\ q.answer = "unreachable" /\ q.by = NoServer
      BY <1>2, <2>4
    <3>2. q.to = s /\ q.saw = request[r].saw
      BY <1>2, <2>4
    <3> HIDE DEF q
    <3>3. Sound(q)
      BY <2>2, <2>3, <2>4, <3>1, <3>2
    <3>4. QED
      BY <2>1, <3>1, <3>3
  <2>5. CASE l # {}
    <3>1. PICK t \in l : t = (CHOOSE u \in l : TRUE)
      BY <2>5
    <3>2. t \in Servers /\ (t # s => life[s] = "gone")
      BY <2>3, <3>1
    <3>3. q \in Rs /\ q.pc = "done" /\ q.answer = "answered" /\ q.by = t
      BY <1>2, <2>5, <3>1, <3>2
    <3>4. q.to = s /\ q.saw = request[r].saw
      BY <1>2
    <3> HIDE DEF q
    <3>5. Sound(q)
      BY <2>2, <3>2, <3>3, <3>4
    <3>6. QED
      BY <2>1, <3>3, <3>5
  <2>6. QED
    BY <2>4, <2>5
<1>8. QED
  BY <1>5, <1>6, <1>7 DEF Route

LEMMA RouterStepInv ==
    ASSUME RouterInv, [Next]_vars
    PROVE  RouterInv'
<1>1. CASE UNCHANGED vars
  BY <1>1 DEF vars, RouterInv, TypeOK, PortsApart, RecordsTrue, RequestsTrue, StrayOnlyAfterEnd,
              TurnedAwayOnlyAfterEnd, Active
<1>2. CASE Tick
  <2>1. UNCHANGED <<life, prof, port, rec, started, request>> /\ now' \in 0..MaxTime
    BY <1>2, ConstAssumption DEF Tick, serverVars, RouterInv, TypeOK
  <2>2. QED
    BY <2>1 DEF RouterInv, TypeOK, PortsApart, RecordsTrue, RequestsTrue, StrayOnlyAfterEnd,
                TurnedAwayOnlyAfterEnd, Active
<1>3. QED
  BY <1>1, <1>2, ServeInv, RouteInv DEF Next

------------------------------------------------------------------------------
(* A request is answered by another server than the one it was sent to     *)
(* only when that one has ended and its port is free again.                *)
THEOREM StraysComeAfterTheEnd == Spec => []StrayOnlyAfterEnd
<1>1. RouterInv => StrayOnlyAfterEnd
  BY DEF RouterInv
<1>2. QED
  BY <1>1, RouterInitInv, RouterStepInv, PTL DEF Spec

(* A request that was sent to a healthy server fails to connect only when  *)
(* that server has ended.                                                  *)
THEOREM TurnedAwayAfterTheEnd == Spec => []TurnedAwayOnlyAfterEnd
<1>1. RouterInv => TurnedAwayOnlyAfterEnd
  BY DEF RouterInv
<1>2. QED
  BY <1>1, RouterInitInv, RouterStepInv, PTL DEF Spec

------------------------------------------------------------------------------
(* The list of samples keeps what it is given and invents nothing. *)
LEMMA KeptSamples ==
    ASSUME NEW S, NEW list \in Seq(S), NEW x \in S
    PROVE  /\ Kept(Append(list, x)) \in Seq(S)
           /\ \A i \in DOMAIN Kept(Append(list, x)) :
                 \/ Kept(Append(list, x))[i] = x
                 \/ \E j \in DOMAIN list : Kept(Append(list, x))[i] = list[j]
<1> DEFINE a == Append(list, x)
           m == Len(a)
           k == Kept(a)
<1>1. /\ a \in Seq(S) /\ m \in Nat /\ m = Len(list) + 1
      /\ \A i \in 1..m : a[i] = x \/ \E j \in 1..Len(list) : a[i] = list[j]
  OBVIOUS
<1>2. CASE m <= MaxSamples
  <2>1. k = a
    BY <1>1, <1>2, SampleAssumption DEF Kept
  <2>2. QED
    BY <1>1, <2>1
<1>3. CASE m > MaxSamples
  <2> DEFINE f == m - MaxSamples + 1
  <2>1. k = SubSeq(a, f, m) /\ f \in 1..m
    <3>1. k = SubSeq(a, Len(a) - MaxSamples + 1, Len(a))
      BY <1>3, Zenon DEF Kept
    <3>2. m - MaxSamples + 1 \in 1..m
      BY <1>1, <1>3, SampleAssumption
    <3>3. QED
      BY <3>1, <3>2
  <2>2. \A i \in f..m : a[i] \in S
    BY <1>1, <2>1
  <2> HIDE DEF a, k, m, f
  <2>3. /\ k \in Seq(S) /\ Len(k) = m - f + 1
        /\ \A i \in 1..(m - f + 1) : k[i] = a[f + i - 1]
    <3>1. f \in Int /\ m \in Int /\ f <= m
      BY <1>1, <2>1
    <3>2. /\ SubSeq(a, f, m) \in Seq(S)
          /\ Len(SubSeq(a, f, m)) = IF f <= m THEN m - f + 1 ELSE 0
          /\ \A i \in 1..(m - f + 1) : SubSeq(a, f, m)[i] = a[f + i - 1]
      BY <2>2, <3>1, SubSeqProperties
    <3>3. QED
      BY <2>1, <3>1, <3>2
  <2>4. \A i \in 1..Len(k) : f + i - 1 \in 1..m
    BY <1>1, <2>1, <2>3
  <2>5. \A i \in 1..Len(k) : k[i] = x \/ \E j \in 1..Len(list) : k[i] = list[j]
    BY <1>1, <2>3, <2>4
  <2>6. DOMAIN k = 1..Len(k) /\ DOMAIN list = 1..Len(list)
    BY <2>3
  <2>7. QED
    BY <2>3, <2>5, <2>6 DEF a, k
<1>4. QED
  BY <1>1, <1>2, <1>3, SampleAssumption

------------------------------------------------------------------------------
Reading == [pc : {"wait", "next", "scrape", "add"}, todo : SUBSET Servers, at : Somebody,
            total : Totals, from : Somebody, real : Totals]

Samples == [of : Servers, kind : {"sampler", "request"}, total : Totals, rate : Int,
            from : Somebody, own : BOOLEAN, new : Int]

SampleTypeOK ==
    /\ tokens \in [Servers -> Totals]
    /\ sampler \in Reading
    /\ cache \in [Servers -> [found : BOOLEAN, total : Totals, from : Somebody, real : Totals]]
    /\ stats \in Seq(Samples)

(* A round is about servers that were started, and an answer in another's  *)
(* name comes after the end of the server that was asked.                  *)
RoundTrue ==
    /\ \A s \in sampler.todo : life[s] # "none"
    /\ sampler.pc \in {"scrape", "add"} => sampler.at \in Servers /\ life[sampler.at] # "none"
    /\ sampler.pc = "add" =>
          /\ sampler.from \notin {sampler.at, NoServer} => life[sampler.at] = "gone"
          /\ sampler.from = sampler.at => sampler.total = sampler.real

(* A total that a server gave itself is what it had generated. *)
CacheTrue == \A s \in Servers : cache[s].from = s => cache[s].total = cache[s].real

True(x) ==
    /\ x.from \notin {x.of, NoServer} => life[x.of] = "gone"
    /\ x.own => x.rate \in {0, x.new}

StatsTrue == \A i \in DOMAIN stats : True(stats[i])

SampleInv == SampleTypeOK /\ RoundTrue /\ CacheTrue /\ StatsTrue

LEMMA SampleInitInv == SampleInit => SampleInv
<1> SUFFICES ASSUME SampleInit PROVE SampleInv
  OBVIOUS
<1>1. 0 \in Totals /\ NoServer \in Somebody /\ NoServer \notin Servers
  BY SampleAssumption, ConstAssumption DEF Totals, Somebody
<1>2. SampleTypeOK
  BY <1>1 DEF SampleInit, SampleTypeOK, Waiting, Unread, Reading
<1>3. RoundTrue
  BY DEF SampleInit, RoundTrue, Waiting
<1>4. CacheTrue
  BY <1>1 DEF SampleInit, CacheTrue, Unread
<1>5. StatsTrue
  BY DEF SampleInit, StatsTrue
<1>6. QED
  BY <1>2, <1>3, <1>4, <1>5 DEF SampleInv

(* Servers, requests and the clock leave the samples as true as they were. *)
LEMMA StepKeepsSamples ==
    ASSUME RouterInv, SampleInv, [Next]_vars, UNCHANGED sampleVars
    PROVE  SampleInv'
<1>1. /\ tokens' = tokens /\ sampler' = sampler /\ cache' = cache /\ stats' = stats
  BY DEF sampleVars
<1>2. LivesGoOn
  BY StepLivesGoOn DEF RouterInv
<1>3. SampleTypeOK' /\ CacheTrue'
  BY <1>1 DEF SampleInv, SampleTypeOK, CacheTrue
<1>4. RoundTrue'
  BY <1>1, <1>2 DEF SampleInv, SampleTypeOK, Reading, RoundTrue, LivesGoOn
<1>5. StatsTrue'
  <2> SUFFICES ASSUME NEW i \in DOMAIN stats PROVE True(stats[i])'
    BY <1>1 DEF StatsTrue
  <2>1. stats[i].of \in Servers /\ True(stats[i])
    <3>1. stats \in Seq(Samples) /\ DOMAIN stats = 1..Len(stats)
      BY DEF SampleInv, SampleTypeOK
    <3>2. stats[i] \in Samples
      BY <3>1, ElementOfSeq
    <3>3. QED
      BY <3>2 DEF SampleInv, StatsTrue, Samples
  <2>2. QED
    BY <1>1, <1>2, <2>1 DEF True, LivesGoOn
<1>6. QED
  BY <1>3, <1>4, <1>5 DEF SampleInv

(* A sample that is true, added to the list, leaves a true list. *)
LEMMA AddTrue ==
    ASSUME SampleInv, UNCHANGED vars,
           NEW x \in Samples,
           True(x), stats' = Kept(Append(stats, x))
    PROVE  /\ stats' \in Seq(Samples)
           /\ StatsTrue'
<1>1. life' = life
  BY DEF vars
<1>2. /\ stats' \in Seq(Samples)
      /\ \A i \in DOMAIN stats' : stats'[i] = x \/ \E j \in DOMAIN stats : stats'[i] = stats[j]
  <2>1. stats \in Seq(Samples)
    BY DEF SampleInv, SampleTypeOK
  <2> DEFINE k == Kept(Append(stats, x))
  <2>2. /\ k \in Seq(Samples)
        /\ \A i \in DOMAIN k : k[i] = x \/ \E j \in DOMAIN stats : k[i] = stats[j]
    BY <2>1, KeptSamples
  <2>3. stats' = k
    OBVIOUS
  <2> HIDE DEF k
  <2>4. QED
    BY <2>2, <2>3
<1>3. \A i \in DOMAIN stats' : True(stats'[i])
  BY <1>2 DEF SampleInv, StatsTrue
<1>4. StatsTrue'
  BY <1>1, <1>3 DEF StatsTrue, True
<1>5. QED
  BY <1>2, <1>4

LEMMA ObserveInv ==
    ASSUME RouterInv, SampleInv, Observe
    PROVE  SampleInv'
<1>1. UNCHANGED vars /\ life' = life
  BY DEF Observe, vars
<1>2. /\ tokens \in [Servers -> Totals] /\ sampler \in Reading
      /\ cache \in [Servers -> [found : BOOLEAN, total : Totals, from : Somebody, real : Totals]]
      /\ 0 \in Totals /\ Totals \subseteq Int /\ NoServer \in Somebody /\ Servers \subseteq Somebody
  BY SampleAssumption DEF SampleInv, SampleTypeOK, Totals, Somebody
<1>3. ASSUME NEW s \in Servers, Generate(s) PROVE SampleInv'
  <2>1. tokens' \in [Servers -> Totals]
    BY <1>2, <1>3, SampleAssumption DEF Generate, Totals
  <2>2. sampler' = sampler /\ cache' = cache /\ stats' = stats
    BY <1>3 DEF Generate
  <2>3. QED
    BY <1>1, <2>1, <2>2 DEF SampleInv, SampleTypeOK, RoundTrue, CacheTrue, StatsTrue, True
<1>4. ASSUME sampler' \in Reading, RoundTrue', UNCHANGED <<tokens, cache, stats>> PROVE SampleInv'
  BY <1>1, <1>4 DEF SampleInv, SampleTypeOK, CacheTrue, StatsTrue, True
<1>5. CASE Round
  <2>1. sampler' \in Reading
    BY <1>2, <1>5 DEF Round, Reading
  <2>2. RoundTrue'
    <3>1. sampler'.pc = "next" /\ \A s \in sampler'.todo : s \in Servers /\ rec[s] # "absent"
      BY <1>2, <1>5 DEF Round, Reading
    <3>2. QED
      BY <1>1, <3>1 DEF RoundTrue, RouterInv, RecordsTrue
  <2>3. QED
    BY <1>4, <1>5, <2>1, <2>2 DEF Round
<1>6. ASSUME NEW s \in Servers, Measure(s) PROVE SampleInv'
  <2>1. s \in sampler.todo /\ life[s] # "none" /\ sampler.pc = "next"
    BY <1>6 DEF Measure, SampleInv, RoundTrue
  <2>2. sampler' \in Reading
    BY <1>2, <1>6 DEF Measure, Reading
  <2>3. RoundTrue'
    <3>1. CASE sampler' = [sampler EXCEPT !.pc = "scrape", !.at = s]
      <4>1. sampler'.pc = "scrape" /\ sampler'.at = s /\ sampler'.todo = sampler.todo
        BY <1>2, <3>1 DEF Reading
      <4>2. QED
        BY <1>1, <2>1, <4>1 DEF RoundTrue, SampleInv
    <3>2. CASE sampler' = [sampler EXCEPT !.todo = @ \ {s}]
      <4>1. sampler'.pc = "next" /\ sampler'.todo \subseteq sampler.todo
        BY <1>2, <2>1, <3>2 DEF Reading
      <4>2. QED
        BY <1>1, <4>1 DEF RoundTrue, SampleInv
    <3>3. QED
      BY <1>6, <3>1, <3>2 DEF Measure
  <2>4. QED
    BY <1>4, <1>6, <2>2, <2>3 DEF Measure
<1>7. CASE Scrape
  <2>1. /\ sampler.pc = "scrape" /\ sampler.at \in Servers /\ life[sampler.at] # "none"
        /\ \A t \in Listener(port[sampler.at]) : t \in Servers /\ (t # sampler.at => life[sampler.at] = "gone")
    BY <1>7, WhoListens DEF Scrape, SampleInv, RoundTrue
  <2>2. PICK l \in Listener(port[sampler.at]) \union {NoServer} :
           sampler' = [sampler EXCEPT !.pc = "add", !.from = l,
                                     !.total = IF l = NoServer THEN 0 ELSE tokens[l],
                                     !.real = tokens[sampler.at]]
    BY <1>7 DEF Scrape
  <2>3. l \in Somebody /\ (IF l = NoServer THEN 0 ELSE tokens[l]) \in Totals /\ tokens[sampler.at] \in Totals
    BY <1>2, <2>1, <2>2
  <2>4. sampler' \in Reading
    BY <1>2, <2>2, <2>3 DEF Reading
  <2>5. /\ sampler'.pc = "add" /\ sampler'.from = l /\ sampler'.at = sampler.at
        /\ sampler'.todo = sampler.todo /\ sampler'.real = tokens[sampler.at]
        /\ sampler'.total = IF l = NoServer THEN 0 ELSE tokens[l]
    BY <1>2, <2>2 DEF Reading
  <2>6. RoundTrue'
    BY <1>1, <2>1, <2>2, <2>5, ConstAssumption DEF RoundTrue, SampleInv
  <2>7. QED
    BY <1>4, <1>7, <2>4, <2>6 DEF Scrape
<1>8. CASE RoundEnds
  <2>1. sampler' \in Reading
    BY <1>2, <1>8 DEF RoundEnds, Waiting, Reading
  <2>2. RoundTrue'
    BY <1>8 DEF RoundEnds, Waiting, RoundTrue
  <2>3. QED
    BY <1>4, <1>8, <2>1, <2>2 DEF RoundEnds
<1>9. CASE AddSample
  <2> DEFINE s == sampler.at
             old == cache[s]
             fresh == [found |-> TRUE, total |-> sampler.total, from |-> sampler.from,
                       real |-> sampler.real]
  <2>1. /\ sampler.pc = "add" /\ s \in Servers /\ tokens' = tokens
        /\ sampler' = [Waiting EXCEPT !.pc = "next", !.todo = sampler.todo \ {s}]
        /\ cache' = [cache EXCEPT ![s] = fresh]
    BY <1>9 DEF AddSample, SampleInv, RoundTrue
  <2>2. PICK rate \in Rates(s) : stats' = Kept(Append(stats, Sample(s, rate)))
    BY <1>9 DEF AddSample
  <2>3. /\ sampler.total \in Int /\ sampler.real \in Int /\ old.total \in Int /\ old.real \in Int
        /\ sampler.total \in Totals /\ sampler.real \in Totals /\ sampler.from \in Somebody
        /\ old.found \in BOOLEAN
    BY <1>2, <2>1 DEF Reading
  <2>4. rate = 0 \/ rate = sampler.total - old.total
    BY <2>2 DEF Rates
  <2>5. Sample(s, rate) \in Samples
    BY <2>1, <2>3, <2>4 DEF Sample, Samples
  <2>6. True(Sample(s, rate))
    <3>1. sampler.from \notin {s, NoServer} => life[s] = "gone"
      BY <2>1 DEF SampleInv, RoundTrue
    <3>2. ASSUME old.from = s, sampler.from = s PROVE rate \in {0, sampler.real - old.real}
      BY <2>1, <2>3, <2>4, <3>2 DEF SampleInv, RoundTrue, CacheTrue
    <3>3. QED
      BY <3>1, <3>2 DEF True, Sample
  <2>7. /\ stats' \in Seq(Samples)
        /\ StatsTrue'
    BY <1>1, <2>2, <2>5, <2>6, AddTrue
  <2>8. sampler' \in Reading
    BY <1>2, <2>1 DEF Waiting, Reading
  <2>9. cache' \in [Servers -> [found : BOOLEAN, total : Totals, from : Somebody, real : Totals]]
    BY <1>2, <2>1, <2>3
  <2>10. RoundTrue'
    <3>1. sampler'.pc = "next" /\ sampler'.todo \subseteq sampler.todo
      BY <2>1 DEF Waiting
    <3>2. QED
      BY <1>1, <3>1 DEF RoundTrue, SampleInv
  <2>11. CacheTrue'
    <3>1. sampler.from = s => sampler.total = sampler.real
      BY <2>1 DEF SampleInv, RoundTrue
    <3>2. cache'[s] = fresh /\ \A t \in Servers \ {s} : cache'[t] = cache[t]
      BY <1>2, <2>1
    <3>3. QED
      BY <3>1, <3>2 DEF SampleInv, CacheTrue
  <2>12. QED
    BY <1>2, <2>1, <2>7, <2>8, <2>9, <2>10, <2>11 DEF SampleInv, SampleTypeOK
<1>10. ASSUME NEW r \in Requests, LogRequest(r) PROVE SampleInv'
  <2> DEFINE x == [of |-> request[r].to, kind |-> "request", total |-> 0, rate |-> 0,
                   from |-> request[r].by, own |-> FALSE, new |-> 0]
  <2>1. /\ stats' = Kept(Append(stats, x)) /\ UNCHANGED <<tokens, sampler, cache>>
        /\ request[r].answer \in {"answered", "unreachable"}
    BY <1>10 DEF LogRequest
  <2>2. /\ request[r].to \in Servers /\ request[r].by \in Somebody
        /\ request[r].by \notin {request[r].to, NoServer} => life[request[r].to] = "gone"
    BY <2>1 DEF RouterInv, RequestsTrue, StrayOnlyAfterEnd, TypeOK, Somebody
  <2>3. x \in Samples
    BY <1>2, <2>2 DEF Samples
  <2>4. True(x)
    BY <2>2 DEF True
  <2>5. /\ stats' \in Seq(Samples)
        /\ StatsTrue'
    BY <1>1, <2>1, <2>3, <2>4, AddTrue
  <2>6. QED
    BY <1>1, <2>1, <2>5 DEF SampleInv, SampleTypeOK, RoundTrue, CacheTrue
<1>11. QED
  BY <1>3, <1>5, <1>6, <1>7, <1>8, <1>9, <1>10 DEF Observe

LEMMA GatewayInvariant == SampleSpec => [](RouterInv /\ SampleInv)
<1>1. SampleInit => RouterInv /\ SampleInv
  BY RouterInitInv, SampleInitInv DEF SampleInit
<1>2. (RouterInv /\ SampleInv) /\ [SampleNext]_allVars => (RouterInv /\ SampleInv)'
  <2> SUFFICES ASSUME RouterInv, SampleInv, [SampleNext]_allVars PROVE (RouterInv /\ SampleInv)'
    OBVIOUS
  <2>1. CASE [Next]_vars /\ UNCHANGED sampleVars
    BY <2>1, RouterStepInv, StepKeepsSamples
  <2>2. CASE Observe
    <3>1. UNCHANGED vars
      BY <2>2 DEF Observe
    <3>2. QED
      BY <2>2, <3>1, RouterStepInv, ObserveInv
  <2>3. QED
    BY <2>1, <2>2 DEF SampleNext, allVars
<1>3. QED
  BY <1>1, <1>2, PTL DEF SampleSpec

(* No sample of a server is about another one that has its port, as long   *)
(* as that server's entry is there.                                        *)
THEOREM CountersAreOwn == SampleSpec => []CountersOwn
<1>1. SampleInv => CountersOwn
  BY DEF SampleInv, StatsTrue, True, CountersOwn
<1>2. QED
  BY <1>1, GatewayInvariant, PTL

(* A rate between two answers of a server is that of the tokens it has     *)
(* generated in between.                                                   *)
THEOREM RatesAreMeasured == SampleSpec => []RatesMeasured
<1>1. SampleInv => RatesMeasured
  BY DEF SampleInv, StatsTrue, True, RatesMeasured
<1>2. QED
  BY <1>1, GatewayInvariant, PTL

==============================================================================
