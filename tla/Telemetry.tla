------------------------------ MODULE Telemetry ------------------------------
(***************************************************************************)
(* What the studio measures of its servers: the sampler of                 *)
(* src/internal/stats/monitor.go, which every two seconds looks the        *)
(* servers up, asks the system about each process and the server about its *)
(* tokens, and the samples that serveProfile of                            *)
(* src/internal/router/proxy.go logs of the requests it has forwarded.     *)
(* Both go to one list in memory (AddStatsSample of db.go).                *)
(*                                                                         *)
(* As a request does, the sampler goes by records that age: whoever        *)
(* listens on the port by then answers for the server.  CPU and memory     *)
(* are left out, and so are the rates a server gives itself, which the     *)
(* code prefers to its own; of a rate only the tokens are kept, not the    *)
(* seconds.                                                                *)
(***************************************************************************)
EXTENDS Router, Sequences

CONSTANTS MaxTokens,  \* bound: tokens a server generates
          MaxSamples  \* samples kept (5000 in the code)

ASSUME SampleAssumption == MaxTokens \in Nat /\ MaxSamples \in Nat \ {0}

VARIABLES
    tokens,   \* tokens[s]: generated by the process of s
    sampler,  \* the round of the sampler
    cache,    \* metricsCache[s]: the last total, who gave it, and tokens[s] then
    stats,    \* db.stats: the list of samples
    logged    \* requests whose sample has been added

sampleVars == <<tokens, sampler, cache, stats, logged>>
allVars == <<vars, sampleVars>>

Somebody == Servers \union {NoServer}
Totals == 0..MaxTokens

(* The server a round is at, what was read of it, from whom, and how many  *)
(* tokens it had really generated.                                         *)
Waiting == [pc |-> "wait", todo |-> {}, at |-> NoServer, total |-> 0, from |-> NoServer, real |-> 0]
Unread == [found |-> FALSE, total |-> 0, from |-> NoServer, real |-> 0]

SampleInit ==
    /\ Init
    /\ tokens = [s \in Servers |-> 0]
    /\ sampler = Waiting
    /\ cache = [s \in Servers |-> Unread]
    /\ stats = <<>>
    /\ logged = {}

------------------------------------------------------------------------------
(* A server generates. *)
Generate(s) ==
    /\ life[s] = "up" /\ tokens[s] < MaxTokens
    /\ tokens' = [tokens EXCEPT ![s] = @ + 1]
    /\ UNCHANGED <<sampler, cache, stats, logged>>

(* StartMonitor: a tick, and the servers as their records are now. *)
Round ==
    /\ sampler.pc = "wait"
    /\ sampler' = [sampler EXCEPT !.pc = "next", !.todo = {s \in Servers : rec[s] \in {"healthy", "starting"}}]
    /\ UNCHANGED <<tokens, cache, stats, logged>>

(* GetProcessStats: ps finds the process while it runs, or until its end   *)
(* has been waited for.  A server without one is left out of the round.    *)
Measure(s) ==
    /\ sampler.pc = "next" /\ s \in sampler.todo
    /\ \/ /\ Active(s)
          /\ sampler' = [sampler EXCEPT !.pc = "scrape", !.at = s]
       \/ /\ life[s] \in {"exited", "gone"}
          /\ sampler' = [sampler EXCEPT !.todo = @ \ {s}]
    /\ UNCHANGED <<tokens, cache, stats, logged>>

(* scrapeMetrics: the total of whoever listens, or zero. *)
Scrape ==
    /\ sampler.pc = "scrape"
    /\ \E l \in Listener(port[sampler.at]) \union {NoServer} :
          sampler' = [sampler EXCEPT !.pc = "add", !.from = l,
                                     !.total = IF l = NoServer THEN 0 ELSE tokens[l],
                                     !.real = tokens[sampler.at]]
    /\ UNCHANGED <<tokens, cache, stats, logged>>

(* AddStatsSample: the list is cut at its old end. *)
Kept(list) ==
    IF Len(list) > MaxSamples THEN SubSeq(list, Len(list) - MaxSamples + 1, Len(list)) ELSE list

(* A total that has shrunk, or a tick too soon, gives no rate. *)
Rates(s) ==
    {0} \union IF cache[s].found /\ sampler.total >= cache[s].total
               THEN {sampler.total - cache[s].total} ELSE {}

(* new: what was really generated since the last sample of the server, if  *)
(* both were answered by it.                                               *)
Sample(s, rate) ==
    [of |-> s, kind |-> "sampler", total |-> sampler.total, rate |-> rate, from |-> sampler.from,
     own |-> cache[s].found /\ cache[s].from = s /\ sampler.from = s,
     new |-> sampler.real - cache[s].real]

(* Mutant: the first total is kept for all rounds. *)
AddSample_KeepOld ==
    /\ sampler.pc = "add"
    /\ \E rate \in Rates(sampler.at) :
          stats' = Kept(Append(stats, Sample(sampler.at, rate)))
    /\ cache' = [cache EXCEPT ![sampler.at] = [found |-> TRUE, total |-> IF @.found THEN @.total ELSE sampler.total,
                                               from |-> sampler.from, real |-> sampler.real]]
    /\ sampler' = [Waiting EXCEPT !.pc = "next", !.todo = sampler.todo \ {sampler.at}]
    /\ UNCHANGED <<tokens, logged>>

AddSample ==
    /\ sampler.pc = "add"
    /\ \E rate \in Rates(sampler.at) :
          stats' = Kept(Append(stats, Sample(sampler.at, rate)))
    /\ cache' = [cache EXCEPT ![sampler.at] = [found |-> TRUE, total |-> sampler.total,
                                               from |-> sampler.from, real |-> sampler.real]]
    /\ sampler' = [Waiting EXCEPT !.pc = "next", !.todo = sampler.todo \ {sampler.at}]
    /\ UNCHANGED <<tokens, logged>>

RoundEnds ==
    /\ sampler.pc = "next" /\ sampler.todo = {}
    /\ sampler' = Waiting
    /\ UNCHANGED <<tokens, cache, stats, logged>>

(* The goroutine serveProfile leaves behind: one sample for the request,   *)
(* on the account of the server it was sent to.                            *)
LogRequest(r) ==
    /\ request[r].api = "openai" /\ request[r].answer \in {"answered", "unreachable"}
    /\ r \notin logged
    /\ logged' = logged \union {r}
    /\ stats' = Kept(Append(stats, [of |-> request[r].to, kind |-> "request", total |-> 0, rate |-> 0,
                                    from |-> request[r].by, own |-> FALSE, new |-> 0]))
    /\ UNCHANGED <<tokens, sampler, cache>>

Observe ==
    /\ \/ \E s \in Servers : Generate(s) \/ Measure(s)
       \/ Round \/ Scrape \/ AddSample \/ RoundEnds
       \/ \E r \in Requests : LogRequest(r)
    /\ UNCHANGED vars

SampleNext == (Next /\ UNCHANGED sampleVars) \/ Observe

SampleSpec == SampleInit /\ [][SampleNext]_allVars

------------------------------------------------------------------------------
(* The tokens on a server's account are those of its own process, or none, *)
(* and a request is on its account only if it has not answered itself when *)
(* it has ended and its entry is gone: no sample of a server is about      *)
(* another that has its port, as long as it could be started again.        *)
CountersOwn ==
    \A i \in DOMAIN stats : stats[i].from \notin {stats[i].of, NoServer} => life[stats[i].of] = "gone"

(* A rate between two answers of the server is that of the tokens it has   *)
(* generated in between.  (Between an answer and none it is not: a scrape  *)
(* that fails counts as a total of zero, and the next rate is that of      *)
(* everything the server ever generated.)                                  *)
RatesMeasured ==
    \A i \in DOMAIN stats : stats[i].own => stats[i].rate \in {0, stats[i].new}
==============================================================================
