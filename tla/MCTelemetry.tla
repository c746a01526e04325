----------------------------- MODULE MCTelemetry -----------------------------
(* Router and Telemetry with servers of two profiles on one or two ports. *)
EXTENDS Telemetry, TLC

CONSTANTS s1, s2

(* A bound: either a request is followed, with a clock, or the sampler. *)
OneObserver ==
    \/ /\ sampler = Waiting
       /\ \A s \in Servers : tokens[s] = 0 /\ ~ cache[s].found
    \/ /\ now = 0
       /\ \A r \in Requests : request[r].pc = "new" /\ request[r].api = "openai" /\ request[r].profile = "p"

Interchangeable == Permutations({s1, s2})
==============================================================================
