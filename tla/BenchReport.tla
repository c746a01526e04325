------------------------------ MODULE BenchReport ------------------------------
(***************************************************************************)
(* What a benchmark makes of its measurements: streamRequest,              *)
(* computeAggregates and generateRecommendation of                         *)
(* src/internal/bench/runner.go.  Times are left out; a speed is a natural *)
(* number.                                                                 *)
(***************************************************************************)
EXTENDS Naturals, Sequences, FiniteSets, SequencesExt

(* An answer of llama-server: the request failed, an HTTP error, or lines. *)
(* A line has a token or not, timings (a speed) or NoTimings, and the stop *)
(* mark or not.                                                            *)
NoTimings == 0
Line(token, speed, stop) == [token |-> token, speed |-> speed, stop |-> stop]

Stops(line) == line.stop

(* Mutant: the line that says stop is not looked at for its timings. *)
Heard_StopFirst(lines) ==
    LET stops == SelectInSeq(lines, Stops) IN IF stops = 0 THEN Len(lines) ELSE stops - 1

(* How many lines the loop looks at: up to the first that says stop. *)
Heard(lines) ==
    LET stops == SelectInSeq(lines, Stops) IN IF stops = 0 THEN Len(lines) ELSE stops

(* One line: firstToken, the inter-token latencies, the speed so far. *)
Hear(turn, line) ==
    [first |-> turn.first \/ line.token,
     gaps  |-> IF line.token /\ turn.first THEN turn.gaps + 1 ELSE turn.gaps,
     speed |-> IF line.speed = NoTimings THEN turn.speed ELSE line.speed]

(* The loop over the lines: the state after the first k of them. *)
HearTurns(lines) ==
    LET turns[k \in 0..Len(lines)] ==
            IF k = 0 THEN [first |-> FALSE, gaps |-> 0, speed |-> NoTimings]
            ELSE Hear(turns[k - 1], lines[k])
    IN turns

(* The number of inter-token latencies, before all but the first and the   *)
(* last 50 are dropped, and the speed of the last timings.  An answer that *)
(* breaks off, or times out, before its stop mark is not an error.         *)
Sample(lines) ==
    LET end == HearTurns(lines)[Heard(lines)] IN
    [ok |-> TRUE, gaps |-> end.gaps, speed |-> end.speed]

(* A request that did not get an answer of status 200. *)
Failed == [ok |-> FALSE, gaps |-> 0, speed |-> NoTimings]

------------------------------------------------------------------------------
(* computeAggregates: samples with an error are counted, the others are    *)
(* sorted, which is done here by insertion behind the speeds that are no   *)
(* greater.                                                                *)
Insert(sorted, speed) ==
    LET before == Cardinality({i \in DOMAIN sorted : sorted[i] <= speed}) IN
    [i \in 1..(Len(sorted) + 1) |->
        IF i <= before THEN sorted[i] ELSE IF i = before + 1 THEN speed ELSE sorted[i - 1]]

(* The loop over the samples: the speeds of the first k of them. *)
SortedUpTo(samples) ==
    LET sorted[k \in 0..Len(samples)] ==
            IF k = 0 THEN <<>>
            ELSE IF samples[k].ok THEN Insert(sorted[k - 1], samples[k].speed) ELSE sorted[k - 1]
    IN sorted

Sorted(samples) == SortedUpTo(samples)[Len(samples)]

(* Mutant: the index of a one-based language. *)
Index_OneMore(n, percent) == ((n * percent) \div 100) + 1

(* arr[int(float64(len(arr)) * p)], zero-based in the code. *)
Index(n, percent) == (n * percent) \div 100

Percentile(sorted, percent) ==
    LET n == Len(sorted)
        index == Index(n, percent)
    IN IF n = 0 THEN 0
       ELSE IF index >= n THEN sorted[n] ELSE sorted[index + 1]

(* The ranks that are reported.  What is called p99 is the 95th. *)
Aggregates(samples) ==
    LET sorted == Sorted(samples) IN
    [p50 |-> Percentile(sorted, 50), p90 |-> Percentile(sorted, 90), p99 |-> Percentile(sorted, 95)]

(* Errors per hundred samples, rounded down. *)
ErrorRate(samples) ==
    LET errors == SelectSeq(samples, LAMBDA s : ~ s.ok) IN
    IF samples = <<>> THEN 0 ELSE (Len(errors) * 100) \div Len(samples)

(* Mutant: a cell need not be completed. *)
Better_AnyStatus(cells, best, k) == best = 0 \/ cells[k].mean > cells[best].mean

(* A completed cell is better than none, and than a slower one. *)
Better(cells, best, k) ==
    cells[k].status = "completed" /\ (best = 0 \/ cells[k].mean > cells[best].mean)

(* generateRecommendation: the loop over the cells; best[k] is the index   *)
(* of the best of the first k, 0 for none.                                 *)
BestUpTo(cells) ==
    LET best[k \in 0..Len(cells)] ==
            IF k = 0 THEN 0 ELSE IF Better(cells, best[k - 1], k) THEN k ELSE best[k - 1]
    IN best

Recommended(cells) == BestUpTo(cells)[Len(cells)]

------------------------------------------------------------------------------
(* A request is measured by every token up to the end of its answer, and   *)
(* by the timings the server reports last, which come with the stop mark.  *)
Measured(lines) ==
    LET upTo == {k \in DOMAIN lines : \A j \in 1..(k - 1) : ~ lines[j].stop}
        tokens == Cardinality({k \in upTo : lines[k].token})
        timed == {k \in upTo : lines[k].speed # NoTimings}
        sample == Sample(lines)
    IN /\ sample.gaps = (IF tokens = 0 THEN 0 ELSE tokens - 1)
       /\ IF timed = {} THEN sample.speed = NoTimings
          ELSE sample.speed = lines[CHOOSE k \in timed : \A j \in timed : j <= k].speed

(* The p-th percentile is a speed that was measured, with at most p        *)
(* percent of the good samples below it and more than p percent at or      *)
(* below it; samples with an error do not count.                           *)
IsPercentile(samples, value, percent) ==
    LET good == {k \in DOMAIN samples : samples[k].ok}
        below == {k \in good : samples[k].speed < value}
        upTo == {k \in good : samples[k].speed <= value}
    IN good # {} =>
         /\ \E k \in good : samples[k].speed = value
         /\ Cardinality(below) * 100 <= percent * Cardinality(good)
         /\ Cardinality(upTo) * 100 > percent * Cardinality(good)

(* A recommendation is made when a cell was completed, and only then; it   *)
(* is a completed cell, no completed cell is faster, and the first of      *)
(* equals is taken.                                                        *)
IsBest(cells) ==
    LET best == Recommended(cells)
        completed == {k \in DOMAIN cells : cells[k].status = "completed"}
    IN IF completed = {} THEN best = 0
       ELSE /\ best \in completed
            /\ \A k \in completed : cells[k].mean <= cells[best].mean
            /\ \A k \in completed : k < best => cells[k].mean < cells[best].mean

------------------------------------------------------------------------------
(* What docs/benchmark.md says besides, and what does not hold.            *)

(* docs/benchmark.md:51 and :118 ask for the p99: runner.go:536 fills it   *)
(* with the 95th percentile.                                               *)
P99IsReported(samples) == IsPercentile(samples, Aggregates(samples).p99, 99)

(* docs/benchmark.md:47 counts a request that times out as an error:       *)
(* runner.go:406-409 leaves the loop when the stream breaks off, and the   *)
(* sample is good, of the timings so far, mostly none, which is speed 0.   *)
BrokenOffIsError(lines) == (\A k \in DOMAIN lines : ~ lines[k].stop) => ~ Sample(lines).ok

(* docs/benchmark.md:227 "Score ties (within 2%) are reported as ties":    *)
(* runner.go:558-563 names the first of the fastest, whatever is near it.  *)
TiesAreReported(cells) ==
    \A j, k \in DOMAIN cells :
        /\ j # k /\ cells[j].status = "completed" /\ cells[k].status = "completed"
        /\ cells[j].mean * 100 >= cells[k].mean * 98
        => Recommended(cells) # k
==============================================================================
