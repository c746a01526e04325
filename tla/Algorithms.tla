------------------------------ MODULE Algorithms ------------------------------
(***************************************************************************)
(* The pure algorithms of the studio, each with an input of its own: what  *)
(* is computed for it, compared with a reference that is defined another   *)
(* way.                                                                    *)
(***************************************************************************)
EXTENDS DirWalk, ProfileArgs, ChatStream, BenchReport, GatewayRequest, LogTail, GgufReader

VARIABLES task,  \* the algorithm that is run
          input  \* what it is given

------------------------------------------------------------------------------
(* The scan finds every directory within reach unless a path is cut.       *)
WalkFindsAll == task = "walk" => FindsAll(input.sub, input.roots)

(* An override changes the value of its flag and nothing else, and the     *)
(* command line names the studio's model, host and port and no other; a    *)
(* projector is always the value of its flag.                              *)
CommandSound ==
    task = "args" =>
        LET command == BuildCommand(Merge(FlattenSeq(input.options), input.override)) IN
        /\ input.plain => Replaces(input.options, input.override)
        /\ OwnAddress(command)
        /\ ProjectorFlagged(command)

(* The translated stream says what the upstream said, as a reply in one    *)
(* piece does, and what the next request will repeat of it.                *)
StreamFaithful == task = "stream" => SaysTheSame(input) /\ WaysAgree(input)

(* A request is forwarded whole, or refused.                               *)
RequestWhole == task = "request" => ForwardedWhole(input)

(* The figures of a benchmark are those of its measurements, as runner.go  *)
(* defines them: of an answer, broken off or not, every token and the last *)
(* timings up to its end; of the good samples the ranks 50, 90 and, by the *)
(* name of p99, 95; of the cells the first of the fastest completed ones,  *)
(* however near the next.  docs/benchmark.md defines the last three in     *)
(* another way: see the end of BenchReport.                                *)
FiguresAsMeasured ==
    /\ task = "answer" => Measured(input)
    /\ task = "samples" => LET report == Aggregates(input) IN
                           /\ IsPercentile(input, report.p50, 50)
                           /\ IsPercentile(input, report.p90, 90)
                           /\ IsPercentile(input, report.p99, 95)
    /\ task = "cells" => IsBest(input)

(* What the studio reads of files that others write, the header of a model *)
(* and the log of a server, is what is there.                              *)
FilesReadRight ==
    /\ task = "header" => ReadsBack(input.version, input.pairs, input.cut)
    /\ task = "log" => IsTail(input.file, input.buffer, input.maxLines)
==============================================================================
