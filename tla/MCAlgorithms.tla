----------------------------- MODULE MCAlgorithms -----------------------------
(***************************************************************************)
(* The algorithms over bounded inputs: a behaviour takes one input of one  *)
(* of them, and the invariants of Algorithms are checked for it.           *)
(***************************************************************************)
EXTENDS Algorithms, TLC

vars == <<task, input>>

Init == task = "none" /\ input = <<>>

Take(name, value) == task' = name /\ input' = value

(* Every graph of directories, one or two of them configured. *)
TakeDirs ==
    \E sub \in [Dirs -> SUBSET Dirs], roots \in {<<1>>, <<1, 3>>} :
        Take("walk", [sub |-> sub, roots |-> roots])

(* Options a profile builder writes, and what a raw argument array may     *)
(* hold besides: a flag without its value, a value without its flag.       *)
Plain == {<<"-m", "old">>, <<"--model", "old">>, <<"--host", "old">>, <<"--port", "80">>,
          <<"-c", "1024">>, <<"-fa">>, <<"--mmproj", Projector>>}
Raw == {<<"-m">>, <<"--host">>, <<"-p", "80">>, <<"-c", "1024">>, <<"--mmproj">>, <<Projector>>}
Sweeps == {<<"-c", "4096">>, <<"-fa", NoValue>>, <<"--port", "81">>, NoOverride}

TakeOptions ==
    \E options \in UNION {[1..n -> Plain] : n \in 0..4} \union UNION {[1..n -> Raw] : n \in 0..4},
       override \in Sweeps :
        Take("args", [options |-> options, override |-> override,
                      plain |-> Range(options) \subseteq Plain])

(* Streams of a few lines. *)
Lines == {Marker(kind) : kind \in {"other", "garbage", "done", "long"}} \union
         {Chunk(TRUE, "a", NoReason, NoUsage), Chunk(TRUE, "b", NoReason, 1),
          Chunk(TRUE, NoText, "length", NoUsage),
          Chunk(TRUE, "b", "stop", 2), Chunk(FALSE, NoText, NoReason, 3)}

TakeStream == \E n \in 0..5 : \E lines \in [1..n -> Lines] : Take("stream", lines)

Answers == {Line(TRUE, NoTimings, FALSE), Line(FALSE, NoTimings, FALSE),
            Line(TRUE, 1, FALSE), Line(FALSE, 2, TRUE), Line(TRUE, 3, TRUE)}

TakeAnswer == \E n \in 0..5 : \E lines \in [1..n -> Answers] : Take("answer", lines)

(* Up to 21 samples, so that the percentiles come apart, in cycles of a    *)
(* few speeds, some of them with an error.                                 *)
TakeSamples ==
    \E n \in 0..21, cycle \in 1..5, step \in 1..4, failing \in 1..5 :
        Take("samples", [k \in 1..n |-> IF k % failing = 1 THEN Failed
                                        ELSE [ok |-> TRUE, gaps |-> 0, speed |-> (k * step) % (4 * cycle)]])

Cells == [status : {"completed", "failed"}, mean : 0..2]

TakeCells == \E n \in 0..4 : \E cells \in [1..n -> Cells] : Take("cells", cells)

(* Requests of every kind, with a body shorter than, as long as and longer *)
(* than the limits, its length announced or not.                           *)
TakeRequest ==
    \E method \in {"GET", "POST"}, kind \in {"json", "urlencoded", "multipart", "other"},
       query \in {NoModel, "q"}, announced, valid \in BOOLEAN,
       n \in 0..4 : \E body \in [1..n -> {Filler, "p", "q"}] :
        /\ kind \in {"json", "multipart"} /\ valid => body # <<>>
        /\ Take("request", [method |-> method, kind |-> kind, query |-> query, valid |-> valid,
                            length |-> IF announced THEN n ELSE -1, body |-> body])

(* Headers of up to two pairs: scalars of every width, strings up to and   *)
(* beyond the limit, lists up to and beyond what is kept, nested ones.     *)
Number(type, n) == [type |-> type, number |-> n]
String(bytes) == [type |-> StringType, bytes |-> bytes]
List(of, list) == [type |-> ArrayType, of |-> of, list |-> list]
Numbers(n) == List(0, [k \in 1..n |-> Number(0, k)])

SomeValues == {Number(type, 1) : type \in {0, 2, 5, 7, 10}} \union
          {String([k \in 1..n |-> k]) : n \in {0, 2, MaxString}} \union
          {Numbers(n) : n \in 0..(MaxParsed + 2)} \union
          {List(StringType, <<String(<<1>>), String(<<>>), String(<<2, 2>>)>>),
           List(ArrayType, <<Numbers(3), Numbers(1), Numbers(0)>>)}

TakeHeader ==
    \E version \in {1, 2, 3}, n \in 0..2 :
    \E pairs \in [1..n -> [key : {<<65>>, <<65, 66>>}, value : SomeValues]] :
    LET size == Len(Header(version, pairs)) IN
    \E cut \in {0, 3, 8, 12, 23, size - 1, size} \intersect 0..size :
        Take("header", [version |-> version, pairs |-> pairs, cut |-> cut])

TakeLog ==
    \E n \in 0..5, buffer \in 1..3, maxLines \in 0..3 : \E file \in [1..n -> {"a", "b", Newline}] :
        Take("log", [file |-> file, buffer |-> buffer, maxLines |-> maxLines])

Next ==
    /\ task = "none"
    /\ \/ TakeDirs
       \/ TakeOptions
       \/ TakeStream
       \/ TakeAnswer
       \/ TakeSamples
       \/ TakeCells
       \/ TakeRequest
       \/ TakeHeader
       \/ TakeLog

Spec == Init /\ [][Next]_vars

=============================================================================
