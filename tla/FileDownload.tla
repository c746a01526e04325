----------------------------- MODULE FileDownload -----------------------------
(***************************************************************************)
(* downloadOne of src/internal/models/hf_download.go for one file, over    *)
(* several attempts: skip, resume by Range, restart on 416, stream, verify *)
(* and rename, while the file may change upstream.  A byte is the number   *)
(* of the upstream version it comes from, so a file glued together from    *)
(* two versions shows.                                                     *)
(*                                                                         *)
(* The server answers 200, 206 or 416 as HTTP prescribes, may ignore Range *)
(* and may leave the length open (chunked: -1 in Go).                      *)
(***************************************************************************)
EXTENDS Integers, Sequences

CONSTANTS Latest,     \* the versions are 1..Latest, published in this order
          Size,       \* Size[v]: length of version v
          OpenEnded,  \* may the server leave the length open?
          MaxFails    \* bound: connections that break, cancels, crashes

Versions == 1..Latest

ASSUME ConstAssumption ==
    /\ Latest \in Nat \ {0}
    /\ Size \in [Versions -> Nat \ {0}]
    /\ OpenEnded \in BOOLEAN /\ MaxFails \in Nat

VARIABLES
    upstream,   \* the version the server has now
    hashed,     \* did the listing give an LFS hash?
    listed,     \* the version whose size and hash the job was given
    pc,         \* where downloadOne is
    local,      \* localSize: bytes of .part found on disk
    body,       \* the bytes of the answer not read yet
    total,      \* totalSize
    loaded,     \* loaded
    sizeBytes,  \* file.SizeBytes
    progress,   \* file.Progress, in percent
    result,     \* file.Status after the attempt ("pending" during one)
    part,       \* the .part file; <<>> if there is none
    final,      \* the file under its final name; <<>> if there is none
    fails

vars == <<upstream, hashed, listed, pc, local, body, total, loaded, sizeBytes, progress,
          result, part, final, fails>>

Bytes(v) == [i \in 1..Size[v] |-> v]

(* pct *)
Pct(n, of) == IF of <= 0 THEN 0 ELSE (100 * n) \div of

Init ==
    /\ upstream = 1 /\ listed = 1 /\ hashed \in BOOLEAN
    /\ pc = "idle"
    /\ local = 0 /\ body = <<>> /\ total = 0 /\ loaded = 0
    /\ sizeBytes = Size[1] /\ progress = 0
    /\ result = "pending"
    /\ part = <<>> /\ final = <<>>
    /\ fails = 0

(* The server publishes the next version. *)
Publish ==
    /\ upstream + 1 \in Versions
    /\ upstream' = upstream + 1
    /\ UNCHANGED <<hashed, listed, pc, local, body, total, loaded, sizeBytes, progress,
                   result, part, final, fails>>

------------------------------------------------------------------------------
(* The head of downloadOne. *)

(* Mutant: only the size of a file already there is compared. *)
Matches_SizeOnly(size, v) == size = 0 \/ Len(final) = size

(* A file under the final name counts if its size and its hash agree, each *)
(* as far as it is known.                                                  *)
Matches(size, v) ==
    /\ size = 0 \/ Len(final) = size
    /\ hashed => final = Bytes(v)

(* A new job takes size and hash from a fresh listing; a retry of the same *)
(* job keeps what it has.                                                  *)
Start(fresh) ==
    /\ pc = "idle"
    /\ listed' = IF fresh THEN upstream ELSE listed
    /\ LET size == IF fresh THEN Size[upstream] ELSE sizeBytes IN
       /\ sizeBytes' = size
       /\ IF final # <<>> /\ Matches(size, listed')
          THEN result' = "skipped" /\ progress' = 100 /\ UNCHANGED pc
          ELSE result' = "pending" /\ progress' = 0 /\ pc' = "get"
    /\ UNCHANGED <<upstream, hashed, local, body, total, loaded, part, final, fails>>

------------------------------------------------------------------------------
(* The request and its answer. *)

(* The length as Go reports it. *)
Lengths(n) == {n} \union (IF OpenEnded THEN {-1} ELSE {})

Fail ==
    /\ pc' = "idle"
    /\ result' = "failed"

(* 200: os.Create empties the .part file. *)
Whole ==
    /\ body' = Bytes(upstream)
    /\ part' = <<>>
    /\ loaded' = 0
    /\ total' \in Lengths(Size[upstream])

(* Mutant: the answer to a Range request is taken to be the range. *)
AnswerOK_Append ==
    /\ pc = "get"
    /\ local' = Len(part)
    /\ body' = Bytes(upstream)
    /\ loaded' = 0 /\ UNCHANGED part
    /\ total' \in Lengths(Size[upstream])
    /\ pc' = "seed"
    /\ UNCHANGED <<upstream, hashed, listed, sizeBytes, progress, result, final, fails>>

(* No .part file, or a server that ignores Range. *)
AnswerOK ==
    /\ pc = "get"
    /\ local' = Len(part)
    /\ Whole
    /\ pc' = "seed"
    /\ UNCHANGED <<upstream, hashed, listed, sizeBytes, progress, result, final, fails>>

(* Range: bytes=local-, within the file. *)
AnswerPartial ==
    /\ pc = "get"
    /\ part # <<>> /\ Len(part) < Size[upstream]
    /\ local' = Len(part)
    /\ body' = SubSeq(Bytes(upstream), Len(part) + 1, Size[upstream])
    /\ loaded' = Len(part)
    /\ \E n \in Lengths(Size[upstream] - Len(part)) : total' = Len(part) + n
    /\ pc' = "seed"
    /\ UNCHANGED <<upstream, hashed, listed, sizeBytes, progress, result, part, final,
                   fails>>

(* Mutant: 416 is an error like any other. *)
AnswerUnsatisfiable_Fails ==
    /\ pc = "get"
    /\ part # <<>> /\ Len(part) >= Size[upstream]
    /\ Fail
    /\ UNCHANGED <<upstream, hashed, listed, local, body, total, loaded, sizeBytes, progress,
                   part, final, fails>>

(* 416: the .part file is thrown away and the request made again without a *)
(* Range, which gives 200.                                                 *)
AnswerUnsatisfiable ==
    /\ pc = "get"
    /\ part # <<>> /\ Len(part) >= Size[upstream]
    /\ local' = 0
    /\ progress' = 0
    /\ Whole
    /\ pc' = "seed"
    /\ UNCHANGED <<upstream, hashed, listed, sizeBytes, result, final, fails>>

(* Any other status, a refused connection, a cancel before the answer. *)
AnswerError ==
    /\ pc = "get"
    /\ fails < MaxFails
    /\ fails' = fails + 1
    /\ Fail
    /\ UNCHANGED <<upstream, hashed, listed, local, body, total, loaded, sizeBytes, progress,
                   part, final>>

(* The progress fields are seeded. *)
Seed ==
    /\ pc = "seed"
    /\ sizeBytes' = IF total > 0 THEN total ELSE sizeBytes
    /\ progress' = Pct(loaded, total)
    /\ pc' = "stream"
    /\ UNCHANGED <<upstream, hashed, listed, local, body, total, loaded, result, part,
                   final, fails>>

------------------------------------------------------------------------------
(* The stream loop, hash and rename. *)

(* A chunk of at least one byte; progress is flushed every 250 ms and when *)
(* the last byte is in.                                                    *)
Read ==
    /\ pc = "stream"
    /\ \E n \in 1..Len(body) :
          /\ part' = part \o SubSeq(body, 1, n)
          /\ body' = SubSeq(body, n + 1, Len(body))
          /\ loaded' = loaded + n
    /\ progress' \in {Pct(loaded', total)}
                       \union (IF total > 0 /\ loaded' = total THEN {} ELSE {progress})
    /\ UNCHANGED <<upstream, hashed, listed, pc, local, total, sizeBytes, result, final,
                   fails>>

(* The connection breaks (a short body is an error in Go if its length is  *)
(* known or chunked), the disk is full, the user cancels, the studio dies: *)
(* the .part file stays as it is.                                          *)
Break ==
    /\ pc = "stream"
    /\ fails < MaxFails
    /\ fails' = fails + 1
    /\ Fail
    /\ UNCHANGED <<upstream, hashed, listed, local, body, total, loaded, sizeBytes, progress,
                   part, final>>

(* Mutant: the hash is compared after the rename. *)
Finish_RenameFirst ==
    /\ pc = "stream"
    /\ body = <<>>
    /\ final' = part /\ part' = <<>>
    /\ IF hashed /\ part # Bytes(listed)
       THEN Fail /\ UNCHANGED <<sizeBytes, progress>>
       ELSE pc' = "idle" /\ result' = "completed" /\ progress' = 100 /\ UNCHANGED sizeBytes
    /\ UNCHANGED <<upstream, hashed, listed, local, body, total, loaded, fails>>

(* EOF.  With a hash the .part file must have it, else it stays on disk;   *)
(* without one nothing is compared.                                        *)
Finish ==
    /\ pc = "stream"
    /\ body = <<>>
    /\ IF hashed /\ part # Bytes(listed)
       THEN Fail /\ UNCHANGED <<progress, part, final>>
       ELSE /\ pc' = "idle" /\ result' = "completed" /\ progress' = 100
            /\ final' = part /\ part' = <<>>
    /\ UNCHANGED <<upstream, hashed, listed, local, body, total, loaded, sizeBytes, fails>>

Answer == AnswerOK \/ AnswerPartial \/ AnswerUnsatisfiable

Next == \/ Publish \/ Start(TRUE) \/ Start(FALSE)
        \/ Answer \/ AnswerError \/ Seed
        \/ Read \/ Break \/ Finish

Spec == Init /\ [][Next]_vars

------------------------------------------------------------------------------
TypeOK ==
    /\ hashed \in BOOLEAN /\ upstream \in Versions /\ listed \in Versions
    /\ pc \in {"idle", "get", "seed", "stream"}
    /\ local \in Nat /\ loaded \in Nat /\ total \in Int
    /\ sizeBytes \in Nat /\ progress \in Nat
    /\ body \in Seq(Versions) /\ part \in Seq(Versions) /\ final \in Seq(Versions)
    /\ result \in {"pending", "failed", "completed", "skipped"}
    /\ fails \in 0..MaxFails

(* Through any sequence of broken, resumed and restarted attempts, what is *)
(* found under the final name is one whole version, never a head of one    *)
(* with the tail of another: with a hash also when the file changes        *)
(* upstream between two attempts, without one if it does not.              *)
FinalIntact ==
    final # <<>> /\ (hashed \/ upstream = 1) => \E v \in Versions : final = Bytes(v)

(* A file reported as done has the hash it was listed with. *)
DoneMatchesListing ==
    hashed /\ result \in {"completed", "skipped"} /\ pc = "idle" => final = Bytes(listed)

(* "non-LFS files fall back to a size check only" (hf_support.md, 7.3, and *)
(* "we trust the size" in the code): a completed file has the size the     *)
(* listing promised.  Does not hold: Finish compares nothing.              *)
SizeChecked == result = "completed" => Len(final) = Size[listed]

(* "pct returns 0..100".  Does not hold: a length of -1 makes the total    *)
(* smaller than what is loaded.                                            *)
PctInRange == progress \in 0..100

(* A .part file that cannot become the listed file (left for inspection by *)
(* a hash mismatch, or from an older version) does not wedge the download: *)
(* if failures stop and the user keeps trying, the file is done in the end.*)
FairSpec ==
    /\ Spec
    /\ SF_vars(Start(TRUE))
    /\ WF_vars(Answer) /\ WF_vars(Seed) /\ WF_vars(Read \/ Finish)

NeverWedged == <>(result \in {"completed", "skipped"})
==============================================================================
