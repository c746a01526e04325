------------------------- MODULE FileDownloadProofs --------------------------
(***************************************************************************)
(* Theorems about the files of a download job.  FileDownload: for any      *)
(* number of versions of any length, and any number of attempts that       *)
(* break, what lies under the final name is whole, and a file reported as  *)
(* done is the one that was listed.  JobFile: however the two writers of   *)
(* the job's snapshot cut into each other, it is whole and final once both *)
(* are done, for any number of versions of any length.                     *)
(***************************************************************************)
EXTENDS FileDownload, JobFile, TLAPS

(* The versions and bytes are what they should be. *)
BytesOK ==
    /\ listed \in Versions /\ upstream \in Versions
    /\ part \in Seq(Versions) /\ body \in Seq(Versions)

(* As long as the file has not changed upstream, everything on disk and on *)
(* the way comes from its first version, and what is on disk and what is   *)
(* still to be read make up the file.                                      *)
OneVersion ==
    upstream = 1 =>
        /\ part \in Seq({1}) /\ body \in Seq({1})
        /\ pc \in {"seed", "stream"} => Len(part) + Len(body) = Size[1]

(* The inductive invariant. *)
FileInv == BytesOK /\ OneVersion /\ FinalIntact /\ DoneMatchesListing

LEMMA SizePositive == \A v \in Versions : Size[v] \in Nat /\ Size[v] > 0
  BY ConstAssumption

(* The body of an answer is a whole version. *)
LEMMA BytesWhole ==
    ASSUME NEW v \in Versions
    PROVE  /\ Bytes(v) \in Seq({v}) /\ Bytes(v) \in Seq(Versions)
           /\ Len(Bytes(v)) = Size[v] /\ Bytes(v) # <<>>
  BY SizePositive DEF Bytes

(* A file of the right length made of one version is that version. *)
LEMMA WholeOfOne ==
    ASSUME NEW f \in Seq({1}), 1 \in Versions, Len(f) = Size[1]
    PROVE  f = Bytes(1)
<1>1. Size[1] \in Nat
  BY SizePositive
<1>2. \A i \in 1..Size[1] : f[i] = 1
  OBVIOUS
<1>3. f = [i \in 1..Size[1] |-> f[i]]
  OBVIOUS
<1>4. QED
  BY <1>2, <1>3 DEF Bytes

(* Cutting a sequence in two and moving the head keeps elements and length. *)
LEMMA Moved ==
    ASSUME NEW S, NEW p \in Seq(S), NEW q \in Seq(S), NEW n \in 1..Len(q)
    PROVE  /\ p \o SubSeq(q, 1, n) \in Seq(S)
           /\ SubSeq(q, n + 1, Len(q)) \in Seq(S)
           /\ Len(p \o SubSeq(q, 1, n)) + Len(SubSeq(q, n + 1, Len(q))) = Len(p) + Len(q)
<1> DEFINE head == SubSeq(q, 1, n)
           tail == SubSeq(q, n + 1, Len(q))
<1>1. head \in Seq(S) /\ Len(head) = n
  OBVIOUS
<1>2. tail \in Seq(S) /\ Len(tail) = Len(q) - n
  OBVIOUS
<1>3. p \o head \in Seq(S) /\ Len(p \o head) = Len(p) + n
  BY <1>1
<1>4. Len(p) \in Nat /\ Len(q) \in Nat /\ n \in Nat
  OBVIOUS
<1> HIDE DEF head, tail
<1>5. Len(p \o head) + Len(tail) = Len(p) + Len(q)
  BY <1>2, <1>3, <1>4
<1>6. QED
  BY <1>2, <1>3, <1>5 DEF head, tail

LEMMA InitInv == Init => FileInv
<1> SUFFICES ASSUME Init PROVE FileInv
  OBVIOUS
<1>1. 1 \in Versions
  BY ConstAssumption DEF Versions
<1>2. BytesOK
  BY <1>1 DEF Init, BytesOK
<1>3. OneVersion /\ FinalIntact /\ DoneMatchesListing
  BY DEF Init, OneVersion, FinalIntact, DoneMatchesListing
<1>4. QED
  BY <1>2, <1>3 DEF FileInv

------------------------------------------------------------------------------
LEMMA PublishKeeps == FileInv /\ Publish => FileInv'
<1> SUFFICES ASSUME FileInv, Publish PROVE FileInv'
  OBVIOUS
<1>1. upstream' # 1
  <2>1. upstream \in Nat /\ upstream >= 1
    BY ConstAssumption DEF FileInv, BytesOK, Versions
  <2>2. QED
    BY <2>1 DEF Publish
<1>2. BytesOK' /\ OneVersion'
  BY <1>1 DEF FileInv, BytesOK, OneVersion, Publish
<1>3. FinalIntact' /\ DoneMatchesListing'
  BY <1>1 DEF FileInv, FinalIntact, DoneMatchesListing, Publish
<1>4. QED
  BY <1>2, <1>3 DEF FileInv

LEMMA StartKeeps == ASSUME FileInv, NEW fresh \in BOOLEAN, Start(fresh) PROVE FileInv'
<1>1. BytesOK' /\ OneVersion'
  BY DEF FileInv, BytesOK, OneVersion, Start
<1>2. FinalIntact'
  BY DEF FileInv, FinalIntact, Start
<1>3. DoneMatchesListing'
  BY DEF DoneMatchesListing, Start, Matches
<1>4. QED
  BY <1>1, <1>2, <1>3 DEF FileInv

(* An answer leaves the final file alone. *)
LEMMA AnswerKeeps == FileInv /\ Answer => FileInv'
<1> SUFFICES ASSUME FileInv, Answer PROVE FileInv'
  OBVIOUS
<1>1. pc' = "seed" /\ UNCHANGED <<upstream, hashed, listed, result, final>>
  BY DEF Answer, AnswerOK, AnswerPartial, AnswerUnsatisfiable
<1>2. FinalIntact' /\ DoneMatchesListing'
  BY <1>1 DEF FileInv, FinalIntact, DoneMatchesListing
<1>3. CASE Whole
  <2>1. body' = Bytes(upstream) /\ part' = <<>>
    BY <1>3 DEF Whole
  <2>2. BytesOK'
    <3>1. upstream \in Versions
      BY DEF FileInv, BytesOK
    <3>2. Bytes(upstream) \in Seq(Versions)
      BY <3>1, BytesWhole
    <3>3. QED
      BY <1>1, <2>1, <3>2 DEF FileInv, BytesOK
  <2>3. OneVersion'
    BY <1>1, <2>1, BytesWhole, SizePositive DEF FileInv, BytesOK, OneVersion
  <2>4. QED
    BY <1>2, <2>2, <2>3 DEF FileInv
<1>4. CASE AnswerPartial
  <2>1. /\ part' = part /\ Len(part) \in Nat /\ Len(part) < Size[upstream]
        /\ body' = SubSeq(Bytes(upstream), Len(part) + 1, Size[upstream])
    BY <1>4 DEF AnswerPartial, FileInv, BytesOK
  <2>2. /\ body' \in Seq({upstream}) /\ body' \in Seq(Versions)
        /\ Len(body') = Size[upstream] - Len(part)
    <3>1. upstream \in Versions
      BY DEF FileInv, BytesOK
    <3>2. /\ Bytes(upstream) \in Seq({upstream}) /\ Bytes(upstream) \in Seq(Versions)
          /\ Len(Bytes(upstream)) = Size[upstream] /\ Size[upstream] \in Nat
      BY <3>1, BytesWhole, SizePositive
    <3>3. ASSUME NEW S, NEW w \in Seq(S), NEW k \in Nat, k < Len(w)
          PROVE  SubSeq(w, k + 1, Len(w)) \in Seq(S) /\ Len(SubSeq(w, k + 1, Len(w))) = Len(w) - k
      BY <3>3
    <3>4. QED
      BY <2>1, <3>2, <3>3
  <2>3. BytesOK'
    BY <1>1, <2>1, <2>2 DEF FileInv, BytesOK
  <2>4. OneVersion'
    BY <1>1, <2>1, <2>2, SizePositive DEF FileInv, BytesOK, OneVersion
  <2>5. QED
    BY <1>2, <2>3, <2>4 DEF FileInv
<1>5. QED
  BY <1>3, <1>4 DEF Answer, AnswerOK, AnswerUnsatisfiable

LEMMA ErrorsKeep == FileInv /\ (AnswerError \/ Break \/ Seed) => FileInv'
<1> SUFFICES ASSUME FileInv, AnswerError \/ Break \/ Seed PROVE FileInv'
  OBVIOUS
<1>1. /\ UNCHANGED <<upstream, hashed, listed, part, body, final>>
      /\ pc' = "idle" => result' = "failed"
      /\ pc' \in {"seed", "stream"} => pc \in {"seed", "stream"}
  BY DEF AnswerError, Break, Seed, Fail
<1>2. QED
  BY <1>1 DEF FileInv, BytesOK, OneVersion, FinalIntact, DoneMatchesListing

LEMMA ReadKeeps == FileInv /\ Read => FileInv'
<1> SUFFICES ASSUME FileInv, Read PROVE FileInv'
  OBVIOUS
<1>1. PICK n \in 1..Len(body) : /\ part' = part \o SubSeq(body, 1, n)
                                /\ body' = SubSeq(body, n + 1, Len(body))
  BY DEF Read
<1>2. pc = "stream" /\ UNCHANGED <<pc, upstream, hashed, listed, result, final>>
  BY DEF Read
<1>3. BytesOK'
  BY <1>1, <1>2, Moved DEF FileInv, BytesOK
<1>4. OneVersion'
  <2> SUFFICES ASSUME upstream = 1
               PROVE  /\ part' \in Seq({1}) /\ body' \in Seq({1})
                      /\ Len(part') + Len(body') = Size[1]
    BY <1>2 DEF OneVersion
  <2>1. part \in Seq({1}) /\ body \in Seq({1}) /\ Len(part) + Len(body) = Size[1]
    BY <1>2 DEF FileInv, OneVersion
  <2>2. QED
    BY <1>1, <2>1, Moved
<1>5. FinalIntact' /\ DoneMatchesListing'
  BY <1>2 DEF FileInv, FinalIntact, DoneMatchesListing
<1>6. QED
  BY <1>3, <1>4, <1>5 DEF FileInv

LEMMA FinishKeeps == FileInv /\ Finish => FileInv'
<1> SUFFICES ASSUME FileInv, Finish PROVE FileInv'
  OBVIOUS
<1>1. pc = "stream" /\ body = <<>> /\ UNCHANGED <<upstream, hashed, listed, body>> /\ pc' = "idle"
  BY DEF Finish, Fail
<1>2. CASE UNCHANGED <<part, final>> /\ result' = "failed"
  BY <1>1, <1>2 DEF FileInv, BytesOK, OneVersion, FinalIntact, DoneMatchesListing
<1>3. CASE (hashed => part = Bytes(listed)) /\ final' = part /\ part' = <<>>
  <2>1. BytesOK' /\ OneVersion'
    BY <1>1, <1>3 DEF FileInv, BytesOK, OneVersion
  <2>2. DoneMatchesListing'
    BY <1>1, <1>3 DEF DoneMatchesListing
  <2>3. ASSUME hashed PROVE \E v \in Versions : final' = Bytes(v)
    BY <1>3, <2>3 DEF FileInv, BytesOK
  <2>4. ASSUME upstream = 1 PROVE final' = Bytes(1) /\ 1 \in Versions
    <3>1. part \in Seq({1}) /\ Len(part) = Size[1]
      <4>1. part \in Seq({1}) /\ Len(part) + Len(body) = Size[1]
        BY <1>1, <2>4 DEF FileInv, OneVersion
      <4>2. Len(body) = 0 /\ Len(part) \in Nat
        BY <1>1, <4>1
      <4>3. QED
        BY <4>1, <4>2
    <3>2. 1 \in Versions
      BY <2>4 DEF FileInv, BytesOK
    <3>3. QED
      BY <1>3, <3>1, <3>2, WholeOfOne
  <2>5. FinalIntact'
    BY <1>1, <2>3, <2>4 DEF FinalIntact, Bytes
  <2>6. QED
    BY <2>1, <2>2, <2>5 DEF FileInv
<1>4. QED
  BY <1>2, <1>3 DEF Finish, Fail

LEMMA NextInv == FileInv /\ [Next]_vars => FileInv'
<1> SUFFICES ASSUME FileInv, [Next]_vars PROVE FileInv'
  OBVIOUS
<1>1. CASE UNCHANGED vars
  BY <1>1 DEF vars, FileInv, BytesOK, OneVersion, FinalIntact, DoneMatchesListing, Bytes
<1>2. QED
  BY <1>1, PublishKeeps, StartKeeps, AnswerKeeps, ErrorsKeep, ReadKeeps, FinishKeeps DEF Next

LEMMA Invariance == Spec => []FileInv
  BY InitInv, NextInv, PTL DEF Spec

------------------------------------------------------------------------------
(* What downloadOne renames to the final name is one whole version of the  *)
(* file, through any sequence of broken, resumed and restarted attempts:   *)
(* if the listing gave a hash, or as long as nothing changes upstream.     *)
THEOREM FinalFilesAreWhole == Spec => []FinalIntact
<1>1. FileInv => FinalIntact
  BY DEF FileInv
<1>2. QED
  BY <1>1, Invariance, PTL

(* A file downloadOne reports as completed or skipped has the hash of the  *)
(* listing, if there was one.                                              *)
THEOREM DoneFilesAreAsListed == Spec => []DoneMatchesListing
<1>1. FileInv => DoneMatchesListing
  BY DEF FileInv
<1>2. QED
  BY <1>1, Invariance, PTL

------------------------------------------------------------------------------
(* The snapshot of the job. *)

Finished == ver = Final

(* Who is past its look at the job writes what it saw: the worker, and the *)
(* loop once it is done, its final state.                                  *)
ShotsTrue ==
    /\ at["worker"] = "files" <=> ~ Finished
    /\ done => Finished
    /\ at["worker"] \in {"open", "write", "rename"} => shot["worker"] = Final
    /\ done /\ at["loop"] \in {"open", "write", "rename"} => shot["loop"] = Final
    /\ at["loop"] = "off" => done
    /\ at["worker"] # "tick" /\ at["loop"] # "files"

(* A writer writes into an inode; a temp file is about to be renamed by    *)
(* somebody, and is not the file itself.                                   *)
NamesOK ==
    /\ \A w \in Writers : at[w] = "write" => fd[w] \in Inodes
    /\ tmp # NoInode => tmp # path /\ \E w \in Writers : at[w] \in {"write", "rename"}

(* The inode holds the final state, or will when its writer has written.   *)
Good(i) ==
    \/ content[i] = Final
    \/ content[i] = Empty /\ \E w \in Writers : at[w] = "write" /\ fd[w] = i

(* Once the loop has opened the file for the last time, what the next      *)
(* rename moves, or the last one has moved, is good.                       *)
LastOpen == done /\ at["loop"] \in {"write", "rename", "off"}

WillBeGood ==
    LastOpen => IF tmp = NoInode THEN Good(path) ELSE Good(tmp)

(* The inductive invariant. *)
SnapInv == SnapTypeOK /\ ShotsTrue /\ NamesOK /\ WillBeGood

LEMMA SnapInitInv == SnapInit => SnapInv
<1> SUFFICES ASSUME SnapInit PROVE SnapInv
  OBVIOUS
<1>1. 0 \in Snapshots /\ 1 \in Inodes
  BY SnapAssumption DEF Snapshots, Inodes
<1>2. SnapTypeOK
  <2>1. /\ ver \in Snapshots /\ done \in BOOLEAN
        /\ tmp \in Inodes \union {NoInode} /\ path \in Inodes
    BY <1>1 DEF SnapInit
  <2>2. /\ at \in [Writers -> {"files", "tick", "snap", "open", "write", "rename", "off"}]
        /\ shot \in [Writers -> Snapshots] /\ fd \in [Writers -> Inodes \union {NoInode}]
    BY <1>1 DEF SnapInit
  <2>3. content \in [Inodes -> Snapshots \union {Empty, Torn}]
    BY <1>1 DEF SnapInit
  <2>4. QED
    BY <2>1, <2>2, <2>3 DEF SnapTypeOK
<1>3. ShotsTrue /\ NamesOK /\ WillBeGood
  BY SnapAssumption DEF SnapInit, ShotsTrue, Finished, NamesOK, WillBeGood, LastOpen, Writers, NoInode
<1>4. QED
  BY <1>2, <1>3 DEF SnapInv

(* Writing the final state over it, or into an empty file, makes it final. *)
LEMMA OverFinal == Over(Final, Final) = Final /\ Over(Empty, Final) = Final
  BY SnapAssumption DEF Over, Empty, Torn

LEMMA OverTyped ==
    ASSUME NEW c \in Snapshots \union {Empty, Torn}, NEW v \in Snapshots
    PROVE  Over(c, v) \in Snapshots \union {Empty, Torn}
  BY DEF Over

------------------------------------------------------------------------------
LEMMA ProgressKeeps == SnapInv /\ Progress => SnapInv'
<1> SUFFICES ASSUME SnapInv, Progress PROVE SnapInv'
  OBVIOUS
<1>1. /\ at["worker"] = "files" /\ ver' = ver + 1
      /\ at' = IF ver' = Final THEN [at EXCEPT !["worker"] = "snap"] ELSE at
      /\ UNCHANGED <<shot, done, fd, tmp, path, content>>
  BY DEF Progress
<1>2. ver' \in Snapshots /\ ~ done
  <2>1. ver \in Snapshots /\ ver # Final /\ ~ done
    BY <1>1 DEF SnapInv, SnapTypeOK, ShotsTrue, Finished
  <2>2. QED
    BY <1>1, <2>1, SnapAssumption DEF Snapshots
<1>3. SnapTypeOK'
  BY <1>1, <1>2 DEF SnapInv, SnapTypeOK, Writers
<1>4. ShotsTrue'
  BY <1>1, <1>2 DEF SnapInv, SnapTypeOK, ShotsTrue, Finished, Writers
<1>5. NamesOK' /\ WillBeGood'
  BY <1>1, <1>2 DEF SnapInv, SnapTypeOK, NamesOK, WillBeGood, LastOpen, Writers
<1>6. QED
  BY <1>3, <1>4, <1>5 DEF SnapInv

LEMMA TickKeeps == SnapInv /\ Tick => SnapInv'
<1> SUFFICES ASSUME SnapInv, Tick PROVE SnapInv'
  OBVIOUS
<1>1. done' \in BOOLEAN /\ (done' => ver = Final)
  BY DEF Tick
<1>2. at' = [at EXCEPT !["loop"] = "snap"] /\ at["loop"] = "tick"
      /\ UNCHANGED <<ver, shot, fd, tmp, path, content>>
  BY DEF Tick
<1>3. SnapTypeOK'
  BY <1>1, <1>2 DEF SnapInv, SnapTypeOK
<1>4. ShotsTrue' /\ NamesOK' /\ WillBeGood'
  BY <1>1, <1>2 DEF SnapInv, SnapTypeOK, ShotsTrue, Finished, NamesOK, WillBeGood, LastOpen, Writers
<1>5. QED
  BY <1>3, <1>4 DEF SnapInv

LEMMA SerialiseKeeps == ASSUME SnapInv, NEW w \in Writers, Serialise(w) PROVE SnapInv'
<1>1. /\ at[w] = "snap"
      /\ shot' = [shot EXCEPT ![w] = ver] /\ at' = [at EXCEPT ![w] = "open"]
      /\ UNCHANGED <<ver, done, fd, tmp, path, content>>
  BY DEF Serialise
<1>2. SnapTypeOK'
  BY <1>1 DEF SnapInv, SnapTypeOK
<1>3. ShotsTrue'
  BY <1>1 DEF SnapInv, SnapTypeOK, ShotsTrue, Finished, Writers
<1>4. NamesOK'
  BY <1>1 DEF SnapInv, SnapTypeOK, NamesOK, Writers
<1>5. WillBeGood'
  BY <1>1 DEF SnapInv, SnapTypeOK, WillBeGood, LastOpen, Good, Writers
<1>6. QED
  BY <1>2, <1>3, <1>4, <1>5 DEF SnapInv

LEMMA OpenKeeps == ASSUME SnapInv, NEW w \in Writers, Open(w) PROVE SnapInv'
<1>1. PICK i \in Inodes :
         /\ IF tmp # NoInode THEN i = tmp ELSE i # path /\ \A v \in Writers : fd[v] # i
         /\ tmp' = i
         /\ fd' = [fd EXCEPT ![w] = i]
         /\ content' = [content EXCEPT ![i] = Empty]
  BY DEF Open
<1>2. /\ at[w] = "open" /\ at' = [at EXCEPT ![w] = "write"]
      /\ UNCHANGED <<ver, shot, done, path>>
  BY DEF Open
<1>3. i # NoInode
  BY DEF Inodes, NoInode
<1>4. SnapTypeOK'
  BY <1>1, <1>2 DEF SnapInv, SnapTypeOK
<1>5. ShotsTrue'
  BY <1>2 DEF SnapInv, SnapTypeOK, ShotsTrue, Finished, Writers
<1>6. NamesOK'
  BY <1>1, <1>2, <1>3 DEF SnapInv, SnapTypeOK, NamesOK
<1>7. Good(i)'
  BY <1>1, <1>2 DEF SnapInv, SnapTypeOK, Good
<1>8. WillBeGood'
  BY <1>1, <1>3, <1>7 DEF WillBeGood
<1>9. QED
  BY <1>4, <1>5, <1>6, <1>8 DEF SnapInv

LEMMA WriteKeeps == ASSUME SnapInv, NEW w \in Writers, Write(w) PROVE SnapInv'
<1>1. /\ at[w] = "write" /\ at' = [at EXCEPT ![w] = "rename"]
      /\ content' = [content EXCEPT ![fd[w]] = Over(content[fd[w]], shot[w])]
      /\ fd' = [fd EXCEPT ![w] = NoInode]
      /\ UNCHANGED <<ver, shot, done, tmp, path>>
  BY DEF Write
<1>2. fd[w] \in Inodes
  BY <1>1 DEF SnapInv, NamesOK
<1>3. SnapTypeOK'
  BY <1>1, <1>2, OverTyped DEF SnapInv, SnapTypeOK
<1>4. ShotsTrue'
  BY <1>1 DEF SnapInv, SnapTypeOK, ShotsTrue, Finished, Writers
<1>5. NamesOK'
  BY <1>1 DEF SnapInv, SnapTypeOK, NamesOK
<1>6. WillBeGood'
  <2> SUFFICES ASSUME LastOpen', NEW i \in Inodes, Good(i) PROVE Good(i)'
    <3>1. LastOpen' => LastOpen
      BY <1>1 DEF SnapInv, SnapTypeOK, LastOpen, Writers
    <3>2. path \in Inodes /\ (tmp # NoInode => tmp \in Inodes)
      BY DEF SnapInv, SnapTypeOK
    <3>3. QED
      BY <1>1, <3>1, <3>2 DEF SnapInv, WillBeGood
  <2>1. shot[w] = Final
    BY <1>1 DEF SnapInv, SnapTypeOK, ShotsTrue, LastOpen, Writers
  <2>2. CASE i = fd[w]
    <3>1. content[i] = Final \/ content[i] = Empty
      BY DEF Good
    <3>2. content'[i] = Final
      BY <1>1, <1>2, <2>1, <2>2, <3>1, OverFinal DEF SnapInv, SnapTypeOK
    <3>3. QED
      BY <3>2 DEF Good
  <2>3. CASE i # fd[w]
    <3>1. content'[i] = content[i]
      BY <1>1, <2>3 DEF SnapInv, SnapTypeOK
    <3>2. ASSUME NEW v \in Writers, at[v] = "write", fd[v] = i
          PROVE  at'[v] = "write" /\ fd'[v] = i
      BY <1>1, <2>3, <3>2 DEF SnapInv, SnapTypeOK
    <3>3. QED
      BY <3>1, <3>2 DEF Good
  <2>4. QED
    BY <2>2, <2>3
<1>7. QED
  BY <1>3, <1>4, <1>5, <1>6 DEF SnapInv

LEMMA RenameKeeps == ASSUME SnapInv, NEW w \in Writers, Rename(w) PROVE SnapInv'
<1>1. /\ at[w] = "rename"
      /\ IF tmp = NoInode THEN UNCHANGED path ELSE path' = tmp
      /\ tmp' = NoInode
      /\ at' = [at EXCEPT ![w] = IF w = "worker" \/ done THEN "off" ELSE "tick"]
      /\ UNCHANGED <<ver, shot, done, fd, content>>
  BY DEF Rename
<1>2. SnapTypeOK'
  BY <1>1 DEF SnapInv, SnapTypeOK
<1>3. ShotsTrue'
  BY <1>1 DEF SnapInv, SnapTypeOK, ShotsTrue, Finished, Writers
<1>4. NamesOK'
  BY <1>1 DEF SnapInv, SnapTypeOK, NamesOK
<1>5. WillBeGood'
  <2> SUFFICES ASSUME LastOpen' PROVE Good(path)'
    BY <1>1 DEF WillBeGood
  <2>1. LastOpen
    BY <1>1 DEF SnapInv, SnapTypeOK, LastOpen, Writers
  <2>2. Good(path')
    BY <1>1, <2>1 DEF SnapInv, WillBeGood
  <2>3. \A v \in Writers : at[v] = "write" => at'[v] = "write"
    BY <1>1 DEF SnapInv, SnapTypeOK
  <2>4. QED
    BY <1>1, <2>2, <2>3 DEF Good
<1>6. QED
  BY <1>2, <1>3, <1>4, <1>5 DEF SnapInv

LEMMA SnapNextInv == SnapInv /\ [SnapNext]_snapVars => SnapInv'
<1> SUFFICES ASSUME SnapInv, [SnapNext]_snapVars PROVE SnapInv'
  OBVIOUS
<1>1. CASE UNCHANGED snapVars
  BY <1>1 DEF snapVars, SnapInv, SnapTypeOK, ShotsTrue, Finished, NamesOK, WillBeGood, LastOpen, Good
<1>2. QED
  BY <1>1, ProgressKeeps, TickKeeps, SerialiseKeeps, OpenKeeps, WriteKeeps, RenameKeeps
     DEF SnapNext, Persisting

(* Once runJob and persistJobLoop have both written their last, .job.json  *)
(* holds the job as it ended, whole, although one of them may have         *)
(* emptied or renamed the other's temp file.                               *)
THEOREM SnapshotSettles == SnapSpec => []Settled
<1>1. SnapInv => Settled
  <2> SUFFICES ASSUME SnapInv, \A w \in Writers : at[w] = "off" PROVE content[path] = Final
    BY DEF Settled
  <2>1. LastOpen /\ tmp = NoInode
    BY DEF SnapInv, ShotsTrue, NamesOK, LastOpen, Writers
  <2>2. QED
    BY <2>1 DEF SnapInv, WillBeGood, Good
<1>2. SnapSpec => []SnapInv
  BY SnapInitInv, SnapNextInv, PTL DEF SnapSpec
<1>3. QED
  BY <1>1, <1>2, PTL
==============================================================================
