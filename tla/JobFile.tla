------------------------------- MODULE JobFile -------------------------------
(***************************************************************************)
(* persistJob of src/internal/models/hf_download.go, system call by system *)
(* call: two goroutines of one job, runJob (its deferred call) and         *)
(* persistJobLoop, write .job.json through one sibling temp file.  Files   *)
(* are inodes: a descriptor keeps its inode when the name is renamed away. *)
(*                                                                         *)
(* The job is a version number that grows with its progress; the last one  *)
(* is its final state.  A write that meets longer data leaves its tail.    *)
(***************************************************************************)
EXTENDS Naturals

CONSTANTS Final,   \* the version of the job in its terminal state
          Length   \* Length[v]: length of the JSON of version v

ASSUME SnapAssumption ==
    /\ Final \in Nat \ {0}
    /\ Length \in [0..Final -> Nat]

VARIABLES ver,      \* the version of the job in memory
          at,       \* at[w]: where w is in persistJob, or before or after it
          shot,     \* shot[w]: the version w has serialised
          done,     \* the loop has seen a terminal status
          fd,       \* fd[w]: the inode w has open
          tmp,      \* the inode called .job.json.tmp, or NoInode
          path,     \* the inode called .job.json
          content   \* content[i]: a version, Empty or Torn

snapVars == <<ver, at, shot, done, fd, tmp, path, content>>

Writers == {"worker", "loop"}
Inodes == 1..4
NoInode == 0
Snapshots == 0..Final
Empty == Final + 1
Torn == Final + 2

(* The initial snapshot was written by StartJob before both were spawned. *)
SnapInit ==
    /\ ver = 0
    /\ at = [w \in Writers |-> IF w = "worker" THEN "files" ELSE "tick"]
    /\ shot = [w \in Writers |-> 0]
    /\ done = FALSE
    /\ fd = [w \in Writers |-> NoInode]
    /\ tmp = NoInode
    /\ path = 1
    /\ content = [i \in Inodes |-> IF i = 1 THEN 0 ELSE Empty]

(* runJob makes progress; with the last version it is done with the files. *)
Progress ==
    /\ at["worker"] = "files"
    /\ ver' = ver + 1
    /\ at' = IF ver' = Final THEN [at EXCEPT !["worker"] = "snap"] ELSE at
    /\ UNCHANGED <<shot, done, fd, tmp, path, content>>

(* Mutant: a terminal status ends the loop before it persists. *)
Tick_ReturnFirst ==
    /\ at["loop"] = "tick"
    /\ done' = (ver = Final)
    /\ at' = [at EXCEPT !["loop"] = IF done' THEN "off" ELSE "snap"]
    /\ UNCHANGED <<ver, shot, fd, tmp, path, content>>

(* The loop looks at the status, then persists whatever it saw. *)
Tick ==
    /\ at["loop"] = "tick"
    /\ done' = (ver = Final)
    /\ at' = [at EXCEPT !["loop"] = "snap"]
    /\ UNCHANGED <<ver, shot, fd, tmp, path, content>>

Serialise(w) ==
    /\ at[w] = "snap"
    /\ shot' = [shot EXCEPT ![w] = ver]
    /\ at' = [at EXCEPT ![w] = "open"]
    /\ UNCHANGED <<ver, done, fd, tmp, path, content>>

(* os.WriteFile opens with O_CREATE|O_TRUNC: an inode that is there is     *)
(* emptied, also under another writer.                                     *)
Open(w) ==
    /\ at[w] = "open"
    /\ \E i \in Inodes :
          /\ IF tmp # NoInode THEN i = tmp
             ELSE i # path /\ \A v \in Writers : fd[v] # i
          /\ tmp' = i
          /\ fd' = [fd EXCEPT ![w] = i]
          /\ content' = [content EXCEPT ![i] = Empty]
    /\ at' = [at EXCEPT ![w] = "write"]
    /\ UNCHANGED <<ver, shot, done, path>>

(* What is in a file of content c after v is written at offset 0. *)
Over(c, v) ==
    IF c = Empty THEN v
    ELSE IF c = Torn THEN c
    ELSE IF Length[v] < Length[c] THEN Torn ELSE v

Write(w) ==
    /\ at[w] = "write"
    /\ content' = [content EXCEPT ![fd[w]] = Over(@, shot[w])]
    /\ fd' = [fd EXCEPT ![w] = NoInode]
    /\ at' = [at EXCEPT ![w] = "rename"]
    /\ UNCHANGED <<ver, shot, done, tmp, path>>

(* Mutant: the name is taken for granted. *)
Rename_Unchecked(w) ==
    /\ at[w] = "rename"
    /\ path' = tmp
    /\ tmp' = NoInode
    /\ at' = [at EXCEPT ![w] = IF w = "worker" \/ done THEN "off" ELSE "tick"]
    /\ UNCHANGED <<ver, shot, done, fd, content>>

(* os.Rename fails, and nobody looks, if the name is gone. *)
Rename(w) ==
    /\ at[w] = "rename"
    /\ IF tmp = NoInode THEN UNCHANGED path ELSE path' = tmp
    /\ tmp' = NoInode
    /\ at' = [at EXCEPT ![w] = IF w = "worker" \/ done THEN "off" ELSE "tick"]
    /\ UNCHANGED <<ver, shot, done, fd, content>>

Persisting(w) == Serialise(w) \/ Open(w) \/ Write(w) \/ Rename(w)

SnapNext == Progress \/ Tick \/ \E w \in Writers : Persisting(w)

SnapSpec == SnapInit /\ [][SnapNext]_snapVars

(* The ticker fires again and file operations end. *)
FairSnapSpec ==
    /\ SnapSpec
    /\ WF_snapVars(Progress) /\ WF_snapVars(Tick)
    /\ \A w \in Writers : WF_snapVars(Persisting(w))

------------------------------------------------------------------------------
SnapTypeOK ==
    /\ ver \in Snapshots
    /\ at \in [Writers -> {"files", "tick", "snap", "open", "write", "rename", "off"}]
    /\ shot \in [Writers -> Snapshots]
    /\ done \in BOOLEAN
    /\ fd \in [Writers -> Inodes \union {NoInode}]
    /\ tmp \in Inodes \union {NoInode}
    /\ path \in Inodes
    /\ content \in [Inodes -> Snapshots \union {Empty, Torn}]

(* However the two writers cut into each other, once both are done the     *)
(* file is whole and describes the job as it ended.                        *)
Settled ==
    (\A w \in Writers : at[w] = "off") => content[path] = Final

(* "persistJob writes the job to dir/.job.json atomically via a sibling    *)
(* temp file.  Safe to call from any goroutine": whenever the studio dies, *)
(* readPersistedJob finds a whole snapshot.  Does not hold at every        *)
(* moment: a writer may truncate the file the other is about to rename.    *)
WholeSnapshot == content[path] \in Snapshots

(* A file that is not whole does not stay so while the studio lives. *)
Heals == ~ WholeSnapshot ~> WholeSnapshot
==============================================================================
