------------------------------- MODULE Storage -------------------------------
(***************************************************************************)
(* The database of the studio: src/internal/storage/db.go.  Every table is *)
(* a map or a list in memory and one JSON file, written to a temp file and *)
(* renamed.  A call that changes a table holds db.mu from its first look   *)
(* at the memory to the last of its file operations, so that readers never *)
(* see a change whose save is under way; any file operation may fail, and  *)
(* the studio may die between any two.                                     *)
(*                                                                         *)
(* Three tables stand for the five: a profile is its id, a server its      *)
(* record's id, the history the numbers of the downloads.  Benchmark runs  *)
(* are saved as servers are; models are left to Catalog.tla, and what a    *)
(* server's record says to Supervisor.tla.                                 *)
(***************************************************************************)
EXTENDS Naturals, Sequences

CONSTANTS Profiles,      \* profile ids
          Servers,       \* ids of server records
          OwnerOf,       \* OwnerOf[s]: the profile of server s
          Callers,       \* goroutines that call the database
          Nobody,        \* no caller
          Broken,        \* a file that is not whole: json.Unmarshal fails
          MaxHistory,    \* downloads kept in the history (100 in the code)
          MaxDownloads,  \* bound: downloads recorded
          MaxFaults,     \* bound: file operations that fail
          MaxCrashes     \* bound: how often the studio dies

Tables == {"profiles", "servers", "history"}

Histories == UNION {[1..n -> 1..MaxDownloads] : n \in 0..MaxHistory}

ASSUME StoreAssumption ==
    /\ OwnerOf \in [Servers -> Profiles]
    /\ Nobody \notin Callers
    /\ MaxHistory \in Nat \ {0}
    /\ MaxDownloads \in Nat /\ MaxFaults \in Nat /\ MaxCrashes \in Nat
    /\ \A content \in (SUBSET Profiles) \union (SUBSET Servers) \union Histories : Broken # content

VARIABLES
    open,      \* the database is open
    mem,       \* mem[t]: the table in memory
    disk,      \* disk[t]: its file
    call,      \* the call that holds db.mu
    told,      \* told[p]: what the last call about p answered, and nobody since
    recorded,  \* how many downloads have been handed to AddDownloadHistory
    logged,    \* those it has confirmed
    faults,    \* file operations that have failed
    crashes    \* how often the studio has died

storeVars == <<open, mem, disk, call, told, recorded, logged, faults, crashes>>

Nothing == [t \in Tables |-> IF t = "history" THEN <<>> ELSE {}]

(* kind: the call; id: its profile; todo: the tables it has still to save; *)
(* stage: how far the first of them is ("torn" and "whole" are about its   *)
(* temp file, which is truncated before it is used again); failed: the     *)
(* error it will return.                                                   *)
Unlocked == [who |-> Nobody, kind |-> "none", id |-> Nobody, todo |-> <<>>,
             stage |-> "ready", failed |-> FALSE]

Locked(c, kind, id, todo) ==
    [who |-> c, kind |-> kind, id |-> id, todo |-> todo, stage |-> "ready", failed |-> FALSE]

(* What db.mu grants: a reader waits for the call that holds it. *)
Readable == open /\ call = Unlocked

(* The first start of the studio. *)
StoreInit ==
    /\ open = TRUE
    /\ mem = Nothing /\ disk = Nothing
    /\ call = Unlocked
    /\ told = [p \in Profiles |-> "gone"]
    /\ recorded = 0 /\ logged = {}
    /\ faults = 0 /\ crashes = 0

------------------------------------------------------------------------------
(* The calls: what they do to the memory under the lock. *)

SaveProfile(c, p) ==
    /\ Readable
    /\ mem' = [mem EXCEPT !["profiles"] = @ \union {p}]
    /\ call' = Locked(c, "put", p, <<"profiles">>)
    /\ told' = [told EXCEPT ![p] = "unknown"]
    /\ UNCHANGED <<open, disk, recorded, logged, faults, crashes>>

(* A profile that is not there is an error and changes nothing.  The       *)
(* error of the first of the two saves is dropped.                         *)
DeleteProfile(c, p) ==
    /\ Readable
    /\ p \in mem["profiles"]
    /\ mem' = [mem EXCEPT !["profiles"] = @ \ {p},
                          !["servers"] = {s \in @ : OwnerOf[s] # p}]
    /\ call' = Locked(c, "delete", p, <<"servers", "profiles">>)
    /\ told' = [told EXCEPT ![p] = "unknown"]
    /\ UNCHANGED <<open, disk, recorded, logged, faults, crashes>>

(* Nothing is asked of the profile. *)
SaveServer(c, s) ==
    /\ Readable
    /\ mem' = [mem EXCEPT !["servers"] = @ \union {s}]
    /\ call' = Locked(c, "server", Nobody, <<"servers">>)
    /\ UNCHANGED <<open, disk, told, recorded, logged, faults, crashes>>

(* The newest entries of a list. *)
Newest(list, n) ==
    IF Len(list) > n THEN SubSeq(list, Len(list) - n + 1, Len(list)) ELSE list

(* Mutant: the list is cut at the wrong end. *)
AddDownloadHistory_Oldest(c) ==
    /\ Readable
    /\ recorded < MaxDownloads
    /\ recorded' = recorded + 1
    /\ mem' = [mem EXCEPT !["history"] =
                  SubSeq(Append(@, recorded'), 1, MaxHistory)]
    /\ call' = Locked(c, "download", Nobody, <<"history">>)
    /\ UNCHANGED <<open, disk, told, logged, faults, crashes>>

AddDownloadHistory(c) ==
    /\ Readable
    /\ recorded < MaxDownloads
    /\ recorded' = recorded + 1
    /\ mem' = [mem EXCEPT !["history"] = Newest(Append(@, recorded'), MaxHistory)]
    /\ call' = Locked(c, "download", Nobody, <<"history">>)
    /\ UNCHANGED <<open, disk, told, logged, faults, crashes>>

------------------------------------------------------------------------------
(* save: the temp file is truncated, *)

Table == Head(call.todo)
AtStage(s) == call.todo # <<>> /\ call.stage = s

Truncate ==
    /\ AtStage("ready")
    /\ call' = [call EXCEPT !.stage = "torn"]
    /\ UNCHANGED <<open, mem, disk, told, recorded, logged, faults, crashes>>

(* written, *)
Write ==
    /\ AtStage("torn")
    /\ call' = [call EXCEPT !.stage = "whole"]
    /\ UNCHANGED <<open, mem, disk, told, recorded, logged, faults, crashes>>

(* and renamed. *)
Rename ==
    /\ AtStage("whole")
    /\ disk' = [disk EXCEPT ![Table] = mem[Table]]
    /\ call' = [call EXCEPT !.todo = Tail(@), !.stage = "ready"]
    /\ UNCHANGED <<open, mem, told, recorded, logged, faults, crashes>>

(* Mutant: no error is returned. *)
FailSave_Silently ==
    /\ call.todo # <<>>
    /\ faults < MaxFaults
    /\ faults' = faults + 1
    /\ call' = [call EXCEPT !.todo = Tail(@), !.stage = "ready"]
    /\ UNCHANGED <<open, mem, disk, told, recorded, logged, crashes>>

(* Any of the three fails.  A call returns the error of its last save; the *)
(* memory stays as it is.                                                  *)
FailSave ==
    /\ call.todo # <<>>
    /\ faults < MaxFaults
    /\ faults' = faults + 1
    /\ call' = [call EXCEPT !.todo = Tail(@), !.stage = "ready", !.failed = Tail(call.todo) = <<>>]
    /\ UNCHANGED <<open, mem, disk, told, recorded, logged, crashes>>

Saving == Truncate \/ Write \/ Rename \/ FailSave

(* The call of c returns and unlocks. *)
Return(c) ==
    /\ call.who = c /\ call.kind # "none" /\ call.todo = <<>>
    /\ call' = Unlocked
    /\ told' = IF call.failed \/ call.kind \notin {"put", "delete"} THEN told
               ELSE [told EXCEPT ![call.id] = IF call.kind = "put" THEN "there" ELSE "gone"]
    /\ logged' = IF call.failed \/ call.kind # "download" THEN logged
                 ELSE logged \union {recorded}
    /\ UNCHANGED <<open, mem, disk, recorded, faults, crashes>>

------------------------------------------------------------------------------
(* The studio dies, whatever it was doing; only the files are left. *)
Die ==
    /\ crashes < MaxCrashes
    /\ crashes' = crashes + 1
    /\ open' = FALSE
    /\ mem' = Nothing
    /\ call' = Unlocked
    /\ UNCHANGED <<disk, told, recorded, logged, faults>>

(* Open: the files are read, and the records of servers without a profile  *)
(* or without a living process are dropped and the others saved, an error  *)
(* of which is dropped too.  (Which processes live is Supervisor's.)       *)
Open ==
    /\ ~ open
    /\ \A t \in Tables : disk[t] # Broken
    /\ \E alive \in SUBSET disk["servers"] :
          LET kept == {s \in alive : OwnerOf[s] \in disk["profiles"]}
          IN /\ mem' = [disk EXCEPT !["servers"] = kept]
             /\ call' = IF kept = disk["servers"] THEN Unlocked
                        ELSE Locked(Nobody, "clean", Nobody, <<"servers">>)
    /\ open' = TRUE
    /\ UNCHANGED <<disk, told, recorded, logged, faults, crashes>>

StoreNext ==
    \/ \E c \in Callers :
          \/ \E p \in Profiles : SaveProfile(c, p) \/ DeleteProfile(c, p)
          \/ \E s \in Servers : SaveServer(c, s)
          \/ AddDownloadHistory(c)
    \/ Saving
    \/ \E c \in Callers \union {Nobody} : Return(c)
    \/ Die \/ Open

StoreSpec == StoreInit /\ [][StoreNext]_storeVars

------------------------------------------------------------------------------
(* What an admin was told of a profile, that it is saved or that it is     *)
(* deleted, stays true in memory and on disk until somebody else asks for  *)
(* something: also while other calls, which write the same file, fail half *)
(* way, and after the studio has died at any point of any of them.  After  *)
(* a call that failed nothing is promised: the memory has changed, the     *)
(* file has not, and the next save of any other profile writes both.       *)
ToldIsTrue ==
    \A p \in Profiles :
        /\ told[p] = "there" => /\ disk["profiles"] # Broken /\ p \in disk["profiles"]
                                /\ open => p \in mem["profiles"]
        /\ told[p] = "gone" => /\ disk["profiles"] # Broken /\ p \notin disk["profiles"]
                               /\ open => p \notin mem["profiles"]

Entries(list) == {list[i] : i \in 1..Len(list)}

(* A download that was recorded without an error stays in the history, in  *)
(* memory and on disk, until MaxHistory more have been handed over.        *)
HistoryKept ==
    \A d \in logged : recorded < d + MaxHistory =>
        /\ disk["history"] # Broken /\ d \in Entries(disk["history"])
        /\ open => d \in Entries(mem["history"])

------------------------------------------------------------------------------
(* The inductive invariant behind both.  Types: no file is ever broken. *)
StoreTypeOK ==
    /\ open \in BOOLEAN
    /\ DOMAIN mem = Tables /\ DOMAIN disk = Tables
    /\ mem["profiles"] \in SUBSET Profiles /\ disk["profiles"] \in SUBSET Profiles
    /\ mem["servers"] \in SUBSET Servers /\ disk["servers"] \in SUBSET Servers
    /\ mem["history"] \in Histories /\ disk["history"] \in Histories
    /\ call \in [who : Callers \union {Nobody},
                 kind : {"none", "put", "delete", "server", "download", "clean"},
                 id : Profiles \union {Nobody},
                 todo : {<<>>, <<"profiles">>, <<"servers">>, <<"history">>, <<"servers", "profiles">>},
                 stage : {"ready", "torn", "whole"}, failed : BOOLEAN]
    /\ told \in [Profiles -> {"there", "gone", "unknown"}]
    /\ recorded \in 0..MaxDownloads
    /\ logged \subseteq 1..recorded
    /\ faults \in 0..MaxFaults /\ crashes \in 0..MaxCrashes

(* A call that has not failed has, at its end, what is in memory on disk;  *)
(* and while it runs nothing is promised of its profile.                   *)
CallOK ==
    /\ call.kind # "none" => open
    /\ call.kind = "none" => call.todo = <<>>
    /\ call.kind \in {"put", "delete"} =>
          /\ call.id \in Profiles
          /\ told[call.id] = "unknown"
          /\ call.kind = "put" <=> call.id \in mem["profiles"]
          /\ call.todo \in {<<>>, <<"profiles">>, <<"servers", "profiles">>}
          /\ call.todo = <<>> /\ ~ call.failed => disk["profiles"] = mem["profiles"]
    /\ call.kind = "download" =>
          /\ recorded \in Entries(mem["history"])
          /\ call.todo \in {<<>>, <<"history">>}
          /\ call.todo = <<>> /\ ~ call.failed => disk["history"] = mem["history"]
    /\ call.kind \in {"server", "clean"} => call.todo \in {<<>>, <<"servers">>}

(* A history holds numbers of downloads in the order they were recorded. *)
InOrder(list) ==
    /\ \A i \in 1..Len(list) : list[i] \in 1..recorded
    /\ \A i, j \in 1..Len(list) : i <= j => list[i] + (j - i) <= list[j]

StoreInv ==
    /\ StoreTypeOK /\ CallOK /\ ToldIsTrue /\ HistoryKept
    /\ InOrder(mem["history"]) /\ InOrder(disk["history"])
==============================================================================
