----------------------------- MODULE DefaultModel -----------------------------
(***************************************************************************)
(* The default model of the gateway: the handlers that set it and that     *)
(* delete, create and rewrite profiles (src/internal/httpapi/settings.go,  *)
(* profiles.go), the configuration file it lives in                        *)
(* (src/internal/config/config.go), the requests that are resolved with it *)
(* (handleGatewayCatchAll of src/internal/httpapi/api.go) and the boot of  *)
(* main.go, over the database of Storage.tla, which the supervisor and the *)
(* download worker use at the same time.                                   *)
(*                                                                         *)
(* s.cfg is read and written without a lock.  GatewayDefaultModel is a Go  *)
(* string, two words: whoever reads it between the two, or after two       *)
(* writers that overlapped, may see a mixture, called Torn here.           *)
(***************************************************************************)
EXTENDS Storage

CONSTANTS None,        \* the empty string: no default model
          Torn,        \* a mixture of two ids: never the id of a profile
          Admins,      \* concurrent requests to the administration API
          Requests,    \* requests to the gateway
          Operations   \* what admins do: "set", "delete", "create", "update"

ASSUME ConstAssumption ==
    /\ None \notin Profiles /\ Torn \notin Profiles
    /\ Admins \subseteq Callers
    /\ Operations \subseteq {"set", "delete", "create", "update"}

VARIABLES
    default,   \* cfg.GatewayDefaultModel
    file,      \* the default in config.json, "empty" or "broken"
    unsaved,   \* the last SaveConfig failed
    studio,    \* how far main.go is: "load", "save", "write", "open", "up",
               \* or "fatal": LoadConfig failed
    op,        \* op[t]: the request t is serving
    request    \* request[r]: a request to the gateway

configVars == <<default, file, unsaved>>
vars == <<storeVars, configVars, studio, op, request>>

Values == Profiles \union {None, Torn}
Idle == [pc |-> "idle", id |-> None, snap |-> None]
Fresh == [pc |-> "new", named |-> FALSE, model |-> None, answer |-> "none"]

Init ==
    /\ StoreInit
    /\ default = None
    /\ file = default
    /\ unsaved = FALSE
    /\ studio = "up"
    /\ op = [t \in Admins |-> Idle]
    /\ request = [r \in Requests |-> Fresh]

------------------------------------------------------------------------------
(* Administration. *)

Serving(t, l) == studio = "up" /\ op[t].pc = l
Then(t, l) == op' = [op EXCEPT ![t].pc = l]
Begin(t, l, i) == op' = [op EXCEPT ![t] = [Idle EXCEPT !.pc = l, !.id = i]]
Done(t) == op' = [op EXCEPT ![t] = Idle]

(* handleSetGatewayDefault looks the profile up, or is asked for none. *)
CheckDefault(t) ==
    /\ Serving(t, "idle") /\ "set" \in Operations
    /\ \/ Begin(t, "assign", None)
       \/ Readable /\ \E i \in mem["profiles"] : Begin(t, "assign", i)
    /\ UNCHANGED <<storeVars, configVars>>

(* The assignment of the string begins, *)
Assign(t) ==
    /\ Serving(t, "assign")
    /\ default' = Torn
    /\ Then(t, "write")
    /\ UNCHANGED <<storeVars, file, unsaved>>

(* and ends; two that overlap may leave one word each. *)
Assigned(t) ==
    /\ Serving(t, "write")
    /\ \/ default' = op[t].id
       \/ default' = Torn /\ \E u \in Admins \ {t} : op[u].pc = "write"
    /\ Then(t, "marshal")
    /\ UNCHANGED <<storeVars, file, unsaved>>

(* SaveConfig: marshal, truncate, write. *)
Marshal(t) ==
    /\ Serving(t, "marshal")
    /\ op' = [op EXCEPT ![t].pc = "open", ![t].snap = default]
    /\ UNCHANGED <<storeVars, configVars>>

OpenFile(t) ==
    /\ Serving(t, "open")
    /\ file' = "empty"
    /\ Then(t, "flush")
    /\ UNCHANGED <<storeVars, default, unsaved>>

(* Over the longer text of another writer a tail stays behind. *)
WriteFile(t) ==
    /\ Serving(t, "flush")
    /\ file' \in IF file = "empty" THEN {op[t].snap} ELSE {op[t].snap, "broken"}
    /\ unsaved' = FALSE
    /\ Done(t)
    /\ UNCHANGED <<storeVars, default>>

(* Either fails: the default in memory is the new one, the file the old    *)
(* one, or empty.                                                          *)
FailConfig(t) ==
    /\ studio = "up" /\ op[t].pc \in {"open", "flush"}
    /\ unsaved' = TRUE
    /\ Done(t)
    /\ UNCHANGED <<storeVars, default, file>>

(* handleDeleteProfile: the database, *)
BeginDelete(t) ==
    /\ Serving(t, "idle") /\ "delete" \in Operations
    /\ \E i \in Profiles : DeleteProfile(t, i) /\ Begin(t, "delete", i)
    /\ UNCHANGED configVars

(* Mutant: the default is not looked at. *)
EndDelete_KeepDefault(t) ==
    /\ Serving(t, "delete")
    /\ Return(t)
    /\ Done(t)
    /\ UNCHANGED configVars

(* which may answer with an error; *)
EndDelete(t) ==
    /\ Serving(t, "delete")
    /\ Return(t)
    /\ IF call.failed THEN Done(t) ELSE Then(t, "clear")
    /\ UNCHANGED configVars

(* then the default, if it is this profile. *)
ClearDefault(t) ==
    /\ Serving(t, "clear")
    /\ IF default = op[t].id
       THEN op' = [op EXCEPT ![t] = [Idle EXCEPT !.pc = "assign"]]
       ELSE Done(t)
    /\ UNCHANGED <<storeVars, configVars>>

(* handleCreateProfile and handleCloneProfile find an id that is not in    *)
(* use, handleUpdateProfile one that is; the profile is saved later.       *)
CheckId(t) ==
    /\ Serving(t, "idle")
    /\ Readable
    /\ \E i \in Profiles :
          /\ \/ "create" \in Operations /\ i \notin mem["profiles"]
             \/ "update" \in Operations /\ i \in mem["profiles"]
          /\ Begin(t, "save", i)
    /\ UNCHANGED <<storeVars, configVars>>

BeginSave(t) ==
    /\ Serving(t, "save")
    /\ SaveProfile(t, op[t].id)
    /\ Then(t, "saving")
    /\ UNCHANGED configVars

EndSave(t) ==
    /\ Serving(t, "saving")
    /\ Return(t)
    /\ Done(t)
    /\ UNCHANGED configVars

Administer(t) ==
    /\ \/ CheckDefault(t) \/ BeginDelete(t) \/ CheckId(t)
       \/ Assign(t) \/ Assigned(t) \/ Marshal(t) \/ OpenFile(t) \/ WriteFile(t) \/ FailConfig(t)
       \/ EndDelete(t) \/ ClearDefault(t) \/ BeginSave(t) \/ EndSave(t)
    /\ UNCHANGED <<studio, request>>

------------------------------------------------------------------------------
(* handleGatewayCatchAll. *)

Answer(r, a) == request' = [request EXCEPT ![r].pc = "done", ![r].answer = a]

(* extractModel: a name of the client, or the default. *)
ExtractModel(r) ==
    /\ request[r].pc = "new"
    /\ \/ \E i \in Profiles :
             request' = [request EXCEPT ![r] = [@ EXCEPT !.pc = "lookup", !.named = TRUE, !.model = i]]
       \/ default # None /\ request' = [request EXCEPT ![r].pc = "default"]
       \/ default = None /\ Answer(r, "missing")

(* It was there a moment ago, and is read again. *)
UseDefault(r) ==
    /\ request[r].pc = "default"
    /\ request' = [request EXCEPT ![r].pc = "lookup", ![r].model = default]

LookupModel(r) ==
    /\ request[r].pc = "lookup"
    /\ Readable
    /\ IF request[r].model \in mem["profiles"]
       THEN Answer(r, "found")
       ELSE request' = [request EXCEPT ![r].pc = "blame"]

(* The default is read again to tell a stale default from an unknown name. *)
Blame(r) ==
    /\ request[r].pc = "blame"
    /\ Answer(r, IF request[r].model = default THEN "stale" ELSE "notfound")

Resolving(r) ==
    /\ studio = "up"
    /\ ExtractModel(r) \/ UseDefault(r) \/ LookupModel(r) \/ Blame(r)
    /\ UNCHANGED <<storeVars, configVars, studio, op>>

------------------------------------------------------------------------------
(* Everybody else's calls of the database, and the saves of all. *)

Background ==
    /\ \/ Saving
       \/ \E c \in Callers \ Admins :
             (\E s \in Servers : SaveServer(c, s)) \/ AddDownloadHistory(c) \/ Return(c)
       \/ Return(Nobody)
    /\ UNCHANGED <<configVars, studio, op, request>>

------------------------------------------------------------------------------
(* The studio dies and is started again. *)

Crash ==
    /\ studio # "fatal"
    /\ Die
    /\ studio' = "load"
    /\ op' = [t \in Admins |-> Idle]
    /\ request' = [r \in Requests |-> Fresh]
    /\ UNCHANGED configVars

(* main.go gives up if the configuration cannot be read, *)
LoadConfig ==
    /\ studio = "load"
    /\ IF file \in {"empty", "broken"}
       THEN studio' = "fatal" /\ UNCHANGED default
       ELSE default' = file /\ studio' = "save"
    /\ UNCHANGED <<storeVars, file, unsaved, op, request>>

(* saves it back with what it has found out, ignoring an error, *)
SaveBack ==
    /\ \/ studio = "save" /\ studio' = "write" /\ file' = "empty" /\ UNCHANGED unsaved
       \/ studio = "write" /\ studio' = "open" /\ file' = default /\ unsaved' = FALSE
       \/ studio \in {"save", "write"} /\ studio' = "open" /\ unsaved' = TRUE /\ UNCHANGED file
    /\ UNCHANGED <<storeVars, default, op, request>>

(* opens the database and serves. *)
OpenStore ==
    /\ studio = "open"
    /\ \/ ~ open /\ Open /\ UNCHANGED studio
       \/ Readable /\ studio' = "up" /\ UNCHANGED storeVars
    /\ UNCHANGED <<configVars, op, request>>

Next ==
    \/ \E t \in Admins : Administer(t)
    \/ \E r \in Requests : Resolving(r)
    \/ Background
    \/ Crash \/ LoadConfig \/ SaveBack \/ OpenStore

Spec == Init /\ [][Next]_vars

------------------------------------------------------------------------------
TypeOK ==
    /\ default \in Values
    /\ file \in Values \union {"empty", "broken"}
    /\ unsaved \in BOOLEAN
    /\ studio \in {"load", "save", "write", "open", "up", "fatal"}
    /\ op \in [Admins -> [pc : {"idle", "save", "saving", "delete", "clear", "assign", "write",
                                "marshal", "open", "flush"},
                          id : Profiles \union {None}, snap : Values]]
    /\ request \in [Requests ->
          [pc : {"new", "default", "lookup", "blame", "done"}, named : BOOLEAN, model : Values,
           answer : {"none", "missing", "stale", "notfound", "found"}]]

Quiet == studio = "up" /\ Readable /\ \A t \in Admins : op[t].pc = "idle"

(* "Default model points at a deleted profile": no profile has this id. *)
Dangling == default \notin mem["profiles"] \union {None}

(* Between the requests of one admin the default in memory is the one on   *)
(* disk, unless the last attempt to save it failed; and while the studio   *)
(* has not died it names a profile there is, or none, whatever is set,     *)
(* deleted, created or rewritten, unless the deletion of that very profile *)
(* answered with an error.  (For one admin.)                              *)
DefaultExists ==
    Quiet => /\ file = default \/ unsaved
             /\ Dangling => crashes > 0 \/ (default \in Profiles /\ told[default] = "unknown")

(* "The default is persisted in `config.json`": when nobody is setting it, *)
(* a restart would find the default that is in use.  Does not hold with    *)
(* two admins: the older of two overlapping writes may come last.          *)
Persisted == Quiet => file = default

(* "The profile-delete handler also auto-clears the default ... so this    *)
(* state should be transient."  Does not hold with two admins: a default   *)
(* checked before and assigned after the deletion stays.                   *)
Transient == Dangling ~> ~ Dangling

(* "so the operator can distinguish "client sent a typo" from "your        *)
(* gateway default is stale"": a request that named its model is not told  *)
(* that the default is stale.  Does not hold: Blame compares names.        *)
StaleMeansDefault ==
    \A r \in Requests : request[r].answer = "stale" => ~ request[r].named
==============================================================================
