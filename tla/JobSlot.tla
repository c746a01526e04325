------------------------------- MODULE JobSlot -------------------------------
(***************************************************************************)
(* What the download manager promises: one slot, taken by one job at a     *)
(* time; a job that was cancelled ends as cancelled and nothing else; only *)
(* the last holder may take the slot again without a new request, and only *)
(* if it ended without success.  Files, goroutines, locks and disks are    *)
(* left out.  DownloadJob.tla implements it: see DownloadJob!SlotSpec.     *)
(* That it keeps its promises is DownloadJobProofs!SlotsHaveOneHolder.     *)
(***************************************************************************)
CONSTANTS Jobs,   \* one per StartJob call
          NoJob   \* nobody

VARIABLES last,     \* the job that holds the slot, or held it last
          outcome   \* outcome[j]: how far j has come

slotVars == <<last, outcome>>

Held == last # NoJob /\ outcome[last] \in {"running", "cancelling"}

Init ==
    /\ last = NoJob
    /\ outcome = [j \in Jobs |-> "new"]

Take(j) ==
    /\ ~ Held
    /\ outcome[j] = "new"
    /\ last' = j
    /\ outcome' = [outcome EXCEPT ![j] = "running"]

Cancel ==
    /\ last # NoJob
    /\ outcome[last] = "running"
    /\ outcome' = [outcome EXCEPT ![last] = "cancelling"]
    /\ UNCHANGED last

Finish ==
    /\ Held
    /\ outcome' \in [Jobs -> {"new", "running", "cancelling", "cancelled",
                              "completed", "partial", "lost"}]
    /\ \A j \in Jobs \ {last} : outcome'[j] = outcome[j]
    /\ outcome'[last] \in (IF outcome[last] = "cancelling" THEN {"cancelled"}
                                                           ELSE {"completed", "partial"})
    /\ UNCHANGED last

Retake ==
    /\ last # NoJob
    /\ outcome[last] = "partial"
    /\ outcome' = [outcome EXCEPT ![last] = "running"]
    /\ UNCHANGED last

(* The user deletes what was downloaded: the slot is forgotten. *)
Vacate ==
    /\ ~ Held
    /\ last' = NoJob
    /\ UNCHANGED outcome

(* The studio is started again: whatever was going on is lost. *)
Restart ==
    /\ last' = NoJob
    /\ outcome' = [j \in Jobs |-> IF outcome[j] = "new" THEN "new" ELSE "lost"]

Next == (\E j \in Jobs : Take(j)) \/ Cancel \/ Finish \/ Retake \/ Vacate \/ Restart

Spec == Init /\ [][Next]_slotVars

(* One job at a time: whoever is at work holds the slot.                   *)
OneHolder ==
    \A j \in Jobs : outcome[j] \in {"running", "cancelling"} => j = last

(* A job that has ended for good stays as it is, until a restart forgets   *)
(* it: no late answer turns a cancelled job into a completed one.          *)
EndsLast ==
    [][\A j \in Jobs : outcome[j] \in {"cancelled", "completed"}
          => outcome'[j] \in {outcome[j], "lost"}]_slotVars
==============================================================================
