------------------------------- MODULE Catalog -------------------------------
(***************************************************************************)
(* The model catalog: the scan of src/internal/models/scanner.go, the      *)
(* downloader that adds each file it finishes (AddManualModel), and users  *)
(* who hide and delete models (src/internal/httpapi/models.go), over       *)
(* db.models of src/internal/storage/db.go.                                *)
(*                                                                         *)
(* One directory holds the models and the projector (an mmproj file) that  *)
(* is paired with each of them; only what is lost or kept when records are *)
(* rewritten is modelled of a record.  Every db call is one critical       *)
(* section; the scan and AddManualModel hold no lock between them.         *)
(***************************************************************************)
EXTENDS Naturals

CONSTANTS Models,     \* model files
          Projector,  \* the mmproj file
          Users       \* concurrent requests of users

ASSUME ConstAssumption == Projector \notin Models

VARIABLES
    files,   \* the files in the directory
    cat,     \* cat[m]: the record in db.models, or Absent
    scan,    \* ScanDirectories
    add,     \* the downloader in AddManualModel
    user,    \* user[u]: a request to delete a model with its file
    known,   \* history: added with its file there, and not deleted since
    touched, \* history: something else wrote since the scan read the directory
    stale    \* history: the last scan read the directory before the projector came

vars == <<files, cat, scan, add, user, known, touched, stale>>

Files == Models \union {Projector}
Absent == [src |-> "absent", hidden |-> FALSE, proj |-> FALSE]
Records == [src : {"scan", "manual"}, hidden : BOOLEAN, proj : BOOLEAN] \union {Absent}
NoRecords == [m \in Models |-> Absent]

NoScan == [pc |-> "idle", todo |-> {}, proj |-> FALSE, found |-> NoRecords]
NoAdd == [pc |-> "idle", file |-> Projector, proj |-> FALSE, list |-> NoRecords]
NoRequest == [pc |-> "idle", model |-> Projector]

Listed(m) == cat[m] # Absent

TypeOK ==
    /\ files \subseteq Files
    /\ cat \in [Models -> Records]
    /\ scan \in [pc : {"idle", "read", "stat"}, todo : SUBSET Models, proj : BOOLEAN,
                found : [Models -> Records]]
    /\ add \in [pc : {"idle", "stat", "save", "pair"}, file : Files, proj : BOOLEAN,
               list : [Models -> Records]]
    /\ user \in [Users -> [pc : {"idle", "db", "file"}, model : Files]]
    /\ known \subseteq Models
    /\ touched \in BOOLEAN /\ stale \in BOOLEAN

Init ==
    /\ files \in SUBSET Files
    /\ cat = NoRecords
    /\ scan = NoScan
    /\ add = NoAdd
    /\ user = [u \in Users |-> NoRequest]
    /\ known = {}
    /\ touched = FALSE /\ stale = FALSE

------------------------------------------------------------------------------
(* ScanDirectories: one at a time (isScanning). *)

ScanBegins ==
    /\ scan.pc = "idle"
    /\ scan' = [NoScan EXCEPT !.pc = "read"]
    /\ UNCHANGED <<files, cat, add, user, known, touched, stale>>

(* walkDirRecursive reads the directory; the projector is paired from it.  *)
ReadDir ==
    /\ scan.pc = "read"
    /\ scan' = [scan EXCEPT !.pc = "stat", !.todo = files \intersect Models,
                            !.proj = Projector \in files]
    /\ touched' = (add.pc # "idle" \/ \E u \in Users : user[u].pc # "idle")
    /\ UNCHANGED <<files, cat, add, user, known, stale>>

(* processFile: a file that is gone is skipped; so is the projector. *)
ProcessFile(m) ==
    /\ scan.pc = "stat" /\ m \in scan.todo
    /\ scan' = [scan EXCEPT
          !.todo = @ \ {m},
          !.found[m] = IF m \in files
                       THEN [src |-> "scan", hidden |-> FALSE,
                             proj |-> scan.proj /\ Projector \in files]
                       ELSE Absent]
    /\ UNCHANGED <<files, cat, add, user, known, touched, stale>>

(* Mutant: what a scan did not find is kept. *)
ReplaceScannedModels_Merge ==
    /\ scan.pc = "stat" /\ scan.todo = {}
    /\ cat' = [m \in Models |-> IF scan.found[m] # Absent THEN scan.found[m] ELSE cat[m]]
    /\ scan' = [NoScan EXCEPT !.found = scan.found]
    /\ stale' = (Projector \in files /\ ~ scan.proj)
    /\ UNCHANGED <<files, add, user, known, touched>>

(* The records of earlier scans go, those of this one come. *)
ReplaceScannedModels ==
    /\ scan.pc = "stat" /\ scan.todo = {}
    /\ cat' = [m \in Models |->
                  IF scan.found[m] # Absent THEN scan.found[m]
                  ELSE IF cat[m].src = "scan" THEN Absent ELSE cat[m]]
    /\ scan' = [NoScan EXCEPT !.found = scan.found]
    /\ stale' = (Projector \in files /\ ~ scan.proj)
    /\ UNCHANGED <<files, add, user, known, touched>>

------------------------------------------------------------------------------
(* The downloader finishes a file, or finds it there, and adds it. *)

FileArrives(f) ==
    /\ add.pc = "idle"
    /\ files' = files \union {f}
    /\ add' = [NoAdd EXCEPT !.pc = "stat", !.file = f]
    /\ touched' = TRUE
    /\ UNCHANGED <<cat, scan, user, known, stale>>

(* Mutant: no projector is looked for beside a model. *)
Inspect_Alone ==
    /\ add.pc = "stat"
    /\ add' = IF add.file \notin files THEN NoAdd
              ELSE IF add.file = Projector
              THEN [add EXCEPT !.pc = "pair", !.list = cat]
              ELSE [add EXCEPT !.pc = "save"]
    /\ UNCHANGED <<files, cat, scan, user, known, touched, stale>>

(* AddManualModel of a model looks for a projector beside it; of a         *)
(* projector, it lists the models it may go with.                          *)
Inspect ==
    /\ add.pc = "stat"
    /\ add' = IF add.file \notin files THEN NoAdd
              ELSE IF add.file = Projector
              THEN [add EXCEPT !.pc = "pair", !.list = cat]
              ELSE [add EXCEPT !.pc = "save", !.proj = Projector \in files]
    /\ UNCHANGED <<files, cat, scan, user, known, touched, stale>>

(* Mutant: a download is filed under the directory it lies in. *)
SaveModel_AsScanned ==
    /\ add.pc = "save"
    /\ cat' = [cat EXCEPT ![add.file] = [src |-> "scan", hidden |-> FALSE, proj |-> add.proj]]
    /\ known' = known \union ({add.file} \intersect files)
    /\ add' = NoAdd
    /\ UNCHANGED <<files, scan, user, touched, stale>>

SaveModel ==
    /\ add.pc = "save"
    /\ cat' = [cat EXCEPT ![add.file] = [src |-> "manual", hidden |-> FALSE, proj |-> add.proj]]
    /\ known' = known \union ({add.file} \intersect files)
    /\ add' = NoAdd
    /\ UNCHANGED <<files, scan, user, touched, stale>>

Unpaired == {m \in Models : add.list[m] # Absent /\ ~ add.list[m].proj}

(* The whole record is saved as it was listed, with the projector. *)
Pair(m) ==
    /\ add.pc = "pair" /\ m \in Unpaired
    /\ cat' = [cat EXCEPT ![m] = [add.list[m] EXCEPT !.proj = TRUE]]
    /\ add' = [add EXCEPT !.list[m].proj = TRUE]
    /\ UNCHANGED <<files, scan, user, known, touched, stale>>

PairingEnds ==
    /\ add.pc = "pair" /\ Unpaired = {}
    /\ add' = NoAdd
    /\ UNCHANGED <<files, cat, scan, user, known, touched, stale>>

------------------------------------------------------------------------------
(* Users. *)

HideModel(m) ==
    /\ Listed(m)
    /\ cat' = [cat EXCEPT ![m].hidden = TRUE]
    /\ touched' = TRUE
    /\ UNCHANGED <<files, scan, add, user, known, stale>>

(* handleDeleteModel looks the model up, *)
FindModel(u, m) ==
    /\ user[u].pc = "idle" /\ Listed(m)
    /\ user' = [user EXCEPT ![u] = [pc |-> "db", model |-> m]]
    /\ UNCHANGED <<files, cat, scan, add, known, touched, stale>>

(* removes its record, which another request may have done, *)
DeleteModel(u) ==
    /\ user[u].pc = "db"
    /\ LET m == user[u].model IN
       IF Listed(m)
       THEN /\ cat' = [cat EXCEPT ![m] = Absent]
            /\ known' = known \ {m}
            /\ \E file \in BOOLEAN :
                  user' = [user EXCEPT ![u] = IF file THEN [@ EXCEPT !.pc = "file"] ELSE NoRequest]
            /\ touched' = TRUE
       ELSE /\ user' = [user EXCEPT ![u] = NoRequest]
            /\ UNCHANGED <<cat, known, touched>>
    /\ UNCHANGED <<files, scan, add, stale>>

(* and then its file, if asked to. *)
RemoveFile(u) ==
    /\ user[u].pc = "file"
    /\ files' = files \ {user[u].model}
    /\ known' = known \ {user[u].model}
    /\ user' = [user EXCEPT ![u] = NoRequest]
    /\ touched' = TRUE
    /\ UNCHANGED <<cat, scan, add, stale>>

Scanning == ScanBegins \/ ReadDir \/ (\E m \in Models : ProcessFile(m)) \/ ReplaceScannedModels
Adding == Inspect \/ SaveModel \/ (\E m \in Models : Pair(m)) \/ PairingEnds

Next ==
    \/ Scanning
    \/ \E f \in Files : FileArrives(f)
    \/ Adding
    \/ \E m \in Models : HideModel(m)
    \/ \E u \in Users : DeleteModel(u) \/ RemoveFile(u) \/ \E m \in Models : FindModel(u, m)

Spec == Init /\ [][Next]_vars

------------------------------------------------------------------------------
(* A model that was downloaded, has its file and has not been deleted is   *)
(* listed, whatever scans run beside the download: also one that read the  *)
(* directory before the file was there.                                    *)
DownloadListed == \A m \in known \intersect files : Listed(m)

(* A scan that nothing cut into leaves the catalog exact: a record of a    *)
(* scan has a file, a file has a record, and the projector is paired with  *)
(* every model that was found beside it.                                   *)
ScanIsExact ==
    [][ReplaceScannedModels /\ ~ touched
       => \A m \in Models :
            /\ m \in files => Listed(m)' /\ (Projector \in files => cat'[m].proj)
            /\ cat'[m].src = "scan" => m \in files]_vars

(* "Otherwise a freshly-downloaded model misses its mmproj until the next  *)
(* full rescan": once its download is added, a model that lies beside a    *)
(* projector has it, in whichever order the two were downloaded and        *)
(* whatever scans run meanwhile; except that a scan which read the         *)
(* directory before the projector came undoes the pairing (stale).         *)
Paired ==
    add.pc = "idle" /\ Projector \in files /\ ~ stale
    => \A m \in known : Listed(m) => cat[m].proj
==============================================================================
