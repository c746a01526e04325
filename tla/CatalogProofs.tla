---------------------------- MODULE CatalogProofs ----------------------------
(***************************************************************************)
(* Theorems about Catalog: for any number of models and of requests, and   *)
(* any scans beside them, a download stays listed, a scan nothing cut into *)
(* is exact, and models are paired with their projector.                   *)
(***************************************************************************)
EXTENDS Catalog, TLAPS

(* What is known is there; only models are deleted; only models are saved. *)
Sensible ==
    /\ known \subseteq files
    /\ \A u \in Users : user[u].pc # "idle" => user[u].model \in Models
    /\ add.pc = "save" => add.file \in Models
    /\ scan.pc = "read" => scan.found = NoRecords

(* A known model that has the record of a scan, be it in the table or in   *)
(* the hands of the downloader, is seen by a scan under way.               *)
Seen(m) == m \in scan.todo \/ scan.found[m] # Absent

KnownSeen ==
    scan.pc = "stat" =>
        \A m \in known : /\ cat[m].src = "scan" => Seen(m)
                         /\ add.pc = "pair" /\ add.list[m].src = "scan" => Seen(m)

(* A scan that has seen the projector pairs all it finds, and finds every  *)
(* known model that is not paired.                                         *)
ScanPairs ==
    scan.pc = "stat" /\ scan.proj =>
        /\ Projector \in files
        /\ \A m \in Models : scan.found[m] # Absent => scan.found[m].proj
        /\ \A m \in known : Seen(m) \/ cat[m].proj

(* A model is saved with its projector, if there is one. *)
AddPairs == add.pc = "save" /\ Projector \in files => add.proj

(* A known model without the projector that is there will be paired by the *)
(* downloader, which has just brought it.                                  *)
ToPair ==
    Projector \in files /\ ~ stale =>
        \A m \in known :
            \/ cat[m].proj
            \/ add.pc = "stat" /\ add.file = Projector
            \/ add.pc = "pair" /\ m \in Unpaired

(* A scan nothing has cut into knows the directory as it is. *)
ScanTrue ==
    scan.pc = "stat" /\ ~ touched =>
        /\ add.pc = "idle"
        /\ scan.proj = (Projector \in files)
        /\ \A m \in files \intersect Models :
              Seen(m) /\ (scan.found[m] # Absent => scan.found[m].proj = scan.proj)
        /\ \A m \in Models \ files : scan.found[m] = Absent

(* The inductive invariant. *)
CatalogInv ==
    /\ TypeOK /\ Sensible /\ DownloadListed
    /\ KnownSeen /\ ScanPairs /\ AddPairs /\ ToPair /\ ScanTrue

(* What the records are, for the lemmas below. *)
LEMMA RecordFacts ==
    /\ Absent \in Records /\ NoRecords \in [Models -> Records]
    /\ Absent.src = "absent" /\ Absent.proj = FALSE
    /\ \A r \in Records : /\ r # Absent => r.src \in {"scan", "manual"}
                          /\ r.src = "scan" => r # Absent
                          /\ r.proj => r # Absent
                          /\ r.proj \in BOOLEAN
<1>1. Absent \in Records /\ NoRecords \in [Models -> Records]
  BY DEF Records, NoRecords
<1>2. Absent.src = "absent" /\ Absent.proj = FALSE
  BY DEF Absent
<1>3. ASSUME NEW r \in Records
      PROVE  /\ r # Absent => r.src \in {"scan", "manual"}
             /\ r.src = "scan" => r # Absent
             /\ r.proj => r # Absent
             /\ r.proj \in BOOLEAN
  <2>1. CASE r = Absent
    BY <1>2, <2>1
  <2>2. CASE r \in [src : {"scan", "manual"}, hidden : BOOLEAN, proj : BOOLEAN]
    BY <1>2, <2>2
  <2>3. QED
    BY <2>1, <2>2 DEF Records
<1>4. QED
  BY <1>1, <1>2, <1>3

LEMMA InitInv == Init => CatalogInv
<1> SUFFICES ASSUME Init PROVE CatalogInv
  OBVIOUS
<1>1. TypeOK
  BY RecordFacts DEF Init, TypeOK, NoScan, NoAdd, NoRequest, Files
<1>2. Sensible /\ DownloadListed /\ KnownSeen /\ ScanPairs /\ AddPairs /\ ToPair /\ ScanTrue
  BY DEF Init, NoScan, NoAdd, NoRequest, Sensible, DownloadListed, KnownSeen, ScanPairs,
     AddPairs, ToPair, ScanTrue
<1>3. QED
  BY <1>1, <1>2 DEF CatalogInv
------------------------------------------------------------------------------
(* Scans. *)
LEMMA ScanStarts == CatalogInv /\ (ScanBegins \/ ReadDir) => CatalogInv'
<1> SUFFICES ASSUME CatalogInv, ScanBegins \/ ReadDir PROVE CatalogInv'
  OBVIOUS
<1>1. CASE ScanBegins
  <2>1. TypeOK'
    BY <1>1, RecordFacts DEF CatalogInv, TypeOK, ScanBegins, NoScan
  <2>2. scan'.pc = "read"
    BY <1>1 DEF ScanBegins, NoScan
  <2>3. KnownSeen' /\ ScanPairs' /\ ScanTrue'
    BY <2>2 DEF KnownSeen, ScanPairs, ScanTrue
  <2>4. Sensible' /\ DownloadListed' /\ AddPairs' /\ ToPair'
    BY <1>1 DEF CatalogInv, ScanBegins, NoScan, Sensible, DownloadListed, Listed, AddPairs, ToPair, Unpaired
  <2>5. QED
    BY <2>1, <2>3, <2>4 DEF CatalogInv
<1>2. CASE ReadDir
  <2> DEFINE there == Projector \in files
             busy == add.pc # "idle" \/ \E u \in Users : user[u].pc # "idle"
  <2>1. there \in BOOLEAN /\ busy \in BOOLEAN
    OBVIOUS
  <2>2. /\ scan' = [scan EXCEPT !.pc = "stat", !.todo = files \intersect Models, !.proj = there]
        /\ touched' = busy
        /\ scan.pc = "read" /\ UNCHANGED <<files, cat, add, user, known, stale>>
    BY <1>2 DEF ReadDir
  <2>3. TypeOK'
    <3> HIDE DEF there, busy
    <3> QED
      BY <2>1, <2>2 DEF CatalogInv, TypeOK
  <2>4. /\ scan'.pc = "stat" /\ scan'.todo = files \intersect Models
        /\ scan'.proj = there /\ scan'.found = NoRecords
    <3> HIDE DEF there
    <3> QED
      BY <2>2 DEF CatalogInv, TypeOK, Sensible
  <2>5. \A m \in Models : NoRecords[m] = Absent
    BY DEF NoRecords
  <2>6. KnownSeen' /\ ScanPairs'
    BY <2>2, <2>4, <2>5 DEF CatalogInv, TypeOK, Sensible, KnownSeen, ScanPairs, Seen
  <2>7. ScanTrue'
    BY <2>2, <2>4, <2>5 DEF CatalogInv, TypeOK, ScanTrue, Seen
  <2>8. Sensible' /\ DownloadListed' /\ AddPairs' /\ ToPair'
    BY <2>2, <2>4 DEF CatalogInv, Sensible, DownloadListed, Listed, AddPairs, ToPair, Unpaired
  <2>9. QED
    BY <2>3, <2>6, <2>7, <2>8 DEF CatalogInv
<1>3. QED
  BY <1>1, <1>2

LEMMA ProcessFileKeeps == ASSUME CatalogInv, NEW n \in Models, ProcessFile(n) PROVE CatalogInv'
<1> DEFINE paired == scan.proj /\ Projector \in files
           new == IF n \in files THEN [src |-> "scan", hidden |-> FALSE, proj |-> paired] ELSE Absent
<1>1. /\ scan.pc = "stat" /\ n \in scan.todo
      /\ scan' = [scan EXCEPT !.todo = @ \ {n}, !.found[n] = new]
      /\ UNCHANGED <<files, cat, add, user, known, touched, stale>>
  BY DEF ProcessFile
<1>2. /\ new \in Records
      /\ n \in files => new # Absent /\ new.proj = paired
      /\ n \notin files => new = Absent
  BY RecordFacts DEF Records, Absent
<1> HIDE DEF new
<1>3. TypeOK'
  BY <1>1, <1>2 DEF CatalogInv, TypeOK
<1>4. /\ scan'.pc = "stat" /\ scan'.proj = scan.proj /\ scan'.todo = scan.todo \ {n}
      /\ scan'.found[n] = new
      /\ \A m \in Models : m # n => scan'.found[m] = scan.found[m]
  BY <1>1 DEF CatalogInv, TypeOK
<1>5. \A m \in Models : m \in files => (Seen(m) => Seen(m)')
  BY <1>2, <1>4 DEF Seen
<1>6. known \subseteq files /\ known \subseteq Models
  BY DEF CatalogInv, Sensible, TypeOK
<1>7. KnownSeen' /\ ScanPairs'
  BY <1>1, <1>2, <1>4, <1>5, <1>6 DEF CatalogInv, KnownSeen, ScanPairs
<1>8. ScanTrue'
  BY <1>1, <1>2, <1>4, <1>5 DEF CatalogInv, TypeOK, ScanTrue
<1>9. Sensible' /\ DownloadListed' /\ AddPairs' /\ ToPair'
  BY <1>1, <1>4 DEF CatalogInv, Sensible, DownloadListed, Listed, AddPairs, ToPair, Unpaired
<1>10. QED
  BY <1>3, <1>7, <1>8, <1>9 DEF CatalogInv

(* What a scan writes has the known models; and with the projector, unless *)
(* the scan has not seen it.                                               *)
LEMMA ReplaceKeeps == CatalogInv /\ ReplaceScannedModels => CatalogInv'
<1> SUFFICES ASSUME CatalogInv, ReplaceScannedModels PROVE CatalogInv'
  OBVIOUS
<1>1. /\ scan.pc = "stat" /\ scan.todo = {}
      /\ cat' = [m \in Models |->
                    IF scan.found[m] # Absent THEN scan.found[m]
                    ELSE IF cat[m].src = "scan" THEN Absent ELSE cat[m]]
      /\ UNCHANGED <<files, add, user, known, touched>>
      /\ scan'.pc = "idle"
  BY DEF ReplaceScannedModels, NoScan
<1>2. TypeOK'
  <2> DEFINE late == Projector \in files /\ ~ scan.proj
  <2>1. late \in BOOLEAN /\ stale' = late
    BY DEF ReplaceScannedModels
  <2>2. cat' \in [Models -> Records]
    BY <1>1, RecordFacts DEF CatalogInv, TypeOK
  <2>3. scan' \in [pc : {"idle", "read", "stat"}, todo : SUBSET Models, proj : BOOLEAN,
                   found : [Models -> Records]]
    BY DEF CatalogInv, TypeOK, ReplaceScannedModels, NoScan
  <2> HIDE DEF late
  <2>4. QED
    BY <1>1, <2>1, <2>2, <2>3 DEF CatalogInv, TypeOK
<1>3. KnownSeen' /\ ScanPairs' /\ ScanTrue'
  BY <1>1 DEF KnownSeen, ScanPairs, ScanTrue
<1>4. \A m \in known : scan.found[m] # Absent \/ (cat[m].src # "scan" /\ cat'[m] = cat[m])
  BY <1>1 DEF CatalogInv, TypeOK, KnownSeen, Seen
<1>5. DownloadListed'
  BY <1>1, <1>4 DEF CatalogInv, TypeOK, DownloadListed, Listed
<1>6. Sensible' /\ AddPairs'
  BY <1>1 DEF CatalogInv, Sensible, AddPairs
<1>7. ToPair'
  <2> SUFFICES ASSUME Projector \in files, ~ stale', NEW m \in known PROVE cat'[m].proj
    BY <1>1 DEF ToPair
  <2>1. scan.proj
    BY DEF ReplaceScannedModels
  <2>2. /\ scan.found[m] # Absent => scan.found[m].proj
        /\ scan.found[m] # Absent \/ cat[m].proj
    BY <1>1, <2>1 DEF CatalogInv, TypeOK, ScanPairs, Seen
  <2>3. QED
    BY <1>1, <1>4, <2>2 DEF CatalogInv, TypeOK
<1>8. QED
  BY <1>2, <1>3, <1>5, <1>6, <1>7 DEF CatalogInv

------------------------------------------------------------------------------
(* The downloader. *)
LEMMA FileArrivesKeeps == ASSUME CatalogInv, NEW f \in Files, FileArrives(f) PROVE CatalogInv'
<1>1. /\ add.pc = "idle" /\ files' = files \union {f} /\ touched' = TRUE
      /\ add'.pc = "stat" /\ add'.file = f
      /\ UNCHANGED <<cat, scan, user, known, stale>>
  BY DEF FileArrives, NoAdd
<1>2. TypeOK'
  BY RecordFacts DEF CatalogInv, TypeOK, FileArrives, NoAdd
<1>3. Sensible' /\ DownloadListed' /\ AddPairs'
  BY <1>1 DEF CatalogInv, Sensible, DownloadListed, Listed, AddPairs
<1>4. KnownSeen' /\ ScanPairs' /\ ScanTrue'
  BY <1>1 DEF CatalogInv, KnownSeen, ScanPairs, Seen, ScanTrue
<1>5. ToPair'
  BY <1>1 DEF CatalogInv, ToPair
<1>6. QED
  BY <1>2, <1>3, <1>4, <1>5 DEF CatalogInv

LEMMA InspectKeeps == CatalogInv /\ Inspect => CatalogInv'
<1> SUFFICES ASSUME CatalogInv, Inspect PROVE CatalogInv'
  OBVIOUS
<1> DEFINE there == Projector \in files
<1>1. add.pc = "stat" /\ UNCHANGED <<files, cat, scan, user, known, touched, stale>>
  BY DEF Inspect
<1>2. CASE add.file \notin files /\ add' = NoAdd
  <2>1. TypeOK' /\ add'.pc = "idle"
    BY <1>1, <1>2, RecordFacts DEF CatalogInv, TypeOK, NoAdd, Files
  <2>2. QED
    BY <1>1, <1>2, <2>1 DEF CatalogInv, Sensible, DownloadListed, Listed, KnownSeen, ScanPairs,
       Seen, AddPairs, ToPair, ScanTrue
<1>3. CASE add.file = Projector /\ add' = [add EXCEPT !.pc = "pair", !.list = cat]
  <2>1. TypeOK' /\ add'.pc = "pair" /\ add'.list = cat
    BY <1>1, <1>3 DEF CatalogInv, TypeOK
  <2>2. ToPair'
    BY <1>1, <2>1 DEF CatalogInv, TypeOK, Sensible, DownloadListed, Listed, ToPair, Unpaired
  <2>3. Sensible' /\ DownloadListed' /\ AddPairs' /\ ScanTrue'
    BY <1>1, <2>1 DEF CatalogInv, Sensible, DownloadListed, Listed, AddPairs, ScanTrue, Seen
  <2>4. KnownSeen' /\ ScanPairs'
    BY <1>1, <2>1 DEF CatalogInv, KnownSeen, ScanPairs, Seen
  <2>5. QED
    BY <2>1, <2>2, <2>3, <2>4 DEF CatalogInv
<1>4. CASE add.file # Projector /\ add' = [add EXCEPT !.pc = "save", !.proj = there]
  <2>1. there \in BOOLEAN
    OBVIOUS
  <2>2. TypeOK' /\ add'.pc = "save" /\ add'.proj = there /\ add'.file = add.file
    <3> HIDE DEF there
    <3> QED
      BY <1>1, <1>4, <2>1 DEF CatalogInv, TypeOK
  <2>3. add.file \in Models
    BY <1>4 DEF CatalogInv, TypeOK, Files
  <2>4. Sensible' /\ DownloadListed' /\ AddPairs' /\ ScanTrue'
    BY <1>1, <2>2, <2>3 DEF CatalogInv, Sensible, DownloadListed, Listed, AddPairs, ScanTrue, Seen
  <2>5. KnownSeen' /\ ScanPairs' /\ ToPair'
    BY <1>1, <1>4, <2>2 DEF CatalogInv, KnownSeen, ScanPairs, Seen, ToPair
  <2>6. QED
    BY <2>2, <2>4, <2>5 DEF CatalogInv
<1>5. QED
  BY <1>2, <1>3, <1>4 DEF Inspect

LEMMA SaveModelKeeps == CatalogInv /\ SaveModel => CatalogInv'
<1> SUFFICES ASSUME CatalogInv, SaveModel PROVE CatalogInv'
  OBVIOUS
<1> DEFINE new == [src |-> "manual", hidden |-> FALSE, proj |-> add.proj]
<1>1. /\ add.pc = "save" /\ add.file \in Models
      /\ cat' = [cat EXCEPT ![add.file] = new]
      /\ known' = known \union ({add.file} \intersect files)
      /\ add' = NoAdd /\ add'.pc = "idle"
      /\ UNCHANGED <<files, scan, user, touched, stale>>
  BY DEF CatalogInv, Sensible, SaveModel, NoAdd
<1>2. new \in Records /\ new # Absent /\ new.src = "manual" /\ new.proj = add.proj
  BY DEF CatalogInv, TypeOK, Records, Absent
<1> HIDE DEF new
<1>3. TypeOK'
  BY <1>1, <1>2, RecordFacts DEF CatalogInv, TypeOK, NoAdd, Files
<1>4. cat'[add.file] = new /\ \A m \in Models : m # add.file => cat'[m] = cat[m]
  BY <1>1 DEF CatalogInv, TypeOK
<1>5. known' \subseteq Models /\ \A m \in known' : m # add.file => m \in known
  BY <1>1 DEF CatalogInv, TypeOK
<1>6. Sensible' /\ DownloadListed' /\ AddPairs'
  BY <1>1, <1>2, <1>4, <1>5 DEF CatalogInv, TypeOK, Sensible, DownloadListed, Listed, AddPairs
<1>7. KnownSeen'
  BY <1>1, <1>2, <1>4, <1>5 DEF CatalogInv, KnownSeen, Seen
<1>8. ScanPairs'
  BY <1>1, <1>2, <1>4, <1>5 DEF CatalogInv, ScanPairs, AddPairs, Seen
<1>9. ToPair' /\ ScanTrue'
  BY <1>1, <1>2, <1>4, <1>5 DEF CatalogInv, AddPairs, ToPair, ScanTrue
<1>10. QED
  BY <1>3, <1>6, <1>7, <1>8, <1>9 DEF CatalogInv

LEMMA PairKeeps == ASSUME CatalogInv, NEW n \in Models, Pair(n) PROVE CatalogInv'
<1> DEFINE new == [add.list[n] EXCEPT !.proj = TRUE]
<1>1. /\ add.pc = "pair" /\ n \in Unpaired
      /\ cat' = [cat EXCEPT ![n] = new]
      /\ add' = [add EXCEPT !.list[n].proj = TRUE]
      /\ UNCHANGED <<files, scan, user, known, touched, stale>>
  BY DEF Pair
<1>2. add.list[n] \in Records /\ add.list[n] # Absent
  BY <1>1 DEF CatalogInv, TypeOK, Unpaired
<1>3. new \in Records /\ new # Absent /\ new.src = add.list[n].src /\ new.proj
  BY <1>2 DEF Records, Absent
<1>4. /\ add'.pc = "pair" /\ add'.file = add.file /\ add'.list[n] = new
      /\ \A m \in Models : m # n => add'.list[m] = add.list[m]
  BY <1>1 DEF CatalogInv, TypeOK
<1> HIDE DEF new
<1>5. cat'[n] = new /\ \A m \in Models : m # n => cat'[m] = cat[m]
  BY <1>1 DEF CatalogInv, TypeOK
<1>6. TypeOK'
  <2>1. add' \in [pc : {"idle", "stat", "save", "pair"}, file : Files, proj : BOOLEAN,
                  list : [Models -> Records]]
    BY <1>1, <1>3 DEF CatalogInv, TypeOK, new
  <2>2. QED
    BY <1>1, <1>3, <2>1 DEF CatalogInv, TypeOK
<1>7. known \subseteq Models
  BY DEF CatalogInv, TypeOK
<1>8. Sensible' /\ DownloadListed' /\ AddPairs' /\ ScanTrue'
  BY <1>1, <1>3, <1>4, <1>5, <1>7 DEF CatalogInv, Sensible, DownloadListed, Listed, AddPairs, ScanTrue
<1>9. KnownSeen' /\ ScanPairs'
  BY <1>1, <1>3, <1>4, <1>5, <1>7 DEF CatalogInv, KnownSeen, ScanPairs, Seen
<1>10. ToPair'
  BY <1>1, <1>3, <1>4, <1>5, <1>7 DEF CatalogInv, ToPair, Unpaired
<1>11. QED
  BY <1>6, <1>8, <1>9, <1>10 DEF CatalogInv

LEMMA PairingEndsKeeps == CatalogInv /\ PairingEnds => CatalogInv'
<1> SUFFICES ASSUME CatalogInv, PairingEnds PROVE CatalogInv'
  OBVIOUS
<1>1. /\ add.pc = "pair" /\ Unpaired = {} /\ add' = NoAdd /\ add'.pc = "idle"
      /\ UNCHANGED <<files, cat, scan, user, known, touched, stale>>
  BY DEF PairingEnds, NoAdd
<1>2. TypeOK'
  BY <1>1, RecordFacts DEF CatalogInv, TypeOK, NoAdd, Files
<1>3. QED
  BY <1>1, <1>2 DEF CatalogInv, Sensible, DownloadListed, Listed, KnownSeen, ScanPairs,
     Seen, AddPairs, ToPair, ScanTrue

------------------------------------------------------------------------------
(* Users. *)
LEMMA HideModelKeeps == ASSUME CatalogInv, NEW n \in Models, HideModel(n) PROVE CatalogInv'
<1> DEFINE new == [cat[n] EXCEPT !.hidden = TRUE]
<1>1. /\ cat[n] # Absent /\ cat' = [cat EXCEPT ![n] = new] /\ touched' = TRUE
      /\ UNCHANGED <<files, scan, add, user, known, stale>>
  BY DEF HideModel, Listed, CatalogInv, TypeOK
<1>2. cat[n] \in Records
  BY DEF CatalogInv, TypeOK
<1>3. new \in Records /\ new # Absent /\ new.src = cat[n].src /\ new.proj = cat[n].proj
  BY <1>1, <1>2 DEF Records, Absent
<1> HIDE DEF new
<1>4. /\ TypeOK'
      /\ cat'[n] = new /\ \A m \in Models : m # n => cat'[m] = cat[m]
  BY <1>1, <1>3 DEF CatalogInv, TypeOK
<1>5. known \subseteq Models
  BY DEF CatalogInv, TypeOK
<1>6. Sensible' /\ DownloadListed' /\ AddPairs' /\ ScanTrue'
  BY <1>1, <1>3, <1>4, <1>5 DEF CatalogInv, Sensible, DownloadListed, Listed, AddPairs, ScanTrue
<1>7. KnownSeen' /\ ScanPairs' /\ ToPair'
  BY <1>1, <1>3, <1>4, <1>5 DEF CatalogInv, KnownSeen, ScanPairs, Seen, ToPair, Unpaired
<1>8. QED
  BY <1>4, <1>6, <1>7 DEF CatalogInv

(* A step that forgets what is deleted, and leaves scan and downloader. *)
LEMMA Forgets ==
    ASSUME CatalogInv, TypeOK', Sensible', UNCHANGED <<scan, add, stale>>,
           known' \subseteq known,
           \A m \in known' : cat'[m] = cat[m],
           (Projector \in files') = (Projector \in files),
           touched' \/ UNCHANGED <<files, touched>>
    PROVE  CatalogInv'
<1>1. DownloadListed'
  BY DEF CatalogInv, Sensible, DownloadListed, Listed
<1>2. KnownSeen' /\ ScanPairs'
  BY DEF CatalogInv, KnownSeen, ScanPairs, Seen
<1>3. AddPairs' /\ ToPair'
  BY DEF CatalogInv, AddPairs, ToPair, Unpaired
<1>4. ScanTrue'
  BY DEF CatalogInv, ScanTrue, Seen
<1>5. QED
  BY <1>1, <1>2, <1>3, <1>4 DEF CatalogInv

LEMMA UserKeeps ==
    ASSUME CatalogInv, NEW u \in Users,
           DeleteModel(u) \/ RemoveFile(u) \/ \E m \in Models : FindModel(u, m)
    PROVE  CatalogInv'
<1>1. NoRequest \in [pc : {"idle", "db", "file"}, model : Files] /\ NoRequest.pc = "idle"
  BY DEF NoRequest, Files
<1>2. CASE \E m \in Models : FindModel(u, m)
  <2>1. TypeOK' /\ Sensible'
    BY <1>2 DEF CatalogInv, TypeOK, Sensible, FindModel, Files
  <2>2. QED
    BY <1>2, <2>1, Forgets DEF FindModel
<1>3. CASE DeleteModel(u)
  <2> DEFINE n == user[u].model
  <2>1. n \in Models /\ user[u].pc = "db" /\ UNCHANGED <<files, scan, add, stale>>
    BY <1>3 DEF CatalogInv, Sensible, DeleteModel
  <2>2. CASE Listed(n)
    <3>1. /\ cat' = [cat EXCEPT ![n] = Absent] /\ known' = known \ {n} /\ touched' = TRUE
          /\ \E file \in BOOLEAN :
                user' = [user EXCEPT ![u] = IF file THEN [@ EXCEPT !.pc = "file"] ELSE NoRequest]
      BY <1>3, <2>2 DEF DeleteModel
    <3>2. /\ user' \in [Users -> [pc : {"idle", "db", "file"}, model : Files]]
          /\ \A v \in Users : user'[v].pc # "idle" => user'[v].model \in Models
      BY <1>1, <2>1, <3>1 DEF CatalogInv, TypeOK, Sensible
    <3>3. TypeOK' /\ Sensible'
      BY <2>1, <3>1, <3>2, RecordFacts DEF CatalogInv, TypeOK, Sensible
    <3>4. QED
      BY <2>1, <3>1, <3>3, Forgets DEF CatalogInv, TypeOK
  <2>3. CASE ~ Listed(n)
    <3>1. user' = [user EXCEPT ![u] = NoRequest] /\ UNCHANGED <<cat, known, touched>>
      BY <1>3, <2>3 DEF DeleteModel
    <3>2. TypeOK' /\ Sensible'
      BY <1>1, <2>1, <3>1 DEF CatalogInv, TypeOK, Sensible
    <3>3. QED
      BY <2>1, <3>1, <3>2, Forgets
  <2>4. QED
    BY <2>2, <2>3
<1>4. CASE RemoveFile(u)
  <2> DEFINE n == user[u].model
  <2>1. /\ n \in Models
        /\ files' = files \ {n} /\ known' = known \ {n} /\ touched' = TRUE
        /\ user' = [user EXCEPT ![u] = NoRequest]
        /\ UNCHANGED <<cat, scan, add, stale>>
    BY <1>4 DEF CatalogInv, Sensible, RemoveFile
  <2>2. TypeOK' /\ Sensible'
    BY <1>1, <2>1 DEF CatalogInv, TypeOK, Sensible
  <2>3. (Projector \in files') = (Projector \in files)
    BY <2>1, ConstAssumption
  <2>4. QED
    BY <2>1, <2>2, <2>3, Forgets
<1>5. QED
  BY <1>2, <1>3, <1>4

LEMMA NextInv == CatalogInv /\ [Next]_vars => CatalogInv'
<1> SUFFICES ASSUME CatalogInv, [Next]_vars PROVE CatalogInv'
  OBVIOUS
<1>1. CASE UNCHANGED vars
  BY <1>1 DEF vars, CatalogInv, TypeOK, Sensible, DownloadListed, Listed, KnownSeen, ScanPairs,
     Seen, AddPairs, ToPair, Unpaired, ScanTrue
<1>2. QED
  BY <1>1, ScanStarts, ProcessFileKeeps, ReplaceKeeps, FileArrivesKeeps, InspectKeeps,
     SaveModelKeeps, PairKeeps, PairingEndsKeeps, HideModelKeeps, UserKeeps
     DEF Next, Scanning, Adding

LEMMA Invariance == Spec => []CatalogInv
  BY InitInv, NextInv, PTL DEF Spec

------------------------------------------------------------------------------
(* A download that AddManualModel has added stays in the catalog as long   *)
(* as its file is there and nobody deletes it: a scan only replaces what   *)
(* scans have found.                                                       *)
THEOREM DownloadsStayListed == Spec => []DownloadListed
<1>1. CatalogInv => DownloadListed
  BY DEF CatalogInv
<1>2. QED
  BY <1>1, Invariance, PTL

(* A model and its projector that were downloaded in any order are paired, *)
(* but for a scan that read the directory before the projector came.       *)
THEOREM DownloadsArePaired == Spec => []Paired
<1>1. CatalogInv => Paired
  BY DEF CatalogInv, ToPair, Paired
<1>2. QED
  BY <1>1, Invariance, PTL

(* A scan that nothing has cut into leaves the catalog as the directory is. *)
THEOREM ScansAreExact == Spec => ScanIsExact
<1> DEFINE Exact ==
        ReplaceScannedModels /\ ~ touched
        => \A m \in Models :
             /\ m \in files => Listed(m)' /\ (Projector \in files => cat'[m].proj)
             /\ cat'[m].src = "scan" => m \in files
<1>1. CatalogInv /\ [Next]_vars => [Exact]_vars
  <2> SUFFICES ASSUME CatalogInv, ReplaceScannedModels, ~ touched, NEW m \in Models
               PROVE  /\ m \in files => Listed(m)' /\ (Projector \in files => cat'[m].proj)
                      /\ cat'[m].src = "scan" => m \in files
    OBVIOUS
  <2>1. /\ scan.pc = "stat" /\ scan.todo = {}
        /\ cat'[m] = IF scan.found[m] # Absent THEN scan.found[m]
                     ELSE IF cat[m].src = "scan" THEN Absent ELSE cat[m]
    BY DEF ReplaceScannedModels
  <2>2. /\ m \in files => scan.found[m] # Absent
        /\ m \in files /\ Projector \in files => scan.found[m].proj
        /\ m \notin files => scan.found[m] = Absent
    BY <2>1 DEF CatalogInv, ScanTrue, Seen
  <2>3. QED
    BY <2>1, <2>2, RecordFacts DEF Listed
<1>2. QED
  BY <1>1, Invariance, PTL DEF Spec, ScanIsExact
==============================================================================
