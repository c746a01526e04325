------------------------------- MODULE DirWalk -------------------------------
(***************************************************************************)
(* walkDirRecursive of src/internal/models/scanner.go, called for every    *)
(* configured directory: a depth-first walk that follows symlinks, is cut  *)
(* at a depth, and shares the set of directories it has seen.  Symlinks    *)
(* make any graph of directories possible: sub[d] is the set of the        *)
(* directories in d, after symlinks.  Directories are numbered in the      *)
(* order of their names.                                                   *)
(***************************************************************************)
EXTENDS Naturals, Sequences, FiniteSets, SequencesExt

CONSTANTS MaxDirs,    \* bound: directories there are
          MaxDepth    \* maxDepth (8 in the code)

ASSUME BoundAssumption == MaxDirs \in Nat /\ MaxDepth \in Nat \ {0}

Dirs == 1..MaxDirs

(* Mutant: the bound is taken one level too early. *)
TooDeep_Early(n) == n >= MaxDepth

TooDeep(n) == n > MaxDepth

(* A walk: processedDirs (seen), and whether a call was turned away for    *)
(* its depth (cut, a history).                                             *)
Walks == [seen : SUBSET Dirs, cut : BOOLEAN]

(* The calls for the directories among dirs that are chosen, one after the *)
(* other: the walk after the first k.                                      *)
Each(call, walk, dirs, chosen) ==
    LET walks[k \in 0..Len(dirs)] ==
            IF k = 0 THEN walk
            ELSE IF dirs[k] \in chosen THEN call[walks[k - 1]][dirs[k]] ELSE walks[k - 1]
    IN walks

(* os.ReadDir sorts its entries by name: the order of the recursion. *)
ByName == [d \in Dirs |-> d]

(* A call at depth n, in a walk that has come to `walk`.  It returns at    *)
(* once when too deep or when d was seen; else it reads d, adds its models *)
(* and goes on below, one after the other.                                 *)
Call(sub, n, below, walk, d) ==
    IF TooDeep(n) THEN [walk EXCEPT !.cut = @ \/ n > MaxDepth]
    ELSE IF d \in walk.seen THEN walk
    ELSE Each(below, [walk EXCEPT !.seen = @ \union {d}], ByName, sub[d])[MaxDirs]

(* walkDirRecursive: what a call makes of a walk, for every depth. *)
Visit(sub) ==
    LET visit[n \in 1..(MaxDepth + 1)] ==
            [walk \in Walks |-> [d \in Dirs |-> Call(sub, n, visit[n + 1], walk, d)]]
    IN visit

(* ScanDirectories: the configured directories in their order, at depth 1, *)
(* with one processedDirs for all.                                         *)
Walk(sub, roots) == Each(Visit(sub)[1], [seen |-> {}, cut |-> FALSE], roots, Dirs)[Len(roots)]

------------------------------------------------------------------------------
(* The directories n levels or less from the configured ones: a reference  *)
(* that knows nothing of an order.                                         *)
Levels(sub, roots) ==
    LET level[n \in 1..MaxDepth] ==
            IF n = 1 THEN Range(roots)
            ELSE level[n - 1] \union UNION {sub[d] : d \in level[n - 1]}
    IN level

Within(sub, roots) == Levels(sub, roots)[MaxDepth]

(* Nothing is scanned that is not within reach, and as long as no path is  *)
(* cut for its depth the walk finds every directory there is to find,      *)
(* through cycles, nested and repeated directories.                        *)
FindsAll(sub, roots) ==
    LET walk == Walk(sub, roots) IN
    /\ walk.seen \subseteq Within(sub, roots)
    /\ ~ walk.cut => walk.seen = Within(sub, roots)

(* "traverses directory trees, following directory symlinks up to maxDepth *)
(* levels": every directory within that many levels is scanned.  This does *)
(* not hold: a directory first met at the bottom of a long path is marked  *)
(* as seen, and what is below it is not scanned when a shorter path leads  *)
(* there later.                                                            *)
Complete(sub, roots) == Walk(sub, roots).seen = Within(sub, roots)
==============================================================================
