---------------------------- MODULE StorageProofs ----------------------------
(***************************************************************************)
(* Proofs about Storage and DefaultModel, for every set of profiles,       *)
(* servers and callers and any length of the history: what a call has      *)
(* confirmed stays true, whatever fails and whenever the studio dies, and  *)
(* the handlers, the boot and the background work of DefaultModel use the  *)
(* store only through its calls; and with one admin the default model is   *)
(* the one on disk and exists.                                             *)
(***************************************************************************)
EXTENDS DefaultModel, SequenceTheorems, TLAPS

LEMMA Bounds == MaxHistory \in Nat \ {0} /\ MaxDownloads \in Nat
BY StoreAssumption

(* No file that is written is broken. *)
LEMMA NeverBroken ==
    /\ \A S \in SUBSET Profiles : S # Broken
    /\ \A h \in Histories : h # Broken
<1>1. \A content \in (SUBSET Profiles) \union (SUBSET Servers) \union Histories : Broken # content
  BY StoreAssumption
<1>2. ASSUME NEW S \in SUBSET Profiles PROVE S # Broken
  BY <1>1, S \in (SUBSET Profiles) \union (SUBSET Servers) \union Histories, Zenon
<1>3. ASSUME NEW h \in Histories PROVE h # Broken
  BY <1>1, h \in (SUBSET Profiles) \union (SUBSET Servers) \union Histories, Zenon
<1>4. QED
  BY <1>2, <1>3, Zenon

(* Lists are functions, and histories the lists no longer than MaxHistory. *)
LEMMA ListIsSeq ==
    ASSUME NEW T, NEW n \in Nat, NEW h \in [1..n -> T]
    PROVE  h \in Seq(T) /\ Len(h) = n
OBVIOUS

LEMMA HistoryIsSeq ==
    ASSUME NEW h \in Histories
    PROVE  /\ h \in Seq(1..MaxDownloads)
           /\ Len(h) \in 0..MaxHistory
           /\ Entries(h) \subseteq 1..MaxDownloads
<1>1. PICK n \in 0..MaxHistory : h \in [1..n -> 1..MaxDownloads]
  BY DEF Histories
<1>2. n \in Nat
  BY <1>1, Bounds
<1>3. h \in Seq(1..MaxDownloads) /\ Len(h) = n
  BY <1>1, <1>2, ListIsSeq
<1>4. QED
  BY <1>1, <1>2, <1>3 DEF Entries

LEMMA SeqIsHistory ==
    ASSUME NEW h \in Seq(1..MaxDownloads), Len(h) <= MaxHistory
    PROVE  h \in Histories
<1>1. h \in [1..Len(h) -> 1..MaxDownloads] /\ Len(h) \in Nat
  BY LenProperties
<1>2. Len(h) \in 0..MaxHistory
  BY <1>1, Bounds
<1>3. QED
  BY <1>1, <1>2 DEF Histories

(* Appending the next number and cutting the list at its old end gives a   *)
(* history in order, which has lost at most a number that MaxHistory newer *)
(* ones have followed.                                                     *)
LEMMA NewestInOrder ==
    ASSUME NEW h \in Histories, InOrder(h), NEW n \in 1..MaxDownloads,
           recorded \in Nat, n = recorded + 1
    PROVE  LET g == Newest(Append(h, n), MaxHistory)
           IN /\ g \in Histories
              /\ n \in Entries(g)
              /\ \A i \in 1..Len(g) : g[i] \in 1..n
              /\ \A i, j \in 1..Len(g) : i <= j => g[i] + (j - i) <= g[j]
              /\ \A d \in Entries(h) : n < d + MaxHistory => d \in Entries(g)
<1> DEFINE a == Append(h, n)
           g == Newest(a, MaxHistory)
           m == Len(h) + 1
<1>1. h \in Seq(1..MaxDownloads) /\ Len(h) \in 0..MaxHistory /\ MaxHistory \in Nat \ {0}
  BY HistoryIsSeq, Bounds
<1>2. /\ a \in Seq(1..MaxDownloads) /\ Len(a) = m
      /\ a[m] = n /\ \A i \in 1..Len(h) : a[i] = h[i]
  BY <1>1
<1>3. /\ \A i \in 1..m : a[i] \in 1..n
      /\ \A i, j \in 1..m : i <= j => a[i] + (j - i) <= a[j]
  <2>1. \A i \in 1..m : a[i] \in 1..n
    BY <1>1, <1>2 DEF InOrder
  <2>2. ASSUME NEW i \in 1..m, NEW j \in 1..m, i <= j PROVE a[i] + (j - i) <= a[j]
    <3>1. CASE j < m
      BY <1>1, <1>2, <2>2, <3>1 DEF InOrder
    <3>2. CASE i = m
      BY <1>1, <1>2, <2>2, <3>2
    <3>3. CASE j = m /\ i < m
      <4>1. i \in 1..Len(h) /\ Len(h) \in 1..Len(h)
        BY <1>1, <3>3
      <4>2. h[i] + (Len(h) - i) <= h[Len(h)] /\ h[Len(h)] \in 1..recorded /\ h[i] \in 1..recorded
        BY <1>1, <4>1 DEF InOrder
      <4>3. QED
        BY <1>1, <1>2, <3>3, <4>1, <4>2
    <3>4. QED
      BY <1>1, <2>2, <3>1, <3>2, <3>3
  <2>3. QED
    BY <2>1, <2>2
<1>4. CASE m <= MaxHistory
  <2>1. g = a
    BY <1>1, <1>2, <1>4 DEF Newest
  <2>3. g \in Histories
    BY <1>2, <1>4, <2>1, SeqIsHistory
  <2>4. \A d \in Entries(h) : d \in Entries(g)
    BY <1>1, <1>2, <2>1 DEF Entries
  <2>5. n \in Entries(g)
    BY <1>1, <1>2, <2>1 DEF Entries
  <2>6. QED
    BY <1>2, <1>3, <2>1, <2>3, <2>4, <2>5
<1>5. CASE m > MaxHistory
  <2>1. m = MaxHistory + 1 /\ g = SubSeq(a, 2, m)
    BY <1>1, <1>2, <1>5 DEF Newest
  <2>2. Len(g) = MaxHistory /\ \A i \in 1..MaxHistory : g[i] = a[i + 1]
    BY <1>1, <1>2, <2>1
  <2>3. g \in Histories
    <3>1. g \in Seq(1..MaxDownloads)
      <4>0. m \in Int /\ n \in 1..MaxDownloads /\ MaxDownloads \in Nat
        BY <1>1, Bounds
      <4>1. \A i \in 2..m : a[i] \in 1..MaxDownloads
        BY <1>3, <4>0
      <4>2. SubSeq(a, 2, m) \in Seq(1..MaxDownloads)
        BY <4>0, <4>1, 2 \in Int, SubSeqProperties, Zenon
      <4>3. QED
        BY <2>1, <4>2, Zenon
    <3>2. QED
      BY <1>1, <2>2, <3>1, SeqIsHistory
  <2>4. /\ \A i \in 1..Len(g) : g[i] \in 1..n
        /\ \A i, j \in 1..Len(g) : i <= j => g[i] + (j - i) <= g[j]
    <3>1. \A i \in 1..Len(g) : i + 1 \in 1..m /\ g[i] = a[i + 1]
      BY <1>1, <2>1, <2>2
    <3>2. ASSUME NEW i \in 1..Len(g), NEW j \in 1..Len(g), i <= j PROVE g[i] + (j - i) <= g[j]
      <4>0. i + 1 \in 1..m /\ j + 1 \in 1..m /\ i + 1 <= j + 1
        BY <1>1, <2>2, <3>1, <3>2
      <4>1. a[i + 1] + ((j + 1) - (i + 1)) <= a[j + 1]
        BY <1>3, <4>0
      <4>2. (j + 1) - (i + 1) = j - i
        BY <1>1, <2>2
      <4>3. QED
        BY <3>1, <4>1, <4>2
    <3>3. QED
      BY <1>3, <3>1, <3>2
  <2>5. n \in Entries(g)
    BY <1>1, <1>2, <2>1, <2>2 DEF Entries
  <2>6. ASSUME NEW d \in Entries(h), n < d + MaxHistory PROVE d \in Entries(g)
    <3>1. PICK i \in 1..Len(h) : d = h[i]
      BY DEF Entries
    <3>2. h[i] + (Len(h) - i) <= h[Len(h)] /\ h[Len(h)] \in 1..recorded /\ h[i] \in 1..recorded
      BY <1>1, <3>1 DEF InOrder
    <3>3. i # 1
      BY <1>1, <2>1, <2>6, <3>1, <3>2
    <3>4. i - 1 \in 1..MaxHistory /\ g[i - 1] = d
      BY <1>1, <1>2, <2>1, <2>2, <3>1, <3>3
    <3>5. QED
      BY <2>2, <3>4 DEF Entries
  <2>7. QED
    BY <2>3, <2>4, <2>5, <2>6
<1>6. QED
  BY <1>1, <1>4, <1>5

------------------------------------------------------------------------------
(* The initial states satisfy the invariant. *)
LEMMA StoreInitInv == StoreInit => StoreInv
<1> SUFFICES ASSUME StoreInit PROVE StoreInv
  OBVIOUS
<1>1. <<>> \in Histories
  <2>1. <<>> \in [1..0 -> 1..MaxDownloads] /\ 0 \in 0..MaxHistory
    BY StoreAssumption
  <2>2. QED
    BY <2>1 DEF Histories
<1>2. StoreTypeOK
  BY <1>1, StoreAssumption DEF StoreInit, StoreTypeOK, Nothing, Tables, Unlocked
<1>3. CallOK /\ HistoryKept
  BY DEF StoreInit, CallOK, HistoryKept, Unlocked
<1>4. ToldIsTrue
  BY StoreAssumption DEF StoreInit, ToldIsTrue, Nothing, Tables
<1>5. InOrder(mem["history"]) /\ InOrder(disk["history"])
  BY DEF StoreInit, InOrder, Nothing, Tables
<1>6. QED
  BY <1>2, <1>3, <1>4, <1>5 DEF StoreInv

------------------------------------------------------------------------------
(* Every step preserves it. *)
LEMMA SaveProfileInv ==
    ASSUME StoreInv, NEW c \in Callers, NEW p \in Profiles, SaveProfile(c, p)
    PROVE  StoreInv'
<1>1. /\ DOMAIN mem' = Tables
      /\ mem'["profiles"] = mem["profiles"] \union {p}
      /\ mem'["servers"] = mem["servers"]
      /\ mem'["history"] = mem["history"]
  BY DEF SaveProfile, StoreInv, StoreTypeOK, Tables
<1>2. call' = [who |-> c, kind |-> "put", id |-> p, todo |-> <<"profiles">>,
               stage |-> "ready", failed |-> FALSE]
  BY DEF SaveProfile, Locked
<1>3. /\ told'[p] = "unknown" /\ \A i \in Profiles \ {p} : told'[i] = told[i]
      /\ told' \in [Profiles -> {"there", "gone", "unknown"}]
  BY DEF SaveProfile, StoreInv, StoreTypeOK
<1>4. /\ open /\ open' = open /\ disk' = disk
      /\ recorded' = recorded /\ logged' = logged /\ faults' = faults /\ crashes' = crashes
  BY DEF SaveProfile, Readable
<1>5. StoreTypeOK'
  BY <1>1, <1>2, <1>3, <1>4 DEF StoreInv, StoreTypeOK
<1>6. CallOK'
  BY <1>1, <1>2, <1>3, <1>4 DEF CallOK
<1>7. ToldIsTrue'
  BY <1>1, <1>3, <1>4 DEF StoreInv, ToldIsTrue
<1>8. HistoryKept' /\ InOrder(mem["history"])' /\ InOrder(disk["history"])'
  BY <1>1, <1>4 DEF StoreInv, HistoryKept, InOrder
<1>9. QED
  BY <1>5, <1>6, <1>7, <1>8 DEF StoreInv

LEMMA DeleteProfileInv ==
    ASSUME StoreInv, NEW c \in Callers, NEW p \in Profiles, DeleteProfile(c, p)
    PROVE  StoreInv'
<1>1. /\ DOMAIN mem' = Tables
      /\ mem'["profiles"] = mem["profiles"] \ {p}
      /\ mem'["servers"] \subseteq mem["servers"]
      /\ mem'["history"] = mem["history"]
  BY DEF DeleteProfile, StoreInv, StoreTypeOK, Tables
<1>2. call' = [who |-> c, kind |-> "delete", id |-> p, todo |-> <<"servers", "profiles">>,
               stage |-> "ready", failed |-> FALSE]
  BY DEF DeleteProfile, Locked
<1>3. /\ told'[p] = "unknown" /\ \A i \in Profiles \ {p} : told'[i] = told[i]
      /\ told' \in [Profiles -> {"there", "gone", "unknown"}]
  BY DEF DeleteProfile, StoreInv, StoreTypeOK
<1>4. /\ open /\ open' = open /\ disk' = disk
      /\ recorded' = recorded /\ logged' = logged /\ faults' = faults /\ crashes' = crashes
  BY DEF DeleteProfile, Readable
<1>5. StoreTypeOK'
  BY <1>1, <1>2, <1>3, <1>4 DEF StoreInv, StoreTypeOK
<1>6. CallOK'
  BY <1>1, <1>2, <1>3, <1>4 DEF CallOK
<1>7. ToldIsTrue'
  BY <1>1, <1>3, <1>4 DEF StoreInv, ToldIsTrue
<1>8. HistoryKept' /\ InOrder(mem["history"])' /\ InOrder(disk["history"])'
  BY <1>1, <1>4 DEF StoreInv, HistoryKept, InOrder
<1>9. QED
  BY <1>5, <1>6, <1>7, <1>8 DEF StoreInv

LEMMA SaveServerInv ==
    ASSUME StoreInv, NEW c \in Callers, NEW s \in Servers, SaveServer(c, s)
    PROVE  StoreInv'
<1>1. /\ DOMAIN mem' = Tables
      /\ mem'["profiles"] = mem["profiles"]
      /\ mem'["servers"] = mem["servers"] \union {s}
      /\ mem'["history"] = mem["history"]
  BY DEF SaveServer, StoreInv, StoreTypeOK, Tables
<1>2. call' = [who |-> c, kind |-> "server", id |-> Nobody, todo |-> <<"servers">>,
               stage |-> "ready", failed |-> FALSE]
  BY DEF SaveServer, Locked
<1>3. /\ open /\ open' = open /\ disk' = disk /\ told' = told
      /\ recorded' = recorded /\ logged' = logged /\ faults' = faults /\ crashes' = crashes
  BY DEF SaveServer, Readable
<1>4. StoreTypeOK'
  BY <1>1, <1>2, <1>3 DEF StoreInv, StoreTypeOK
<1>5. CallOK'
  BY <1>1, <1>2, <1>3 DEF CallOK
<1>6. ToldIsTrue' /\ HistoryKept' /\ InOrder(mem["history"])' /\ InOrder(disk["history"])'
  BY <1>1, <1>3 DEF StoreInv, ToldIsTrue, HistoryKept, InOrder
<1>7. QED
  BY <1>4, <1>5, <1>6 DEF StoreInv

LEMMA AddDownloadHistoryInv ==
    ASSUME StoreInv, NEW c \in Callers, AddDownloadHistory(c)
    PROVE  StoreInv'
<1> DEFINE n == recorded + 1
           g == Newest(Append(mem["history"], n), MaxHistory)
<1>1. /\ DOMAIN mem' = Tables
      /\ mem'["profiles"] = mem["profiles"]
      /\ mem'["servers"] = mem["servers"]
      /\ mem'["history"] = g
  BY DEF AddDownloadHistory, StoreInv, StoreTypeOK, Tables
<1>2. call' = [who |-> c, kind |-> "download", id |-> Nobody, todo |-> <<"history">>,
               stage |-> "ready", failed |-> FALSE]
  BY DEF AddDownloadHistory, Locked
<1>3. /\ open /\ open' = open /\ disk' = disk /\ told' = told
      /\ recorded' = n /\ logged' = logged /\ faults' = faults /\ crashes' = crashes
  BY DEF AddDownloadHistory, Readable
<1>4. recorded \in Nat /\ n \in 1..MaxDownloads
  BY Bounds DEF AddDownloadHistory, StoreInv, StoreTypeOK
<1>5. /\ g \in Histories
      /\ n \in Entries(g)
      /\ \A i \in 1..Len(g) : g[i] \in 1..n
      /\ \A i, j \in 1..Len(g) : i <= j => g[i] + (j - i) <= g[j]
      /\ \A d \in Entries(mem["history"]) : n < d + MaxHistory => d \in Entries(g)
  BY <1>4, NewestInOrder DEF StoreInv, StoreTypeOK
<1> HIDE DEF g
<1>6. StoreTypeOK'
  BY <1>1, <1>2, <1>3, <1>4, <1>5 DEF StoreInv, StoreTypeOK
<1>7. CallOK'
  BY <1>1, <1>2, <1>3, <1>5 DEF CallOK
<1>8. ToldIsTrue'
  BY <1>1, <1>3 DEF StoreInv, ToldIsTrue
<1>9. HistoryKept'
  <2> SUFFICES ASSUME NEW d \in logged, n < d + MaxHistory
               PROVE  /\ disk["history"] # Broken /\ d \in Entries(disk["history"])
                      /\ d \in Entries(g)
    BY <1>1, <1>3 DEF HistoryKept
  <2>1. d \in Nat /\ recorded < d + MaxHistory
    BY <1>4, Bounds DEF StoreInv, StoreTypeOK
  <2>2. QED
    BY <1>3, <1>5, <2>1 DEF StoreInv, HistoryKept
<1>10. InOrder(mem["history"])'
  BY <1>1, <1>3, <1>5 DEF InOrder
<1>11. InOrder(disk["history"])'
  BY <1>3, <1>4 DEF StoreInv, InOrder
<1>12. QED
  BY <1>6, <1>7, <1>8, <1>9, <1>10, <1>11 DEF StoreInv

(* The tables a call has still to save, one by one. *)
LEMMA TodoShrinks ==
    ASSUME StoreInv, call.todo # <<>>
    PROVE  /\ \/ call.todo = <<Table>> /\ Tail(call.todo) = <<>>
              \/ call.todo = <<"servers", "profiles">> /\ Table = "servers"
                   /\ Tail(call.todo) = <<"profiles">>
           /\ call.todo \in {<<"profiles">>, <<"servers">>, <<"history">>} => Tail(call.todo) = <<>>
           /\ Table \in Tables
           /\ call.kind # "none"
<1>1. call.todo \in {<<"profiles">>, <<"servers">>, <<"history">>, <<"servers", "profiles">>}
  BY DEF StoreInv, StoreTypeOK
<1>2. CASE call.todo = <<"servers", "profiles">>
  <2>1. /\ Table = "servers" /\ Tail(call.todo) = <<"profiles">>
        /\ Table \in Tables /\ call.kind # "none"
    BY <1>2 DEF Table, Tables, StoreInv, CallOK
  <2>2. Len(call.todo) = 2 /\ \A s \in {"profiles", "servers", "history"} : Len(<<s>>) = 1
    BY <1>2
  <2>3. QED
    BY <1>2, <2>1, <2>2
<1>3. CASE call.todo \in {<<"profiles">>, <<"servers">>, <<"history">>}
  <2>1. PICK s \in Tables : call.todo = <<s>>
    BY <1>3 DEF Tables
  <2>2. Table = s /\ Tail(call.todo) = <<>>
    BY <2>1 DEF Table
  <2>3. call.kind # "none"
    BY DEF StoreInv, CallOK
  <2>4. QED
    BY <2>1, <2>2, <2>3
<1>4. QED
  BY <1>1, <1>2, <1>3

LEMMA StagesInv ==
    ASSUME StoreInv, Truncate \/ Write
    PROVE  StoreInv'
<1>1. /\ \E s \in {"torn", "whole"} : call' = [call EXCEPT !.stage = s]
      /\ open' = open /\ mem' = mem /\ disk' = disk /\ told' = told
      /\ recorded' = recorded /\ logged' = logged /\ faults' = faults /\ crashes' = crashes
  BY DEF Truncate, Write
<1>2. /\ call'.kind = call.kind /\ call'.id = call.id /\ call'.todo = call.todo
      /\ call'.failed = call.failed
  BY <1>1 DEF StoreInv, StoreTypeOK
<1>3. StoreTypeOK'
  BY <1>1 DEF StoreInv, StoreTypeOK
<1>4. CallOK'
  BY <1>1, <1>2 DEF StoreInv, CallOK
<1>5. ToldIsTrue' /\ HistoryKept' /\ InOrder(mem["history"])' /\ InOrder(disk["history"])'
  BY <1>1 DEF StoreInv, ToldIsTrue, HistoryKept, InOrder
<1>6. QED
  BY <1>3, <1>4, <1>5 DEF StoreInv

LEMMA RenameInv ==
    ASSUME StoreInv, Rename
    PROVE  StoreInv'
<1>1. /\ call.todo # <<>>
      /\ disk' = [disk EXCEPT ![Table] = mem[Table]]
      /\ call' = [call EXCEPT !.todo = Tail(@), !.stage = "ready"]
      /\ open' = open /\ mem' = mem /\ told' = told
      /\ recorded' = recorded /\ logged' = logged /\ faults' = faults /\ crashes' = crashes
  BY DEF Rename, AtStage
<1>2. /\ call'.kind = call.kind /\ call'.id = call.id /\ call'.failed = call.failed
      /\ call'.todo = Tail(call.todo)
  BY <1>1 DEF StoreInv, StoreTypeOK
<1>3. /\ Tail(call.todo) \in {<<>>, <<"profiles">>}
      /\ Table \in Tables /\ call.kind # "none" /\ open
      /\ \/ call.todo = <<Table>> /\ Tail(call.todo) = <<>>
         \/ call.todo = <<"servers", "profiles">> /\ Table = "servers"
  BY <1>1, TodoShrinks DEF StoreInv, CallOK
<1>4. /\ DOMAIN disk' = Tables
      /\ disk'[Table] = mem[Table]
      /\ \A t \in Tables \ {Table} : disk'[t] = disk[t]
  BY <1>1, <1>3 DEF StoreInv, StoreTypeOK
<1>5. \A t \in Tables : disk'[t] \in {disk[t], mem[t]}
  BY <1>4
<1>6. StoreTypeOK'
  <2>1. /\ disk'["profiles"] \in SUBSET Profiles
        /\ disk'["servers"] \in SUBSET Servers
        /\ disk'["history"] \in Histories
    BY <1>5 DEF StoreInv, StoreTypeOK, Tables
  <2>2. QED
    BY <1>1, <1>3, <1>4, <2>1 DEF StoreInv, StoreTypeOK
<1>7. CallOK'
  <2>1. /\ call.todo = <<"profiles">> => disk'["profiles"] = mem["profiles"]
        /\ call.todo = <<"history">> => disk'["history"] = mem["history"]
    BY <1>3, <1>4 DEF Tables
  <2>2. call.kind \in {"put", "delete"} =>
           /\ call.id \in Profiles /\ told[call.id] = "unknown"
           /\ call.kind = "put" <=> call.id \in mem["profiles"]
           /\ call.todo \in {<<"profiles">>, <<"servers", "profiles">>}
    BY <1>1 DEF StoreInv, CallOK
  <2>3. call.kind = "download" => recorded \in Entries(mem["history"]) /\ call.todo = <<"history">>
    BY <1>1 DEF StoreInv, CallOK
  <2>4. call.kind \in {"server", "clean"} => call.todo = <<"servers">>
    BY <1>1 DEF StoreInv, CallOK
  <2>5. /\ call.todo \in {<<"profiles">>, <<"servers">>, <<"history">>} => Tail(call.todo) = <<>>
        /\ call.todo = <<"servers", "profiles">> => Tail(call.todo) = <<"profiles">>
    BY <1>1, TodoShrinks
  <2>6. call.kind \in {"put", "delete"} =>
           /\ Tail(call.todo) \in {<<>>, <<"profiles">>, <<"servers", "profiles">>}
           /\ Tail(call.todo) = <<>> => disk'["profiles"] = mem["profiles"]
    BY <2>1, <2>2, <2>5
  <2>7. call.kind = "download" => Tail(call.todo) = <<>> /\ disk'["history"] = mem["history"]
    BY <2>1, <2>3, <2>5
  <2>8. call.kind \in {"server", "clean"} => Tail(call.todo) = <<>>
    BY <2>4, <2>5
  <2>9. QED
    BY <1>1, <1>2, <1>3, <2>2, <2>3, <2>6, <2>7, <2>8 DEF CallOK, Entries
<1>8. ToldIsTrue'
  <2>1. disk'["profiles"] \in {disk["profiles"], mem["profiles"]} /\ mem["profiles"] # Broken
    BY <1>5, NeverBroken DEF StoreInv, StoreTypeOK, Tables
  <2>2. QED
    BY <1>1, <1>3, <2>1 DEF StoreInv, ToldIsTrue
<1>9. HistoryKept' /\ InOrder(mem["history"])' /\ InOrder(disk["history"])'
  <2>1. disk'["history"] \in {disk["history"], mem["history"]} /\ mem["history"] # Broken
    BY <1>5, NeverBroken DEF StoreInv, StoreTypeOK, Tables
  <2>2. QED
    BY <1>1, <1>3, <2>1 DEF StoreInv, HistoryKept, InOrder
<1>10. QED
  BY <1>6, <1>7, <1>8, <1>9 DEF StoreInv

LEMMA FailSaveInv ==
    ASSUME StoreInv, FailSave
    PROVE  StoreInv'
<1>1. /\ call.todo # <<>> /\ faults < MaxFaults /\ faults' = faults + 1
      /\ call' = [call EXCEPT !.todo = Tail(@), !.stage = "ready",
                             !.failed = (Tail(call.todo) = <<>>)]
      /\ open' = open /\ mem' = mem /\ disk' = disk /\ told' = told
      /\ recorded' = recorded /\ logged' = logged /\ crashes' = crashes
  BY DEF FailSave
<1>2. /\ call'.kind = call.kind /\ call'.id = call.id
      /\ call'.todo = Tail(call.todo)
      /\ call'.todo = <<>> => call'.failed
  BY <1>1 DEF StoreInv, StoreTypeOK
<1>3. /\ Tail(call.todo) \in {<<>>, <<"profiles">>}
      /\ Tail(call.todo) = <<"profiles">> => call.todo = <<"servers", "profiles">>
      /\ call.kind # "none" /\ open
  BY <1>1, TodoShrinks DEF StoreInv, CallOK
<1>4. StoreTypeOK'
  <2>1. faults' \in 0..MaxFaults
    BY <1>1, StoreAssumption DEF StoreInv, StoreTypeOK
  <2>2. QED
    BY <1>1, <1>3, <2>1 DEF StoreInv, StoreTypeOK
<1>5. CallOK'
  <2>1. call.kind \in {"put", "delete"} =>
           /\ call.id \in Profiles /\ told[call.id] = "unknown"
           /\ call.kind = "put" <=> call.id \in mem["profiles"]
           /\ call.todo \in {<<"profiles">>, <<"servers", "profiles">>}
    BY <1>1 DEF StoreInv, CallOK
  <2>2. call.kind = "download" => recorded \in Entries(mem["history"]) /\ call.todo = <<"history">>
    BY <1>1 DEF StoreInv, CallOK
  <2>3. call.kind \in {"server", "clean"} => call.todo = <<"servers">>
    BY <1>1 DEF StoreInv, CallOK
  <2>4. /\ call.todo \in {<<"profiles">>, <<"servers">>, <<"history">>} => Tail(call.todo) = <<>>
        /\ call.todo = <<"servers", "profiles">> => Tail(call.todo) = <<"profiles">>
    BY <1>1, TodoShrinks
  <2>5. call.kind \in {"put", "delete"} =>
           Tail(call.todo) \in {<<>>, <<"profiles">>, <<"servers", "profiles">>}
    BY <2>1, <2>4
  <2>6. call.kind \in {"download", "server", "clean"} => Tail(call.todo) = <<>>
    BY <2>2, <2>3, <2>4
  <2>7. open' = open /\ mem' = mem /\ told' = told /\ recorded' = recorded
    BY <1>1
  <2>8. QED
    BY <1>2, <1>3, <2>1, <2>2, <2>5, <2>6, <2>7 DEF CallOK, Entries
<1>6. ToldIsTrue' /\ HistoryKept' /\ InOrder(mem["history"])' /\ InOrder(disk["history"])'
  BY <1>1 DEF StoreInv, ToldIsTrue, HistoryKept, InOrder
<1>7. QED
  BY <1>4, <1>5, <1>6 DEF StoreInv

LEMMA ReturnInv ==
    ASSUME StoreInv, NEW c \in Callers \union {Nobody}, Return(c)
    PROVE  StoreInv'
<1>1. /\ call.kind # "none" /\ call.todo = <<>>
      /\ call' = [who |-> Nobody, kind |-> "none", id |-> Nobody, todo |-> <<>>,
                  stage |-> "ready", failed |-> FALSE]
      /\ open' = open /\ mem' = mem /\ disk' = disk
      /\ recorded' = recorded /\ faults' = faults /\ crashes' = crashes
  BY DEF Return, Unlocked
<1>2. open /\ mem["profiles"] # Broken /\ mem["history"] # Broken
  BY <1>1, NeverBroken DEF StoreInv, StoreTypeOK, CallOK
<1>3. /\ told' \in [Profiles -> {"there", "gone", "unknown"}]
      /\ \A p \in Profiles : \/ told'[p] = told[p]
                             \/ /\ p \in mem["profiles"] => told'[p] = "there"
                                /\ p \notin mem["profiles"] => told'[p] = "gone"
                                /\ disk["profiles"] = mem["profiles"]
  <2>1. CASE call.failed \/ call.kind \notin {"put", "delete"}
    BY <2>1 DEF Return, StoreInv, StoreTypeOK
  <2>2. CASE ~ call.failed /\ call.kind \in {"put", "delete"}
    <3>1. /\ told' = [told EXCEPT ![call.id] = IF call.kind = "put" THEN "there" ELSE "gone"]
          /\ call.id \in Profiles /\ disk["profiles"] = mem["profiles"]
          /\ call.kind = "put" <=> call.id \in mem["profiles"]
      BY <1>1, <2>2 DEF Return, StoreInv, CallOK
    <3>2. QED
      BY <3>1 DEF StoreInv, StoreTypeOK
  <2>3. QED
    BY <2>1, <2>2
<1>4. logged' = logged \/ /\ logged' = logged \union {recorded}
                          /\ recorded \in Entries(mem["history"])
                          /\ disk["history"] = mem["history"]
  BY <1>1 DEF Return, StoreInv, CallOK
<1>5. StoreTypeOK'
  <2>1. recorded \in Entries(mem["history"]) => recorded \in 1..recorded
    BY DEF StoreInv, InOrder, Entries
  <2>2. logged' \subseteq 1..recorded
    BY <1>4, <2>1 DEF StoreInv, StoreTypeOK
  <2>3. QED
    BY <1>1, <1>3, <2>2 DEF StoreInv, StoreTypeOK
<1>6. CallOK'
  BY <1>1 DEF CallOK
<1>7. ToldIsTrue'
  BY <1>1, <1>2, <1>3 DEF StoreInv, ToldIsTrue
<1>8. HistoryKept' /\ InOrder(mem["history"])' /\ InOrder(disk["history"])'
  BY <1>1, <1>2, <1>4 DEF StoreInv, HistoryKept, InOrder
<1>9. QED
  BY <1>5, <1>6, <1>7, <1>8 DEF StoreInv

LEMMA EmptyHistory == <<>> \in Histories /\ Len(<<>>) = 0
<1>1. <<>> \in [1..0 -> 1..MaxDownloads] /\ 0 \in 0..MaxHistory
  BY StoreAssumption
<1>2. QED
  BY <1>1 DEF Histories

LEMMA DieInv ==
    ASSUME StoreInv, Die
    PROVE  StoreInv'
<1>1. /\ crashes < MaxCrashes /\ crashes' = crashes + 1 /\ open' = FALSE
      /\ DOMAIN mem' = Tables
      /\ mem'["profiles"] = {} /\ mem'["servers"] = {} /\ mem'["history"] = <<>>
      /\ call' = [who |-> Nobody, kind |-> "none", id |-> Nobody, todo |-> <<>>,
                  stage |-> "ready", failed |-> FALSE]
      /\ disk' = disk /\ told' = told /\ recorded' = recorded /\ logged' = logged
      /\ faults' = faults
  BY DEF Die, Nothing, Tables, Unlocked
<1>2. crashes' \in 0..MaxCrashes
  BY <1>1, StoreAssumption DEF StoreInv, StoreTypeOK
<1>3. StoreTypeOK'
  BY <1>1, <1>2, EmptyHistory DEF StoreInv, StoreTypeOK
<1>4. CallOK' /\ ToldIsTrue' /\ HistoryKept'
  BY <1>1 DEF StoreInv, CallOK, ToldIsTrue, HistoryKept
<1>5. InOrder(mem["history"])'
  <2>1. 1..Len(mem'["history"]) = {}
    BY <1>1, EmptyHistory
  <2>2. QED
    BY <2>1 DEF InOrder
<1>6. InOrder(disk["history"])'
  BY <1>1 DEF StoreInv, InOrder
<1>7. QED
  BY <1>3, <1>4, <1>5, <1>6 DEF StoreInv

LEMMA OpenInv ==
    ASSUME StoreInv, Open
    PROVE  StoreInv'
<1>1. /\ open' = TRUE /\ disk' = disk /\ told' = told /\ recorded' = recorded
      /\ logged' = logged /\ faults' = faults /\ crashes' = crashes
  BY DEF Open
<1>2. PICK kept \in SUBSET disk["servers"] :
         /\ mem' = [disk EXCEPT !["servers"] = kept]
         /\ \/ call' = Unlocked
            \/ call' = Locked(Nobody, "clean", Nobody, <<"servers">>)
  BY DEF Open
<1>3. /\ DOMAIN mem' = Tables
      /\ mem'["profiles"] = disk["profiles"]
      /\ mem'["servers"] \in SUBSET Servers
      /\ mem'["history"] = disk["history"]
  BY <1>2 DEF StoreInv, StoreTypeOK, Tables
<1>4. StoreTypeOK'
  <2>1. call' \in [who : {Nobody}, kind : {"none", "clean"}, id : {Nobody},
                   todo : {<<>>, <<"servers">>}, stage : {"ready"}, failed : {FALSE}]
    <3>1. CASE call' = Unlocked
      BY <3>1 DEF Unlocked
    <3>2. CASE call' = Locked(Nobody, "clean", Nobody, <<"servers">>)
      BY <3>2 DEF Locked
    <3>3. QED
      BY <1>2, <3>1, <3>2
  <2>2. call' \in [who : Callers \union {Nobody},
                   kind : {"none", "put", "delete", "server", "download", "clean"},
                   id : Profiles \union {Nobody},
                   todo : {<<>>, <<"profiles">>, <<"servers">>, <<"history">>,
                           <<"servers", "profiles">>},
                   stage : {"ready", "torn", "whole"}, failed : BOOLEAN]
    BY <2>1
  <2>3. QED
    BY <1>1, <1>3, <2>2 DEF StoreInv, StoreTypeOK
<1>5. CallOK'
  BY <1>1, <1>2 DEF CallOK, Unlocked, Locked
<1>6. ToldIsTrue' /\ HistoryKept'
  BY <1>1, <1>3 DEF StoreInv, ToldIsTrue, HistoryKept
<1>7. InOrder(mem["history"])' /\ InOrder(disk["history"])'
  BY <1>1, <1>3 DEF StoreInv, InOrder
<1>8. QED
  BY <1>4, <1>5, <1>6, <1>7 DEF StoreInv

LEMMA StoreStepInv ==
    ASSUME StoreInv, [StoreNext]_storeVars
    PROVE  StoreInv'
<1>1. CASE UNCHANGED storeVars
  BY <1>1 DEF storeVars, StoreInv, StoreTypeOK, CallOK, ToldIsTrue, HistoryKept, InOrder
<1>2. ASSUME NEW c \in Callers, NEW p \in Profiles, SaveProfile(c, p) \/ DeleteProfile(c, p)
      PROVE StoreInv'
  BY <1>2, SaveProfileInv, DeleteProfileInv
<1>3. ASSUME NEW c \in Callers, NEW s \in Servers, SaveServer(c, s) PROVE StoreInv'
  BY <1>3, SaveServerInv
<1>4. ASSUME NEW c \in Callers, AddDownloadHistory(c) PROVE StoreInv'
  BY <1>4, AddDownloadHistoryInv
<1>5. CASE Saving
  BY <1>5, StagesInv, RenameInv, FailSaveInv DEF Saving
<1>6. ASSUME NEW c \in Callers \union {Nobody}, Return(c) PROVE StoreInv'
  BY <1>6, ReturnInv
<1>7. CASE Die \/ Open
  BY <1>7, DieInv, OpenInv
<1>8. QED
  BY <1>1, <1>2, <1>3, <1>4, <1>5, <1>6, <1>7 DEF StoreNext

------------------------------------------------------------------------------
(* StoreInv is an inductive invariant of the database: whatever its        *)
(* callers do, whichever file operation fails and wherever the studio      *)
(* dies, the files are whole, the answers are true and the history keeps   *)
(* the newest entries.                                                     *)
THEOREM StoreInvariant == StoreSpec => []StoreInv
<1>1. StoreInit => StoreInv
  BY StoreInitInv
<1>2. StoreInv /\ [StoreNext]_storeVars => StoreInv'
  BY StoreStepInv
<1>3. QED
  BY <1>1, <1>2, PTL DEF StoreSpec

------------------------------------------------------------------------------
(* DefaultModel: its handlers save only profiles there may be. *)
SavesProfiles == \A t \in Admins : op[t].pc = "save" => op[t].id \in Profiles

HandlerInv == TypeOK /\ SavesProfiles

LEMMA HandlerInitInv == Init => HandlerInv
<1> SUFFICES ASSUME Init PROVE HandlerInv
  OBVIOUS
<1>1. None \in Values /\ None \in Profiles \union {None}
  BY DEF Values
<1>2. /\ default \in Values /\ file \in Values \union {"empty", "broken"}
      /\ unsaved \in BOOLEAN /\ studio = "up"
  BY <1>1 DEF Init
<1>3. op = [t \in Admins |-> [pc |-> "idle", id |-> None, snap |-> None]]
  BY DEF Init, Idle
<1>4. request = [r \in Requests |-> [pc |-> "new", named |-> FALSE, model |-> None,
                                    answer |-> "none"]]
  BY DEF Init, Fresh
<1>5. QED
  BY <1>1, <1>2, <1>3, <1>4 DEF HandlerInv, TypeOK, SavesProfiles

(* What a request of the administration does to op[t] and to the           *)
(* configuration is of the right type.                                     *)
LEMMA AdministerInv ==
    ASSUME StoreInv, HandlerInv, NEW t \in Admins, Administer(t)
    PROVE  HandlerInv'
<1> DEFINE Pcs == {"idle", "save", "saving", "delete", "clear", "assign", "write",
                   "marshal", "open", "flush"}
           Ids == Profiles \union {None}
           Ops == [pc : Pcs, id : Ids, snap : Values]
           Good == /\ \E o \in Ops : /\ op' = [op EXCEPT ![t] = o]
                                     /\ o.pc = "save" => o.id \in Profiles
                   /\ default' \in Values /\ file' \in Values \union {"empty", "broken"}
                   /\ unsaved' \in BOOLEAN
<1>1. studio' = studio /\ request' = request
  BY DEF Administer
<1>2. /\ op \in [Admins -> Ops] /\ op[t] \in Ops
      /\ default \in Values /\ file \in Values \union {"empty", "broken"}
      /\ unsaved \in BOOLEAN /\ None \in Ids /\ None \in Values /\ Ids \subseteq Values
      /\ Torn \in Values
  BY DEF HandlerInv, TypeOK, Values
<1>3. SUFFICES Good
  <2>1. ASSUME Good PROVE HandlerInv'
    BY <1>1, <2>1 DEF HandlerInv, TypeOK, SavesProfiles
  <2>2. QED
    BY <2>1
<1>4. ASSUME NEW l \in Pcs, NEW i \in Ids, l = "save" => i \in Profiles
      PROVE  [pc |-> l, id |-> i, snap |-> None] \in Ops
  BY <1>2
<1>5. CASE CheckDefault(t)
  <2>1. PICK i \in Ids : Begin(t, "assign", i)
    BY <1>5 DEF CheckDefault, StoreInv, StoreTypeOK
  <2>2. op' = [op EXCEPT ![t] = [Idle EXCEPT !.pc = "assign", !.id = i]]
    BY <2>1, Zenon DEF Begin
  <2>3. /\ [Idle EXCEPT !.pc = "assign", !.id = i] \in Ops
        /\ [Idle EXCEPT !.pc = "assign", !.id = i].id = i
        /\ [Idle EXCEPT !.pc = "assign", !.id = i].pc = "assign"
    BY <1>2 DEF Idle
  <2>4. UNCHANGED configVars
    BY <1>5 DEF CheckDefault
  <2>5. QED
    BY <1>2, <2>2, <2>3, <2>4 DEF configVars
<1>6. CASE CheckId(t)
  <2>1. PICK i \in Profiles : Begin(t, "save", i)
    BY <1>6 DEF CheckId
  <2>2. op' = [op EXCEPT ![t] = [Idle EXCEPT !.pc = "save", !.id = i]]
    BY <2>1, Zenon DEF Begin
  <2>3. /\ [Idle EXCEPT !.pc = "save", !.id = i] \in Ops
        /\ [Idle EXCEPT !.pc = "save", !.id = i].id = i
        /\ [Idle EXCEPT !.pc = "save", !.id = i].pc = "save"
    BY <1>2 DEF Idle
  <2>4. UNCHANGED configVars
    BY <1>6 DEF CheckId
  <2>5. QED
    BY <1>2, <2>2, <2>3, <2>4 DEF configVars
<1>17. CASE BeginDelete(t)
  <2>1. PICK i \in Profiles : Begin(t, "delete", i)
    BY <1>17 DEF BeginDelete
  <2>2. op' = [op EXCEPT ![t] = [Idle EXCEPT !.pc = "delete", !.id = i]]
    BY <2>1, Zenon DEF Begin
  <2>3. /\ [Idle EXCEPT !.pc = "delete", !.id = i] \in Ops
        /\ [Idle EXCEPT !.pc = "delete", !.id = i].id = i
        /\ [Idle EXCEPT !.pc = "delete", !.id = i].pc = "delete"
    BY <1>2 DEF Idle
  <2>4. UNCHANGED configVars
    BY <1>17 DEF BeginDelete
  <2>5. QED
    BY <1>2, <2>2, <2>3, <2>4 DEF configVars
<1>7. ASSUME NEW l \in Pcs \ {"save"}, Then(t, l)
      PROVE  \E o \in Ops : op' = [op EXCEPT ![t] = o] /\ o.pc # "save"
  <2>1. op' = [op EXCEPT ![t] = [op[t] EXCEPT !.pc = l]]
    BY <1>7 DEF Then
  <2>2. [op[t] EXCEPT !.pc = l] \in Ops /\ [op[t] EXCEPT !.pc = l].pc # "save"
    BY <1>2
  <2>3. QED
    BY <2>1, <2>2
<1>8. ASSUME Done(t)
      PROVE  \E o \in Ops : op' = [op EXCEPT ![t] = o] /\ o.pc # "save"
  <2>1. [pc |-> "idle", id |-> None, snap |-> None] \in Ops
    BY <1>2, <1>4
  <2>2. op' = [op EXCEPT ![t] = [pc |-> "idle", id |-> None, snap |-> None]]
    BY <1>8 DEF Done, Idle
  <2>3. QED
    BY <2>1, <2>2
<1>9. CASE Assign(t)
  BY <1>2, <1>7, <1>9 DEF Assign
<1>10. CASE Assigned(t)
  BY <1>2, <1>7, <1>10 DEF Assigned
<1>11. CASE Marshal(t)
  <2>1. op' = [op EXCEPT ![t] = [op[t] EXCEPT !.pc = "open", !.snap = default]]
    BY <1>2, <1>11 DEF Marshal
  <2>2. [op[t] EXCEPT !.pc = "open", !.snap = default] \in Ops
    BY <1>2
  <2>3. QED
    BY <1>2, <1>11, <2>1, <2>2 DEF Marshal, configVars
<1>12. CASE OpenFile(t)
  BY <1>2, <1>7, <1>12 DEF OpenFile
<1>13. CASE WriteFile(t)
  BY <1>2, <1>8, <1>13 DEF WriteFile
<1>14. CASE FailConfig(t)
  BY <1>2, <1>8, <1>14 DEF FailConfig
<1>15. CASE EndDelete(t) \/ BeginSave(t) \/ EndSave(t)
  BY <1>2, <1>7, <1>8, <1>15 DEF EndDelete, BeginSave, EndSave, configVars
<1>16. CASE ClearDefault(t)
  BY <1>2, <1>4, <1>8, <1>16 DEF ClearDefault, Idle, configVars
<1>18. QED
  BY <1>5, <1>6, <1>17, <1>9, <1>10, <1>11, <1>12, <1>13, <1>14, <1>15, <1>16 DEF Administer

(* The rest of Next: requests to the gateway, the store, and the boot. *)
LEMMA HandlerStepInv ==
    ASSUME StoreInv, HandlerInv, [Next]_vars
    PROVE  HandlerInv'
<1>1. CASE UNCHANGED vars
  BY <1>1 DEF vars, configVars, HandlerInv, TypeOK, SavesProfiles
<1>2. ASSUME NEW t \in Admins, Administer(t) PROVE HandlerInv'
  BY <1>2, AdministerInv
<1>3. ASSUME NEW r \in Requests, Resolving(r) PROVE HandlerInv'
  <2> DEFINE Rs == [pc : {"new", "default", "lookup", "blame", "done"}, named : BOOLEAN, model : Values,
                    answer : {"none", "missing", "stale", "notfound", "found"}]
  <2>1. UNCHANGED <<configVars, studio, op>>
    BY <1>3 DEF Resolving
  <2>2. /\ request \in [Requests -> Rs] /\ request[r] \in Rs /\ default \in Values
        /\ Profiles \subseteq Values
    BY DEF HandlerInv, TypeOK, Values
  <2>3. \E q \in Rs : request' = [request EXCEPT ![r] = q]
    <3>1. CASE ExtractModel(r)
      BY <2>2, <3>1 DEF ExtractModel, Answer
    <3>4. CASE UseDefault(r)
      BY <2>2, <3>4 DEF UseDefault
    <3>2. CASE LookupModel(r)
      BY <2>2, <3>2 DEF LookupModel, Answer
    <3>3. CASE Blame(r)
      BY <2>2, <3>3 DEF Blame, Answer
    <3>5. QED
      BY <1>3, <3>1, <3>2, <3>3, <3>4 DEF Resolving
  <2>4. request' \in [Requests -> Rs]
    BY <2>2, <2>3
  <2>5. QED
    BY <2>1, <2>4 DEF configVars, HandlerInv, TypeOK, SavesProfiles
<1>4. CASE Background
  BY <1>4 DEF Background, configVars, HandlerInv, TypeOK, SavesProfiles
<1>5. CASE Crash
  BY <1>5 DEF Crash, configVars, HandlerInv, TypeOK, SavesProfiles, Idle, Fresh, Values
<1>6. CASE LoadConfig
  BY <1>6 DEF LoadConfig, HandlerInv, TypeOK, SavesProfiles
<1>7. CASE SaveBack
  BY <1>7 DEF SaveBack, HandlerInv, TypeOK, SavesProfiles
<1>8. CASE OpenStore
  BY <1>8 DEF OpenStore, configVars, HandlerInv, TypeOK, SavesProfiles
<1>9. QED
  BY <1>1, <1>2, <1>3, <1>4, <1>5, <1>6, <1>7, <1>8 DEF Next

(* Every step of the studio is one call, or one file operation of a call,  *)
(* of the database, or none.                                               *)
LEMMA StepUsesStore ==
    ASSUME HandlerInv, [Next]_vars
    PROVE  [StoreNext]_storeVars
<1>1. CASE UNCHANGED vars
  BY <1>1 DEF vars
<1>2. ASSUME NEW t \in Admins, Administer(t) PROVE [StoreNext]_storeVars
  <2>1. t \in Callers
    BY ConstAssumption
  <2>2. CASE BeginDelete(t)
    BY <2>1, <2>2 DEF BeginDelete, StoreNext
  <2>3. CASE EndDelete(t) \/ EndSave(t)
    BY <2>1, <2>3 DEF EndDelete, EndSave, StoreNext
  <2>4. CASE BeginSave(t)
    <3>1. op[t].id \in Profiles /\ SaveProfile(t, op[t].id)
      BY <2>4 DEF BeginSave, Serving, HandlerInv, SavesProfiles
    <3>2. QED
      BY <2>1, <3>1 DEF StoreNext
  <2>5. CASE CheckDefault(t) \/ CheckId(t) \/ Assign(t) \/ Assigned(t) \/ Marshal(t)
             \/ OpenFile(t) \/ WriteFile(t) \/ FailConfig(t) \/ ClearDefault(t)
    BY <2>5 DEF CheckDefault, CheckId, Assign, Assigned, Marshal, OpenFile, WriteFile, FailConfig,
                ClearDefault
  <2>6. QED
    BY <1>2, <2>2, <2>3, <2>4, <2>5 DEF Administer
<1>3. ASSUME NEW r \in Requests, Resolving(r) PROVE [StoreNext]_storeVars
  BY <1>3 DEF Resolving
<1>4. CASE Background
  BY <1>4 DEF Background, StoreNext
<1>5. CASE Crash \/ LoadConfig \/ SaveBack \/ OpenStore
  BY <1>5 DEF Crash, LoadConfig, SaveBack, OpenStore, StoreNext
<1>6. QED
  BY <1>1, <1>2, <1>3, <1>4, <1>5 DEF Next

LEMMA StudioInvariant == Spec => [](StoreInv /\ HandlerInv)
<1>1. Init => StoreInv /\ HandlerInv
  BY StoreInitInv, HandlerInitInv DEF Init
<1>2. (StoreInv /\ HandlerInv) /\ [Next]_vars => (StoreInv /\ HandlerInv)'
  BY StoreStepInv, HandlerStepInv, StepUsesStore
<1>3. QED
  BY <1>1, <1>2, PTL DEF Spec

(* The handlers, the boot and the background work use the database only as *)
(* Storage says: the composition implements its specification.             *)
THEOREM StudioUsesStorage == Spec => StoreSpec
<1>1. Init => StoreInit
  BY DEF Init
<1>2. HandlerInv /\ [Next]_vars => [StoreNext]_storeVars
  BY StepUsesStore
<1>3. QED
  BY <1>1, <1>2, StudioInvariant, PTL DEF Spec, StoreSpec

(* An admin who was told that a profile is saved, or deleted, was told the *)
(* truth, until somebody asks for something else about it.                 *)
THEOREM AnswersAreTrue == Spec => []ToldIsTrue
<1>1. StoreInv => ToldIsTrue
  BY DEF StoreInv
<1>2. QED
  BY <1>1, StudioInvariant, PTL

(* A download whose AddDownloadHistory returned without an error is in the *)
(* history, also after a crash, until MaxHistory newer ones are.           *)
THEOREM DownloadsAreRemembered == Spec => []HistoryKept
<1>1. StoreInv => HistoryKept
  BY DEF StoreInv
<1>2. QED
  BY <1>1, StudioInvariant, PTL

------------------------------------------------------------------------------
(* The default model with one admin.  Whoever is asked for by an admin's   *)
(* call is the profile of the request it is serving, and nobody else asks  *)
(* anything of a profile.                                                  *)
OneAdmin == \A t, u \in Admins : t = u

CallOfAdmin ==
    call.kind # "none" =>
        IF call.who \in Admins
        THEN /\ op[call.who].id = call.id
             /\ \/ call.kind = "put" /\ op[call.who].pc = "saving"
                \/ call.kind = "delete" /\ op[call.who].pc = "delete"
        ELSE call.kind \notin {"put", "delete"}

(* A default that is no longer the one of the file is being saved.         *)
FileFollows ==
    /\ studio # "up" => crashes > 0 /\ \A t \in Admins : op[t].pc = "idle"
    /\ studio = "open" => file = default \/ unsaved
    /\ \A t \in Admins : /\ op[t].pc \in {"open", "flush"} => op[t].snap = default
                         /\ op[t].pc = "flush" => file = "empty"
    /\ studio = "up" =>
          \/ file = default \/ unsaved
          \/ \E t \in Admins : op[t].pc \in {"write", "marshal", "open", "flush"}

(* No default, a profile, or one whose deletion is under way or has failed *)
Fine(i) == i \in mem["profiles"] \union {None} \/ (i \in Profiles /\ told[i] = "unknown")

(* is what the default is, and what it will be once the admin is done.     *)
DefaultFine ==
    crashes = 0 =>
        /\ \A t \in Admins : op[t].pc \in {"assign", "write"} => Fine(op[t].id)
        /\ \/ Fine(default)
           \/ \E t \in Admins : \/ op[t].pc \in {"assign", "write"}
                                \/ op[t].pc = "clear" /\ op[t].id = default

DefaultInv == CallOfAdmin /\ FileFollows /\ DefaultFine

LEMMA DefaultInitInv == Init => DefaultInv
<1> SUFFICES ASSUME Init PROVE DefaultInv
  OBVIOUS
<1>1. /\ studio = "up" /\ file = default /\ default = None
      /\ \A t \in Admins : op[t].pc = "idle"
      /\ call.kind = "none"
  BY DEF Init, StoreInit, Idle, Unlocked
<1>2. QED
  BY <1>1 DEF DefaultInv, CallOfAdmin, FileFollows, DefaultFine, Fine

(* A step of the database that leaves the configuration and the requests   *)
(* alone, takes no profile away, and only promises what is true.           *)
LEMMA StoreStepKeepsDefault ==
    ASSUME DefaultInv, UNCHANGED <<configVars, studio, op, crashes>>, CallOfAdmin',
           mem["profiles"] \subseteq mem'["profiles"],
           \A p \in Profiles : told[p] = "unknown" =>
               told'[p] = "unknown" \/ p \in mem'["profiles"]
    PROVE  DefaultInv'
<1>1. \A i : Fine(i) => Fine(i)'
  BY DEF Fine
<1>2. FileFollows'
  BY DEF DefaultInv, FileFollows, configVars
<1>3. DefaultFine'
  BY <1>1 DEF DefaultInv, DefaultFine, configVars
<1>4. QED
  BY <1>2, <1>3 DEF DefaultInv

LEMMA BackgroundKeepsDefault ==
    ASSUME StoreInv, HandlerInv, DefaultInv, Background
    PROVE  DefaultInv'
<1>1. UNCHANGED <<configVars, studio, op>>
  BY DEF Background
<1>2. CASE Saving
  <2>1. /\ mem' = mem /\ told' = told /\ crashes' = crashes
        /\ call'.who = call.who /\ call'.kind = call.kind /\ call'.id = call.id
    BY <1>2 DEF Saving, Truncate, Write, Rename, FailSave, StoreInv, StoreTypeOK
  <2>2. CallOfAdmin'
    BY <1>1, <2>1 DEF DefaultInv, CallOfAdmin
  <2>3. QED
    BY <1>1, <2>1, <2>2, StoreStepKeepsDefault
<1>3. ASSUME NEW c \in Callers \ Admins, NEW s \in Servers, SaveServer(c, s) PROVE DefaultInv'
  <2>1. /\ mem'["profiles"] = mem["profiles"] /\ told' = told /\ crashes' = crashes
        /\ call'.who = c /\ call'.kind = "server"
    BY <1>3 DEF SaveServer, Locked, StoreInv, StoreTypeOK, Tables
  <2>2. CallOfAdmin'
    BY <1>1, <2>1 DEF CallOfAdmin
  <2>3. QED
    BY <1>1, <2>1, <2>2, StoreStepKeepsDefault
<1>4. ASSUME NEW c \in Callers \ Admins, AddDownloadHistory(c) PROVE DefaultInv'
  <2>1. /\ mem'["profiles"] = mem["profiles"] /\ told' = told /\ crashes' = crashes
        /\ call'.who = c /\ call'.kind = "download"
    BY <1>4 DEF AddDownloadHistory, Locked, StoreInv, StoreTypeOK, Tables
  <2>2. CallOfAdmin'
    BY <1>1, <2>1 DEF CallOfAdmin
  <2>3. QED
    BY <1>1, <2>1, <2>2, StoreStepKeepsDefault
<1>5. ASSUME NEW c \in (Callers \ Admins) \union {Nobody}, Return(c) PROVE DefaultInv'
  <2>1. c \notin Admins
    BY StoreAssumption, ConstAssumption
  <2>2. call.kind \notin {"put", "delete"}
    BY <1>5, <2>1 DEF Return, DefaultInv, CallOfAdmin
  <2>3. /\ mem' = mem /\ told' = told /\ crashes' = crashes /\ call'.kind = "none"
    BY <1>5, <2>2 DEF Return, Unlocked
  <2>4. CallOfAdmin'
    BY <2>3 DEF CallOfAdmin
  <2>5. QED
    BY <1>1, <2>3, <2>4, StoreStepKeepsDefault
<1>6. QED
  BY <1>2, <1>3, <1>4, <1>5 DEF Background

------------------------------------------------------------------------------
LEMMA AdminKeepsDefault ==
    ASSUME OneAdmin, StoreInv, HandlerInv, DefaultInv, NEW t \in Admins, Administer(t)
    PROVE  DefaultInv'
<1> DEFINE o == op[t]
<1>1. /\ studio' = studio
      /\ \A u \in Admins : u = t
      /\ op \in [Admins -> [pc : {"idle", "save", "saving", "delete", "clear", "assign", "write",
                                  "marshal", "open", "flush"},
                            id : Profiles \union {None}, snap : Values]]
  BY DEF Administer, OneAdmin, HandlerInv, TypeOK
(* The invariant, of the one request there is. *)
<1> DEFINE Settled(p) ==
             /\ p.pc \in {"open", "flush"} => p.snap = default'
             /\ p.pc = "flush" => file' = "empty"
             /\ file' = default' \/ unsaved' \/ p.pc \in {"write", "marshal", "open", "flush"}
           Sound(p) ==
             crashes' = 0 =>
               /\ p.pc \in {"assign", "write"} => Fine(p.id)'
               /\ \/ Fine(default)'
                  \/ p.pc \in {"assign", "write"}
                  \/ p.pc = "clear" /\ p.id = default'
<1>2. ASSUME NEW p, op' = [op EXCEPT ![t] = p], studio = "up", CallOfAdmin', Settled(p), Sound(p)
      PROVE  DefaultInv'
  <2>1. op'[t] = p /\ \A u \in Admins : op'[u] = p
    BY <1>1, <1>2
  <2>2. FileFollows'
    BY <1>1, <1>2, <2>1 DEF FileFollows
  <2>3. DefaultFine'
    BY <1>1, <1>2, <2>1 DEF DefaultFine
  <2>4. QED
    BY <1>2, <2>2, <2>3 DEF DefaultInv
<1>3. /\ \/ studio # "up" \/ file = default \/ unsaved
         \/ o.pc \in {"write", "marshal", "open", "flush"}
      /\ o.pc \in {"open", "flush"} => o.snap = default
      /\ o.pc = "flush" => file = "empty"
      /\ crashes = 0 =>
            /\ o.pc \in {"assign", "write"} => Fine(o.id)
            /\ \/ Fine(default)
               \/ o.pc \in {"assign", "write"}
               \/ o.pc = "clear" /\ o.id = default
  BY <1>1 DEF DefaultInv, FileFollows, DefaultFine
<1>4. /\ call.kind # "none" /\ call.who = t => o.pc \in {"saving", "delete"}
      /\ call.who \notin Admins => call.who # t
  BY DEF DefaultInv, CallOfAdmin
(* A step that leaves the database alone is not one of a request that has  *)
(* called it.                                                              *)
<1>5. ASSUME UNCHANGED storeVars, o.pc \notin {"saving", "delete"}
      PROVE  /\ CallOfAdmin' /\ crashes' = crashes
             /\ \A i : Fine(i)' <=> Fine(i)
  BY <1>1, <1>4, <1>5 DEF storeVars, DefaultInv, CallOfAdmin, Fine
<1>6. CASE CheckDefault(t)
  <2>1. PICK i \in mem["profiles"] \union {None} : Begin(t, "assign", i)
    BY <1>6 DEF CheckDefault
  <2>2. op' = [op EXCEPT ![t] = [Idle EXCEPT !.pc = "assign", !.id = i]]
    BY <2>1, Zenon DEF Begin
  <2>3. [Idle EXCEPT !.pc = "assign", !.id = i].pc = "assign"
        /\ [Idle EXCEPT !.pc = "assign", !.id = i].id = i
    BY DEF Idle
  <2>4. UNCHANGED <<storeVars, configVars>> /\ studio = "up" /\ o.pc = "idle"
    BY <1>6 DEF CheckDefault, Serving
  <2>5. Fine(i)
    BY DEF Fine
  <2> HIDE DEF o
  <2>6. QED
    BY <1>2, <1>3, <1>5, <2>2, <2>3, <2>4, <2>5 DEF configVars
<1>7. CASE Assign(t)
  <2>1. /\ op' = [op EXCEPT ![t] = [op[t] EXCEPT !.pc = "write"]]
        /\ UNCHANGED storeVars /\ studio = "up" /\ o.pc = "assign"
    BY <1>7 DEF Assign, Then, Serving
  <2>2. [op[t] EXCEPT !.pc = "write"].pc = "write" /\ [op[t] EXCEPT !.pc = "write"].id = o.id
    BY <1>1
  <2> HIDE DEF o
  <2>3. QED
    BY <1>2, <1>3, <1>5, <2>1, <2>2
<1>8. CASE Assigned(t)
  <2>1. /\ op' = [op EXCEPT ![t] = [op[t] EXCEPT !.pc = "marshal"]]
        /\ UNCHANGED storeVars /\ studio = "up" /\ o.pc = "write"
        /\ default' = o.id
    BY <1>1, <1>8 DEF Assigned, Then, Serving
  <2>2. [op[t] EXCEPT !.pc = "marshal"].pc = "marshal"
    BY <1>1
  <2> HIDE DEF o
  <2>3. QED
    BY <1>2, <1>3, <1>5, <2>1, <2>2
<1>9. CASE Marshal(t)
  <2>1. /\ op' = [op EXCEPT ![t] = [op[t] EXCEPT !.pc = "open", !.snap = default]]
        /\ UNCHANGED <<storeVars, configVars>> /\ studio = "up" /\ o.pc = "marshal"
    BY <1>1, <1>9 DEF Marshal, Serving
  <2>2. /\ [op[t] EXCEPT !.pc = "open", !.snap = default].pc = "open"
        /\ [op[t] EXCEPT !.pc = "open", !.snap = default].snap = default
    BY <1>1
  <2> HIDE DEF o
  <2>3. QED
    BY <1>2, <1>3, <1>5, <2>1, <2>2 DEF configVars
<1>10. CASE OpenFile(t)
  <2>1. /\ op' = [op EXCEPT ![t] = [op[t] EXCEPT !.pc = "flush"]]
        /\ UNCHANGED <<storeVars, default, unsaved>> /\ studio = "up" /\ o.pc = "open"
        /\ file' = "empty"
    BY <1>10 DEF OpenFile, Then, Serving
  <2>2. [op[t] EXCEPT !.pc = "flush"].pc = "flush" /\ [op[t] EXCEPT !.pc = "flush"].snap = o.snap
    BY <1>1
  <2> HIDE DEF o
  <2>3. QED
    BY <1>2, <1>3, <1>5, <2>1, <2>2
<1>11. Idle.pc = "idle"
  BY DEF Idle
<1>12. CASE WriteFile(t)
  <2>1. /\ op' = [op EXCEPT ![t] = Idle]
        /\ UNCHANGED <<storeVars, default>> /\ studio = "up" /\ o.pc = "flush"
        /\ file = "empty" => file' = o.snap
    BY <1>12 DEF WriteFile, Done, Serving
  <2> HIDE DEF o
  <2>2. QED
    BY <1>2, <1>3, <1>5, <1>11, <2>1
<1>13. CASE FailConfig(t)
  <2>1. /\ op' = [op EXCEPT ![t] = Idle]
        /\ UNCHANGED <<storeVars, default, file>> /\ studio = "up" /\ o.pc \in {"open", "flush"}
        /\ unsaved' = TRUE
    BY <1>13 DEF FailConfig, Done
  <2> HIDE DEF o
  <2>2. QED
    BY <1>2, <1>3, <1>5, <1>11, <2>1
<1>14. CASE ClearDefault(t)
  <2>1. UNCHANGED <<storeVars, configVars>> /\ studio = "up" /\ o.pc = "clear"
    BY <1>14 DEF ClearDefault, Serving
  <2>2. CASE default = o.id
    <3>1. op' = [op EXCEPT ![t] = [Idle EXCEPT !.pc = "assign"]]
      BY <1>14, <2>2 DEF ClearDefault
    <3>2. [Idle EXCEPT !.pc = "assign"].pc = "assign" /\ [Idle EXCEPT !.pc = "assign"].id = None
      BY DEF Idle
    <3>3. Fine(None)
      BY DEF Fine
    <3> HIDE DEF o
    <3>4. QED
      BY <1>2, <1>3, <1>5, <2>1, <3>1, <3>2, <3>3 DEF configVars
  <2>3. CASE default # o.id
    <3>1. op' = [op EXCEPT ![t] = Idle]
      BY <1>14, <2>3 DEF ClearDefault, Done
    <3> HIDE DEF o
    <3>2. QED
      BY <1>2, <1>3, <1>5, <1>11, <2>1, <2>3, <3>1 DEF configVars
  <2>4. QED
    BY <2>2, <2>3
<1>15. CASE CheckId(t)
  <2>1. PICK i \in Profiles : Begin(t, "save", i)
    BY <1>15 DEF CheckId
  <2>2. op' = [op EXCEPT ![t] = [Idle EXCEPT !.pc = "save", !.id = i]]
    BY <2>1, Zenon DEF Begin
  <2>3. [Idle EXCEPT !.pc = "save", !.id = i].pc = "save"
    BY DEF Idle
  <2>4. UNCHANGED <<storeVars, configVars>> /\ studio = "up" /\ o.pc = "idle"
    BY <1>15 DEF CheckId, Serving
  <2> HIDE DEF o
  <2>5. QED
    BY <1>2, <1>3, <1>5, <2>2, <2>3, <2>4 DEF configVars
(* What a call of the database changes. *)
<1>16. CASE BeginSave(t)
  <2>1. /\ op' = [op EXCEPT ![t] = [op[t] EXCEPT !.pc = "saving"]]
        /\ UNCHANGED configVars /\ studio = "up" /\ o.pc = "save"
        /\ SaveProfile(t, o.id) /\ o.id \in Profiles
    BY <1>16 DEF BeginSave, Then, Serving, HandlerInv, SavesProfiles
  <2>2. [op[t] EXCEPT !.pc = "saving"].pc = "saving" /\ [op[t] EXCEPT !.pc = "saving"].id = o.id
    BY <1>1
  <2>3. /\ mem["profiles"] \subseteq mem'["profiles"] /\ crashes' = crashes
        /\ told' = [told EXCEPT ![o.id] = "unknown"]
        /\ call'.who = t /\ call'.kind = "put" /\ call'.id = o.id
    BY <2>1 DEF SaveProfile, Locked, StoreInv, StoreTypeOK, Tables
  <2>4. \A i : Fine(i) => Fine(i)'
    BY <2>1, <2>3 DEF Fine, StoreInv, StoreTypeOK
  <2>5. CallOfAdmin'
    BY <1>1, <2>1, <2>2, <2>3 DEF CallOfAdmin
  <2> HIDE DEF o
  <2>6. QED
    BY <1>2, <1>3, <2>1, <2>2, <2>3, <2>4, <2>5 DEF configVars
<1>17. CASE BeginDelete(t)
  <2>1. PICK i \in Profiles : DeleteProfile(t, i) /\ Begin(t, "delete", i)
    BY <1>17 DEF BeginDelete
  <2>2. op' = [op EXCEPT ![t] = [Idle EXCEPT !.pc = "delete", !.id = i]]
    BY <2>1, Zenon DEF Begin
  <2>3. /\ [Idle EXCEPT !.pc = "delete", !.id = i].pc = "delete"
        /\ [Idle EXCEPT !.pc = "delete", !.id = i].id = i
    BY DEF Idle
  <2>4. UNCHANGED configVars /\ studio = "up" /\ o.pc = "idle"
    BY <1>17 DEF BeginDelete, Serving
  <2>5. /\ mem'["profiles"] = mem["profiles"] \ {i} /\ crashes' = crashes
        /\ told' = [told EXCEPT ![i] = "unknown"]
        /\ call'.who = t /\ call'.kind = "delete" /\ call'.id = i
    BY <2>1 DEF DeleteProfile, Locked, StoreInv, StoreTypeOK, Tables
  <2>6. \A j : Fine(j) => Fine(j)'
    BY <2>5 DEF Fine, StoreInv, StoreTypeOK
  <2>7. CallOfAdmin'
    BY <1>1, <2>2, <2>3, <2>5 DEF CallOfAdmin
  <2> HIDE DEF o
  <2>8. QED
    BY <1>2, <1>3, <2>2, <2>3, <2>4, <2>5, <2>6, <2>7 DEF configVars
(* A call that has not failed promises what is in memory; a deletion is    *)
(* followed by a look at the default.                                      *)
<1>18. ASSUME Return(t)
       PROVE  /\ mem' = mem /\ crashes' = crashes /\ CallOfAdmin'
              /\ \A i : Fine(i) => Fine(i)' \/ (~ call.failed /\ call.kind = "delete" /\ i = call.id)
  <2>1. /\ call.kind # "none" /\ mem' = mem /\ crashes' = crashes /\ call'.kind = "none"
        /\ told' = IF call.failed \/ call.kind \notin {"put", "delete"} THEN told
                   ELSE [told EXCEPT ![call.id] = IF call.kind = "put" THEN "there" ELSE "gone"]
    BY <1>18 DEF Return, Unlocked
  <2>2. call.kind \in {"put", "delete"} =>
           call.id \in Profiles /\ (call.kind = "put" <=> call.id \in mem["profiles"])
    BY DEF StoreInv, CallOK
  <2>3. QED
    BY <2>1, <2>2 DEF CallOfAdmin, Fine, StoreInv, StoreTypeOK
<1>19. CASE EndDelete(t)
  <2>1. /\ UNCHANGED configVars /\ studio = "up" /\ o.pc = "delete" /\ Return(t)
        /\ op' = IF call.failed THEN [op EXCEPT ![t] = Idle]
                 ELSE [op EXCEPT ![t] = [op[t] EXCEPT !.pc = "clear"]]
    BY <1>19 DEF EndDelete, Serving, Done, Then
  <2>2. [op[t] EXCEPT !.pc = "clear"].pc = "clear" /\ [op[t] EXCEPT !.pc = "clear"].id = o.id
    BY <1>1
  <2>3. call.id = o.id
    BY <2>1 DEF Return, DefaultInv, CallOfAdmin
  <2> HIDE DEF o
  <2>4. CASE call.failed
    BY <1>2, <1>3, <1>11, <1>18, <2>1, <2>4 DEF configVars
  <2>5. CASE ~ call.failed
    BY <1>2, <1>3, <1>18, <2>1, <2>2, <2>3, <2>5 DEF configVars
  <2>6. QED
    BY <2>4, <2>5
<1>20. CASE EndSave(t)
  <2>1. /\ UNCHANGED configVars /\ studio = "up" /\ o.pc = "saving" /\ Return(t)
        /\ op' = [op EXCEPT ![t] = Idle]
    BY <1>20 DEF EndSave, Serving, Done
  <2>2. call.kind # "delete"
    BY <2>1 DEF Return, DefaultInv, CallOfAdmin
  <2> HIDE DEF o
  <2>3. QED
    BY <1>2, <1>3, <1>11, <1>18, <2>1, <2>2 DEF configVars
<1>21. QED
  BY <1>6, <1>7, <1>8, <1>9, <1>10, <1>12, <1>13, <1>14, <1>15, <1>16, <1>17, <1>19, <1>20
     DEF Administer

------------------------------------------------------------------------------
LEMMA StepKeepsDefault ==
    ASSUME OneAdmin, StoreInv, HandlerInv, DefaultInv, [Next]_vars
    PROVE  DefaultInv'
<1>1. CASE UNCHANGED vars
  BY <1>1 DEF vars, configVars, storeVars, DefaultInv, CallOfAdmin, FileFollows, DefaultFine, Fine
<1>2. ASSUME NEW t \in Admins, Administer(t) PROVE DefaultInv'
  BY <1>2, AdminKeepsDefault
<1>3. ASSUME NEW r \in Requests, Resolving(r) PROVE DefaultInv'
  BY <1>3 DEF Resolving, configVars, storeVars, DefaultInv, CallOfAdmin, FileFollows, DefaultFine,
              Fine
<1>4. CASE Background
  BY <1>4, BackgroundKeepsDefault
<1>5. crashes \in Nat /\ (studio # "up" => crashes > 0)
  BY StoreAssumption DEF StoreInv, StoreTypeOK, DefaultInv, FileFollows
<1>6. CASE Crash
  <2>1. /\ studio' = "load" /\ crashes' = crashes + 1 /\ call'.kind = "none"
        /\ \A t \in Admins : op'[t].pc = "idle"
    BY <1>6 DEF Crash, Die, Unlocked, Idle
  <2>2. QED
    BY <1>5, <2>1 DEF DefaultInv, CallOfAdmin, FileFollows, DefaultFine
<1>7. ASSUME studio # "up", op' = op, crashes' = crashes,
             studio' \in {"open", "up"} => file' = default' \/ unsaved',
             call' = call \/ (call'.kind \in {"none", "clean"} /\ call'.who = Nobody)
      PROVE  DefaultInv'
  <2>1. CallOfAdmin'
    BY <1>7, StoreAssumption, ConstAssumption DEF DefaultInv, CallOfAdmin
  <2>2. FileFollows' /\ DefaultFine'
    BY <1>5, <1>7 DEF DefaultInv, FileFollows, DefaultFine
  <2>3. QED
    BY <2>1, <2>2 DEF DefaultInv
<1>8. CASE LoadConfig
  <2>1. /\ studio = "load" /\ studio' \in {"fatal", "save"} /\ op' = op
        /\ crashes' = crashes /\ call' = call
    BY <1>8 DEF LoadConfig, storeVars
  <2>2. QED
    BY <1>7, <2>1
<1>9. CASE SaveBack
  <2>1. /\ studio \in {"save", "write"} /\ op' = op /\ crashes' = crashes /\ call' = call
        /\ studio' = "write" \/ (studio' = "open" /\ (file' = default' \/ unsaved'))
    BY <1>9 DEF SaveBack, storeVars
  <2>2. QED
    BY <1>7, <2>1
<1>10. CASE OpenStore
  <2>1. /\ studio = "open" /\ op' = op /\ UNCHANGED configVars /\ crashes' = crashes
        /\ call' = call \/ (call'.kind \in {"none", "clean"} /\ call'.who = Nobody)
    <3>1. CASE Open
      BY <1>10, <3>1 DEF OpenStore, Open, Unlocked, Locked
    <3>2. CASE UNCHANGED storeVars
      BY <1>10, <3>2 DEF OpenStore, storeVars
    <3>3. QED
      BY <1>10, <3>1, <3>2 DEF OpenStore
  <2>2. QED
    BY <1>7, <2>1 DEF DefaultInv, FileFollows, configVars
<1>11. QED
  BY <1>1, <1>2, <1>3, <1>4, <1>6, <1>8, <1>9, <1>10 DEF Next

(* With one admin, whatever fails: between two requests the default is the *)
(* one in config.json unless the last save of it failed, and until the     *)
(* studio dies it names a profile that exists, or one whose deletion       *)
(* answered with an error.                                                 *)
THEOREM DefaultsExist == ASSUME OneAdmin PROVE Spec => []DefaultExists
<1>1. Init => DefaultInv
  BY DefaultInitInv
<1>2. (StoreInv /\ HandlerInv) /\ DefaultInv /\ [Next]_vars => DefaultInv'
  BY StepKeepsDefault
<1>3. StoreInv /\ HandlerInv /\ DefaultInv => DefaultExists
  <2> SUFFICES ASSUME StoreInv, DefaultInv, Quiet
               PROVE  /\ file = default \/ unsaved
                      /\ Dangling => crashes > 0 \/ (default \in Profiles /\ told[default] = "unknown")
    BY DEF DefaultExists
  <2>1. studio = "up" /\ \A t \in Admins : op[t].pc = "idle"
    BY DEF Quiet
  <2>2. crashes \in Nat
    BY StoreAssumption DEF StoreInv, StoreTypeOK
  <2>3. file = default \/ unsaved
    BY <2>1 DEF DefaultInv, FileFollows
  <2>4. crashes = 0 => Fine(default)
    BY <2>1 DEF DefaultInv, DefaultFine
  <2>5. QED
    BY <2>2, <2>3, <2>4 DEF Dangling, Fine
<1>4. QED
  BY <1>1, <1>2, <1>3, StudioInvariant, PTL DEF Spec
==============================================================================
