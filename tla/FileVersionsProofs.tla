-------------------------- MODULE FileVersionsProofs --------------------------
(***************************************************************************)
(* Proofs about FileVersions, for any paths and any number of versions and   *)
(* hash jobs: the variables keep their types, people are told of each path a   *)
(* version adds or removes, and never twice, and the statuses a hash job        *)
(* settles are true.                                                          *)
(*                                                                         *)
(* The first half rests on FileInv (what a job has in its hands nobody was      *)
(* told of), the second on HistoryInv: while the history of the version before  *)
(* is not overtaken, a job of the latest version reads its rows and its hashes, *)
(* and keeps them until it has settled the statuses.                            *)
(***************************************************************************)
EXTENDS FileVersions, WellFoundedInduction, TLAPS

\* A job of a version has in its hands only what nobody has been told of: what
\* it is about to record was not recorded before, and what it has recorded it
\* has not told.  An added path of a version has its row.
NewsInv ==
    \A v \in Vers :
        /\ \A e \in EventKinds \X Paths :
              /\ telling[v][e] <= 1
              /\ telling[v][e] # 0 => e \in told[v]
        /\ v > latest => comp[v] = {}
        /\ added[v] \cap noted[v] = {}
        /\ fresh[v] \cap told[v] = {}
        /\ \A p \in Paths : <<"added", p>> \in noted[v] \cup added[v] => p \in comp[v] /\ ui[v][p] # "none"

FileInv == FileTypeOK /\ NewsInv

\* No change of a version is told twice.
ToldOnce == \A v \in Vers, e \in EventKinds \X Paths : telling[v][e] <= 1

-----------------------------------------------------------------------------
LEMMA Domains == LastVersion \in Nat /\ MaxRuns \in Nat /\ Vers \subseteq Nat /\ 0 \notin Vers
BY VersionsAssumption DEF Vers

\* A set of versions that is not empty has a last one.
LEMMA LastExists ==
    ASSUME NEW n \in Nat, NEW S, S \subseteq 1 .. n, S # {}
    PROVE  Max(S) \in S
<1> DEFINE T == {n - x : x \in S}
<1> DEFINE R == OpToRel(<, Nat)
<1>1. T \subseteq Nat /\ T # {}
  <2>1. \A x \in S : n - x \in Nat OBVIOUS
  <2>2. PICK x \in S : TRUE OBVIOUS
  <2>3. n - x \in T BY <2>2
  <2> QED BY <2>1, <2>3
<1>2. PICK t \in T : \A y \in T : ~ (<<y, t>> \in R)
  <2>1. IsWellFoundedOn(R, Nat) BY NatLessThanWellFounded
  <2> HIDE DEF T, R
  <2> QED BY <2>1, <1>1, WFMin
<1>3. \A y \in T : ~ (y < t)
  BY <1>1, <1>2 DEF OpToRel
<1>4. PICK x \in S : t = n - x
  OBVIOUS
<1>5. \A y \in S : x >= y
  <2> TAKE y \in S
  <2>1. ~ (n - y < n - x) BY <1>3, <1>4
  <2>2. x \in Nat /\ y \in Nat OBVIOUS
  <2> QED BY <2>1, <2>2
<1> QED BY <1>5 DEF Max

LEMMA PriorIsVersion ==
    ASSUME FileTypeOK, NEW v \in Vers
    PROVE  PriorVersion(v) \in 0 .. LastVersion
<1> DEFINE others == (1 .. latest) \ {v}
<1> DEFINE filled == {u \in others : Rows(u) # {}}
<1>1. latest \in Nat /\ latest <= LastVersion
  BY Domains DEF FileTypeOK
<1>2. others \subseteq 1 .. latest /\ filled \subseteq 1 .. latest
  OBVIOUS
<1>3. filled # {} => Max(filled) \in filled
  BY <1>1, <1>2, LastExists
<1>4. others # {} => Max(others) \in others
  BY <1>1, <1>2, LastExists
<1>5. PriorVersion(v) = IF filled # {} THEN Max(filled) ELSE IF others # {} THEN Max(others) ELSE 0
  BY DEF PriorVersion
<1>6. \A u \in 1 .. latest : u \in 0 .. LastVersion
  BY <1>1, Domains
<1> HIDE DEF others, filled
<1>7. CASE filled # {} BY <1>2, <1>3, <1>5, <1>6, <1>7
<1>8. CASE filled = {} /\ others # {} BY <1>2, <1>4, <1>5, <1>6, <1>8
<1>9. CASE filled = {} /\ others = {} BY <1>5, <1>9, Domains
<1> QED BY <1>7, <1>8, <1>9

\* Writing rows anew: types stay, and a row of the composition is there.
LEMMA RowsWritten ==
    ASSUME FileTypeOK, NEW S
    PROVE  /\ WithRows(S) \in [Vers -> [Paths -> {"none", "new", "changed", "ok"}]]
           /\ \A v \in Vers, p \in Paths : p \in comp[v] /\ ui[v][p] # "none" => WithRows(S)[v][p] # "none"
           /\ \A v \in Vers, p \in Paths : v \in S /\ p \in comp[v] => WithRows(S)[v][p] # "none"
BY DEF WithRows, Provisional, FileTypeOK

-----------------------------------------------------------------------------
LEMMA InitInv == FileInit => FileInv
BY Domains DEF FileInit, FileInv, FileTypeOK, NewsInv, NoHashes, NoEvents, Vers

LEMMA RecordStep ==
    ASSUME FileInv, NEW v \in Vers, NEW from \in JobSteps, NEW to \in JobSteps, Record(v, from, to),
           older' \in [Vers -> [Paths -> 0 .. LastVersion]], unhashed' \in [Vers -> SUBSET Paths]
    PROVE  FileInv'
<1> USE Domains DEF Record, JobAt, FileInv, FileTypeOK, verVars, diskVars
<1>1. FileTypeOK'
  <2>1. \A u \in Vers : told'[u] \subseteq noted'[u] /\ fresh'[u] \subseteq noted'[u] OBVIOUS
  <2>2. noted' \in [Vers -> SUBSET (EventKinds \X Paths)] OBVIOUS
  <2> QED BY <2>1, <2>2 DEF FileTypeOK
<1>2. NewsInv'
  <2> SUFFICES ASSUME NEW u \in Vers
               PROVE  /\ added'[u] \cap noted'[u] = {}
                      /\ fresh'[u] \cap told'[u] = {}
                      /\ \A p \in Paths : <<"added", p>> \in noted'[u] \cup added'[u] => p \in comp[u] /\ ui[u][p] # "none"
    BY DEF NewsInv
  <2>1. CASE u = v BY <2>1 DEF NewsInv
  <2>2. CASE u # v BY <2>2 DEF NewsInv
  <2> QED BY <2>1, <2>2
<1> QED BY <1>1, <1>2

\* The end of a job, told or not, that told the events N.
LEMMA EndStep ==
    ASSUME FileInv, NEW v \in Vers, NEW s \in {"none", "success", "quiet"}, EndJob(v, s),
           UNCHANGED <<verVars, diskVars, digest, ui, noted, runs, settled, unread>>
    PROVE  /\ job' \in [Vers -> {"none", "success", "quiet"} \cup JobSteps]
           /\ base' \in [Vers -> 0 .. LastVersion] /\ firsts' \in [Vers -> SUBSET Paths]
           /\ added' \in [Vers -> SUBSET (EventKinds \X Paths)]
           /\ older' \in [Vers -> [Paths -> 0 .. LastVersion]] /\ unhashed' \in [Vers -> SUBSET Paths]
           /\ fresh' \in [Vers -> SUBSET (EventKinds \X Paths)]
           /\ \A u \in Vers : added'[u] \in {{}, added[u]} /\ fresh'[u] = (IF u = v THEN {} ELSE fresh[u])
<1> USE Domains DEF FileInv, FileTypeOK, EndJob, JobAt
<1>1. NoHashes \in [Paths -> 0 .. LastVersion] BY DEF NoHashes
<1>2. base' \in [Vers -> 0 .. LastVersion] OBVIOUS
<1>3. older' \in [Vers -> [Paths -> 0 .. LastVersion]] BY <1>1
<1>4. ASSUME NEW u \in Vers PROVE added'[u] \in {{}, added[u]} /\ fresh'[u] = (IF u = v THEN {} ELSE fresh[u])
  <2>0. DOMAIN added = Vers /\ fresh' = [fresh EXCEPT ![v] = {}] /\ added' = [added EXCEPT ![v] = {}] OBVIOUS
  <2>1. CASE u = v BY <2>0, <2>1
  <2>2. CASE u # v BY <2>0, <2>2
  <2> QED BY <2>1, <2>2
<1>5. job' \in [Vers -> {"none", "success", "quiet"} \cup JobSteps] OBVIOUS
<1>6. firsts' \in [Vers -> SUBSET Paths] /\ unhashed' \in [Vers -> SUBSET Paths] OBVIOUS
<1>7. added' \in [Vers -> SUBSET (EventKinds \X Paths)] OBVIOUS
<1>8. fresh' \in [Vers -> SUBSET (EventKinds \X Paths)]
  <2>1. fresh \in [Vers -> SUBSET (EventKinds \X Paths)] OBVIOUS
  <2>2. fresh' = [fresh EXCEPT ![v] = {}] OBVIOUS
  <2> QED BY <2>1, <2>2
<1> QED BY <1>8, <1>2, <1>3, <1>4, <1>5, <1>6, <1>7

LEMMA NextInv == FileInv /\ [FileNext]_fileVars => FileInv'
<1> SUFFICES ASSUME FileInv, [FileNext]_fileVars PROVE FileInv' OBVIOUS
<1> USE Domains DEF FileInv
<1>1. ASSUME NEW C \in SUBSET Paths, NEW D \in SUBSET Paths, Publish(C, D) PROVE FileInv'
  <2> DEFINE w == latest + 1
  <2>1. w \in Vers /\ latest \in Nat
    BY <1>1 DEF Publish, FileTypeOK, Vers
  <2>2. contents' \in [Vers -> [Paths -> 0 .. LastVersion]]
    <3>1. latest # 0 => latest \in Vers
      BY <2>1 DEF FileTypeOK, Vers
    <3>2. (IF latest = 0 THEN NoHashes ELSE contents[latest]) \in [Paths -> 0 .. LastVersion]
      BY <3>1 DEF FileTypeOK, NoHashes
    <3> DEFINE old == IF latest = 0 THEN NoHashes ELSE contents[latest]
    <3>3. w \in 0 .. LastVersion /\ 0 \in 0 .. LastVersion
      BY <2>1 DEF Vers
    <3>4. [p \in Paths |-> IF p \in D THEN w ELSE IF p \in C THEN old[p] ELSE 0] \in [Paths -> 0 .. LastVersion]
      BY <3>2, <3>3
    <3> QED BY <1>1, <2>1, <3>4 DEF Publish, FileTypeOK
  <2>3. FileTypeOK'
    <3>1. latest' = w /\ latest' \in 0 .. LastVersion /\ onMaster' \subseteq 1 .. latest'
      BY <1>1, <2>1 DEF Publish, FileTypeOK, Vers, diskVars
    <3>2. comp' \in [Vers -> SUBSET Paths]
      BY <1>1, <2>1 DEF Publish, FileTypeOK
    <3>3. overtaken' \subseteq Vers \X Paths
      BY <1>1, <2>1 DEF Publish, FileTypeOK
    <3> QED BY <1>1, <2>2, <3>1, <3>2, <3>3 DEF Publish, FileTypeOK, newsVars, jobLocals, diskVars
  <2>4. NewsInv'
    <3> SUFFICES ASSUME NEW u \in Vers, NEW p \in Paths, <<"added", p>> \in noted[u] \cup added[u]
                 PROVE  p \in comp'[u]
      BY <1>1, <2>1 DEF Publish, NewsInv, newsVars, jobLocals, FileTypeOK
    <3> QED BY <1>1, <2>1 DEF Publish, NewsInv, FileTypeOK
  <2> QED BY <2>3, <2>4
<1>2. ASSUME NEW v \in Vers, EarlySync(v) PROVE FileInv'
  <2>1. ui' \in [Vers -> [Paths -> {"none", "new", "changed", "ok"}]]
    <3>1. ui' = ui \/ ui' = WithRows({v}) BY <1>2 DEF EarlySync
    <3>2. ui \in [Vers -> [Paths -> {"none", "new", "changed", "ok"}]] BY DEF FileTypeOK
    <3> QED BY <3>1, <3>2, RowsWritten
  <2>2. \A u \in Vers, p \in Paths : p \in comp[u] /\ ui[u][p] # "none" => ui'[u][p] # "none"
    BY <1>2, RowsWritten DEF EarlySync
  <2>3. v \in 1 .. latest BY <1>2 DEF EarlySync, FileTypeOK, Vers
  <2>4. FileTypeOK'
    BY <1>2, <2>1, <2>3 DEF EarlySync, FileTypeOK, verVars, newsVars, jobLocals
  <2>5. NewsInv'
    BY <1>2, <2>2 DEF EarlySync, NewsInv, verVars, newsVars, jobLocals
  <2> QED BY <2>4, <2>5
<1>3. ASSUME Inventory PROVE FileInv'
  <2>1. ui' \in [Vers -> [Paths -> {"none", "new", "changed", "ok"}]]
    BY <1>3, RowsWritten DEF Inventory, FileTypeOK
  <2>2. \A u \in Vers, p \in Paths : p \in comp[u] /\ ui[u][p] # "none" => ui'[u][p] # "none"
    BY <1>3, RowsWritten DEF Inventory
  <2>3. FileTypeOK'
    BY <1>3, <2>1 DEF Inventory, FileTypeOK, verVars, diskVars, newsVars, jobLocals
  <2>4. NewsInv'
    BY <1>3, <2>2 DEF Inventory, NewsInv, verVars, newsVars, jobLocals
  <2> QED BY <2>3, <2>4
<1>4. ASSUME NEW p \in Paths, Land(p) PROVE FileInv'
  <2>1. latest \in Vers
    BY <1>4 DEF Land, FileTypeOK, Vers
  <2>2. FileTypeOK'
    <3>1. disk' \in [Paths -> 0 .. LastVersion]
      BY <1>4, <2>1 DEF Land, FileTypeOK
    <3> QED BY <1>4, <3>1 DEF Land, FileTypeOK, verVars, newsVars, jobLocals
  <2>3. NewsInv'
    BY <1>4 DEF Land, NewsInv, verVars, newsVars, jobLocals
  <2> QED BY <2>2, <2>3
<1>5. ASSUME NEW v \in Vers, Unload(v) PROVE FileInv'
  BY <1>5 DEF Unload, FileTypeOK, NewsInv, verVars, newsVars, jobLocals
<1>6. ASSUME NEW p \in Paths, BackfillHash(p) PROVE FileInv'
  <2>1. latest \in Vers
    BY <1>6 DEF BackfillHash, FileTypeOK, Vers
  <2>2. FileTypeOK'
    <3>1. digest' \in [Paths -> 0 .. LastVersion]
      BY <1>6 DEF BackfillHash, FileTypeOK
    <3>2. overtaken' \subseteq Vers \X Paths
      BY <1>6, <2>1 DEF BackfillHash, Overtakes, FileTypeOK
    <3> QED BY <1>6, <3>1, <3>2 DEF BackfillHash, FileTypeOK, verVars, diskVars, newsVars, jobLocals
  <2>3. NewsInv'
    BY <1>6 DEF BackfillHash, NewsInv, verVars, newsVars, jobLocals
  <2> QED BY <2>2, <2>3
<1>7. ASSUME NEW v \in Vers, StartJob(v) PROVE FileInv'
  <2>1. job' \in [Vers -> {"none", "success", "quiet"} \cup JobSteps] /\ runs' \in 0 .. MaxRuns
    BY <1>7 DEF StartJob, JobAt, FileTypeOK, JobSteps
  <2>2. FileTypeOK'
    BY <1>7, <2>1 DEF StartJob, FileTypeOK, verVars, diskVars, newsVars, jobLocals
  <2>3. NewsInv'
    BY <1>7 DEF StartJob, NewsInv, verVars, newsVars, jobLocals
  <2> QED BY <2>2, <2>3
<1>8. ASSUME NEW v \in Vers, SyncRows(v) PROVE FileInv'
  <2>1. ui' \in [Vers -> [Paths -> {"none", "new", "changed", "ok"}]]
    BY <1>8, RowsWritten DEF SyncRows, FileTypeOK
  <2>2. /\ \A u \in Vers, p \in Paths : p \in comp[u] /\ ui[u][p] # "none" => ui'[u][p] # "none"
        /\ \A p \in comp[v] : ui'[v][p] # "none"
    <3>1. ui' = WithRows({v}) /\ comp[v] \subseteq Paths BY <1>8 DEF SyncRows, FileTypeOK
    <3> QED BY <3>1, RowsWritten
  <2>3. EventsOfSync(v) \in SUBSET (EventKinds \X Paths)
    <3>1. comp[v] \subseteq Paths /\ "added" \in EventKinds /\ "removed" \in EventKinds
      BY DEF EventKinds, FileTypeOK
    <3> SUFFICES ASSUME NEW e \in EventsOfSync(v) PROVE e \in EventKinds \X Paths OBVIOUS
    <3>2. CASE \E p \in comp[v] : e = <<"added", p>> BY <3>1, <3>2
    <3>3. CASE \E p \in Paths : e = <<"removed", p>> BY <3>1, <3>3
    <3> QED BY <3>2, <3>3 DEF EventsOfSync
  <2>4. \A p \in Paths : <<"added", p>> \in EventsOfSync(v) => p \in comp[v]
    BY DEF EventsOfSync
  <2>5. EventsOfSync(v) \cap noted[v] = {}
    <3> SUFFICES ASSUME NEW e \in EventsOfSync(v) PROVE e \notin noted[v] OBVIOUS
    <3>1. CASE \E p \in comp[v] : e = <<"added", p>> /\ (ui[v][p] = "none" \/ <<"added", p>> \notin noted[v])
      BY <3>1 DEF NewsInv, FileTypeOK
    <3>2. CASE \E p \in Paths : e = <<"removed", p>> /\ <<"removed", p>> \notin noted[v]
      BY <3>2
    <3> QED BY <3>1, <3>2 DEF EventsOfSync
  <2>6. FileTypeOK'
    <3>1. base' \in [Vers -> 0 .. LastVersion]
      BY <1>8, PriorIsVersion DEF SyncRows, FileTypeOK
    <3>2. firsts' \in [Vers -> SUBSET Paths] /\ added' \in [Vers -> SUBSET (EventKinds \X Paths)]
      BY <1>8, <2>3 DEF SyncRows, FileTypeOK
    <3>3. job' \in [Vers -> {"none", "success", "quiet"} \cup JobSteps]
      BY <1>8 DEF SyncRows, JobAt, FileTypeOK, JobSteps
    <3> QED BY <1>8, <2>1, <3>1, <3>2, <3>3 DEF SyncRows, FileTypeOK, verVars, diskVars, newsVars
  <2>7. NewsInv'
    <3> SUFFICES ASSUME NEW u \in Vers
                 PROVE  /\ added'[u] \cap noted[u] = {}
                        /\ \A p \in Paths : <<"added", p>> \in noted[u] \cup added'[u] => p \in comp[u] /\ ui'[u][p] # "none"
      BY <1>8 DEF SyncRows, NewsInv, verVars, newsVars
    <3>1. CASE u = v
      <4>1. added'[v] = EventsOfSync(v) BY <1>8 DEF SyncRows, FileTypeOK
      <4> QED BY <2>2, <2>4, <2>5, <3>1, <4>1 DEF NewsInv
    <3>2. CASE u # v
      <4>1. added'[u] = added[u] BY <1>8, <3>2 DEF SyncRows, FileTypeOK
      <4> QED BY <2>2, <3>2, <4>1 DEF NewsInv
    <3> QED BY <3>1, <3>2
  <2> QED BY <2>6, <2>7
<1>9. ASSUME NEW v \in Vers, RecordComposition(v) PROVE FileInv'
  <2>1. older' \in [Vers -> [Paths -> 0 .. LastVersion]]
    <3>1. [p \in Paths |-> IF base[v] # 0 /\ p \in Rows(base[v]) THEN digest[p] ELSE 0] \in [Paths -> 0 .. LastVersion]
      BY DEF FileTypeOK
    <3> QED BY <1>9, <3>1 DEF RecordComposition, FileTypeOK
  <2>2. unhashed' \in [Vers -> SUBSET Paths]
    BY <1>9 DEF RecordComposition, FileTypeOK
  <2> QED BY <1>9, <2>1, <2>2, RecordStep DEF RecordComposition, JobSteps
<1>10. ASSUME NEW v \in Vers, NEW p \in Paths, HashPath(v, p) PROVE FileInv'
  <2>1. Overtakes(p) \subseteq Vers \X Paths
    BY DEF Overtakes
  <2>2. overtaken' \subseteq Vers \X Paths
    BY <1>10, <2>1 DEF HashPath, FileTypeOK
  <2>3. FileTypeOK'
    BY <1>10, <2>2 DEF HashPath, FileTypeOK, verVars, diskVars, newsVars
  <2>4. NewsInv'
    BY <1>10 DEF HashPath, NewsInv, verVars, newsVars
  <2> QED BY <2>3, <2>4
<1>11. ASSUME NEW v \in Vers, SettleStatuses(v) PROVE FileInv'
  <2> DEFINE mods == {<<"modified", p>> : p \in {q \in comp[v] :
                          base[v] # 0 /\ Mismatch(v, q) /\ <<"modified", q>> \notin noted[v]}}
  <2>1. \A p \in Paths : /\ SettledStatus(v, p) \in {"none", "new", "changed", "ok"}
                         /\ ui[v][p] # "none" => SettledStatus(v, p) # "none"
    BY DEF SettledStatus, FileTypeOK
  <2>2. /\ ui' \in [Vers -> [Paths -> {"none", "new", "changed", "ok"}]]
        /\ \A u \in Vers, p \in Paths : ui[u][p] # "none" => ui'[u][p] # "none"
    BY <1>11, <2>1 DEF SettleStatuses, FileTypeOK
  <2>3. mods \in SUBSET (EventKinds \X Paths) /\ mods \cap noted[v] = {} /\ \A p \in Paths : <<"added", p>> \notin mods
    <3>1. comp[v] \subseteq Paths /\ "modified" \in EventKinds
      BY DEF EventKinds, FileTypeOK
    <3>2. \A e \in mods : \E p \in comp[v] : e = <<"modified", p>> /\ e \notin noted[v]
      OBVIOUS
    <3> HIDE DEF mods
    <3>3. ASSUME NEW e \in mods PROVE e \in EventKinds \X Paths /\ e \notin noted[v] /\ e[1] = "modified"
      <4>1. PICK p \in comp[v] : e = <<"modified", p>> /\ e \notin noted[v] BY <3>2
      <4> QED BY <3>1, <4>1
    <3>4. ASSUME NEW p \in Paths PROVE <<"added", p>> \notin mods
      <4>1. <<"added", p>>[1] # "modified" OBVIOUS
      <4> QED BY <3>3, <4>1
    <3> QED BY <3>3, <3>4
  <2>4. added' = [added EXCEPT ![v] = mods]
    BY <1>11 DEF SettleStatuses
  <2> HIDE DEF mods
  <2>5. FileTypeOK'
    <3>1. job' \in [Vers -> {"none", "success", "quiet"} \cup JobSteps]
      BY <1>11 DEF SettleStatuses, JobAt, FileTypeOK, JobSteps
    <3>2. added' \in [Vers -> SUBSET (EventKinds \X Paths)]
      BY <2>3, <2>4 DEF FileTypeOK
    <3>3. unread' \in [Vers -> SUBSET Paths]
      <4>1. {p \in comp[v] : digest[p] # disk[p]} \subseteq Paths
        BY DEF FileTypeOK
      <4> QED BY <1>11, <4>1 DEF SettleStatuses, FileTypeOK
    <3> QED BY <1>11, <2>2, <3>1, <3>2, <3>3 DEF SettleStatuses, FileTypeOK, verVars, diskVars, newsVars
  <2>6. NewsInv'
    <3> SUFFICES ASSUME NEW u \in Vers
                 PROVE  /\ added'[u] \cap noted[u] = {}
                        /\ \A p \in Paths : <<"added", p>> \in noted[u] \cup added'[u] => p \in comp[u] /\ ui'[u][p] # "none"
      BY <1>11 DEF SettleStatuses, NewsInv, verVars, newsVars
    <3>1. CASE u = v
      BY <2>2, <2>3, <2>4, <3>1 DEF NewsInv, FileTypeOK
    <3>2. CASE u # v
      BY <2>2, <2>4, <3>2 DEF NewsInv, FileTypeOK
    <3> QED BY <3>1, <3>2
  <2> QED BY <2>5, <2>6
<1>12. ASSUME NEW v \in Vers, RecordChanges(v) PROVE FileInv'
  BY <1>12, RecordStep DEF RecordChanges, JobSteps, FileTypeOK
<1>13. ASSUME NEW v \in Vers, Tell(v) PROVE FileInv'
  <2> DEFINE all == fresh[v] \cup PendingOf(v)
  <2> DEFINE news == IF base[v] = 0 THEN {e \in all : e[1] = "added"} ELSE all
  <2>1. EndJob(v, "success") /\ UNCHANGED <<verVars, diskVars, digest, ui, noted, runs, settled, unread, overtaken>>
    BY <1>13 DEF Tell
  <2>2. news \subseteq noted[v] /\ news \cap told[v] = {}
    BY DEF PendingOf, NewsInv, FileTypeOK
  <2>3. told' = [told EXCEPT ![v] = told[v] \cup news]
    BY <1>13 DEF Tell
  <2>4. telling' = [telling EXCEPT ![v] = [e \in EventKinds \X Paths |-> IF e \in news THEN telling[v][e] + 1 ELSE telling[v][e]]]
    BY <1>13 DEF Tell
  <2> HIDE DEF news
  <2>5. FileTypeOK'
    <3>1. told' \in [Vers -> SUBSET (EventKinds \X Paths)] /\ \A u \in Vers : told'[u] \subseteq noted'[u]
      BY <2>1, <2>2, <2>3 DEF FileTypeOK
    <3>2. telling' \in [Vers -> [EventKinds \X Paths -> Nat]]
      BY <2>4 DEF FileTypeOK
    <3>3. \A u \in Vers : fresh'[u] \subseteq noted'[u]
      BY <2>1, EndStep DEF FileTypeOK
    <3>4. /\ job' \in [Vers -> {"none", "success", "quiet"} \cup JobSteps]
          /\ base' \in [Vers -> 0 .. LastVersion] /\ firsts' \in [Vers -> SUBSET Paths]
          /\ added' \in [Vers -> SUBSET (EventKinds \X Paths)]
          /\ older' \in [Vers -> [Paths -> 0 .. LastVersion]] /\ unhashed' \in [Vers -> SUBSET Paths]
          /\ fresh' \in [Vers -> SUBSET (EventKinds \X Paths)]
      BY <2>1, EndStep
    <3>5. UNCHANGED <<latest, comp, contents, onMaster, disk, digest, ui, noted, runs, settled, unread>>
      BY <2>1 DEF verVars, diskVars
    <3>6. overtaken' = overtaken BY <2>1
    <3> QED BY <3>1, <3>2, <3>3, <3>4, <3>5, <3>6 DEF FileTypeOK
  <2>6. NewsInv'
    <3>1. ASSUME NEW u \in Vers, NEW e \in EventKinds \X Paths
          PROVE  telling'[u][e] <= 1 /\ (telling'[u][e] # 0 => e \in told'[u])
      <4>1. telling[u][e] \in Nat /\ telling[u][e] <= 1 /\ (telling[u][e] # 0 => e \in told[u])
        BY DEF NewsInv, FileTypeOK
      <4>2. CASE u = v
        BY <2>2, <2>3, <2>4, <4>1, <4>2 DEF FileTypeOK
      <4>3. CASE u # v
        BY <2>3, <2>4, <4>1, <4>3 DEF FileTypeOK
      <4> QED BY <4>2, <4>3
    <3>2. ASSUME NEW u \in Vers PROVE fresh'[u] \cap told'[u] = {}
      BY <2>1, <2>3, EndStep DEF NewsInv, FileTypeOK
    <3>3. ASSUME NEW u \in Vers PROVE added'[u] \in {{}, added[u]}
      BY <2>1, EndStep
    <3> QED BY <2>1, <3>1, <3>2, <3>3 DEF NewsInv, verVars
  <2> QED BY <2>5, <2>6
<1>14. ASSUME NEW v \in Vers, BreakJob(v) PROVE FileInv'
  <2>1. EndJob(v, "none") /\ UNCHANGED <<verVars, diskVars, digest, ui, newsVars, runs, settled, unread>>
    BY <1>14 DEF BreakJob
  <2>2. overtaken' \subseteq Vers \X Paths
    <3>1. \A p \in Paths : Overtakes(p) \subseteq Vers \X Paths
      BY DEF Overtakes
    <3>2. comp[v] \subseteq Paths /\ overtaken \subseteq Vers \X Paths
      BY DEF FileTypeOK
    <3> QED BY <1>14, <3>1, <3>2 DEF BreakJob
  <2>3. FileTypeOK'
    <3>1. \A u \in Vers : fresh'[u] \subseteq noted'[u]
      BY <2>1, EndStep DEF FileTypeOK, newsVars
    <3>2. /\ job' \in [Vers -> {"none", "success", "quiet"} \cup JobSteps]
          /\ base' \in [Vers -> 0 .. LastVersion] /\ firsts' \in [Vers -> SUBSET Paths]
          /\ added' \in [Vers -> SUBSET (EventKinds \X Paths)]
          /\ older' \in [Vers -> [Paths -> 0 .. LastVersion]] /\ unhashed' \in [Vers -> SUBSET Paths]
          /\ fresh' \in [Vers -> SUBSET (EventKinds \X Paths)]
      BY <2>1, EndStep DEF newsVars
    <3>3. UNCHANGED <<latest, comp, contents, onMaster, disk, digest, ui, noted, runs, settled, unread>>
      BY <2>1 DEF verVars, diskVars, newsVars
    <3>4. UNCHANGED <<told, telling>> BY <2>1 DEF newsVars
    <3> QED BY <2>2, <3>1, <3>2, <3>3, <3>4 DEF FileTypeOK
  <2>4. NewsInv'
    <3>1. ASSUME NEW u \in Vers
          PROVE  added'[u] \in {{}, added[u]} /\ fresh'[u] \in {{}, fresh[u]}
      BY <2>1, EndStep DEF newsVars
    <3> QED BY <2>1, <3>1 DEF NewsInv, verVars, newsVars
  <2> QED BY <2>3, <2>4
<1>15. ASSUME NEW v \in Vers, NEW p \in Paths, SkipPath(v, p) PROVE FileInv'
  <2>1. FileTypeOK'
    BY <1>15 DEF SkipPath, FileTypeOK, verVars, diskVars, newsVars
  <2>2. NewsInv'
    BY <1>15 DEF SkipPath, NewsInv, verVars, newsVars
  <2> QED BY <2>1, <2>2
<1>16. ASSUME NEW v \in Vers, KeepQuiet(v) PROVE FileInv'
  <2>1. EndJob(v, "quiet") /\ UNCHANGED <<verVars, diskVars, digest, ui, newsVars, runs, settled, unread, overtaken>>
    BY <1>16 DEF KeepQuiet
  <2>2. FileTypeOK'
    <3>1. \A u \in Vers : fresh'[u] \subseteq noted'[u]
      BY <2>1, EndStep DEF FileTypeOK, newsVars
    <3>2. /\ job' \in [Vers -> {"none", "success", "quiet"} \cup JobSteps]
          /\ base' \in [Vers -> 0 .. LastVersion] /\ firsts' \in [Vers -> SUBSET Paths]
          /\ added' \in [Vers -> SUBSET (EventKinds \X Paths)]
          /\ older' \in [Vers -> [Paths -> 0 .. LastVersion]] /\ unhashed' \in [Vers -> SUBSET Paths]
          /\ fresh' \in [Vers -> SUBSET (EventKinds \X Paths)]
      BY <2>1, EndStep DEF newsVars
    <3>3. UNCHANGED <<latest, comp, contents, onMaster, disk, digest, ui, noted, told, telling, runs, settled, unread, overtaken>>
      BY <2>1 DEF verVars, diskVars, newsVars
    <3> QED BY <3>1, <3>2, <3>3 DEF FileTypeOK
  <2>3. NewsInv'
    <3>1. ASSUME NEW u \in Vers
          PROVE  added'[u] \in {{}, added[u]} /\ fresh'[u] \in {{}, fresh[u]}
      BY <2>1, EndStep DEF newsVars
    <3> QED BY <2>1, <3>1 DEF NewsInv, verVars, newsVars
  <2> QED BY <2>2, <2>3
<1>17. CASE UNCHANGED fileVars
  BY <1>17 DEF fileVars, verVars, diskVars, newsVars, jobLocals, FileTypeOK, NewsInv
<1> QED BY <1>1, <1>2, <1>3, <1>4, <1>5, <1>6, <1>7, <1>8, <1>9, <1>10, <1>11, <1>12, <1>13, <1>14, <1>15, <1>16, <1>17
    DEF FileNext, JobStep

\* FileVersions keeps the types of its variables.
THEOREM FileTypesKept == FileSpec => []FileTypeOK
<1>1. FileInv => FileTypeOK BY DEF FileInv
<1> QED BY <1>1, InitInv, NextInv, PTL DEF FileSpec

\* People are told of a change of a version at most once, whatever runs of the
\* hash job break off and are repeated (track_torrent, _unnotified_events).
THEOREM NoNewsTwice == FileSpec => []ToldOnce
<1>1. FileInv => ToldOnce BY DEF FileInv, NewsInv, ToldOnce
<1> QED BY <1>1, InitInv, NextInv, PTL DEF FileSpec

-----------------------------------------------------------------------------
(* The latest version in comparison with the one before it.                  *)

New(p) == latest = 1 \/ p \notin comp[latest - 1]
Hashed(p) == job[latest] = "hashing" /\ p \in comp[latest] \ unhashed[latest]

\* The statuses of the latest version are not settled, or p was settled unread.
Open(p) == latest \notin settled \/ p \in unread[latest]

\* Something of the version before was known when the latest came.
Informed == latest # 0 /\ \E p \in Paths : <<latest, p>> \notin overtaken

\* A version has all its rows or none, and a job that is past them has written
\* them.
RowsInv ==
    /\ \A v \in Vers :
          /\ Rows(v) \in {{}, comp[v]}
          /\ job[v] \in {"synced", "hashing"} => Rows(v) = comp[v]
          /\ v > latest => job[v] = "none" /\ v \notin settled /\ comp[v] = {}
          /\ \A p \in comp[v] : contents[v][p] # 0
    /\ Informed /\ latest > 1 => Rows(latest - 1) # {}

\* Once a job of it has begun the latest version stays on the disk.
DiskInv == latest # 0 =>
    /\ job[latest] \in JobSteps \/ latest \in settled => Complete(latest)
    /\ \A p \in comp[latest] : ~Open(p) => digest[p] = contents[latest][p]
    /\ job[latest] = "hashing" => unhashed[latest] \subseteq comp[latest]

\* Unless they were overtaken, the hashes of the version before are there until
\* a job replaces them, and then in its hands; what it could not read keeps them.
OldInv == latest > 1 =>
    /\ \A p \in comp[latest - 1] : <<latest, p>> \notin overtaken /\ Open(p) =>
          /\ digest[p] = contents[latest - 1][p] \/ (Hashed(p) /\ digest[p] = contents[latest][p])
          /\ job[latest] = "hashing" => older[latest][p] = contents[latest - 1][p]
    /\ \A p \in comp[latest] : job[latest] = "hashing" /\ ~Open(p) =>
          older[latest][p] \in {0, contents[latest][p]}

\* True, or a change that was not read and passes for none.
Honest(p) ==
    \/ ui[latest][p] = TrueStatus(latest, p)
    \/ p \in unread[latest] /\ TrueStatus(latest, p) = "changed" /\ ui[latest][p] = "ok"

StatusInv == latest # 0 =>
    /\ latest \notin settled => \A p \in Paths : ui[latest][p] # "changed"
    /\ \A p \in comp[latest] : <<latest, p>> \notin overtaken =>
          /\ latest \in settled => Honest(p)
          /\ New(p) /\ job[latest] \in {"synced", "hashing"} => ui[latest][p] = "new"

\* What the latest version adds and removes.
NewsOf ==
    {<<"added", p>> : p \in {q \in comp[latest] : New(q)}}
    \cup {<<"removed", p>> : p \in {q \in Paths : latest > 1 /\ q \in comp[latest - 1] \ comp[latest]}}

\* What a job has read of it, recorded and told.
RunInv == Informed =>
    /\ job[latest] \in {"synced", "hashing", "settled", "telling"} => base[latest] = latest - 1
    /\ job[latest] \in {"synced", "hashing"} => firsts[latest] = {p \in comp[latest] : New(p)}
    /\ job[latest] = "synced" => NewsOf \subseteq noted[latest] \cup added[latest]
    /\ job[latest] \in {"hashing", "settled", "telling"} => NewsOf \subseteq noted[latest]
    /\ job[latest] = "success" => NewsOf \subseteq told[latest]

HistoryInv == RowsInv /\ DiskInv /\ OldInv /\ StatusInv /\ RunInv

LEMMA LatestIsVersion ==
    ASSUME FileTypeOK
    PROVE  /\ latest \in Nat
           /\ latest # 0 => latest \in Vers
           /\ latest > 1 => latest - 1 \in Vers /\ latest - 1 # latest
           /\ \A v \in Vers : comp[v] \subseteq Paths /\ v \in Nat
BY Domains DEF FileTypeOK, Vers

\* Then the prior version is the one before.
LEMMA PriorIsPrevious ==
    ASSUME FileTypeOK, RowsInv, Informed
    PROVE  /\ PriorVersion(latest) = latest - 1
           /\ \A p \in Paths : FirstSeen(latest, p) <=> New(p)
           /\ latest > 1 => Rows(latest - 1) = comp[latest - 1]
<1> DEFINE others == (1 .. latest) \ {latest}
           filled == {u \in others : Rows(u) # {}}
<1>0. PriorVersion(latest) = IF filled # {} THEN Max(filled) ELSE IF others # {} THEN Max(others) ELSE 0
  BY DEF PriorVersion
<1>1. latest \in Vers /\ latest \in Nat /\ latest # 0 /\ others = 1 .. latest - 1
  BY LatestIsVersion DEF Informed
<1>2. CASE latest = 1
  <2>1. others = {} /\ filled = {}
    BY <1>1, <1>2
  <2>2. PriorVersion(latest) = latest - 1
    BY <1>0, <1>2, <2>1
  <2> QED BY <1>2, <2>2 DEF FirstSeen, New
<1>3. CASE latest > 1
  <2>1. Rows(latest - 1) = comp[latest - 1] /\ Rows(latest - 1) # {}
    BY <1>3, LatestIsVersion DEF RowsInv
  <2>2. latest - 1 \in filled /\ \A y \in filled : y \in Nat /\ latest - 1 >= y
    BY <1>1, <1>3, <2>1
  <2> HIDE DEF filled
  <2>3. Max(filled) = latest - 1
    BY <1>1, <2>2 DEF Max
  <2>4. PriorVersion(latest) = latest - 1 /\ latest - 1 # 0
    BY <1>0, <1>1, <1>3, <2>2, <2>3
  <2> QED BY <1>1, <1>3, <2>1, <2>4 DEF FirstSeen, New
<1> QED BY <1>1, <1>2, <1>3

-----------------------------------------------------------------------------
(* What a step leaves alone.                                                 *)

LEMMA DiskFrame ==
    ASSUME FileTypeOK, DiskInv, OldInv, UNCHANGED <<verVars, disk, digest>>, overtaken \subseteq overtaken',
           latest # 0 => /\ job'[latest] = job[latest] /\ (latest \in settled' <=> latest \in settled)
                         /\ unhashed'[latest] = unhashed[latest] /\ older'[latest] = older[latest]
                         /\ unread'[latest] = unread[latest]
    PROVE  DiskInv' /\ OldInv'
<1>1. UNCHANGED <<latest, comp, contents>>
  BY DEF verVars
<1>2. DiskInv'
  BY <1>1 DEF DiskInv, Open, Complete
<1>3. OldInv'
  BY <1>1, LatestIsVersion DEF OldInv, Open, Hashed
<1> QED BY <1>2, <1>3

LEMMA StatusFrame ==
    ASSUME FileTypeOK, StatusInv, UNCHANGED verVars, overtaken \subseteq overtaken',
           latest # 0 => /\ (latest \in settled' <=> latest \in settled) /\ ui'[latest] = ui[latest]
                         /\ unread'[latest] = unread[latest]
                         /\ job'[latest] \in {"synced", "hashing"} => job[latest] \in {"synced", "hashing"}
    PROVE  StatusInv'
<1>1. UNCHANGED <<latest, comp, contents>>
  BY DEF verVars
<1> QED BY <1>1 DEF StatusInv, Honest, New, TrueStatus

LEMMA RunFrame ==
    ASSUME FileTypeOK, RunInv, UNCHANGED verVars, overtaken \subseteq overtaken',
           latest # 0 => /\ job'[latest] = job[latest] /\ base'[latest] = base[latest] /\ firsts'[latest] = firsts[latest]
                         /\ noted'[latest] = noted[latest] /\ added'[latest] = added[latest] /\ told'[latest] = told[latest]
    PROVE  RunInv'
<1>1. UNCHANGED <<latest, comp, contents>>
  BY DEF verVars
<1>2. NewsOf' = NewsOf /\ {p \in comp[latest] : New(p)}' = {p \in comp[latest] : New(p)} /\ (Informed' => Informed)
  BY <1>1 DEF NewsOf, New, Informed
<1> QED BY <1>1, <1>2 DEF RunInv, Informed

\* Rows stay, and jobs begin with the latest version.
LEMMA RowsFrame ==
    ASSUME FileTypeOK, RowsInv, UNCHANGED verVars, overtaken \subseteq overtaken',
           \A v \in Vers :
              /\ Rows(v)' \in {Rows(v), comp[v]}
              /\ job'[v] \in {"synced", "hashing"} => Rows(v)' = comp[v]
              /\ job'[v] # "none" => job[v] # "none" \/ v = latest
              /\ v \in settled' => v \in settled \/ job[v] # "none"
    PROVE  RowsInv'
<1>1. UNCHANGED <<latest, comp, contents>>
  BY DEF verVars
<1>2. ASSUME NEW v \in Vers
      PROVE  /\ Rows(v)' \in {{}, comp'[v]}
             /\ job'[v] \in {"synced", "hashing"} => Rows(v)' = comp'[v]
             /\ v > latest' => job'[v] = "none" /\ v \notin settled' /\ comp'[v] = {}
             /\ \A p \in comp'[v] : contents'[v][p] # 0
  BY <1>1, LatestIsVersion DEF RowsInv
<1>3. ASSUME Informed', latest' > 1 PROVE Rows(latest - 1)' # {}
  <2>1. Informed /\ latest > 1 /\ latest - 1 \in Vers
    BY <1>1, <1>3, LatestIsVersion DEF Informed
  <2>2. Rows(latest - 1) # {} /\ Rows(latest - 1) = comp[latest - 1]
    BY <2>1 DEF RowsInv
  <2> QED BY <1>1, <2>1, <2>2
<1> QED BY <1>2, <1>3 DEF RowsInv

-----------------------------------------------------------------------------
(* Writing rows.                                                             *)

LEMMA WrittenRows ==
    ASSUME FileTypeOK, RowsInv, NEW S, ui' \in {ui, WithRows(S)}, NEW v \in Vers
    PROVE  /\ Rows(v)' \in {Rows(v), comp[v]}
           /\ v \in S /\ ui' = WithRows(S) => Rows(v)' = comp[v]
           /\ v \notin S => ui'[v] = ui[v]
<1>1. CASE ui' = ui /\ ui' # WithRows(S)
  BY <1>1 DEF RowsInv, Rows
<1>2. CASE ui' = WithRows(S)
  <2>1. CASE v \in S
    <3>1. \A p \in Paths : ui'[v][p] # "none" <=> p \in comp[v]
      BY <1>2, <2>1 DEF WithRows, Provisional
    <3>2. Rows(v)' = comp[v]
      BY <3>1, LatestIsVersion DEF Rows
    <3> QED BY <2>1, <3>2
  <2>2. CASE v \notin S
    <3>1. ui'[v] = ui[v]
      BY <1>2, <2>2 DEF WithRows
    <3> QED BY <2>2, <3>1 DEF Rows
  <2> QED BY <2>1, <2>2
<1> QED BY <1>1, <1>2

\* The statuses that the rows get until the hashes are there.
LEMMA WrittenStatus ==
    ASSUME FileTypeOK, RowsInv, StatusInv, NEW S, ui' \in {ui, WithRows(S)}, UNCHANGED <<verVars, settled, unread, overtaken>>,
           latest # 0 /\ job'[latest] \in {"synced", "hashing"} =>
               job[latest] \in {"synced", "hashing"} \/ (latest \in S /\ ui' = WithRows(S))
    PROVE  StatusInv'
<1>0. UNCHANGED <<latest, comp, contents, settled, unread, overtaken>>
  BY DEF verVars
<1>1. CASE latest = 0 \/ ui'[latest] = ui[latest]
  <2>1. ASSUME latest # 0, latest \in S, ui' = WithRows(S), NEW p \in comp[latest], New(p), <<latest, p>> \notin overtaken
        PROVE  ui[latest][p] = "new"
    <3>1. latest \in Vers /\ p \in Paths /\ Informed
      BY <2>1, LatestIsVersion DEF Informed
    <3>2. ui[latest][p] = Provisional(latest, p)
      BY <1>1, <2>1, <3>1 DEF WithRows
    <3>3. FirstSeen(latest, p)
      BY <2>1, <3>1, PriorIsPrevious
    <3>4. latest \in settled => ui[latest][p] = "new"
      BY <2>1 DEF StatusInv, Honest, TrueStatus, New
    <3>5. latest \notin settled => ui[latest][p] # "changed"
      BY <2>1, <3>1 DEF StatusInv
    <3> QED BY <3>2, <3>3, <3>4, <3>5 DEF Provisional
  <2> QED BY <1>0, <1>1, <2>1 DEF StatusInv, Honest, New, TrueStatus
<1>2. CASE latest # 0 /\ ui'[latest] # ui[latest]
  <2>1. latest \in Vers /\ latest \in S /\ ui' = WithRows(S)
    BY <1>2, WrittenRows, LatestIsVersion
  <2>2. \A p \in Paths : ui'[latest][p] = IF p \in comp[latest] THEN Provisional(latest, p) ELSE "none"
    BY <2>1 DEF WithRows
  <2>3. latest \notin settled => \A p \in Paths : ui'[latest][p] # "changed"
    BY <1>2, <2>2 DEF StatusInv, Provisional
  <2>4. ASSUME NEW p \in comp[latest], <<latest, p>> \notin overtaken
        PROVE  /\ latest \in settled =>
                  ui'[latest][p] = TrueStatus(latest, p)
                  \/ (p \in unread[latest] /\ TrueStatus(latest, p) = "changed" /\ ui'[latest][p] = "ok")
               /\ New(p) => ui'[latest][p] = "new"
    <3>1. p \in Paths /\ Informed
      BY <1>2, <2>1, <2>4, LatestIsVersion DEF Informed
    <3>2. FirstSeen(latest, p) <=> New(p)
      BY <3>1, PriorIsPrevious
    <3>3. latest \in settled => Honest(p)
      BY <1>2, <2>4 DEF StatusInv
    <3>4. latest \notin settled => ui[latest][p] # "changed"
      BY <1>2, <3>1 DEF StatusInv
    <3>5. /\ New(p) <=> TrueStatus(latest, p) = "new"
          /\ TrueStatus(latest, p) \in {"new", "ok", "changed"}
      BY DEF New, TrueStatus
    <3>6. ui'[latest][p] = IF ui[latest][p] = "changed" THEN "changed" ELSE IF New(p) THEN "new" ELSE "ok"
      BY <2>2, <3>1, <3>2 DEF Provisional
    <3> QED BY <3>3, <3>4, <3>5, <3>6 DEF Honest
  <2>5. \A p \in comp[latest] : New(p)' = New(p) /\ TrueStatus(latest, p)' = TrueStatus(latest, p)
    BY <1>0 DEF New, TrueStatus
  <2> QED BY <1>0, <1>2, <2>3, <2>4, <2>5 DEF StatusInv, Honest
<1> QED BY <1>1, <1>2

-----------------------------------------------------------------------------
(* The steps.                                                                *)

LEMMA PublishKeeps ==
    ASSUME FileTypeOK, HistoryInv, NEW C \in SUBSET Paths, NEW D \in SUBSET Paths, Publish(C, D)
    PROVE  HistoryInv'
<1> DEFINE w == latest + 1
           old == IF latest = 0 THEN NoHashes ELSE contents[latest]
<1>1. /\ w \in Vers /\ latest' = w /\ latest \in Nat /\ w # 0 /\ w - 1 = latest /\ w # latest
      /\ latest' - 1 = latest /\ (latest # 0 => latest \in Vers) /\ (latest' > 1 => latest # 0)
  BY LatestIsVersion DEF Publish, Vers
<1>2. /\ comp' = [comp EXCEPT ![w] = C] /\ D \subseteq C /\ \A p \in C \ D : old[p] # 0
      /\ contents' = [contents EXCEPT ![w] = [p \in Paths |-> IF p \in D THEN w ELSE IF p \in C THEN old[p] ELSE 0]]
      /\ overtaken' = overtaken \cup
            {<<w, p>> : p \in {q \in Paths : latest # 0 /\ (Rows(latest) = {} \/ digest[q] # old[q])}}
      /\ UNCHANGED <<digest, ui, noted, told, job, base, firsts, added, older, unhashed, settled, unread>>
  BY DEF Publish, newsVars, jobLocals
<1>3. /\ comp'[w] = C /\ \A v \in Vers : v # w => comp'[v] = comp[v] /\ contents'[v] = contents[v]
      /\ \A p \in Paths : contents'[w][p] = IF p \in D THEN w ELSE IF p \in C THEN old[p] ELSE 0
  BY <1>1, <1>2 DEF FileTypeOK
<1>4. job[w] = "none" /\ w \notin settled /\ comp[w] = {} /\ Rows(w) = {}
  <2>1. job[w] = "none" /\ w \notin settled /\ comp[w] = {} /\ Rows(w) \in {{}, comp[w]}
    BY <1>1 DEF HistoryInv, RowsInv
  <2> QED BY <2>1
<1>5. \A v \in Vers : Rows(v)' = Rows(v)
  BY <1>2 DEF Rows
<1>6. latest # 0 /\ Rows(latest) = {} => \A p \in Paths : <<w, p>> \in overtaken'
  BY <1>2
<1>7. \A p \in Paths : latest # 0 /\ <<w, p>> \notin overtaken' => digest'[p] = contents'[latest][p]
  BY <1>1, <1>2, <1>3
<1> HIDE DEF w, old
<1>8. RowsInv'
  <2>1. ASSUME NEW v \in Vers
        PROVE  /\ Rows(v)' \in {{}, comp'[v]}
               /\ job'[v] \in {"synced", "hashing"} => Rows(v)' = comp'[v]
               /\ v > w => job'[v] = "none" /\ v \notin settled' /\ comp'[v] = {}
               /\ \A p \in comp'[v] : contents'[v][p] # 0
    <3>1. CASE v = w
      <4>1. \A p \in C : contents'[w][p] # 0
        BY <1>1, <1>2, <1>3
      <4>2. ~(w > w)
        BY <1>1 DEF w
      <4> QED BY <1>2, <1>3, <1>4, <1>5, <3>1, <4>1, <4>2
    <3>2. CASE v # w
      <4>1. v > w => v > latest
        BY <1>1, LatestIsVersion DEF w
      <4>2. comp'[v] = comp[v] /\ contents'[v] = contents[v] /\ Rows(v)' = Rows(v) /\ job' = job /\ settled' = settled
        BY <1>2, <1>3, <1>5, <3>2
      <4> QED BY <4>1, <4>2 DEF HistoryInv, RowsInv
    <3> QED BY <3>1, <3>2
  <2>2. ASSUME Informed', latest' > 1 PROVE Rows(latest - 1)' # {}
    <3>1. latest # 0 /\ Rows(latest - 1)' = Rows(latest)
      BY <1>1, <1>2, <2>2 DEF Rows
    <3>2. Rows(latest) # {}
      BY <1>1, <1>6, <2>2, <3>1 DEF Informed
    <3> QED BY <3>1, <3>2
  <2> QED BY <1>1, <2>1, <2>2 DEF RowsInv
<1>9. DiskInv' /\ RunInv'
  BY <1>1, <1>2, <1>4 DEF DiskInv, Open, JobSteps, RunInv
<1>10. OldInv'
  <2> SUFFICES ASSUME latest' > 1, NEW p \in comp'[latest' - 1], <<latest', p>> \notin overtaken'
               PROVE  digest'[p] = contents'[latest' - 1][p]
    BY <1>1, <1>2, <1>4 DEF OldInv, Open
  <2>1. latest' - 1 = latest /\ latest # 0 /\ latest \in Vers
    BY <1>1
  <2>2. p \in Paths
    BY <1>1, <1>3, <2>1, LatestIsVersion
  <2> QED BY <1>1, <1>7, <2>1, <2>2
<1>11. StatusInv'
  BY <1>1, <1>2, <1>4 DEF StatusInv, Rows
<1> QED BY <1>8, <1>9, <1>10, <1>11 DEF HistoryInv

\* The early synchronisation and the inventory write rows.
LEMMA RowsKeep ==
    ASSUME FileTypeOK, HistoryInv, NEW v \in Vers, EarlySync(v) \/ Inventory
    PROVE  HistoryInv'
<1>1. \E S : ui' \in {ui, WithRows(S)}
  BY DEF EarlySync, Inventory
<1>2. UNCHANGED <<verVars, disk, digest, newsVars, job, jobLocals, settled, unread, overtaken>>
  BY DEF EarlySync, Inventory, diskVars
<1>3. RowsInv'
  BY <1>1, <1>2, WrittenRows, RowsFrame DEF HistoryInv, RowsInv
<1>4. StatusInv'
  BY <1>1, <1>2, WrittenStatus DEF HistoryInv
<1>5. DiskInv' /\ OldInv' /\ RunInv'
  BY <1>2, DiskFrame, RunFrame DEF HistoryInv, newsVars, jobLocals
<1> QED BY <1>3, <1>4, <1>5 DEF HistoryInv

\* The contents of the disk and their hashes change, by the master, a backfill,
\* or a job of another version.
LEMMA WorldKeeps ==
    ASSUME FileTypeOK, HistoryInv, NEW p \in Paths,
           UNCHANGED <<verVars, ui, newsVars, base, firsts, added, older, settled, unread, job>>,
           latest # 0 => unhashed'[latest] = unhashed[latest],
           \/ Land(p) /\ UNCHANGED overtaken
           \/ digest' = [digest EXCEPT ![p] = disk[p]] /\ disk' = disk /\
              ((digest[p] = disk[p] /\ overtaken' = overtaken) \/ overtaken' = overtaken \cup Overtakes(p))
    PROVE  HistoryInv'
<1>1. /\ UNCHANGED <<latest, comp, contents, ui, noted, told, job, base, firsts, added, older, settled, unread>>
      /\ latest # 0 => unhashed'[latest] = unhashed[latest]
  BY DEF verVars, newsVars
<1>2. overtaken \subseteq overtaken'
  OBVIOUS
<1>3. RowsInv' /\ StatusInv' /\ RunInv'
  <2>1. \A v \in Vers : Rows(v)' = Rows(v)
    BY <1>1 DEF Rows
  <2> QED BY <1>1, <1>2, <2>1, RowsFrame, StatusFrame, RunFrame DEF HistoryInv, RowsInv
<1>4. CASE Land(p) /\ UNCHANGED overtaken
  <2>1. disk' = [disk EXCEPT ![p] = contents[latest][p]] /\ UNCHANGED digest
    BY <1>4 DEF Land
  <2>2. Complete(latest) => Complete(latest)'
    BY <1>1, <2>1 DEF Complete, FileTypeOK
  <2>3. DiskInv'
    BY <1>1, <2>1, <2>2 DEF HistoryInv, DiskInv, Open
  <2>4. OldInv'
    BY <1>1, <1>4, <2>1 DEF HistoryInv, OldInv, Open, Hashed
  <2> QED BY <1>3, <2>3, <2>4 DEF HistoryInv
<1>5. CASE /\ digest' = [digest EXCEPT ![p] = disk[p]] /\ disk' = disk
           /\ ((digest[p] = disk[p] /\ overtaken' = overtaken) \/ overtaken' = overtaken \cup Overtakes(p))
  <2>1. digest'[p] = disk[p] /\ \A q \in Paths : q # p => digest'[q] = digest[q]
    BY <1>5 DEF FileTypeOK
  <2>2. DiskInv'
    <3> SUFFICES ASSUME latest # 0, NEW q \in comp[latest], ~Open(q)
                 PROVE  digest'[q] = contents[latest][q]
      BY <1>1, <1>5 DEF HistoryInv, DiskInv, Open, Complete
    <3>1. Complete(latest) /\ q \in Paths
      BY LatestIsVersion DEF HistoryInv, DiskInv, Open
    <3>2. digest[q] = contents[latest][q] /\ disk[q] = contents[latest][q]
      BY <3>1 DEF HistoryInv, DiskInv, Complete
    <3> QED BY <2>1, <3>1, <3>2
  <2>3. OldInv'
    <3>1. ASSUME latest > 1, NEW q \in comp[latest - 1], <<latest, q>> \notin overtaken', Open(q)
          PROVE  digest'[q] = digest[q]
      <4>1. q \in Paths /\ latest \in Vers /\ latest # 0
        BY <3>1, LatestIsVersion
      <4>2. q = p => digest[p] = disk[p]
        BY <1>5, <3>1, <4>1 DEF Overtakes, Open
      <4> QED BY <2>1, <4>1, <4>2
    <3>2. latest # 0 => \A q \in Paths : (Hashed(q)' <=> Hashed(q)) /\ (Open(q)' <=> Open(q))
      BY <1>1 DEF Hashed, Open
    <3>3. latest > 1 => latest # 0 /\ comp[latest - 1] \subseteq Paths /\ comp[latest] \subseteq Paths
      BY LatestIsVersion
    <3> SUFFICES ASSUME latest > 1
                 PROVE  /\ \A q \in comp[latest - 1] : <<latest, q>> \notin overtaken' /\ Open(q) =>
                              /\ \/ digest'[q] = contents[latest - 1][q]
                                 \/ Hashed(q) /\ digest'[q] = contents[latest][q]
                              /\ job[latest] = "hashing" => older[latest][q] = contents[latest - 1][q]
                        /\ \A q \in comp[latest] : job[latest] = "hashing" /\ ~Open(q) =>
                              older[latest][q] \in {0, contents[latest][q]}
      BY <1>1, <3>2, <3>3 DEF OldInv
    <3> QED BY <1>2, <3>1 DEF HistoryInv, OldInv
  <2> QED BY <1>3, <2>2, <2>3 DEF HistoryInv
<1> QED BY <1>4, <1>5

\* A job of another version, or a version that is removed, does not touch the
\* latest one.
LEMMA OthersKeep ==
    ASSUME FileTypeOK, HistoryInv, RowsInv', UNCHANGED <<verVars, disk, digest>>, overtaken \subseteq overtaken',
           latest # 0 =>
              /\ job'[latest] = job[latest] /\ (latest \in settled' <=> latest \in settled) /\ ui'[latest] = ui[latest]
              /\ unhashed'[latest] = unhashed[latest] /\ older'[latest] = older[latest] /\ unread'[latest] = unread[latest]
              /\ base'[latest] = base[latest] /\ firsts'[latest] = firsts[latest]
              /\ noted'[latest] = noted[latest] /\ added'[latest] = added[latest] /\ told'[latest] = told[latest]
    PROVE  HistoryInv'
<1>1. DiskInv' /\ OldInv'
  BY DiskFrame DEF HistoryInv
<1>2. StatusInv'
  BY StatusFrame DEF HistoryInv
<1>3. RunInv'
  BY RunFrame DEF HistoryInv
<1> QED BY <1>1, <1>2, <1>3 DEF HistoryInv

LEMMA JobRows ==
    ASSUME FileTypeOK, RowsInv, NEW v \in Vers, JobStep(v) \/ BreakJob(v) \/ Unload(v)
    PROVE  RowsInv'
<1>1. UNCHANGED verVars /\ overtaken \subseteq overtaken' /\ UNCHANGED <<latest, comp>>
  BY DEF JobStep, BreakJob, Unload, StartJob, SyncRows, RecordComposition, RecordChanges, Record,
         HashPath, SkipPath, SettleStatuses, KeepQuiet, Tell, verVars
<1>0. DOMAIN job = Vers
  BY DEF FileTypeOK
<1>2. \A u \in Vers : u # v => job'[u] = job[u] /\ (u \in settled' <=> u \in settled)
  BY <1>0 DEF JobStep, BreakJob, Unload, StartJob, SyncRows, RecordComposition, RecordChanges, Record,
         HashPath, SkipPath, SettleStatuses, KeepQuiet, Tell, EndJob, JobAt
<1>3. /\ job'[v] # "none" => job[v] # "none" \/ v = latest
      /\ v \in settled' => v \in settled \/ job[v] # "none"
  BY DEF JobStep, BreakJob, Unload, StartJob, SyncRows, RecordComposition, RecordChanges, Record,
         HashPath, SkipPath, SettleStatuses, KeepQuiet, Tell, EndJob, JobAt, FileTypeOK, JobSteps
<1>4. CASE SyncRows(v)
  <2>1. ui' = WithRows({v})
    BY <1>4 DEF SyncRows
  <2>2. \A u \in Vers : /\ Rows(u)' \in {Rows(u), comp[u]}
                        /\ u = v => Rows(u)' = comp[u]
                        /\ u # v => ui'[u] = ui[u]
    BY <2>1, WrittenRows
  <2>3. \A u \in Vers : job'[u] \in {"synced", "hashing"} => Rows(u)' = comp[u]
    BY <1>2, <2>2 DEF RowsInv, Rows
  <2> QED BY <1>1, <1>2, <1>3, <2>2, <2>3, RowsFrame
<1>5. CASE SettleStatuses(v)
  <2>1. Rows(v) = comp[v] /\ comp[v] \subseteq Paths
    BY <1>5, LatestIsVersion DEF SettleStatuses, RowsInv
  <2>2. ui'[v] = [p \in Paths |-> IF p \in comp[v] THEN SettledStatus(v, p) ELSE ui[v][p]]
    BY <1>5 DEF SettleStatuses, FileTypeOK
  <2>3. \A p \in comp[v] : ui[v][p] # "none" /\ SettledStatus(v, p) # "none"
    BY <2>1 DEF Rows, SettledStatus
  <2>4. Rows(v)' = comp[v]
    BY <2>1, <2>2, <2>3 DEF Rows
  <2>5. \A u \in Vers : u # v => Rows(u)' = Rows(u)
    BY <1>5 DEF SettleStatuses, Rows, FileTypeOK
  <2>6. \A u \in Vers : job'[u] \in {"synced", "hashing"} => Rows(u)' = comp[u]
    BY <1>2, <2>4, <2>5 DEF RowsInv
  <2> QED BY <1>1, <1>2, <1>3, <2>4, <2>5, <2>6, RowsFrame
<1>6. CASE ~SyncRows(v) /\ ~SettleStatuses(v)
  <2>1. ui' = ui
    BY <1>6 DEF JobStep, BreakJob, Unload, StartJob, RecordComposition, RecordChanges, Record, HashPath, SkipPath, KeepQuiet, Tell
  <2>2. job'[v] \in {"synced", "hashing"} => job[v] \in {"synced", "hashing"}
    BY <1>6 DEF JobStep, BreakJob, Unload, StartJob, RecordComposition, RecordChanges, Record, HashPath, SkipPath, KeepQuiet, Tell,
                EndJob, JobAt, FileTypeOK
  <2>3. \A u \in Vers : Rows(u)' = Rows(u)
    BY <2>1 DEF Rows
  <2>4. \A u \in Vers : job'[u] \in {"synced", "hashing"} => Rows(u)' = comp[u]
    BY <1>2, <2>2, <2>3 DEF RowsInv
  <2> QED BY <1>1, <1>2, <1>3, <2>3, <2>4, RowsFrame
<1> QED BY <1>4, <1>5, <1>6

\* A job of a version that was replaced.
LEMMA ReplacedKeeps ==
    ASSUME FileTypeOK, HistoryInv, NEW v \in Vers, v # latest, JobStep(v) \/ BreakJob(v) \/ Unload(v)
    PROVE  HistoryInv'
<1>0. RowsInv'
  BY JobRows DEF HistoryInv
<1>1. CASE \E p \in Paths : HashPath(v, p)
  <2>1. PICK p \in Paths : HashPath(v, p)
    BY <1>1
  <2>2. UNCHANGED <<verVars, ui, newsVars, base, firsts, added, older, settled, unread, job>>
    BY <2>1 DEF HashPath
  <2>3. latest # 0 => unhashed'[latest] = unhashed[latest]
    BY <2>1 DEF HashPath
  <2>4. /\ digest' = [digest EXCEPT ![p] = disk[p]] /\ disk' = disk
        /\ (digest[p] = disk[p] /\ overtaken' = overtaken) \/ overtaken' = overtaken \cup Overtakes(p)
    BY <2>1 DEF HashPath, diskVars
  <2> QED BY <2>2, <2>3, <2>4, WorldKeeps
<1>2. CASE ~\E p \in Paths : HashPath(v, p)
  <2>1. UNCHANGED <<verVars, disk, digest>> /\ overtaken \subseteq overtaken'
    BY <1>2 DEF JobStep, BreakJob, Unload, StartJob, SyncRows, RecordComposition, RecordChanges, Record,
                SkipPath, SettleStatuses, KeepQuiet, Tell, diskVars
  <2>0. /\ latest # 0 => latest \in Vers
        /\ DOMAIN job = Vers /\ DOMAIN unhashed = Vers /\ DOMAIN older = Vers /\ DOMAIN base = Vers
        /\ DOMAIN unread = Vers /\ DOMAIN firsts = Vers /\ DOMAIN noted = Vers /\ DOMAIN added = Vers /\ DOMAIN told = Vers /\ DOMAIN ui = Vers
    BY LatestIsVersion DEF FileTypeOK
  <2>2. latest # 0 => /\ job'[latest] = job[latest] /\ (latest \in settled' <=> latest \in settled)
                      /\ unhashed'[latest] = unhashed[latest] /\ older'[latest] = older[latest]
                      /\ unread'[latest] = unread[latest]
    BY <1>2, <2>0 DEF JobStep, BreakJob, Unload, StartJob, SyncRows, RecordComposition, RecordChanges, Record,
                SkipPath, SettleStatuses, KeepQuiet, Tell, EndJob, JobAt, jobLocals
  <2>3. latest # 0 => /\ base'[latest] = base[latest] /\ firsts'[latest] = firsts[latest]
                      /\ noted'[latest] = noted[latest] /\ added'[latest] = added[latest]
                      /\ told'[latest] = told[latest]
    BY <1>2, <2>0 DEF JobStep, BreakJob, Unload, StartJob, SyncRows, RecordComposition, RecordChanges, Record,
                SkipPath, SettleStatuses, KeepQuiet, Tell, EndJob, jobLocals, newsVars
  <2>4. latest # 0 => ui'[latest] = ui[latest]
    <3>1. ui' = ui \/ ui' = WithRows({v}) \/ \E f : ui' = [ui EXCEPT ![v] = f]
      BY <1>2 DEF JobStep, BreakJob, Unload, StartJob, SyncRows, RecordComposition, RecordChanges, Record,
                  SkipPath, SettleStatuses, KeepQuiet, Tell
    <3> QED BY <2>0, <3>1 DEF WithRows
  <2> QED BY <1>0, <2>1, <2>2, <2>3, <2>4, OthersKeep
<1> QED BY <1>1, <1>2

-----------------------------------------------------------------------------
(* The job of the latest version.                                            *)

LEMMA StartKeeps ==
    ASSUME FileTypeOK, HistoryInv, latest \in Vers, StartJob(latest), RowsInv'
    PROVE  HistoryInv'
<1>1. /\ job[latest] \in {"none", "success", "quiet"} /\ job'[latest] = "prepared" /\ Complete(latest)
      /\ UNCHANGED <<latest, comp, contents, disk, digest, ui, noted, told, base, firsts, added, older, unhashed, settled, unread, overtaken>>
  BY DEF StartJob, JobAt, FileTypeOK, verVars, diskVars, newsVars, jobLocals
<1>2. DiskInv' /\ OldInv'
  BY <1>1 DEF HistoryInv, DiskInv, OldInv, Open, Hashed, Complete
<1>3. StatusInv'
  BY <1>1, StatusFrame DEF HistoryInv, verVars
<1>4. RunInv'
  BY <1>1 DEF RunInv
<1> QED BY <1>2, <1>3, <1>4 DEF HistoryInv

LEMMA SyncKeeps ==
    ASSUME FileTypeOK, HistoryInv, latest \in Vers, SyncRows(latest), RowsInv'
    PROVE  HistoryInv'
<1>1. /\ job[latest] = "prepared" /\ job'[latest] = "synced" /\ ui' = WithRows({latest})
      /\ base'[latest] = PriorVersion(latest) /\ firsts'[latest] = {p \in comp[latest] : FirstSeen(latest, p)}
      /\ added'[latest] = EventsOfSync(latest)
      /\ UNCHANGED <<latest, comp, contents, disk, digest, noted, told, older, unhashed, settled, unread, overtaken>>
  BY DEF SyncRows, JobAt, FileTypeOK, verVars, diskVars, newsVars
<1>2. DiskInv' /\ OldInv'
  BY <1>1 DEF HistoryInv, DiskInv, OldInv, Open, Hashed, Complete, JobSteps
<1>3. StatusInv'
  BY <1>1, WrittenStatus DEF HistoryInv, verVars
<1>4. RunInv'
  <2> SUFFICES ASSUME Informed PROVE RunInv'
    BY <1>1 DEF RunInv, Informed
  <2>1. /\ PriorVersion(latest) = latest - 1 /\ \A p \in Paths : FirstSeen(latest, p) <=> New(p)
        /\ latest > 1 => Rows(latest - 1) = comp[latest - 1]
    BY PriorIsPrevious DEF HistoryInv
  <2>2. comp[latest] \subseteq Paths
    BY LatestIsVersion
  <2>3. NewsOf \subseteq noted[latest] \cup added'[latest]
    <3>1. ASSUME NEW p \in comp[latest], New(p) PROVE <<"added", p>> \in noted[latest] \cup EventsOfSync(latest)
      BY <2>1, <2>2, <3>1 DEF EventsOfSync
    <3>2. ASSUME NEW p \in Paths, latest > 1, p \in comp[latest - 1] \ comp[latest]
          PROVE  <<"removed", p>> \in noted[latest] \cup EventsOfSync(latest)
      <4>1. PriorVersion(latest) # 0 /\ p \in Rows(PriorVersion(latest))
        BY <2>1, <3>2, LatestIsVersion
      <4> QED BY <3>2, <4>1 DEF EventsOfSync
    <3> QED BY <1>1, <3>1, <3>2 DEF NewsOf
  <2>4. NewsOf' = NewsOf /\ {p \in comp[latest] : New(p)}' = {p \in comp[latest] : New(p)}
    BY <1>1 DEF NewsOf, New
  <2>5. firsts'[latest] = {p \in comp[latest] : New(p)}
    BY <1>1, <2>1, <2>2
  <2> QED BY <1>1, <2>1, <2>3, <2>4, <2>5 DEF RunInv
<1> QED BY <1>2, <1>3, <1>4 DEF HistoryInv

LEMMA CompositionKeeps ==
    ASSUME FileTypeOK, HistoryInv, latest \in Vers, RecordComposition(latest), RowsInv'
    PROVE  HistoryInv'
<1>1. /\ job[latest] = "synced" /\ job'[latest] = "hashing" /\ unhashed'[latest] = comp[latest]
      /\ older'[latest] = [p \in Paths |-> IF base[latest] # 0 /\ p \in Rows(base[latest]) THEN digest[p] ELSE 0]
      /\ noted'[latest] = noted[latest] \cup added[latest]
      /\ UNCHANGED <<latest, comp, contents, disk, digest, ui, told, base, firsts, settled, unread, overtaken>>
  BY DEF RecordComposition, Record, JobAt, FileTypeOK, verVars, diskVars
<1>2. comp[latest] \subseteq Paths /\ (latest > 1 => comp[latest - 1] \subseteq Paths)
  BY LatestIsVersion
<1>3. DiskInv'
  BY <1>1 DEF HistoryInv, DiskInv, Open, Hashed, Complete, JobSteps
<1>4. OldInv'
  <2>1. ASSUME latest > 1, NEW p \in comp[latest - 1], <<latest, p>> \notin overtaken, Open(p)
        PROVE  digest[p] = contents[latest - 1][p] /\ older'[latest][p] = contents[latest - 1][p]
    <3>1. digest[p] = contents[latest - 1][p]
      BY <1>1, <2>1 DEF HistoryInv, OldInv, Hashed
    <3>2. Informed /\ p \in Paths
      BY <1>2, <2>1 DEF Informed
    <3>3. base[latest] = latest - 1
      BY <1>1, <3>2 DEF HistoryInv, RunInv
    <3>5. base[latest] # 0
      BY <2>1, <3>3, LatestIsVersion
    <3>4. Rows(base[latest]) = comp[latest - 1]
      BY <2>1, <3>2, <3>3, PriorIsPrevious DEF HistoryInv
    <3> QED BY <1>1, <2>1, <3>1, <3>2, <3>4, <3>5
  <2>2. ASSUME NEW p \in comp[latest], ~Open(p) PROVE older'[latest][p] \in {0, contents[latest][p]}
    <3>1. digest[p] = contents[latest][p]
      BY <2>2, Domains DEF HistoryInv, DiskInv
    <3> QED BY <1>1, <1>2, <3>1
  <2> QED BY <1>1, <2>1, <2>2 DEF OldInv, Open, Hashed
<1>5. StatusInv'
  BY <1>1, StatusFrame DEF HistoryInv, verVars
<1>6. RunInv'
  <2>1. NewsOf' = NewsOf /\ {p \in comp[latest] : New(p)}' = {p \in comp[latest] : New(p)} /\ (Informed' => Informed)
    BY <1>1 DEF NewsOf, New, Informed
  <2> QED BY <1>1, <2>1 DEF HistoryInv, RunInv
<1> QED BY <1>3, <1>4, <1>5, <1>6 DEF HistoryInv

LEMMA HashKeeps ==
    ASSUME FileTypeOK, HistoryInv, latest \in Vers, NEW p \in Paths, HashPath(latest, p), RowsInv'
    PROVE  HistoryInv'
<1>1. /\ job[latest] = "hashing" /\ p \in unhashed[latest] /\ unhashed'[latest] = unhashed[latest] \ {p}
      /\ digest'[p] = disk[p] /\ \A q \in Paths : q # p => digest'[q] = digest[q]
      /\ UNCHANGED <<latest, comp, contents, disk, ui, noted, told, job, base, firsts, added, older, settled, unread, overtaken>>
  BY DEF HashPath, FileTypeOK, verVars, diskVars, newsVars
<1>2. latest # 0 /\ comp[latest] \subseteq Paths /\ (latest > 1 => comp[latest - 1] \subseteq Paths)
  BY LatestIsVersion, Domains
<1>3. p \in comp[latest] /\ disk[p] = contents[latest][p] /\ Complete(latest)
  BY <1>1, <1>2 DEF HistoryInv, DiskInv, Complete, JobSteps
<1>4. DiskInv'
  BY <1>1, <1>2, <1>3 DEF HistoryInv, DiskInv, Open, Hashed, Complete
<1>5. OldInv'
  BY <1>1, <1>2, <1>3 DEF HistoryInv, OldInv, Open, Hashed
<1>6. StatusInv' /\ RunInv'
  BY <1>1, StatusFrame, RunFrame DEF HistoryInv, verVars
<1> QED BY <1>4, <1>5, <1>6 DEF HistoryInv

LEMMA SkipKeeps ==
    ASSUME FileTypeOK, HistoryInv, latest \in Vers, NEW p \in Paths, SkipPath(latest, p), RowsInv'
    PROVE  HistoryInv'
<1>1. /\ job[latest] = "hashing" /\ p \in unhashed[latest] /\ unhashed'[latest] = unhashed[latest] \ {p}
      /\ UNCHANGED <<latest, comp, contents, disk, digest, ui, noted, told, job, base, firsts, added, older,
                     settled, unread, overtaken>>
  BY DEF SkipPath, FileTypeOK, verVars, diskVars, newsVars
<1>2. DiskInv'
  BY <1>1 DEF HistoryInv, DiskInv, Open, Complete
<1>3. OldInv'
  BY <1>1 DEF HistoryInv, OldInv, Open, Hashed
<1>4. StatusInv' /\ RunInv'
  BY <1>1, StatusFrame, RunFrame DEF HistoryInv, verVars
<1> QED BY <1>2, <1>3, <1>4 DEF HistoryInv

LEMMA SettleKeeps ==
    ASSUME FileTypeOK, HistoryInv, latest \in Vers, SettleStatuses(latest), RowsInv'
    PROVE  HistoryInv'
<1>1. /\ job[latest] = "hashing" /\ job'[latest] = "settled" /\ unhashed[latest] = {}
      /\ ui'[latest] = [p \in Paths |-> IF p \in comp[latest] THEN SettledStatus(latest, p) ELSE ui[latest][p]]
      /\ settled' = settled \cup {latest} /\ unread'[latest] = {p \in comp[latest] : digest[p] # disk[p]}
      /\ UNCHANGED <<latest, comp, contents, disk, digest, noted, told, base, firsts, older, unhashed, overtaken>>
  BY DEF SettleStatuses, JobAt, FileTypeOK, verVars, diskVars, newsVars
<1>2. latest # 0 /\ comp[latest] \subseteq Paths /\ latest \in Nat
  BY LatestIsVersion, Domains
<1>3. ASSUME NEW p \in comp[latest]
      PROVE  /\ disk[p] = contents[latest][p]
             /\ p \in unread'[latest] <=> digest[p] # contents[latest][p]
             /\ ~Open(p) => digest[p] = contents[latest][p]
  BY <1>1, <1>2 DEF HistoryInv, DiskInv, Complete, JobSteps
<1>4. DiskInv' /\ OldInv'
  <2>1. DiskInv'
    BY <1>1, <1>2, <1>3 DEF HistoryInv, DiskInv, Open, Complete, JobSteps
  <2>2. OldInv'
    <3> SUFFICES ASSUME latest > 1, NEW p \in comp[latest - 1], <<latest, p>> \notin overtaken, p \in unread'[latest]
                 PROVE  digest[p] = contents[latest - 1][p]
      BY <1>1 DEF OldInv, Open
    <3>1. p \in comp[latest] /\ digest[p] # contents[latest][p]
      BY <1>1, <1>3
    <3>2. Open(p)
      BY <1>3, <3>1
    <3> QED BY <3>1, <3>2 DEF HistoryInv, OldInv
  <2> QED BY <2>1, <2>2
<1>5. StatusInv'
  <2> SUFFICES ASSUME NEW p \in comp[latest], <<latest, p>> \notin overtaken
               PROVE  \/ SettledStatus(latest, p) = TrueStatus(latest, p)
                      \/ /\ digest[p] # contents[latest][p] /\ TrueStatus(latest, p) = "changed"
                         /\ SettledStatus(latest, p) = "ok"
    BY <1>1, <1>2, <1>3 DEF StatusInv, Honest, TrueStatus
  <2>1. p \in Paths /\ Informed
    BY <1>2 DEF Informed
  <2>2. base[latest] = latest - 1 /\ (p \in firsts[latest] <=> New(p))
    BY <1>1, <2>1 DEF HistoryInv, RunInv
  <2>3. latest \in settled => Honest(p)
    BY <1>2 DEF HistoryInv, StatusInv
  <2>4. latest \notin settled => ui[latest][p] # "changed"
    BY <1>2, <2>1 DEF HistoryInv, StatusInv
  <2>5. New(p) => TrueStatus(latest, p) = "new" /\ ui[latest][p] = "new"
    BY <1>1, <1>2 DEF HistoryInv, StatusInv, New, TrueStatus
  <2>6. ~New(p) => /\ latest > 1 /\ p \in comp[latest - 1] /\ base[latest] # 0
                   /\ TrueStatus(latest, p) = IF contents[latest][p] = contents[latest - 1][p] THEN "ok" ELSE "changed"
    BY <1>2, <2>2 DEF New, TrueStatus
  <2>7. CASE New(p)
    <3>1. p \in firsts[latest] /\ ui[latest][p] = "new" /\ TrueStatus(latest, p) = "new"
      BY <2>2, <2>5, <2>7
    <3> QED BY <3>1 DEF SettledStatus
  <2>8. CASE ~New(p) /\ ~Open(p)
    <3>1. ~Mismatch(latest, p)
      BY <1>1, <1>3, <2>6, <2>8 DEF HistoryInv, OldInv, Mismatch
    <3>2. ui[latest][p] = TrueStatus(latest, p)
      BY <2>3, <2>8 DEF Open, Honest
    <3>3. p \notin firsts[latest] /\ ui[latest][p] \in {"ok", "changed"}
      BY <2>2, <2>6, <2>8, <3>2
    <3> QED BY <2>6, <2>8, <3>1, <3>2, <3>3 DEF SettledStatus
  <2>9. CASE ~New(p) /\ Open(p)
    <3>1. older[latest][p] = contents[latest - 1][p] /\ digest[p] \in {contents[latest - 1][p], contents[latest][p]}
      BY <1>1, <2>6, <2>9 DEF HistoryInv, OldInv
    <3>2. contents[latest - 1][p] # 0
      BY <2>6, <2>9, LatestIsVersion DEF HistoryInv, RowsInv
    <3>3. /\ Mismatch(latest, p) <=> digest[p] # contents[latest - 1][p]
          /\ Matched(latest, p) <=> digest[p] = contents[latest - 1][p]
      BY <3>1, <3>2 DEF Mismatch, Matched
    <3>4. p \notin firsts[latest] /\ (ui[latest][p] = "changed" => TrueStatus(latest, p) = "changed")
      BY <2>2, <2>3, <2>4, <2>9 DEF Honest
    <3> QED BY <2>6, <2>9, <3>1, <3>3, <3>4 DEF SettledStatus
  <2> QED BY <2>7, <2>8, <2>9
<1>6. RunInv'
  <2>1. NewsOf' = NewsOf /\ (Informed' => Informed)
    BY <1>1 DEF NewsOf, New, Informed
  <2> QED BY <1>1, <2>1 DEF HistoryInv, RunInv
<1> QED BY <1>4, <1>5, <1>6 DEF HistoryInv

LEMMA ChangesKeep ==
    ASSUME FileTypeOK, HistoryInv, latest \in Vers, RecordChanges(latest), RowsInv'
    PROVE  HistoryInv'
<1>1. /\ job[latest] = "settled" /\ job'[latest] = "telling" /\ noted'[latest] = noted[latest] \cup added[latest]
      /\ UNCHANGED <<latest, comp, contents, disk, digest, ui, told, base, firsts, older, unhashed, settled, unread, overtaken>>
  BY DEF RecordChanges, Record, JobAt, FileTypeOK, verVars, diskVars
<1>2. DiskInv' /\ OldInv'
  BY <1>1 DEF HistoryInv, DiskInv, OldInv, Open, Hashed, Complete, JobSteps
<1>3. StatusInv'
  BY <1>1, StatusFrame DEF HistoryInv, verVars
<1>4. RunInv'
  <2>1. NewsOf' = NewsOf /\ (Informed' => Informed)
    BY <1>1 DEF NewsOf, New, Informed
  <2> QED BY <1>1, <2>1 DEF HistoryInv, RunInv
<1> QED BY <1>2, <1>3, <1>4 DEF HistoryInv

LEMMA TellKeeps ==
    ASSUME FileTypeOK, HistoryInv, latest \in Vers, Tell(latest), RowsInv'
    PROVE  HistoryInv'
<1> DEFINE all == fresh[latest] \cup PendingOf(latest)
           news == IF base[latest] = 0 THEN {e \in all : e[1] = "added"} ELSE all
<1>1. /\ job[latest] = "telling" /\ job'[latest] = "success" /\ told'[latest] = told[latest] \cup news
      /\ UNCHANGED <<latest, comp, contents, disk, digest, ui, noted, settled, unread, overtaken>>
  BY DEF Tell, EndJob, JobAt, FileTypeOK, verVars, diskVars
<1>2. DiskInv' /\ OldInv'
  BY <1>1 DEF HistoryInv, DiskInv, OldInv, Open, Hashed, Complete, JobSteps
<1>3. StatusInv'
  BY <1>1, StatusFrame DEF HistoryInv, verVars
<1>4. RunInv'
  <2> SUFFICES ASSUME Informed PROVE NewsOf \subseteq told'[latest]
    <3>1. NewsOf' = NewsOf /\ (Informed' => Informed)
      BY <1>1 DEF NewsOf, New, Informed
    <3> QED BY <1>1, <3>1 DEF RunInv
  <2>1. NewsOf \subseteq noted[latest] /\ base[latest] = latest - 1 /\ latest \in Nat
    BY <1>1, LatestIsVersion DEF HistoryInv, RunInv
  <2>2. \A e \in NewsOf : e[1] \in {"added", "removed"} /\ (base[latest] = 0 => e[1] = "added")
    BY <2>1 DEF NewsOf
  <2>3. \A e \in NewsOf : e \notin told[latest] => e \in all
    BY <2>1, <2>2 DEF PendingOf
  <2> HIDE DEF all
  <2> QED BY <1>1, <2>2, <2>3
<1> QED BY <1>2, <1>3, <1>4 DEF HistoryInv

LEMMA QuietKeeps ==
    ASSUME FileTypeOK, HistoryInv, latest \in Vers, KeepQuiet(latest), RowsInv'
    PROVE  HistoryInv'
<1>1. /\ job[latest] = "telling" /\ job'[latest] = "quiet"
      /\ UNCHANGED <<latest, comp, contents, disk, digest, ui, noted, told, settled, unread, overtaken>>
  BY DEF KeepQuiet, EndJob, JobAt, FileTypeOK, verVars, diskVars, newsVars
<1>2. DiskInv' /\ OldInv'
  BY <1>1 DEF HistoryInv, DiskInv, OldInv, Open, Hashed, Complete, JobSteps
<1>3. StatusInv'
  BY <1>1, StatusFrame DEF HistoryInv, verVars
<1>4. RunInv'
  BY <1>1 DEF RunInv
<1> QED BY <1>2, <1>3, <1>4 DEF HistoryInv

LEMMA BreakKeeps ==
    ASSUME FileTypeOK, HistoryInv, latest \in Vers, BreakJob(latest), RowsInv'
    PROVE  HistoryInv'
<1>1. /\ job[latest] \in JobSteps /\ job'[latest] = "none" /\ overtaken \subseteq overtaken'
      /\ UNCHANGED <<latest, comp, contents, disk, digest, ui, noted, told, settled, unread>>
  BY DEF BreakJob, EndJob, JobAt, FileTypeOK, verVars, diskVars, newsVars
<1>2. DiskInv'
  BY <1>1 DEF HistoryInv, DiskInv, Open, Hashed, Complete, JobSteps
<1>3. OldInv'
  <2> SUFFICES ASSUME latest > 1, NEW p \in comp[latest - 1], <<latest, p>> \notin overtaken', Open(p)
               PROVE  digest[p] = contents[latest - 1][p]
    BY <1>1 DEF OldInv, Open, Hashed
  <2>1. <<latest, p>> \notin overtaken
    BY <1>1
  <2>2. CASE ~Hashed(p)
    BY <2>1, <2>2 DEF HistoryInv, OldInv
  <2>3. CASE Hashed(p)
    <3>1. older[latest][p] = contents[latest - 1][p]
      BY <2>1, <2>3 DEF HistoryInv, OldInv, Hashed
    <3>2. <<latest, p>> \in Overtakes(p)
      BY DEF Overtakes, Open
    <3>3. digest[p] = older[latest][p]
      BY <2>3, <3>2 DEF BreakJob, Hashed
    <3> QED BY <3>1, <3>3
  <2> QED BY <2>2, <2>3
<1>4. StatusInv'
  BY <1>1, StatusFrame DEF HistoryInv, BreakJob, newsVars
<1>5. RunInv'
  BY <1>1 DEF RunInv
<1> QED BY <1>2, <1>3, <1>4, <1>5 DEF HistoryInv

-----------------------------------------------------------------------------
LEMMA HistoryStep == FileInv /\ HistoryInv /\ [FileNext]_fileVars => HistoryInv'
<1> SUFFICES ASSUME FileInv, HistoryInv, [FileNext]_fileVars PROVE HistoryInv'
  OBVIOUS
<1>0. FileTypeOK /\ RowsInv
  BY DEF FileInv, HistoryInv
<1>1. ASSUME NEW C \in SUBSET Paths, NEW D \in SUBSET Paths, Publish(C, D) PROVE HistoryInv'
  BY <1>0, <1>1, PublishKeeps
<1>2. ASSUME NEW v \in Vers, EarlySync(v) PROVE HistoryInv'
  BY <1>0, <1>2, RowsKeep
<1>3. CASE Inventory
  <2>1. PICK v \in Vers : TRUE
    BY <1>0, <1>3, VersionsAssumption DEF Vers
  <2> QED BY <1>0, <1>3, RowsKeep
<1>4. ASSUME NEW p \in Paths, Land(p) PROVE HistoryInv'
  BY <1>0, <1>4, WorldKeeps DEF Land, jobLocals
<1>5. ASSUME NEW p \in Paths, BackfillHash(p) PROVE HistoryInv'
  BY <1>0, <1>5, WorldKeeps DEF BackfillHash, jobLocals, diskVars
<1>6. ASSUME NEW v \in Vers, v # latest, JobStep(v) \/ BreakJob(v) \/ Unload(v) PROVE HistoryInv'
  BY <1>0, <1>6, ReplacedKeeps
<1>7. ASSUME latest \in Vers, JobStep(latest) \/ BreakJob(latest) PROVE HistoryInv'
  <2>1. RowsInv'
    BY <1>0, <1>7, JobRows
  <2> QED BY <1>0, <1>7, <2>1, StartKeeps, SyncKeeps, CompositionKeeps, HashKeeps, SkipKeeps, SettleKeeps, ChangesKeep,
             TellKeeps, QuietKeeps, BreakKeeps DEF JobStep
<1>8. CASE UNCHANGED fileVars
  <2>1. UNCHANGED <<verVars, disk, digest, ui, noted, told, job, base, firsts, added, older, unhashed, settled, unread, overtaken>>
    BY <1>8 DEF fileVars, diskVars, newsVars, jobLocals
  <2>2. RowsInv'
    <3>1. \A v \in Vers : Rows(v)' = Rows(v)
      BY <2>1 DEF Rows
    <3> QED BY <1>0, <2>1, <3>1, RowsFrame DEF RowsInv
  <2> QED BY <1>0, <2>1, <2>2, OthersKeep
<1>9. \A v \in Vers : Unload(v) => v # latest
  BY DEF Unload
<1> QED BY <1>1, <1>2, <1>3, <1>4, <1>5, <1>6, <1>7, <1>8, <1>9 DEF FileNext

LEMMA HistoryInit == FileInit => HistoryInv
BY DEF FileInit, HistoryInv, RowsInv, DiskInv, OldInv, StatusInv, RunInv, Rows, Informed

\* What a hash job has settled of the latest version is true in comparison with
\* the version before, for the paths whose older hash was there, after any
\* runs, inventories and early synchronisations; but a change of a file that the
\* job could not read may pass for none, until a run reads it (_settle_ui_status).
THEOREM StatusesAreHonest == FileSpec => []StatusIsHonest
<1>1. FileInv /\ HistoryInv => StatusIsHonest
  <2> SUFFICES ASSUME FileTypeOK, StatusInv, NEW p \in Paths, latest \in settled, p \in comp[latest],
                      <<latest, p>> \notin overtaken
               PROVE  Honest(p)
    BY DEF FileInv, HistoryInv, StatusIsHonest, Honest
  <2>1. latest # 0
    BY Domains DEF FileTypeOK
  <2> QED BY <2>1 DEF StatusInv
<1> QED BY <1>1, InitInv, NextInv, HistoryInit, HistoryStep, PTL DEF FileSpec

\* A hash job that has succeeded for the latest version has told people of each
\* path it adds and each path it removes, once, whatever earlier runs broke off
\* (_unnotified_events, the heal of _sync_composition).
THEOREM NewsIsTold == FileSpec => []NewsIsToldOnce
<1>1. FileInv /\ HistoryInv => NewsIsToldOnce
  <2> SUFFICES ASSUME FileInv, HistoryInv,
                      latest # 0, job[latest] = "success", NEW p \in Paths, <<latest, p>> \notin overtaken
               PROVE  /\ p \in comp[latest] /\ (latest = 1 \/ p \notin comp[latest - 1]) => <<"added", p>> \in told[latest]
                      /\ latest > 1 /\ p \in comp[latest - 1] \ comp[latest] => <<"removed", p>> \in told[latest]
    BY DEF NewsIsToldOnce, FileInv, NewsInv
  <2>1. NewsOf \subseteq told[latest]
    BY DEF HistoryInv, RunInv, Informed
  <2> QED BY <2>1 DEF NewsOf, New
<1> QED BY <1>1, InitInv, NextInv, HistoryInit, HistoryStep, PTL DEF FileSpec
=============================================================================
