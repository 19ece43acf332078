---------------------------- MODULE FileVersions ----------------------------
(***************************************************************************)
(* The history of the files of one torrent (services/file_tracker.py,         *)
(* jobs/hash_torrent.py, the inventory of services/qb_inventory.py).  Each      *)
(* version keeps a status of each of its paths, "new", "changed" or "ok", in    *)
(* comparison with the version before it, and events of which people are told   *)
(* once.  Versions lie on the same paths of the disk, and a path has one row      *)
(* with the hash of its content, whichever version that is of.                   *)
(*                                                                         *)
(* Every action is one transaction.  A version keeps the torrent id; all files   *)
(* are selected, and a path that the master has completed is on the disk.        *)
(*                                                                         *)
(* A definition that nothing uses is a plausible fault of the one it stands  *)
(* before; PROJECT.json names the property that notices each of them.        *)
(***************************************************************************)
EXTENDS Naturals, FiniteSets, FiniteSetsExt

CONSTANTS
    Paths,
    LastVersion,     \* bound on the versions
    MaxRuns          \* bound on the hash jobs

Vers == 1 .. LastVersion
ASSUME VersionsAssumption == LastVersion \in Nat \ {0} /\ MaxRuns \in Nat /\ IsFiniteSet(Paths)

VARIABLES
    latest,      \* the version AniLibria lists, api_present; 0 before the first
    comp,        \* comp[v]: the paths of its .torrent
    contents,    \* contents[v][p]: the content it gives to the path, 0 for none
    onMaster,    \* versions the master has
    disk,        \* disk[p]: the content on the disk, 0 for none
    digest,      \* digest[p]: the content whose hash disk_file_hashes has
    ui,          \* ui[v][p]: ui_status, "none" without a row
    noted,       \* noted[v]: file_change_events, pairs of a kind and a path
    told,        \* told[v]: those with notified_at
    job,         \* job[v]: where the hash job of v is
    runs,        \* how many there have been
    base,        \* base[v]: its prior version, 0 for none
    firsts,      \* firsts[v]: first_seen_paths
    added,       \* added[v]: events it is about to record
    fresh,       \* fresh[v]: events it has recorded
    older,      \* older[v][p]: the hash of the prior version
    unhashed,    \* unhashed[v]: the paths it has not hashed
    settled,     \* versions whose statuses have been settled
    telling,     \* telling[v][e]: how often people were told of e
    unread,      \* unread[v]: the paths whose content the run that settled v could not read
    overtaken    \* <<v, p>>: the hash of p before v was lost or never known

diskVars == <<onMaster, disk>>
verVars == <<latest, comp, contents>>
jobLocals == <<base, firsts, added, fresh, older, unhashed>>
newsVars == <<noted, told, telling>>
fileVars == <<verVars, diskVars, digest, ui, newsVars, job, runs, jobLocals, settled, unread, overtaken>>

EventKinds == {"added", "removed", "modified"}
NoHashes == [p \in Paths |-> 0]
NoEvents == [e \in EventKinds \X Paths |-> 0]
JobSteps == {"prepared", "synced", "hashing", "settled", "telling"}

FileInit ==
    /\ latest = 0
    /\ comp = [v \in Vers |-> {}] /\ contents = [v \in Vers |-> NoHashes]
    /\ onMaster = {} /\ disk = NoHashes /\ digest = NoHashes
    /\ ui = [v \in Vers |-> [p \in Paths |-> "none"]]
    /\ noted = [v \in Vers |-> {}] /\ told = [v \in Vers |-> {}]
    /\ telling = [v \in Vers |-> NoEvents]
    /\ job = [v \in Vers |-> "none"] /\ runs = 0
    /\ base = [v \in Vers |-> 0]
    /\ firsts = [v \in Vers |-> {}] /\ added = [v \in Vers |-> {}] /\ fresh = [v \in Vers |-> {}]
    /\ older = [v \in Vers |-> NoHashes] /\ unhashed = [v \in Vers |-> {}]
    /\ settled = {} /\ unread = [v \in Vers |-> {}] /\ overtaken = {}

-----------------------------------------------------------------------------
(* What the history knows.                                                  *)

Rows(v) == {p \in Paths : ui[v][p] # "none"}

\* _prior_version_archive: of the other versions the newest with files, or the
\* newest.
PriorVersion(v) ==
    LET others == (1 .. latest) \ {v}
        filled == {u \in others : Rows(u) # {}}
    IN IF filled # {} THEN Max(filled) ELSE IF others # {} THEN Max(others) ELSE 0

\* first_seen_for_path; without a prior version everything is new.
FirstSeen(v, p) == PriorVersion(v) = 0 \/ p \notin Rows(PriorVersion(v))

ProvisionalUnsticky(v, p) == IF FirstSeen(v, p) THEN "new" ELSE "ok"
\* The status until the hashes are there: a change stays one.
Provisional(v, p) == IF ui[v][p] = "changed" THEN "changed" ELSE IF FirstSeen(v, p) THEN "new" ELSE "ok"

WithRows(S) ==
    [v \in Vers |-> IF v \in S THEN [p \in Paths |-> IF p \in comp[v] THEN Provisional(v, p) ELSE "none"] ELSE ui[v]]

\* The hash of p is about to be that of what is on the disk now.
Overtakes(p) == {<<v, p>> : v \in {u \in Vers \cap {latest} : u \notin settled \/ p \in unread[u]}}

-----------------------------------------------------------------------------
(* Versions, the master, and the inventory.                                 *)

\* A version with the paths C, of which those in D have other contents than in
\* the version before.
Publish(C, D) ==
    LET v == latest + 1
        old == IF latest = 0 THEN NoHashes ELSE contents[latest]
    IN /\ v <= LastVersion /\ C # {} /\ D \subseteq C
       /\ \A p \in C \ D : old[p] # 0
       /\ latest' = v
       /\ comp' = [comp EXCEPT ![v] = C]
       /\ contents' = [contents EXCEPT ![v] = [p \in Paths |-> IF p \in D THEN v ELSE IF p \in C THEN old[p] ELSE 0]]
       /\ overtaken' = overtaken \cup
            {<<v, p>> : p \in {q \in Paths : latest # 0 /\ (Rows(latest) = {} \/ digest[q] # old[q])}}
       /\ UNCHANGED <<diskVars, digest, ui, newsVars, job, runs, jobLocals, settled, unread>>

\* sync_torrent_composition of mark_master_added, best effort: no events yet.
EarlySync(v) ==
    /\ v = latest
    /\ onMaster' = onMaster \cup {v}
    /\ ui' \in {ui, WithRows({v})}
    /\ UNCHANGED <<verVars, disk, digest, newsVars, job, runs, jobLocals, settled, unread, overtaken>>

\* The master has the path p of the latest version whole.
Land(p) ==
    /\ latest \in onMaster /\ p \in comp[latest]
    /\ disk' = [disk EXCEPT ![p] = contents[latest][p]]
    /\ UNCHANGED <<verVars, onMaster, digest, ui, newsVars, job, runs, jobLocals, settled, unread, overtaken>>

\* A version that was replaced is removed from the master.
Unload(v) ==
    /\ v \in onMaster /\ v # latest
    /\ onMaster' = onMaster \ {v}
    /\ UNCHANGED <<verVars, disk, digest, ui, newsVars, job, runs, jobLocals, settled, unread, overtaken>>

\* upsert_torrent_files_inventory, at the beginning of hash_backfill.
Inventory ==
    /\ onMaster # {}
    /\ ui' = WithRows(onMaster)
    /\ UNCHANGED <<verVars, diskVars, digest, newsVars, job, runs, jobLocals, settled, unread, overtaken>>

\* hash_backfill hashes a path of the inventory.
BackfillHash(p) ==
    /\ disk[p] # 0 /\ digest[p] # disk[p] /\ \E v \in onMaster : p \in comp[v]
    /\ digest' = [digest EXCEPT ![p] = disk[p]]
    /\ overtaken' = overtaken \cup Overtakes(p)
    /\ UNCHANGED <<verVars, diskVars, ui, newsVars, job, runs, jobLocals, settled, unread>>

-----------------------------------------------------------------------------
(* track_torrent.                                                           *)

Complete(v) == \A p \in comp[v] : disk[p] = contents[v][p]
JobAt(v, s) == job' = [job EXCEPT ![v] = s]

\* After the completion on the master, after a failure, or when the automatic
\* encoder misses a proof; a version that is not listed is passed over.
StartJob(v) ==
    /\ v = latest /\ v \in onMaster /\ Complete(v)
    /\ job[v] \in {"none", "success", "quiet"} /\ runs < MaxRuns
    /\ runs' = runs + 1
    /\ JobAt(v, "prepared")
    /\ UNCHANGED <<verVars, diskVars, digest, ui, newsVars, jobLocals, settled, unread, overtaken>>

EventsOfSync(v) ==
    {<<"added", p>> : p \in {q \in comp[v] : FirstSeen(v, q) /\ (ui[v][q] = "none" \/ <<"added", q>> \notin noted[v])}}
    \cup {<<"removed", p>> : p \in {q \in Paths \ comp[v] :
             PriorVersion(v) # 0 /\ q \in Rows(PriorVersion(v)) /\ <<"removed", q>> \notin noted[v]}}

\* _sync_composition up to its commit.
SyncRows(v) ==
    /\ job[v] = "prepared"
    /\ base' = [base EXCEPT ![v] = PriorVersion(v)]
    /\ firsts' = [firsts EXCEPT ![v] = {p \in comp[v] : FirstSeen(v, p)}]
    /\ added' = [added EXCEPT ![v] = EventsOfSync(v)]
    /\ ui' = WithRows({v})
    /\ JobAt(v, "synced")
    /\ UNCHANGED <<verVars, diskVars, digest, newsVars, runs, fresh, older, unhashed, settled, unread, overtaken>>

\* _persist_events
Record(v, from, to) ==
    /\ job[v] = from
    /\ noted' = [noted EXCEPT ![v] = noted[v] \cup added[v]]
    /\ fresh' = [fresh EXCEPT ![v] = fresh[v] \cup added[v]]
    /\ added' = [added EXCEPT ![v] = {}]
    /\ JobAt(v, to)
    /\ UNCHANGED <<verVars, diskVars, digest, ui, told, telling, runs, base, firsts, settled, unread, overtaken>>

\* Then _prior_version_hashes are read, before anything is hashed.
RecordComposition(v) ==
    /\ Record(v, "synced", "hashing")
    /\ older' = [older EXCEPT ![v] =
          [p \in Paths |-> IF base[v] # 0 /\ p \in Rows(base[v]) THEN digest[p] ELSE 0]]
    /\ unhashed' = [unhashed EXCEPT ![v] = comp[v]]

\* hash_paths_parallel keeps each hash at once.
HashPath(v, p) ==
    /\ job[v] = "hashing" /\ p \in unhashed[v]
    /\ digest' = [digest EXCEPT ![p] = disk[p]]
    /\ unhashed' = [unhashed EXCEPT ![v] = unhashed[v] \ {p}]
    /\ overtaken' = IF v = latest \/ digest[p] = disk[p] THEN overtaken ELSE overtaken \cup Overtakes(p)
    /\ UNCHANGED <<verVars, diskVars, ui, newsVars, job, runs, base, firsts, added, fresh, older, settled, unread>>

\* The path cannot be resolved or read: an error is counted, its row stays as it
\* was, and the job goes on.
SkipPath(v, p) ==
    /\ job[v] = "hashing" /\ p \in unhashed[v] /\ digest[p] # disk[p]
    /\ unhashed' = [unhashed EXCEPT ![v] = unhashed[v] \ {p}]
    /\ UNCHANGED <<verVars, diskVars, digest, ui, newsVars, job, runs, base, firsts, added, fresh, older,
                   settled, unread, overtaken>>

Mismatch(v, p) == older[v][p] # 0 /\ digest[p] # older[v][p]
Matched(v, p) == older[v][p] # 0 /\ digest[p] = older[v][p]

\* _settle_ui_status
SettledStatus(v, p) ==
    LET cur == ui[v][p]
    IN IF base[v] = 0 THEN IF cur \in {"new", "changed"} THEN cur ELSE "ok"
       ELSE IF cur = "changed" THEN "changed"
       ELSE IF p \in firsts[v] THEN "new"
       ELSE IF Mismatch(v, p) THEN "changed"
       ELSE IF Matched(v, p) \/ cur = "new" THEN "ok" ELSE cur

SettleStatuses(v) ==
    /\ job[v] = "hashing" /\ unhashed[v] = {}
    /\ ui' = [ui EXCEPT ![v] = [p \in Paths |-> IF p \in comp[v] THEN SettledStatus(v, p) ELSE ui[v][p]]]
    /\ added' = [added EXCEPT ![v] =
          {<<"modified", p>> : p \in {q \in comp[v] :
              base[v] # 0 /\ Mismatch(v, q) /\ <<"modified", q>> \notin noted[v]}}]
    /\ settled' = settled \cup {v}
    /\ unread' = [unread EXCEPT ![v] = {p \in comp[v] : digest[p] # disk[p]}]
    /\ JobAt(v, "settled")
    /\ UNCHANGED <<verVars, diskVars, digest, newsVars, runs, base, firsts, fresh, older, unhashed, overtaken>>

RecordChanges(v) == Record(v, "settled", "telling") /\ UNCHANGED <<older, unhashed>>

\* What a run has read is gone with it.
EndJob(v, s) ==
    /\ JobAt(v, s)
    /\ base' = [base EXCEPT ![v] = 0]
    /\ firsts' = [firsts EXCEPT ![v] = {}] /\ added' = [added EXCEPT ![v] = {}] /\ fresh' = [fresh EXCEPT ![v] = {}]
    /\ older' = [older EXCEPT ![v] = NoHashes] /\ unhashed' = [unhashed EXCEPT ![v] = {}]

PendingTold(v) == {e \in noted[v] : e[1] \in {"added", "removed"}}
\* What an earlier run has recorded and not told.
PendingOf(v) == {e \in noted[v] \ told[v] : e[1] \in {"added", "removed"}}

\* One message, committed together with notified_at.
Tell(v) ==
    LET all == fresh[v] \cup PendingOf(v)
        news == IF base[v] = 0 THEN {e \in all : e[1] = "added"} ELSE all
    IN /\ job[v] = "telling"
       /\ told' = [told EXCEPT ![v] = told[v] \cup news]
       /\ telling' = [telling EXCEPT ![v] = [e \in EventKinds \X Paths |-> IF e \in news THEN telling[v][e] + 1 ELSE telling[v][e]]]
       /\ EndJob(v, "success")
       /\ UNCHANGED <<verVars, diskVars, digest, ui, noted, runs, settled, unread, overtaken>>

\* The release is not tracked, or Telegram is off: nobody is told, and the job
\* succeeds all the same.
KeepQuiet(v) ==
    /\ job[v] = "telling"
    /\ EndJob(v, "quiet")
    /\ UNCHANGED <<verVars, diskVars, digest, ui, newsVars, runs, settled, unread, overtaken>>

\* The job is stopped or killed, or fails.
BreakJob(v) ==
    /\ job[v] \in JobSteps
    /\ EndJob(v, "none")
    /\ overtaken' = overtaken \cup
          (IF job[v] = "hashing" THEN UNION {Overtakes(p) : p \in {q \in comp[v] \ unhashed[v] : digest[q] # older[v][q]}} ELSE {})
    /\ UNCHANGED <<verVars, diskVars, digest, ui, newsVars, runs, settled, unread>>

-----------------------------------------------------------------------------
JobStep(v) ==
    \/ StartJob(v) \/ SyncRows(v) \/ RecordComposition(v)
    \/ (\E p \in Paths : HashPath(v, p) \/ SkipPath(v, p)) \/ SettleStatuses(v) \/ RecordChanges(v)
    \/ Tell(v) \/ KeepQuiet(v)

FileNext ==
    \/ \E C, D \in SUBSET Paths : Publish(C, D)
    \/ Inventory \/ \E p \in Paths : Land(p) \/ BackfillHash(p)
    \/ \E v \in Vers : EarlySync(v) \/ Unload(v) \/ JobStep(v) \/ BreakJob(v)

FileSpec == FileInit /\ [][FileNext]_fileVars

-----------------------------------------------------------------------------
(* Properties.                                                              *)

FileTypeOK ==
    /\ latest \in 0 .. LastVersion
    /\ comp \in [Vers -> SUBSET Paths] /\ contents \in [Vers -> [Paths -> 0 .. LastVersion]]
    /\ onMaster \subseteq 1 .. latest
    /\ disk \in [Paths -> 0 .. LastVersion] /\ digest \in [Paths -> 0 .. LastVersion]
    /\ ui \in [Vers -> [Paths -> {"none", "new", "changed", "ok"}]]
    /\ noted \in [Vers -> SUBSET (EventKinds \X Paths)] /\ told \in [Vers -> SUBSET (EventKinds \X Paths)]
    /\ fresh \in [Vers -> SUBSET (EventKinds \X Paths)]
    /\ \A v \in Vers : told[v] \subseteq noted[v] /\ fresh[v] \subseteq noted[v]
    /\ telling \in [Vers -> [EventKinds \X Paths -> Nat]]
    /\ job \in [Vers -> {"none", "success", "quiet"} \cup JobSteps]
    /\ runs \in 0 .. MaxRuns /\ base \in [Vers -> 0 .. LastVersion]
    /\ firsts \in [Vers -> SUBSET Paths] /\ added \in [Vers -> SUBSET (EventKinds \X Paths)]
    /\ older \in [Vers -> [Paths -> 0 .. LastVersion]] /\ unhashed \in [Vers -> SUBSET Paths]
    /\ settled \subseteq Vers /\ unread \in [Vers -> SUBSET Paths] /\ overtaken \subseteq Vers \X Paths

\* What the files of v are in comparison with the version before it.
TrueStatus(v, p) ==
    IF v = 1 \/ p \notin comp[v - 1] THEN "new"
    ELSE IF contents[v][p] = contents[v - 1][p] THEN "ok" ELSE "changed"

\* Once a hash job has settled the statuses of the latest version they are
\* true, and neither another run, nor the inventory, nor an early
\* synchronisation, nor a stopped job makes them untrue.  A path that the run
\* could not read may pass for unchanged, never for anything else, and until a run
\* reads it.  Paths whose older hash was lost are left out (overtaken; README,
\* section 11).
StatusIsHonest ==
    \A p \in Paths :
        latest \in settled /\ p \in comp[latest] /\ <<latest, p>> \notin overtaken
            => \/ ui[latest][p] = TrueStatus(latest, p)
               \/ p \in unread[latest] /\ TrueStatus(latest, p) = "changed" /\ ui[latest][p] = "ok"

\* When a hash job has succeeded for the latest version of a tracked release, with
\* Telegram on, people have been told of every path it adds and every path it
\* removes, once, wherever earlier runs of the job broke off (_unnotified_events,
\* the heal of _sync_composition); but for paths of which the history did not know
\* the version before.
NewsIsToldOnce ==
    /\ \A v \in Vers, e \in EventKinds \X Paths : telling[v][e] <= 1
    /\ latest # 0 /\ job[latest] = "success" =>
          \A p \in Paths : <<latest, p>> \notin overtaken =>
              /\ p \in comp[latest] /\ (latest = 1 \/ p \notin comp[latest - 1]) => <<"added", p>> \in told[latest]
              /\ latest > 1 /\ p \in comp[latest - 1] \ comp[latest] => <<"removed", p>> \in told[latest]

\* "ok" is confirmed by an equal hash, says docs/design/automatic-encoder.md:33.
\* The code does not keep this: a job that breaks off after it has hashed a path
\* leaves the new hash, and the next one takes it for the one of the version
\* before.  No run checks it; README, section 11, has the counterexamples.
OkIsConfirmed ==
    latest \in settled =>
        \A p \in comp[latest] : ui[latest][p] = "ok" => TrueStatus(latest, p) = "ok"
=============================================================================
