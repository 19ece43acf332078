----------------------------- MODULE ReleaseSync -----------------------------
(***************************************************************************)
(* The passes over one release (TorrentProcessor.process_release of           *)
(* services/torrent_processor.py under services/release_lock.py, called by     *)
(* jobs/ongoing.py, full_sync.py and retry_sync_failures.py): what AniLibria    *)
(* lists is archived, handed to the pipeline, marked as seen, and remembered       *)
(* in the checkpoint of the release.                                          *)
(*                                                                         *)
(* A step ends with an outside call or a commit.  A torrent keeps its id when  *)
(* its file is replaced; the version stands for the info hash.  Metadata of    *)
(* qBittorrent, composition and the choice of the source are left out, and the *)
(* connection with the lock is not lost in the middle of a pass.  No pass       *)
(* leaves out a torrent because of the checkpoint: the code asks it only about  *)
(* metadata of qBittorrent.                                                    *)
(*                                                                         *)
(* A definition that nothing uses is a plausible fault of the one it stands  *)
(* before; PROJECT.json names the property that notices each of them.        *)
(***************************************************************************)
EXTENDS Naturals

CONSTANTS
    Passes,      \* jobs that process the release
    KindOf,      \* KindOf[p]: "ongoing", "full" or "retry"
    Torrents,    \* torrent ids
    MaxVersion,  \* bound on the versions of a torrent
    MaxSyncNews,    \* bound on what changes in AniLibria
    MaxSyncTrouble, \* bound on calls that fail and jobs that die
    Free, Pool

ASSUME VersionAssumption == MaxVersion \in Nat
ASSUME FreeAssumption == Free \notin Passes

VARIABLES
    api,         \* api[t]: the version AniLibria lists, 0 for none
    arch,        \* arch[t]: the version of the active archive, 0 for none
    shown,       \* torrents whose active archive is api_present
    seenIds,     \* seen_torrents, by torrent id
    added,       \* added[t]: the version that was handed to the pipeline last
    checkpoint,  \* torrents_fingerprint, NoList if it is empty
    lock,        \* the pass with the lock, Pool for a forgotten connection
    stage,       \* stage[p]: where pass p is
    list,        \* list[p]: the torrents it was told
    todo,        \* todo[p]: those it has not come to
    fetched,     \* fetched[p]: the version it has downloaded
    erring,      \* passes with a recorded failure
    failed,      \* job_sync_failures: <<t, version>>
    retried,     \* retried[p]: those the retry p is for
    ended,       \* passes that are over and do not come again
    slipped,     \* torrents whose new version broke off after it was begun
    changes, broken

apiVars == <<api, changes>>
archiveVars == <<arch, shown, seenIds, added, checkpoint>>
passVars == <<stage, list, todo, fetched, erring>>
retryVars == <<failed, retried>>
syncVars == <<apiVars, archiveVars, lock, passVars, retryVars, ended, slipped, broken>>

NoList == [t \in Torrents |-> 0]
Listed(l) == {t \in Torrents : l[t] # 0}
Retries == {p \in Passes : KindOf[p] = "retry"}
UnderLock == {"locked", "work", "save", "add", "unlock"}

SyncInit ==
    /\ api = NoList /\ changes = 0
    /\ arch = NoList /\ shown = {} /\ seenIds = {} /\ added = NoList /\ checkpoint = NoList
    /\ lock = Free
    /\ stage = [p \in Passes |-> "idle"]
    /\ list = [p \in Passes |-> NoList]
    /\ todo = [p \in Passes |-> {}]
    /\ fetched = [p \in Passes |-> NoList]
    /\ erring = {} /\ failed = {}
    /\ retried = [p \in Passes |-> {}]
    /\ ended = {} /\ slipped = {} /\ broken = 0

\* Somebody publishes, replaces or withdraws a torrent.
Publish(t, v) ==
    /\ changes < MaxSyncNews /\ v \in {0, api[t] + 1} /\ v # api[t] /\ v <= MaxVersion
    /\ api' = [api EXCEPT ![t] = v]
    /\ changes' = changes + 1
    /\ UNCHANGED <<archiveVars, lock, passVars, retryVars, ended, slipped, broken>>

Break == broken < MaxSyncTrouble /\ broken' = broken + 1
Goto(p, s) == stage' = [stage EXCEPT ![p] = s]

-----------------------------------------------------------------------------
(* A pass begins and ends.                                                  *)

\* ongoing reads the torrents before it asks for the lock, the others after.
StartPass(p) ==
    /\ stage[p] = "idle" /\ p \notin ended
    /\ p \in Retries => failed # {}
    /\ retried' = [retried EXCEPT ![p] = IF p \in Retries THEN failed ELSE {}]
    /\ erring' = erring \ {p}
    /\ list' = [list EXCEPT ![p] = IF KindOf[p] = "ongoing" THEN api ELSE NoList]
    /\ Goto(p, "locking")
    /\ UNCHANGED <<apiVars, archiveVars, lock, todo, fetched, failed, ended, slipped, broken>>

\* Only ongoing comes back by itself.
Over(p) ==
    /\ stage' = [stage EXCEPT ![p] = "idle"]
    /\ todo' = [todo EXCEPT ![p] = {}]
    /\ fetched' = [fetched EXCEPT ![p] = NoList]
    /\ ended' = IF KindOf[p] = "ongoing" THEN ended ELSE ended \cup {p}

LockFree == lock = Free

TakeLock(p) ==
    /\ stage[p] = "locking"
    /\ IF LockFree
       THEN /\ lock' = p
            /\ list' = [list EXCEPT ![p] =
                 CASE KindOf[p] = "ongoing" -> list[p]
                   [] KindOf[p] = "full" -> api
                   [] OTHER -> [t \in Torrents |-> IF <<t, api[t]>> \in retried[p] THEN api[t] ELSE 0]]
            /\ Goto(p, "locked")
            /\ UNCHANGED <<todo, fetched, ended>>
       ELSE Over(p) /\ UNCHANGED <<lock, list>>
    /\ UNCHANGED <<apiVars, archiveVars, erring, retryVars, slipped, broken>>

\* A connection whose answer was lost is not given back to the pool.
LostLock == Free

LoseAnswer(p) ==
    /\ stage[p] = "locking" /\ lock = Free /\ Break
    /\ lock' = LostLock
    /\ Over(p)
    /\ UNCHANGED <<apiVars, archiveVars, list, erring, retryVars, slipped>>

\* The source policy, applied at the end, may fail as well.
Unlock(p) ==
    /\ stage[p] = "unlock"
    /\ \/ UNCHANGED <<checkpoint, broken>>
       \/ Break /\ checkpoint' = IF p \in Retries THEN checkpoint ELSE NoList
    /\ lock' = Free
    /\ Over(p)
    /\ UNCHANGED <<apiVars, arch, shown, seenIds, added, list, erring, retryVars, slipped>>

-----------------------------------------------------------------------------
(* _process_release.                                                        *)

\* The fingerprint after the pass.
Marked(p) ==
    IF p \in erring' THEN NoList ELSE IF p \in Retries THEN checkpoint ELSE list[p]

ChangedIgnored(p, t) == FALSE
\* The active archive has another info hash.
Changed(p, t) == arch[t] \notin {0, list[p][t]}

Done(p, t) == t \in seenIds /\ ~Changed(p, t)

\* Presence first; then there is nothing to do, or the torrents are gone
\* through.  If all are seen only their metadata is refreshed, which may fail.
Examine(p) ==
    /\ stage[p] = "locked"
    /\ shown' = IF p \in Retries THEN shown ELSE {t \in Listed(list[p]) : arch[t] # 0}
    /\ IF \A t \in Listed(list[p]) : Done(p, t)
       THEN /\ \/ UNCHANGED <<erring, broken>>
               \/ Break /\ erring' = erring \cup {p}
            /\ checkpoint' = IF p \in Retries /\ list[p] = NoList THEN checkpoint ELSE Marked(p)
            /\ Goto(p, "unlock") /\ UNCHANGED todo
       ELSE /\ todo' = [todo EXCEPT ![p] = Listed(list[p])]
            /\ Goto(p, "work") /\ UNCHANGED <<checkpoint, erring, broken>>
    /\ UNCHANGED <<apiVars, arch, seenIds, added, lock, list, fetched, retryVars, ended, slipped>>

Skip(p, t) ==
    /\ stage[p] = "work" /\ t \in todo[p] /\ Done(p, t)
    /\ todo' = [todo EXCEPT ![p] = todo[p] \ {t}]
    /\ UNCHANGED <<apiVars, archiveVars, lock, stage, list, fetched, erring, retryVars, ended, slipped, broken>>

\* A retry is for one version; the other passes take what the file is now.
Fits(p, t) == p \in Retries => api[t] = list[p][t]

\* The file is downloaded, and the archive of another version is superseded in
\* a transaction of its own.
Download(p, t) ==
    /\ stage[p] = "work" /\ t \in todo[p] /\ ~Done(p, t)
    /\ api[t] # 0 /\ Fits(p, t)
    /\ fetched' = [fetched EXCEPT ![p] = [NoList EXCEPT ![t] = api[t]]]
    /\ IF arch[t] \in {0, api[t]} THEN UNCHANGED <<arch, shown>>
       ELSE arch' = [arch EXCEPT ![t] = 0] /\ shown' = shown \ {t}
    /\ Goto(p, "save")
    /\ UNCHANGED <<apiVars, seenIds, added, checkpoint, lock, list, todo, erring, retryVars, ended, slipped, broken>>

SaveArchive(p, t) ==
    /\ stage[p] = "save" /\ fetched[p][t] # 0
    /\ arch' = [arch EXCEPT ![t] = fetched[p][t]]
    /\ shown' = shown \cup {t}
    /\ Goto(p, "add")
    /\ UNCHANGED <<apiVars, seenIds, added, checkpoint, lock, list, todo, fetched, erring, retryVars, ended, slipped, broken>>

\* Added to the master, or left waiting for it; the pipeline has it now.
AddTorrent(p, t) ==
    /\ stage[p] = "add" /\ fetched[p][t] # 0
    /\ added' = [added EXCEPT ![t] = fetched[p][t]]
    /\ seenIds' = seenIds \cup {t}
    /\ todo' = [todo EXCEPT ![p] = todo[p] \ {t}]
    /\ fetched' = [fetched EXCEPT ![p] = NoList]
    /\ slipped' = slipped \ {t}
    /\ Goto(p, "work")
    /\ UNCHANGED <<apiVars, arch, shown, checkpoint, lock, list, erring, retryVars, ended, broken>>

\* An earlier version was seen, so that the id counts as seen.
SlippedWith(p) == {t \in seenIds : fetched[p][t] # 0}

\* The version of a recorded failure: the one at hand, or else the one listed.
FailedVersion(p, t) == IF fetched[p][t] # 0 THEN fetched[p][t] ELSE list[p][t]

\* Something about this torrent fails; the others go on.
FailTorrent(p, t) ==
    /\ stage[p] \in {"work", "save", "add"} /\ t \in todo[p]
    /\ IF stage[p] = "work" THEN ~Done(p, t) ELSE fetched[p][t] # 0
    /\ IF stage[p] = "work" /\ (api[t] = 0 \/ ~Fits(p, t)) THEN UNCHANGED broken ELSE Break
    /\ erring' = erring \cup {p}
    /\ failed' = failed \cup {<<t, FailedVersion(p, t)>>}
    /\ slipped' = slipped \cup SlippedWith(p)
    /\ todo' = [todo EXCEPT ![p] = todo[p] \ {t}]
    /\ fetched' = [fetched EXCEPT ![p] = NoList]
    /\ Goto(p, "work")
    /\ UNCHANGED <<apiVars, archiveVars, lock, list, retried, ended>>

FinishPass(p) ==
    /\ stage[p] = "work" /\ todo[p] = {}
    /\ UNCHANGED erring
    /\ checkpoint' = Marked(p)
    /\ Goto(p, "unlock")
    /\ UNCHANGED <<apiVars, arch, shown, seenIds, added, lock, list, todo, fetched, retryVars, ended, slipped, broken>>

\* The job is killed, or told to stop between two torrents.
KillPass(p) ==
    /\ stage[p] # "idle" /\ Break
    /\ lock' = IF lock = p THEN Free ELSE lock
    /\ slipped' = slipped \cup SlippedWith(p)
    /\ Over(p)
    /\ UNCHANGED <<apiVars, archiveVars, list, erring, retryVars>>

-----------------------------------------------------------------------------
PassStep(p) ==
    \/ StartPass(p) \/ TakeLock(p) \/ Examine(p) \/ FinishPass(p) \/ Unlock(p)
    \/ \E t \in Torrents : Skip(p, t) \/ Download(p, t) \/ SaveArchive(p, t) \/ AddTorrent(p, t) \/ FailTorrent(p, t)

SyncNext ==
    \/ \E p \in Passes : PassStep(p) \/ LoseAnswer(p) \/ KillPass(p)
    \/ \E t \in Torrents, v \in 0 .. MaxVersion : Publish(t, v)

SyncSpec == SyncInit /\ [][SyncNext]_syncVars

\* The passes go on, and ongoing comes back every few minutes.
SyncFairness == \A p \in Passes : WF_syncVars(PassStep(p))

-----------------------------------------------------------------------------
(* Properties.                                                              *)

VersionOf == [Torrents -> 0 .. MaxVersion]

SyncTypeOK ==
    /\ api \in VersionOf /\ arch \in VersionOf /\ added \in VersionOf /\ checkpoint \in VersionOf
    /\ shown \subseteq Torrents /\ seenIds \subseteq Torrents /\ slipped \subseteq Torrents
    /\ lock \in Passes \cup {Free, Pool}
    /\ stage \in [Passes -> {"idle", "locking"} \cup UnderLock]
    /\ list \in [Passes -> VersionOf] /\ fetched \in [Passes -> VersionOf]
    /\ todo \in [Passes -> SUBSET Torrents]
    /\ erring \subseteq Passes /\ ended \subseteq Passes
    /\ failed \subseteq Torrents \X (1 .. MaxVersion)
    /\ retried \in [Passes -> SUBSET (Torrents \X (1 .. MaxVersion))]
    /\ \A t \in shown : arch[t] # 0

\* No two passes work on the release (lock_release), whoever dies or loses the
\* answer that the lock is his.
PassIsAlone == \A p, q \in Passes : stage[p] \in UnderLock /\ stage[q] \in UnderLock => p = q

\* What AniLibria lists and the pipeline has not, the next pass takes up: the
\* torrent does not count as done (build_seen_exists_query,
\* _archive_hash_mismatches), unless a pass has it in hand; but for what slipped.
NothingStaysHidden ==
    \A t \in Torrents \ slipped :
        api[t] \notin {0, added[t]} /\ (\A p \in Passes : fetched[p][t] = 0)
            => t \notin seenIds \/ arch[t] \notin {0, api[t]}

\* The checkpoint of a release lists only torrents that the pipeline was given
\* (save_release_checkpoint after a pass without a failure).
CheckpointIsTrue == \A t \in Torrents : checkpoint[t] # 0 => added[t] # 0

\* Once AniLibria changes no more, what it lists is archived, handed over and
\* shown, and nothing else is shown: lists that were read too early, failures,
\* stops and retries are made good by the passes that follow; but for what slipped.
SyncCatchesUp ==
    <>[](\A t \in Torrents \ slipped :
            IF api[t] = 0 THEN t \notin shown
            ELSE t \in shown /\ arch[t] = api[t] /\ added[t] = api[t])

\* A version that failed is tried again until the pipeline has it: the comment
\* on invalidate_release_checkpoint says that a failure must not keep the retry
\* from happening.
FailureIsRetried == <>[](\A t \in Torrents : api[t] # 0 => added[t] = api[t])
=============================================================================
