------------------------------ MODULE FileHashes ------------------------------
(***************************************************************************)
(* The hashes of files on disk (hash_paths_parallel of services/file_hasher.py, *)
(* called by jobs/hash_torrent.py for the files of one torrent and by           *)
(* jobs/hash_backfill.py for all folders, one after the other).  A hash is        *)
(* stored with the size and time the file had before it was read, and believed   *)
(* only while they are still those of the file.                                *)
(*                                                                         *)
(* The stamp of a file is its size and time; every write changes it, and no      *)
(* content comes back.  The digest of a content is its stamp.  A folder has one   *)
(* file, and a pass reads one file at a time: with more threads it does the same  *)
(* for several at once.  The removal of rows of vanished files is left out.       *)
(*                                                                         *)
(* A definition that nothing uses is a plausible fault of the one it stands  *)
(* before; PROJECT.json names the property that notices each of them.        *)
(***************************************************************************)
EXTENDS Naturals

CONSTANTS
    LastFile,       \* files and their folders are 1 .. LastFile
    FolderPass,     \* the pass over all folders
    TorrentJobs,    \* hash_torrent of one file each
    MaxWrites,      \* bound on the writes to a file
    MaxHashFaults   \* bound on files that cannot be read and passes that break off

Hashers == {FolderPass} \cup TorrentJobs
HashFiles == 1 .. LastFile

ASSUME HashersAssumption == LastFile \in Nat \ {0} /\ FolderPass \notin TorrentJobs

VARIABLES
    stamp,        \* stamp[f]: the file as it is
    diskHash,     \* diskHash[f]: size and mtime, and content_hash of the row; 0 for no row
    hashing,      \* hashing[h]: where pass h is
    hand,         \* hand[h]: its file, how that was before it was read, what was read
    ahead,        \* ahead[h]: files it has not come to
    folderDone,   \* the checkpoint of the backfill, 0 if it is empty
    spoilt,       \* files that changed or could not be read since the backfill began
    hashFaults

hashVars == <<stamp, diskHash, hashing, hand, ahead, folderDone, spoilt, hashFaults>>

Torn == 0
Empty == [file |-> 1, stat |-> 0, digest |-> 0]
Believed(f) == diskHash[f].stamp = stamp[f]

HashInit ==
    /\ stamp = [f \in HashFiles |-> 1]
    /\ diskHash = [f \in HashFiles |-> [stamp |-> 0, hash |-> 0]]
    /\ hashing = [h \in Hashers |-> "idle"]
    /\ hand = [h \in Hashers |-> Empty]
    /\ ahead = [h \in Hashers |-> {}]
    /\ folderDone = 0 /\ spoilt = {} /\ hashFaults = 0

HashAt(h, s) == hashing' = [hashing EXCEPT ![h] = s]
Put(h, s) == HashAt(h, s) /\ hand' = [hand EXCEPT ![h] = Empty]

\* qBittorrent, or somebody else, writes to the file.
Write(f) ==
    /\ stamp[f] <= MaxWrites
    /\ stamp' = [stamp EXCEPT ![f] = stamp[f] + 1]
    /\ spoilt' = spoilt \cup {f}
    /\ UNCHANGED <<diskHash, hashing, hand, ahead, folderDone, hashFaults>>

-----------------------------------------------------------------------------
(* A pass.                                                                  *)

\* A backfill goes on behind its checkpoint; without one it begins anew.
StartHashing(h) ==
    /\ hashing[h] = "idle"
    /\ IF h = FolderPass
       THEN ahead' = [ahead EXCEPT ![h] = {f \in HashFiles : f > folderDone}]
       ELSE \E f \in HashFiles : ahead' = [ahead EXCEPT ![h] = {f}]
    /\ spoilt' = IF h = FolderPass /\ folderDone = 0 THEN {} ELSE spoilt
    /\ HashAt(h, "next")
    /\ UNCHANGED <<stamp, diskHash, hand, folderDone, hashFaults>>

\* The checkpoint after folder f of pass h.
CheckpointAt(h, f) == IF h = FolderPass THEN f ELSE folderDone

FileIsNext(h, f) == hashing[h] = "next" /\ f \in ahead[h] /\ \A g \in ahead[h] : f <= g

\* The gate: size and time are those of the row.
PassGate(h, f) ==
    /\ FileIsNext(h, f) /\ Believed(f)
    /\ ahead' = [ahead EXCEPT ![h] = ahead[h] \ {f}]
    /\ folderDone' = CheckpointAt(h, f)
    /\ UNCHANGED <<stamp, diskHash, hashing, hand, spoilt, hashFaults>>

OpenFile(h, f) ==
    /\ FileIsNext(h, f) /\ ~Believed(f)
    /\ hand' = [hand EXCEPT ![h] = [Empty EXCEPT !.file = f, !.stat = stamp[f]]]
    /\ HashAt(h, "reading")
    /\ UNCHANGED <<stamp, diskHash, ahead, folderDone, spoilt, hashFaults>>

\* A file that changes meanwhile is read as it is then, or torn.
ReadFile(h) ==
    /\ hashing[h] = "reading"
    /\ LET now == stamp[hand[h].file]
       IN \E d \in (IF now = hand[h].stat THEN {now} ELSE {now, Torn}) : hand' = [hand EXCEPT ![h].digest = d]
    /\ HashAt(h, "read")
    /\ UNCHANGED <<stamp, diskHash, ahead, folderDone, spoilt, hashFaults>>

StampAfter(h) == stamp[hand[h].file]
\* The size and time that are stored with the digest.
StampStored(h) == hand[h].stat

\* _apply_hash_row, whatever the row is by then.
RecordHash(h) ==
    LET f == hand[h].file
    IN /\ hashing[h] = "read"
       /\ diskHash' = [diskHash EXCEPT ![f] = [stamp |-> StampStored(h), hash |-> hand[h].digest]]
       /\ spoilt' = IF hand[h].stat = stamp[f] THEN spoilt ELSE spoilt \cup {f}
       /\ ahead' = [ahead EXCEPT ![h] = ahead[h] \ {f}]
       /\ folderDone' = CheckpointAt(h, f)
       /\ Put(h, "next")
       /\ UNCHANGED <<stamp, hashFaults>>

HashFault == hashFaults < MaxHashFaults /\ hashFaults' = hashFaults + 1

\* An error of one file does not stop the pass, nor its checkpoint.
MissFile(h) ==
    /\ hashing[h] = "reading" /\ HashFault
    /\ spoilt' = spoilt \cup {hand[h].file}
    /\ ahead' = [ahead EXCEPT ![h] = ahead[h] \ {hand[h].file}]
    /\ folderDone' = CheckpointAt(h, hand[h].file)
    /\ Put(h, "next")
    /\ UNCHANGED <<stamp, diskHash>>

CheckpointLeftAhead(h) == IF hashing[h] = "next" THEN folderDone ELSE CheckpointAt(h, hand[h].file)
\* A folder that is not done is done again.
CheckpointLeft(h) == folderDone

\* The pass is told to stop, or dies.
BreakHashing(h) ==
    /\ hashing[h] # "idle" /\ HashFault
    /\ folderDone' = CheckpointLeft(h)
    /\ ahead' = [ahead EXCEPT ![h] = {}]
    /\ Put(h, "idle")
    /\ UNCHANGED <<stamp, diskHash, spoilt>>

EndHashing(h) ==
    /\ hashing[h] = "next" /\ ahead[h] = {}
    /\ folderDone' = IF h = FolderPass THEN 0 ELSE folderDone
    /\ HashAt(h, "idle")
    /\ UNCHANGED <<stamp, diskHash, hand, ahead, spoilt, hashFaults>>

-----------------------------------------------------------------------------
HashNext ==
    \/ \E f \in HashFiles : Write(f) \/ \E h \in Hashers : PassGate(h, f) \/ OpenFile(h, f)
    \/ \E h \in Hashers :
          StartHashing(h) \/ ReadFile(h) \/ RecordHash(h) \/ MissFile(h) \/ BreakHashing(h) \/ EndHashing(h)

HashSpec == HashInit /\ [][HashNext]_hashVars

-----------------------------------------------------------------------------
(* Properties.                                                              *)

HashTypeOK ==
    /\ stamp \in [HashFiles -> Nat \ {0}]
    /\ diskHash \in [HashFiles -> [stamp : Nat, hash : Nat]]
    /\ hashing \in [Hashers -> {"idle", "next", "reading", "read"}]
    /\ hand \in [Hashers -> [file : HashFiles, stat : Nat, digest : Nat]]
    /\ ahead \in [Hashers -> SUBSET HashFiles]
    /\ folderDone \in 0 .. LastFile /\ spoilt \subseteq HashFiles
    /\ \A h \in Hashers : hashing[h] \in {"reading", "read"} => hand[h].file \in ahead[h]
    /\ hashing[FolderPass] # "idle" => \A f \in ahead[FolderPass] : folderDone < f

\* A hash that is believed is that of the content: neither a file that changes
\* while it is read, nor a slower pass that records an older state afterwards,
\* can make a wrong one pass for the file (capture_path, record_readiness).
BelievedHashIsTrue == \A f \in HashFiles : Believed(f) => diskHash[f].hash = stamp[f]

\* When a backfill is through, every file has its hash, however often it was
\* stopped and resumed; but for what changed or failed under way.
BackfillCovers ==
    [][EndHashing(FolderPass) => \A f \in HashFiles \ spoilt : Believed(f)]_hashVars
=============================================================================
