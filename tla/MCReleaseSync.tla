--------------------------- MODULE MCReleaseSync ---------------------------
(* One torrent of one release, for which a regular pass comes every few      *)
(* minutes, a full one and a retry once.                                      *)
EXTENDS ReleaseSync

CONSTANTS o1, d1, r1, x

MCKindOf == [p \in Passes |-> IF p = o1 THEN "ongoing" ELSE IF p = r1 THEN "retry" ELSE "full"]
FairSpec == SyncSpec /\ SyncFairness
=============================================================================
