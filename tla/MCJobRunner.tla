---------------------------- MODULE MCJobRunner ----------------------------
(* Small instances of JobRunner: an API and a worker, of which only the      *)
(* worker reclaims periodically; "hash_torrent" runs once per info hash.     *)
EXTENDS JobRunner, TLC

CONSTANTS api, worker

MCProcs == {api, worker}
MCReclaimers == {worker}
HashOnly == {"hash_torrent"}
Symmetry == Permutations(Jobs)

\* Bound: a shutdown or crash, or a lost lock.
OneFault == stops + Cardinality(lost) <= 1
=============================================================================
