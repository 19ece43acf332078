----------------------------- MODULE MCHashJobs -----------------------------
(***************************************************************************)
(* The jobs that hash torrents; the first state chooses one of two questions. *)
(*                                                                         *)
(* "jobs":  one row of the type hash_torrent, an API and a worker: what        *)
(*          happens to it in the end.                                        *)
(* "files": two versions of a torrent with two paths: what its hash jobs      *)
(*          record.                                                          *)
(***************************************************************************)
EXTENDS JobRunner, FileVersions

CONSTANTS api, worker, j1, k1, e1, e2

VARIABLE part

MCProcs == {api, worker}
MCReclaimers == {worker}
HashOnly == {"hash_torrent"}

\* Bounds.  The path e1 is of the first version.  That version is hashed, and
\* there are three hash jobs, when there is no other path.
Alone == Cardinality(comp[1] \cup comp[2]) = 1
OnePathIsEnough ==
    /\ latest > 0 => e1 \in comp[1]
    /\ (job[1] = "none" /\ runs < 3) \/ Alone

MCInit == part \in {"jobs", "files"} /\ Init /\ FileInit

MCNext ==
    \/ part = "jobs" /\ Next /\ UNCHANGED <<part, fileVars>>
    \/ part = "files" /\ FileNext /\ OnePathIsEnough' /\ UNCHANGED <<part, vars>>

\* The fairness of JobRunner, for its own part.
MCFairness ==
    /\ \A i \in Jobs : WF_vars(part = "jobs" /\ Thread(i)) /\ WF_vars(part = "jobs" /\ Age(i))
    /\ \A p \in Procs :
          /\ WF_vars(part = "jobs" /\ EndCreate(p)) /\ WF_vars(part = "jobs" /\ Reclaim(p))
          /\ WF_vars(part = "jobs" /\ ShutdownCancel(p)) /\ WF_vars(part = "jobs" /\ Exit(p))
          /\ WF_vars(part = "jobs" /\ Restart(p))

MCSpec == MCInit /\ [][MCNext]_<<part, vars, fileVars>> /\ MCFairness
=============================================================================
