----------------------------- MODULE MCPipeline -----------------------------
(***************************************************************************)
(* Small instances of Pipeline: one torrent, one or two rows, and the actors  *)
(* that may race over them.                                                 *)
(*                                                                         *)
(* MCSpec plays two scenes of safety, each with its actors and its faults.    *)
(* "race": the insertion, a webhook and reconcile, while clients and calls     *)
(* fail and somebody moves the torrent, two of the three at most.  "return":   *)
(* both polls, a webhook of the slave and resume, while the torrent is moved    *)
(* twice after its insertion.                                               *)
(***************************************************************************)
EXTENDS Pipeline

VARIABLE scene

Cast == [race |-> {"sync", "reconcile"} \cup Hooks,
         return |-> {"sync", "poll_master", "poll_slave", "resume"} \cup SlaveHooks]

\* Who is not in the scene never begins, and its faults are as many.
Staged ==
    /\ \A a \in Actors \ Cast[scene] : pc[a] = "idle"
    /\ scene = "race" => errors + outages + moves <= 2 /\ moves <= 1
    /\ scene = "return" => errors = 0 /\ outages = 0 /\ (moves > 0 => seen /\ pc["sync"] = "idle")

MCSpec ==
    /\ scene \in DOMAIN Cast /\ Init
    /\ [][Next /\ UNCHANGED scene /\ Staged']_<<scene, vars>>

\* A crash, an outage and a second row, or an exception by itself.
OneFault == errors = 0 \/ (outages = 0 /\ crashes = 0 /\ \A r \in Rows \ {1} : status[r] = "none")

FaultsSpec ==
    /\ scene = "faults" /\ Init
    /\ [][Next /\ UNCHANGED scene /\ OneFault']_<<scene, vars>>

MCFairSpec ==
    /\ FaultsSpec
    /\ \A a \in Actors : WF_vars(Work(a))
    /\ \A a \in Workers \ {"resume"} : WF_vars((Begin(a) \/ Discover(a)) /\ OneFault')
    /\ WF_vars(Download) /\ WF_vars(HashEnds)
    /\ \A q \in Clients : WF_vars(ComeUp(q))
    /\ \A r \in Rows : WF_vars(GraceEnds(r))

\* For the runs that choose actors and faults by their constants.
PlainSpec == scene = "plain" /\ Init /\ [][Next /\ UNCHANGED scene]_<<scene, vars>>
PlainFairSpec == PlainSpec /\ Fairness
=============================================================================
