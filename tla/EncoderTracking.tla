--------------------------- MODULE EncoderTracking ---------------------------
(***************************************************************************)
(* What the history knows of the jobs of Kensetsu (services/                 *)
(* encoder_tracking.py).  A poll claims due jobs with a token and a lease,    *)
(* asks Kensetsu outside any transaction, and saves what it has seen if the    *)
(* claim is still its own.  A link to the file is only shown while nothing     *)
(* has disproved it.                                                        *)
(*                                                                         *)
(* Times are past or not; the integration stays switched on.                  *)
(*                                                                         *)
(* A definition that nothing uses is a plausible fault of the one it stands  *)
(* before; PROJECT.json names the property that notices each of them.        *)
(***************************************************************************)
EXTENDS Naturals, SequencesExt

CONSTANTS
    Pollers,      \* calls of poll_encoder_jobs; a claim bears the poller's name
    NoPoller,
    EncJobs,      \* external jobs of accepted items
    BatchLimit,
    MaxTrouble,   \* bound on answers that say nothing
    MaxMishaps    \* bound on pollers that die, freeze or break off

ASSUME PollersAssumption == NoPoller \notin Pollers /\ BatchLimit \in Nat \ {0}

VARIABLES
    remote,       \* remote[j]: status of the job in Kensetsu, "gone" once it is deleted
    output,       \* jobs whose file is there
    news,         \* news[j]: number of changes in Kensetsu
    known,        \* known[j]: status, "absent" before ensure_item_jobs
    avail,        \* avail[j]: output_available
    doubt,        \* doubt[j]: poll_error_kind
    holder,       \* holder[j]: claim_token
    leased,       \* jobs with lease_until > now
    line,         \* jobs whose next_poll_at has passed, in that order
    targets,      \* targets[p]: the claims p has not saved yet
    found,        \* found[p][j]: what p has observed
    dead,         \* pollers whose process has died
    troubles, mishaps,
    asOf,         \* asOf[j]: news[j] when the answer in the row was given
    answer        \* answer[j]: what Kensetsu last said about the file

remoteVars == <<remote, output, news>>
rowVars == <<known, avail, doubt, asOf, answer>>
claimVars == <<holder, leased>>
pollerVars == <<targets, found, dead>>
trackVars == <<remoteVars, rowVars, claimVars, line, pollerVars, troubles, mishaps>>

Finished == {"done", "error", "cancelled"}
JobStatus == {"planned", "in_progress"} \cup Finished
\* JobObservation: status, output_available, error_kind; the state n it is of,
\* and what it says of the file.
Saw(s, a, k, n, f) == [status |-> s, avail |-> a, kind |-> k, at |-> n, file |-> f]
NotYet == Saw("keep", "keep", "not yet", 0, "silent")

TrackInit ==
    /\ remote = [j \in EncJobs |-> "planned"] /\ output = {}
    /\ news = [j \in EncJobs |-> 0]
    /\ known = [j \in EncJobs |-> "absent"]
    /\ avail = [j \in EncJobs |-> "unsure"] /\ doubt = [j \in EncJobs |-> "none"]
    /\ asOf = [j \in EncJobs |-> 0] /\ answer = [j \in EncJobs |-> "silent"]
    /\ holder = [j \in EncJobs |-> NoPoller] /\ leased = {}
    /\ line = <<>>
    /\ targets = [p \in Pollers |-> {}]
    /\ found = [p \in Pollers |-> [j \in EncJobs |-> NotYet]]
    /\ dead = {} /\ troubles = 0 /\ mishaps = 0

-----------------------------------------------------------------------------
(* Kensetsu, which is external.                                             *)

Advance(j) ==
    /\ \/ remote[j] = "planned" /\ remote' = [remote EXCEPT ![j] = "in_progress"] /\ UNCHANGED output
       \/ /\ remote[j] = "in_progress"
          /\ \E s \in Finished :
                /\ remote' = [remote EXCEPT ![j] = s]
                /\ output' = IF s = "done" THEN output \cup {j} ELSE output
    /\ news' = [news EXCEPT ![j] = news[j] + 1]
    /\ UNCHANGED <<rowVars, claimVars, line, pollerVars, troubles, mishaps>>

\* The file, or the finished job with its file, is deleted.
Delete(j) ==
    /\ \/ j \in output /\ UNCHANGED remote
       \/ remote[j] \in Finished /\ remote' = [remote EXCEPT ![j] = "gone"]
    /\ output' = output \ {j}
    /\ news' = [news EXCEPT ![j] = news[j] + 1]
    /\ UNCHANGED <<rowVars, claimVars, line, pollerVars, troubles, mishaps>>

-----------------------------------------------------------------------------
(* Rows and claims.                                                         *)

\* ensure_item_jobs, when a receipt accepts the item.
Appear(j) ==
    /\ known[j] = "absent"
    /\ known' = [known EXCEPT ![j] = "unknown"]
    /\ line' = Append(line, j)
    /\ UNCHANGED <<remoteVars, avail, doubt, asOf, answer, claimVars, pollerVars, troubles, mishaps>>

ComeDue(j) ==
    /\ known[j] # "absent" /\ ~Contains(line, j)
    /\ line' = Append(line, j)
    /\ UNCHANGED <<remoteVars, rowVars, claimVars, pollerVars, troubles, mishaps>>

Mishap == mishaps < MaxMishaps /\ mishaps' = mishaps + 1

\* Before the poller is through with the job it must have frozen.
LeaseRunsOut(j) ==
    /\ j \in leased
    /\ IF j \in targets[holder[j]] THEN Mishap ELSE UNCHANGED mishaps
    /\ leased' = leased \ {j}
    /\ UNCHANGED <<remoteVars, rowVars, holder, line, pollerVars, troubles>>

FreeUnclaimed(j) == holder[j] = NoPoller
FreeJob(j) == holder[j] = NoPoller \/ j \notin leased

\* The jobs up to place k that can be claimed.
FreeUpTo(k) == {i \in 1 .. k : FreeJob(line[i])}
Firsts(n) == {line[k] : k \in {i \in DOMAIN line : FreeJob(line[i]) /\ Cardinality(FreeUpTo(i)) <= n}}

\* claim_due: the first due jobs that nobody has, or has had for too long.
ClaimDue(p) ==
    /\ p \notin dead /\ targets[p] = {} /\ \A j \in EncJobs : holder[j] # p
    /\ Firsts(BatchLimit) # {}
    /\ targets' = [targets EXCEPT ![p] = Firsts(BatchLimit)]
    /\ holder' = [j \in EncJobs |-> IF j \in Firsts(BatchLimit) THEN p ELSE holder[j]]
    /\ leased' = leased \cup Firsts(BatchLimit)
    /\ UNCHANGED <<remoteVars, rowVars, line, found, dead, troubles, mishaps>>

-----------------------------------------------------------------------------
(* observe.                                                                 *)

Waiting(p, j) == j \in targets[p] /\ found[p][j].kind = "not yet" /\ found[p][j].status = "keep"
Sees(p, j, o) == found' = [found EXCEPT ![p][j] = o]
FileIn(j) == IF j \in output THEN "yes" ELSE "no"
Answered(j) == IF j \in output THEN "there" ELSE "denied"

\* 404: the job is not there, and an older file is disproved.  Otherwise the
\* answer speaks of the file, as new versions of Kensetsu do, or the HEAD request
\* follows.
GetJob(p, j) ==
    /\ Waiting(p, j)
    /\ IF remote[j] = "gone"
       THEN Sees(p, j, Saw("keep", "unsure", "not_found", news[j], "denied"))
       ELSE \/ Sees(p, j, Saw(remote[j], FileIn(j), "none", news[j], Answered(j)))
            \/ remote[j] = "done" /\ Sees(p, j, Saw("done", "unsure", "not yet", news[j], "silent"))
    /\ UNCHANGED <<remoteVars, rowVars, claimVars, line, targets, dead, troubles, mishaps>>

\* HEAD of the file; without a job there is none either.
HeadFile(p, j) ==
    /\ j \in targets[p] /\ found[p][j].kind = "not yet" /\ found[p][j].status = "done"
    /\ Sees(p, j, [found[p][j] EXCEPT !.avail = FileIn(j), !.kind = "none", !.file = Answered(j)])
    /\ UNCHANGED <<remoteVars, rowVars, claimVars, line, targets, dead, troubles, mishaps>>

\* A timeout, a broken connection, an error status, a page instead of a file,
\* an answer that contradicts itself: what was read before it stays valid.
FailCheck(p, j) ==
    /\ j \in targets[p] /\ found[p][j].kind = "not yet"
    /\ troubles < MaxTrouble /\ troubles' = troubles + 1
    /\ Sees(p, j, [found[p][j] EXCEPT !.kind = "failed"])
    /\ UNCHANGED <<remoteVars, rowVars, claimVars, line, targets, dead, mishaps>>

-----------------------------------------------------------------------------
(* save_observation and the end of a poll.                                  *)

MayOverwriteHeld(p, j) == holder[j] = p \/ holder[j] = NoPoller
MayOverwrite(p, j) == holder[j] = p /\ j \in leased

LineWithout(j) ==
    IF Contains(line, j) THEN RemoveAt(line, CHOOSE i \in DOMAIN line : line[i] = j) ELSE line

Save(p, j) ==
    LET o == found[p][j]
    IN /\ j \in targets[p] /\ o.kind # "not yet"
       /\ targets' = [targets EXCEPT ![p] = targets[p] \ {j}]
       /\ Sees(p, j, NotYet)
       /\ IF MayOverwrite(p, j)
          THEN /\ known' = [known EXCEPT ![j] = IF o.status = "keep" THEN known[j] ELSE o.status]
               /\ avail' = [avail EXCEPT ![j] = IF o.avail = "keep" THEN avail[j] ELSE o.avail]
               /\ doubt' = [doubt EXCEPT ![j] = o.kind]
               /\ asOf' = [asOf EXCEPT ![j] = IF o.status = "keep" /\ o.kind # "not_found" THEN asOf[j] ELSE o.at]
               /\ answer' = [answer EXCEPT ![j] = IF o.file = "silent" THEN answer[j] ELSE o.file]
               /\ holder' = [holder EXCEPT ![j] = NoPoller]
               /\ leased' = leased \ {j}
               /\ line' = LineWithout(j)
          ELSE UNCHANGED <<rowVars, claimVars, line>>
       /\ UNCHANGED <<remoteVars, dead, troubles, mishaps>>

LeasesBut(p) == {j \in leased : holder[j] # p}

\* The finally of the poll, after its last job or an exception.
EndPoll(p) ==
    /\ p \notin dead /\ \E j \in EncJobs : holder[j] = p
    /\ IF targets[p] = {} THEN UNCHANGED mishaps ELSE Mishap
    /\ targets' = [targets EXCEPT ![p] = {}]
    /\ found' = [found EXCEPT ![p] = [j \in EncJobs |-> NotYet]]
    /\ holder' = [j \in EncJobs |-> IF holder[j] = p THEN NoPoller ELSE holder[j]]
    /\ leased' = LeasesBut(p)
    /\ UNCHANGED <<remoteVars, rowVars, line, dead, troubles>>

Die(p) ==
    /\ targets[p] # {} /\ dead = {} /\ Mishap
    /\ dead' = {p}
    /\ targets' = [targets EXCEPT ![p] = {}]
    /\ found' = [found EXCEPT ![p] = [j \in EncJobs |-> NotYet]]
    /\ UNCHANGED <<remoteVars, rowVars, claimVars, line, troubles>>

-----------------------------------------------------------------------------
PollerStep(p) ==
    \/ ClaimDue(p) \/ EndPoll(p)
    \/ \E j \in EncJobs : GetJob(p, j) \/ HeadFile(p, j) \/ FailCheck(p, j) \/ Save(p, j)

TrackNext ==
    \/ \E j \in EncJobs : Advance(j) \/ Delete(j) \/ Appear(j) \/ ComeDue(j) \/ LeaseRunsOut(j)
    \/ \E p \in Pollers : PollerStep(p) \/ Die(p)

TrackSpec == TrackInit /\ [][TrackNext]_trackVars

\* The worker goes on polling, time passes.  Kensetsu need not do anything.
TrackFairness ==
    /\ \A p \in Pollers : WF_trackVars(PollerStep(p))
    /\ \A j \in EncJobs : WF_trackVars(ComeDue(j)) /\ WF_trackVars(LeaseRunsOut(j))

-----------------------------------------------------------------------------
(* Properties.                                                              *)

TrackTypeOK ==
    /\ remote \in [EncJobs -> JobStatus \cup {"gone"}] /\ output \subseteq EncJobs
    /\ news \in [EncJobs -> Nat] /\ asOf \in [EncJobs -> Nat]
    /\ known \in [EncJobs -> JobStatus \cup {"absent", "unknown"}]
    /\ avail \in [EncJobs -> {"yes", "no", "unsure"}]
    /\ doubt \in [EncJobs -> {"none", "not_found", "failed"}]
    /\ answer \in [EncJobs -> {"silent", "there", "denied"}]
    /\ holder \in [EncJobs -> Pollers \cup {NoPoller}]
    /\ leased \subseteq {j \in EncJobs : holder[j] # NoPoller}
    /\ targets \in [Pollers -> SUBSET EncJobs] /\ dead \subseteq Pollers
    /\ line \in Seq(EncJobs) /\ IsInjective(line)

\* download_url of serialize_job.
LinkShown(j) == known[j] = "done" /\ avail[j] = "yes" /\ doubt[j] # "not_found"

\* A link to the file is shown only if the newest answer in the row says that
\* the file is there: neither a job that was deleted nor a probe that failed
\* lets an older answer count again, whatever fails afterwards (observe).
LinkIsFresh == \A j \in EncJobs : LinkShown(j) => answer[j] = "there"

\* An answer never replaces a later one: a poller that froze beyond its lease
\* finds the claim gone (save_observation).
NoOlderAnswer == [][\A j \in EncJobs : asOf'[j] >= asOf[j]]_trackVars

\* When Kensetsu changes no more, each row comes to show its last state, even if
\* a poller died with the claim and more jobs are due than a poll takes.
TrackingCatchesUp == <>[](\A j \in EncJobs : known[j] = "absent" \/ asOf[j] = news[j])
=============================================================================
