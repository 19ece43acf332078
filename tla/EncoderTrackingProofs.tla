------------------------ MODULE EncoderTrackingProofs ------------------------
(***************************************************************************)
(* Proofs about EncoderTracking, for any pollers, jobs and bounds: an answer   *)
(* never replaces a later one, and a link that is shown rests on the newest     *)
(* answer about the file.  What the queue of due jobs contains plays no part.   *)
(***************************************************************************)
EXTENDS EncoderTracking, SequenceTheorems, TLAPS

Seen == [status : {"keep"} \cup JobStatus, avail : {"keep", "yes", "no", "unsure"},
         kind : {"none", "not yet", "not_found", "failed"}, at : Nat, file : {"silent", "there", "denied"}]

\* The observation o says something of the state of the job.
Says(o) == o.status # "keep" \/ o.kind = "not_found"

\* What it says of the file rests on an answer.
Founded(o) ==
    /\ o \in Seen
    /\ o.avail = "keep" => o.file = "silent"
    /\ o.avail = "yes" => o.file = "there"

\* The types these proofs need.
RowsTyped ==
    /\ remote \in [EncJobs -> JobStatus \cup {"gone"}]
    /\ news \in [EncJobs -> Nat] /\ asOf \in [EncJobs -> Nat]
    /\ avail \in [EncJobs -> {"yes", "no", "unsure"}]
    /\ answer \in [EncJobs -> {"silent", "there", "denied"}]
    /\ DOMAIN known = EncJobs /\ DOMAIN doubt = EncJobs
    /\ holder \in [EncJobs -> Pollers \cup {NoPoller}]
    /\ found \in [Pollers -> [EncJobs -> Seen]]
    /\ DOMAIN targets = Pollers

\* A claim that is still its own has only seen what is newer than the row, and
\* a poller without targets has nothing left over from an earlier claim.
SeenInv ==
    /\ \A j \in EncJobs : asOf[j] <= news[j]
    /\ \A p \in Pollers, j \in EncJobs :
          /\ j \notin targets[p] => found[p][j] = NotYet
          /\ holder[j] = p /\ Says(found[p][j]) => asOf[j] <= found[p][j].at
          /\ found[p][j].at <= news[j]

\* What is said of the file rests on an answer.
ConfirmedInv ==
    /\ \A j \in EncJobs : avail[j] = "yes" => answer[j] = "there"
    /\ \A p \in Pollers, j \in EncJobs : Founded(found[p][j])

TrackInv == RowsTyped /\ SeenInv /\ ConfirmedInv

LEMMA NotYetSaysNothing == Founded(NotYet) /\ NotYet \in Seen /\ ~Says(NotYet) /\ NotYet.at = 0
BY DEF Founded, Seen, Says, NotYet, Saw

LEMMA TrackInitHolds == TrackInit => TrackInv
<1> SUFFICES ASSUME TrackInit PROVE TrackInv OBVIOUS
<1>1. RowsTyped
  BY NotYetSaysNothing DEF TrackInit, RowsTyped, JobStatus
<1>2. SeenInv /\ ConfirmedInv
  BY NotYetSaysNothing DEF TrackInit, SeenInv, ConfirmedInv
<1> QED BY <1>1, <1>2 DEF TrackInv

-----------------------------------------------------------------------------
(* Observations.                                                             *)

\* The observation o may take the place of what p has seen of j.
MaySee(p, j, o) ==
    /\ j \in targets[p] /\ Founded(o) /\ o.at <= news[j]
    /\ Says(o) => o.at = news[j] \/ (Says(found[p][j]) /\ o.at = found[p][j].at)

LEMMA GetJobSees ==
    ASSUME TrackInv, NEW p \in Pollers, NEW j \in EncJobs, GetJob(p, j)
    PROVE  \E o \in Seen : MaySee(p, j, o) /\ Sees(p, j, o)
<1> DEFINE gone == Saw("keep", "unsure", "not_found", news[j], "denied")
           said == Saw(remote[j], FileIn(j), "none", news[j], Answered(j))
           probe == Saw("done", "unsure", "not yet", news[j], "silent")
<1>1. j \in targets[p] /\ news[j] \in Nat /\ remote[j] \in JobStatus \cup {"gone"}
  BY DEF GetJob, Waiting, TrackInv, RowsTyped
<1>2. ASSUME NEW o \in Seen, Founded(o), o.at = news[j] PROVE MaySee(p, j, o)
  BY <1>1, <1>2 DEF MaySee
<1>3. gone \in Seen /\ Founded(gone) /\ gone.at = news[j]
  BY <1>1 DEF Founded, Seen, Saw
<1>4. remote[j] # "gone" => said \in Seen /\ Founded(said) /\ said.at = news[j]
  BY <1>1 DEF Founded, Seen, Saw, FileIn, Answered
<1>5. probe \in Seen /\ Founded(probe) /\ probe.at = news[j]
  BY <1>1 DEF Founded, Seen, Saw, JobStatus, Finished
<1>6. Sees(p, j, gone) \/ (remote[j] # "gone" /\ Sees(p, j, said)) \/ Sees(p, j, probe)
  BY DEF GetJob
<1> HIDE DEF gone, said, probe
<1> QED BY <1>2, <1>3, <1>4, <1>5, <1>6

LEMMA ProbeSees ==
    ASSUME TrackInv, NEW p \in Pollers, NEW j \in EncJobs, HeadFile(p, j) \/ FailCheck(p, j)
    PROVE  \E o \in Seen : MaySee(p, j, o) /\ Sees(p, j, o)
<1> DEFINE s == found[p][j]
           head == [s EXCEPT !.avail = FileIn(j), !.kind = "none", !.file = Answered(j)]
           fail == [s EXCEPT !.kind = "failed"]
<1>1. s \in Seen /\ Founded(s) /\ s.at <= news[j]
  BY DEF TrackInv, RowsTyped, SeenInv, ConfirmedInv
<1> HIDE DEF s
<1>2. HeadFile(p, j) => j \in targets[p] /\ Says(s) /\ Sees(p, j, head)
  BY DEF HeadFile, s, Says
<1>3. FailCheck(p, j) => j \in targets[p] /\ Sees(p, j, fail)
  BY DEF FailCheck, s
<1>4. head \in Seen /\ Founded(head) /\ head.at = s.at
  BY <1>1 DEF Founded, Seen, FileIn, Answered
<1>5. fail \in Seen /\ Founded(fail) /\ fail.at = s.at /\ (Says(fail) => Says(s))
  BY <1>1 DEF Founded, Seen, Says
<1> HIDE DEF head, fail
<1>6. HeadFile(p, j) => MaySee(p, j, head)
  BY <1>1, <1>2, <1>4 DEF MaySee, s
<1>7. FailCheck(p, j) => MaySee(p, j, fail)
  BY <1>1, <1>3, <1>5 DEF MaySee, s
<1> QED BY <1>2, <1>3, <1>4, <1>5, <1>6, <1>7

LEMMA SightKeeps ==
    ASSUME TrackInv, NEW p \in Pollers, NEW j \in EncJobs, NEW o \in Seen, MaySee(p, j, o), Sees(p, j, o),
           UNCHANGED <<remoteVars, rowVars, holder, targets>>
    PROVE  TrackInv'
<1>1. /\ found' \in [Pollers -> [EncJobs -> Seen]]
      /\ \A q \in Pollers, i \in EncJobs : found'[q][i] = IF q = p /\ i = j THEN o ELSE found[q][i]
  BY DEF Sees, TrackInv, RowsTyped
<1>2. RowsTyped'
  BY <1>1 DEF TrackInv, RowsTyped, remoteVars, rowVars
<1>3. SeenInv'
  BY <1>1 DEF TrackInv, RowsTyped, SeenInv, MaySee, remoteVars, rowVars
<1>4. ConfirmedInv'
  BY <1>1 DEF TrackInv, ConfirmedInv, MaySee, rowVars
<1> QED BY <1>2, <1>3, <1>4 DEF TrackInv

-----------------------------------------------------------------------------
(* The other steps.                                                          *)

LEMMA NewsKeep ==
    ASSUME TrackInv, NEW j \in EncJobs, Advance(j) \/ Delete(j)
    PROVE  TrackInv'
<1>1. remote' \in [EncJobs -> JobStatus \cup {"gone"}]
  BY DEF TrackInv, RowsTyped, Advance, Delete, JobStatus
<1>2. news' = [news EXCEPT ![j] = news[j] + 1] /\ UNCHANGED <<rowVars, holder, found, targets>>
  BY DEF Advance, Delete, claimVars, pollerVars
<1>3. RowsTyped'
  BY <1>1, <1>2 DEF TrackInv, RowsTyped, rowVars
<1>4. SeenInv'
  <2>1. \A i \in EncJobs : news'[i] \in Nat /\ news[i] \in Nat /\ news[i] <= news'[i]
    BY <1>2 DEF TrackInv, RowsTyped
  <2>2. \A p \in Pollers, i \in EncJobs : found[p][i].at \in Nat
    <3>1. \A o \in Seen : o.at \in Nat
      BY DEF Seen
    <3> QED BY <3>1 DEF TrackInv, RowsTyped
  <2> QED BY <1>2, <2>1, <2>2 DEF TrackInv, RowsTyped, SeenInv, rowVars
<1>5. ConfirmedInv'
  BY <1>2 DEF TrackInv, ConfirmedInv, rowVars
<1> QED BY <1>3, <1>4, <1>5 DEF TrackInv

LEMMA TakeKeeps ==
    ASSUME TrackInv, NEW p \in Pollers, ClaimDue(p)
    PROVE  TrackInv'
<1>1. UNCHANGED <<remoteVars, rowVars, found>>
  BY DEF ClaimDue
<1>2. \A j \in EncJobs : found[p][j] = NotYet
  BY DEF ClaimDue, TrackInv, SeenInv
<1>3. /\ DOMAIN targets' = Pollers
      /\ \A q \in Pollers : q # p => targets'[q] = targets[q]
      /\ holder' \in [EncJobs -> Pollers \cup {NoPoller}]
      /\ \A j \in EncJobs : holder'[j] = holder[j] \/ holder'[j] = p
  BY DEF ClaimDue, TrackInv, RowsTyped
<1>4. RowsTyped'
  BY <1>1, <1>3 DEF TrackInv, RowsTyped, remoteVars, rowVars
<1>5. SeenInv'
  BY <1>1, <1>2, <1>3, NotYetSaysNothing DEF TrackInv, RowsTyped, SeenInv, remoteVars, rowVars
<1>6. ConfirmedInv'
  BY <1>1 DEF TrackInv, ConfirmedInv, rowVars
<1> QED BY <1>4, <1>5, <1>6 DEF TrackInv

LEMMA EndKeeps ==
    ASSUME TrackInv, NEW p \in Pollers, EndPoll(p) \/ Die(p)
    PROVE  TrackInv'
<1>0. /\ UNCHANGED <<remoteVars, rowVars>>
      /\ targets' = [targets EXCEPT ![p] = {}]
      /\ found' = [found EXCEPT ![p] = [j \in EncJobs |-> NotYet]]
      /\ holder' = holder \/ holder' = [j \in EncJobs |-> IF holder[j] = p THEN NoPoller ELSE holder[j]]
  BY DEF EndPoll, Die, claimVars
<1>1. UNCHANGED <<remoteVars, rowVars>>
  BY <1>0
<1>2. /\ DOMAIN targets' = Pollers
      /\ \A q \in Pollers : targets'[q] = IF q = p THEN {} ELSE targets[q]
      /\ \A q \in Pollers : found'[q] = IF q = p THEN [j \in EncJobs |-> NotYet] ELSE found[q]
      /\ found' \in [Pollers -> [EncJobs -> Seen]]
      /\ holder' \in [EncJobs -> Pollers \cup {NoPoller}]
      /\ \A j \in EncJobs : holder'[j] = holder[j] \/ holder'[j] = NoPoller
  BY <1>0, NotYetSaysNothing DEF TrackInv, RowsTyped
<1>3. RowsTyped'
  BY <1>1, <1>2 DEF TrackInv, RowsTyped, remoteVars, rowVars
<1>4. SeenInv'
  <2>1. \A q \in Pollers, j \in EncJobs :
           /\ found'[q][j] = IF q = p THEN NotYet ELSE found[q][j]
           /\ holder'[j] = q => holder[j] = q
           /\ asOf'[j] = asOf[j] /\ news'[j] = news[j] /\ news[j] \in Nat
    BY <1>1, <1>2, PollersAssumption DEF TrackInv, RowsTyped, remoteVars, rowVars
  <2> QED BY <1>2, <2>1, NotYetSaysNothing DEF TrackInv, SeenInv
<1>5. ConfirmedInv'
  BY <1>1, <1>2, NotYetSaysNothing DEF TrackInv, ConfirmedInv, rowVars
<1> QED BY <1>3, <1>4, <1>5 DEF TrackInv

\* What save_observation makes of a row.
LEMMA SaveWrites ==
    ASSUME TrackInv, NEW p \in Pollers, NEW j \in EncJobs, Save(p, j)
    PROVE  /\ UNCHANGED remoteVars
           /\ DOMAIN targets' = Pollers
           /\ \A q \in Pollers : targets'[q] = IF q = p THEN targets[q] \ {j} ELSE targets[q]
           /\ found' \in [Pollers -> [EncJobs -> Seen]]
           /\ \A q \in Pollers, i \in EncJobs : found'[q][i] = IF q = p /\ i = j THEN NotYet ELSE found[q][i]
           /\ asOf' \in [EncJobs -> Nat]
           /\ \A i \in EncJobs : i # j \/ holder[j] # p => asOf'[i] = asOf[i] /\ holder'[i] = holder[i]
           /\ holder[j] = p => asOf'[j] \in {asOf[j]} \cup {x \in {found[p][j].at} : Says(found[p][j])}
           /\ holder'[j] \in {holder[j], NoPoller}
           /\ asOf'[j] # asOf[j] => holder'[j] = NoPoller
           /\ holder' \in [EncJobs -> Pollers \cup {NoPoller}]
<1> DEFINE o == found[p][j]
<1>1. o \in Seen /\ o.at \in Nat
  BY DEF TrackInv, RowsTyped, Seen
<1>2. /\ DOMAIN targets' = Pollers
      /\ \A q \in Pollers : targets'[q] = IF q = p THEN targets[q] \ {j} ELSE targets[q]
  BY DEF Save, TrackInv, RowsTyped
<1>3. /\ found' \in [Pollers -> [EncJobs -> Seen]]
      /\ \A q \in Pollers, i \in EncJobs : found'[q][i] = IF q = p /\ i = j THEN NotYet ELSE found[q][i]
  BY NotYetSaysNothing DEF Save, Sees, TrackInv, RowsTyped
<1>4. CASE MayOverwrite(p, j)
  <2>1. /\ asOf' = [asOf EXCEPT ![j] = IF o.status = "keep" /\ o.kind # "not_found" THEN asOf[j] ELSE o.at]
        /\ holder' = [holder EXCEPT ![j] = NoPoller] /\ holder[j] = p /\ UNCHANGED remoteVars
    BY <1>4 DEF Save, MayOverwrite
  <2>2. asOf' = [asOf EXCEPT ![j] = IF Says(o) THEN o.at ELSE asOf[j]]
    BY <2>1 DEF Says
  <2> HIDE DEF o
  <2> QED BY <1>1, <1>2, <1>3, <2>1, <2>2 DEF TrackInv, RowsTyped, o
<1>5. CASE ~MayOverwrite(p, j)
  <2>1. UNCHANGED <<remoteVars, asOf, holder>>
    BY <1>5 DEF Save, rowVars, claimVars
  <2> QED BY <1>2, <1>3, <2>1 DEF TrackInv, RowsTyped
<1> QED BY <1>4, <1>5

LEMMA SaveKeeps ==
    ASSUME TrackInv, NEW p \in Pollers, NEW j \in EncJobs, Save(p, j)
    PROVE  TrackInv'
<1> DEFINE o == found[p][j]
<1>1. o \in Seen /\ Founded(o) /\ o.at \in Nat
  BY DEF TrackInv, RowsTyped, ConfirmedInv, Seen
<1>2. /\ DOMAIN known' = EncJobs /\ DOMAIN doubt' = EncJobs
      /\ avail' \in [EncJobs -> {"yes", "no", "unsure"}]
      /\ answer' \in [EncJobs -> {"silent", "there", "denied"}]
      /\ \A i \in EncJobs : avail'[i] = "yes" => answer'[i] = "there"
  <2>1. CASE MayOverwrite(p, j)
    <3>1. /\ avail' = [avail EXCEPT ![j] = IF o.avail = "keep" THEN avail[j] ELSE o.avail]
          /\ answer' = [answer EXCEPT ![j] = IF o.file = "silent" THEN answer[j] ELSE o.file]
          /\ DOMAIN known' = EncJobs /\ DOMAIN doubt' = EncJobs
      BY <2>1 DEF Save, TrackInv, RowsTyped
    <3>2. /\ o.avail \in {"keep", "yes", "no", "unsure"} /\ o.file \in {"silent", "there", "denied"}
          /\ o.avail = "keep" => o.file = "silent"
          /\ o.avail = "yes" => o.file = "there"
      BY <1>1 DEF Founded, Seen
    <3> HIDE DEF o
    <3> QED BY <3>1, <3>2 DEF TrackInv, RowsTyped, ConfirmedInv
  <2>2. CASE ~MayOverwrite(p, j)
    BY <2>2 DEF Save, rowVars, TrackInv, RowsTyped, ConfirmedInv
  <2> QED BY <2>1, <2>2
<1>3. RowsTyped'
  BY <1>2, SaveWrites DEF TrackInv, RowsTyped, remoteVars
<1>4. SeenInv'
  <2> SUFFICES ASSUME NEW q \in Pollers, NEW i \in EncJobs
               PROVE  /\ asOf'[i] <= news'[i]
                      /\ i \notin targets'[q] => found'[q][i] = NotYet
                      /\ holder'[i] = q /\ Says(found'[q][i]) => asOf'[i] <= found'[q][i].at
                      /\ found'[q][i].at <= news'[i]
    <3>1. \A i \in EncJobs : asOf'[i] = asOf[i] \/ (i = j /\ asOf'[i] = found[p][j].at)
      BY SaveWrites DEF TrackInv, RowsTyped
    <3>2. \A i \in EncJobs : asOf'[i] <= news'[i]
      BY <3>1, SaveWrites DEF TrackInv, SeenInv, remoteVars
    <3> QED BY <3>2 DEF SeenInv
  <2>1. asOf'[i] <= news'[i]
    BY SaveWrites DEF TrackInv, SeenInv, remoteVars
  <2>2. i \notin targets'[q] => found'[q][i] = NotYet
    <3>1. i \notin targets'[q] => i \notin targets[q] \/ (q = p /\ i = j)
      <4>1. targets' = [targets EXCEPT ![p] = targets[p] \ {j}] /\ DOMAIN targets = Pollers
        BY DEF Save, TrackInv, RowsTyped
      <4>2. targets'[q] = IF q = p THEN targets[p] \ {j} ELSE targets[q]
        BY <4>1
      <4> QED BY <4>2
    <3>2. found'[q][i] = IF q = p /\ i = j THEN NotYet ELSE found[q][i]
      BY SaveWrites
    <3> QED BY <3>1, <3>2 DEF TrackInv, SeenInv
  <2>3. holder'[i] = q /\ Says(found'[q][i]) => asOf'[i] <= found'[q][i].at
    BY SaveWrites, NotYetSaysNothing, PollersAssumption DEF TrackInv, SeenInv
  <2>4. found'[q][i].at <= news'[i]
    BY SaveWrites, NotYetSaysNothing DEF TrackInv, RowsTyped, SeenInv, remoteVars
  <2> QED BY <2>1, <2>2, <2>3, <2>4
<1>5. ConfirmedInv'
  BY <1>2, SaveWrites, NotYetSaysNothing DEF TrackInv, ConfirmedInv
<1> QED BY <1>3, <1>4, <1>5 DEF TrackInv

LEMMA TrackInvStep == TrackInv /\ [TrackNext]_trackVars => TrackInv'
<1> SUFFICES ASSUME TrackInv, [TrackNext]_trackVars PROVE TrackInv' OBVIOUS
<1>1. ASSUME NEW j \in EncJobs, Advance(j) \/ Delete(j) PROVE TrackInv'
  BY <1>1, NewsKeep
<1>2. ASSUME UNCHANGED <<remote, news, avail, asOf, answer, holder, found, targets>>,
             DOMAIN known' = EncJobs, DOMAIN doubt' = EncJobs
      PROVE  TrackInv'
  BY <1>2 DEF TrackInv, RowsTyped, SeenInv, ConfirmedInv
<1>3. ASSUME NEW j \in EncJobs, Appear(j) \/ ComeDue(j) \/ LeaseRunsOut(j) PROVE TrackInv'
  BY <1>2, <1>3
  DEF Appear, ComeDue, LeaseRunsOut, remoteVars, rowVars, claimVars, pollerVars, TrackInv, RowsTyped
<1>4. ASSUME NEW p \in Pollers, ClaimDue(p) PROVE TrackInv'
  BY <1>4, TakeKeeps
<1>5. ASSUME NEW p \in Pollers, EndPoll(p) \/ Die(p) PROVE TrackInv'
  BY <1>5, EndKeeps
<1>6. ASSUME NEW p \in Pollers, NEW j \in EncJobs, GetJob(p, j) \/ HeadFile(p, j) \/ FailCheck(p, j)
      PROVE  TrackInv'
  <2>1. PICK o \in Seen : MaySee(p, j, o) /\ Sees(p, j, o)
    BY <1>6, GetJobSees, ProbeSees
  <2>2. UNCHANGED <<remoteVars, rowVars, holder, targets>>
    BY <1>6 DEF GetJob, HeadFile, FailCheck, claimVars
  <2> QED BY <2>1, <2>2, SightKeeps
<1>7. ASSUME NEW p \in Pollers, NEW j \in EncJobs, Save(p, j) PROVE TrackInv'
  BY <1>7, SaveKeeps
<1>8. CASE UNCHANGED trackVars
  BY <1>2, <1>8 DEF trackVars, remoteVars, rowVars, claimVars, pollerVars, TrackInv, RowsTyped
<1> QED BY <1>1, <1>3, <1>4, <1>5, <1>6, <1>7, <1>8 DEF TrackNext, PollerStep

\* The inductive invariant holds.
LEMMA TrackInvariant == TrackSpec => []TrackInv
BY TrackInitHolds, TrackInvStep, PTL DEF TrackSpec

\* An answer never replaces a later one (save_observation): a poller that froze
\* beyond its lease finds the claim gone.
THEOREM NewestAnswerStays == TrackSpec => NoOlderAnswer
<1> DEFINE NotOlder == \A j \in EncJobs : asOf'[j] >= asOf[j]
<1>1. ASSUME TrackInv, NEW p \in Pollers, NEW j \in EncJobs, Save(p, j) PROVE NotOlder
  <2> SUFFICES ASSUME NEW i \in EncJobs PROVE asOf'[i] >= asOf[i] OBVIOUS
  <2>1. asOf'[i] = asOf[i] \/ (i = j /\ holder[j] = p /\ Says(found[p][j]) /\ asOf'[i] = found[p][j].at)
    BY <1>1, SaveWrites
  <2>2. asOf[i] \in Nat /\ found[p][j].at \in Nat
    BY <1>1 DEF TrackInv, RowsTyped, Seen
  <2> QED BY <1>1, <2>1, <2>2 DEF TrackInv, SeenInv
<1>2. ASSUME TrackInv, asOf' = asOf PROVE NotOlder
  BY <1>2 DEF TrackInv, RowsTyped
<1>3. TrackInv /\ [TrackNext]_trackVars => NotOlder
  <2> SUFFICES ASSUME TrackInv, [TrackNext]_trackVars PROVE NotOlder OBVIOUS
  <2>1. asOf' = asOf \/ \E p \in Pollers, j \in EncJobs : Save(p, j)
    BY DEF TrackNext, PollerStep, trackVars, rowVars, Advance, Delete, Appear, ComeDue, LeaseRunsOut,
           ClaimDue, EndPoll, GetJob, HeadFile, FailCheck, Die
  <2> QED BY <1>1, <1>2, <2>1
<1> QED BY <1>3, TrackInvariant, PTL DEF TrackSpec, NoOlderAnswer

\* A link to the file is shown only if the newest answer about it says that it
\* is there (observe, serialize_job).
THEOREM LinksAreFresh == TrackSpec => []LinkIsFresh
<1>1. TrackInv => LinkIsFresh
  BY DEF TrackInv, ConfirmedInv, LinkIsFresh, LinkShown
<1> QED BY <1>1, TrackInvariant, PTL

-----------------------------------------------------------------------------
(* Types.                                                                    *)

\* What a sequence lists.
ListsOf(s) == {s[i] : i \in DOMAIN s}

LEMMA RemovedLists ==
    ASSUME NEW S, NEW s \in Seq(S), IsInjective(s), NEW k \in 1 .. Len(s)
    PROVE  /\ RemoveAt(s, k) \in Seq(S) /\ Len(RemoveAt(s, k)) = Len(s) - 1
           /\ IsInjective(RemoveAt(s, k)) /\ ListsOf(RemoveAt(s, k)) = ListsOf(s) \ {s[k]}
<1> DEFINE t == RemoveAt(s, k)
<1>1. /\ t \in Seq(S) /\ Len(t) = Len(s) - 1
      /\ \A i \in 1 .. Len(s) - 1 : t[i] = IF i < k THEN s[i] ELSE s[i + 1]
  <2> DEFINE front == SubSeq(s, 1, k - 1)
             back == SubSeq(s, k + 1, Len(s))
  <2>1. /\ front \in Seq(S) /\ Len(front) = k - 1
        /\ \A i \in 1 .. k - 1 : front[i] = s[i]
    BY LenProperties, SubSeqProperties
  <2>2. /\ back \in Seq(S) /\ Len(back) = Len(s) - k
        /\ \A i \in 1 .. Len(s) - k : back[i] = s[k + i]
    BY LenProperties, SubSeqProperties
  <2>3. t = front \o back
    BY DEF RemoveAt
  <2> HIDE DEF front, back, t
  <2>4. /\ t \in Seq(S) /\ Len(t) = Len(front) + Len(back)
        /\ \A i \in 1 .. Len(front) + Len(back) : t[i] = IF i <= Len(front) THEN front[i] ELSE back[i - Len(front)]
    BY <2>1, <2>2, <2>3, ConcatProperties
  <2>5. Len(t) = Len(s) - 1 /\ Len(s) \in Nat
    BY <2>1, <2>2, <2>4, LenProperties
  <2>6. ASSUME NEW i \in 1 .. Len(s) - 1 PROVE t[i] = IF i < k THEN s[i] ELSE s[i + 1]
    <3>0. /\ k - 1 \in Nat /\ Len(front) + Len(back) = Len(s) - 1
          /\ t[i] = IF i <= k - 1 THEN front[i] ELSE back[i - (k - 1)]
      BY <2>1, <2>2, <2>4, <2>5
    <3>1. CASE i < k
      <4>1. i \in 1 .. k - 1 /\ i <= k - 1
        BY <2>5, <3>1
      <4>2. front[i] = s[i]
        BY <2>1, <4>1
      <4> QED BY <3>0, <3>1, <4>1, <4>2
    <3>2. CASE i >= k
      <4>1. i - (k - 1) \in 1 .. Len(s) - k /\ k + (i - (k - 1)) = i + 1 /\ ~(i <= k - 1) /\ ~(i < k)
        BY <2>5, <3>2
      <4>2. back[i - (k - 1)] = s[i + 1]
        BY <2>2, <4>1
      <4> QED BY <3>0, <4>1, <4>2
    <3> QED BY <2>5, <3>1, <3>2
  <2> QED BY <2>4, <2>5, <2>6
<1>2. DOMAIN t = 1 .. Len(s) - 1 /\ DOMAIN s = 1 .. Len(s) /\ Len(s) \in Nat
  BY <1>1, LenProperties
<1> HIDE DEF t
<1>3. IsInjective(t)
  <2> SUFFICES ASSUME NEW a \in 1 .. Len(s) - 1, NEW b \in 1 .. Len(s) - 1, t[a] = t[b] PROVE a = b
    BY <1>2 DEF IsInjective
  <2>1. \A i, j \in 1 .. Len(s) : s[i] = s[j] => i = j
    BY <1>2 DEF IsInjective
  <2> DEFINE place(i) == IF i < k THEN i ELSE i + 1
  <2>2. place(a) \in 1 .. Len(s) /\ place(b) \in 1 .. Len(s) /\ t[a] = s[place(a)] /\ t[b] = s[place(b)]
    BY <1>1, <1>2
  <2>3. place(a) = place(b)
    BY <2>1, <2>2
  <2> QED BY <1>2, <2>3
<1>4. ListsOf(t) \subseteq ListsOf(s) \ {s[k]}
  BY <1>1, <1>2 DEF ListsOf, IsInjective
<1>5. ASSUME NEW j \in 1 .. Len(s), j # k PROVE s[j] \in ListsOf(t)
  <2>1. CASE j < k
    BY <1>1, <1>2, <2>1 DEF ListsOf
  <2>2. CASE j > k
    <3>1. j - 1 \in 1 .. Len(s) - 1 /\ t[j - 1] = s[j]
      BY <1>1, <1>2, <2>2
    <3> QED BY <1>2, <3>1 DEF ListsOf
  <2> QED BY <1>2, <1>5, <2>1, <2>2
<1>6. ListsOf(s) \ {s[k]} \subseteq ListsOf(t)
  BY <1>2, <1>5 DEF ListsOf
<1> QED BY <1>1, <1>3, <1>4, <1>6 DEF t

LEMMA AppendedLists ==
    ASSUME NEW S, NEW s \in Seq(S), IsInjective(s), NEW r \in S, ~Contains(s, r)
    PROVE  /\ Append(s, r) \in Seq(S) /\ IsInjective(Append(s, r))
           /\ \A i : Contains(Append(s, r), i) => Contains(s, i) \/ i = r
<1>1. /\ Append(s, r) \in Seq(S) /\ Len(Append(s, r)) = Len(s) + 1 /\ Len(s) \in Nat
      /\ \A i \in 1 .. Len(s) : Append(s, r)[i] = s[i] /\ s[i] # r
      /\ Append(s, r)[Len(s) + 1] = r
  BY DEF Contains
<1>2. DOMAIN Append(s, r) = 1 .. Len(s) + 1 /\ DOMAIN s = 1 .. Len(s)
  BY <1>1
<1>3. ASSUME NEW i, Contains(Append(s, r), i) PROVE Contains(s, i) \/ i = r
  <2>1. PICK k \in 1 .. Len(s) + 1 : Append(s, r)[k] = i
    BY <1>1, <1>3 DEF Contains
  <2>2. CASE k = Len(s) + 1
    BY <1>1, <2>1, <2>2
  <2>3. CASE k \in 1 .. Len(s)
    BY <1>1, <2>1, <2>3 DEF Contains
  <2> QED BY <1>1, <2>2, <2>3
<1> QED BY <1>1, <1>2, <1>3 DEF IsInjective

\* A job is in the line from its first day, and only once.
LineInv == \A j \in EncJobs : known[j] = "absent" => ~Contains(line, j)

LEMMA TrackTypeStep == TrackInv /\ TrackTypeOK /\ LineInv /\ [TrackNext]_trackVars => TrackTypeOK' /\ LineInv'
<1> SUFFICES ASSUME TrackInv, TrackTypeOK, LineInv, [TrackNext]_trackVars PROVE TrackTypeOK' /\ LineInv'
  OBVIOUS
<1> DEFINE Rows ==
      /\ known' \in [EncJobs -> JobStatus \cup {"absent", "unknown"}]
      /\ doubt' \in [EncJobs -> {"none", "not_found", "failed"}]
    Line == line' \in Seq(EncJobs) /\ IsInjective(line')
    Claims ==
      /\ leased' \subseteq {j \in EncJobs : holder'[j] # NoPoller}
      /\ targets' \in [Pollers -> SUBSET EncJobs] /\ dead' \subseteq Pollers
<1> USE DEF remoteVars, rowVars, claimVars, pollerVars
<1>t. TrackInv'
  BY TrackInvStep
<1>r. ASSUME output' \subseteq EncJobs, Rows, Line, Claims PROVE TrackTypeOK'
  BY <1>t, <1>r DEF TrackInv, RowsTyped, TrackTypeOK
<1>s. ASSUME UNCHANGED <<known, line>> PROVE LineInv'
  BY <1>s DEF LineInv
<1>1. ASSUME NEW j \in EncJobs, Advance(j) \/ Delete(j) PROVE TrackTypeOK' /\ LineInv'
  <2>1. output' \subseteq EncJobs /\ UNCHANGED <<rowVars, claimVars, line, pollerVars>>
    BY <1>1 DEF Advance, Delete, TrackTypeOK
  <2> QED BY <2>1, <1>r, <1>s DEF TrackTypeOK
<1>2. ASSUME NEW j \in EncJobs, Appear(j) \/ ComeDue(j) PROVE TrackTypeOK' /\ LineInv'
  <2>1. /\ line' = Append(line, j) /\ ~Contains(line, j) /\ UNCHANGED <<output, doubt, claimVars, pollerVars>>
        /\ known'[j] # "absent"
    BY <1>2 DEF Appear, ComeDue, LineInv, TrackTypeOK
  <2>2. Rows
    BY <1>2 DEF Appear, ComeDue, TrackTypeOK
  <2>3. Line /\ \A i : Contains(line', i) => Contains(line, i) \/ i = j
    BY <2>1, AppendedLists DEF TrackTypeOK
  <2>4. LineInv'
    <3> SUFFICES ASSUME NEW i \in EncJobs, known'[i] = "absent" PROVE ~Contains(line', i)
      BY DEF LineInv
    <3>1. known[i] = "absent" /\ i # j
      BY <1>2, <2>1 DEF Appear, ComeDue, TrackTypeOK
    <3> QED BY <2>3, <3>1 DEF LineInv
  <2> QED BY <1>r, <2>1, <2>2, <2>3, <2>4 DEF TrackTypeOK
<1>3. ASSUME NEW j \in EncJobs, LeaseRunsOut(j) PROVE TrackTypeOK' /\ LineInv'
  <2>1. leased' \subseteq leased /\ UNCHANGED <<remoteVars, rowVars, holder, line, pollerVars>>
    BY <1>3 DEF LeaseRunsOut
  <2> QED BY <2>1, <1>r, <1>s DEF TrackTypeOK
<1>4. ASSUME NEW p \in Pollers, ClaimDue(p) PROVE TrackTypeOK' /\ LineInv'
  <2>1. /\ targets' = [targets EXCEPT ![p] = Firsts(BatchLimit)] /\ leased' = leased \cup Firsts(BatchLimit)
        /\ holder' = [j \in EncJobs |-> IF j \in Firsts(BatchLimit) THEN p ELSE holder[j]]
        /\ UNCHANGED <<remoteVars, rowVars, line, dead>>
    BY <1>4 DEF ClaimDue
  <2>2. Firsts(BatchLimit) \subseteq EncJobs
    BY DEF Firsts, TrackTypeOK
  <2>3. Claims
    BY <2>1, <2>2, PollersAssumption DEF TrackTypeOK
  <2> QED BY <2>1, <2>3, <1>r, <1>s DEF TrackTypeOK
<1>5. ASSUME NEW p \in Pollers, EndPoll(p) PROVE TrackTypeOK' /\ LineInv'
  <2>1. /\ targets' = [targets EXCEPT ![p] = {}] /\ leased' = {j \in leased : holder[j] # p}
        /\ holder' = [j \in EncJobs |-> IF holder[j] = p THEN NoPoller ELSE holder[j]]
        /\ UNCHANGED <<remoteVars, rowVars, line, dead>>
    BY <1>5 DEF EndPoll, LeasesBut
  <2>2. Claims
    BY <2>1 DEF TrackTypeOK
  <2> QED BY <2>1, <2>2, <1>r, <1>s DEF TrackTypeOK
<1>6. ASSUME NEW p \in Pollers, Die(p) PROVE TrackTypeOK' /\ LineInv'
  <2>1. /\ targets' = [targets EXCEPT ![p] = {}] /\ dead' = {p} /\ UNCHANGED <<remoteVars, rowVars, claimVars, line>>
    BY <1>6 DEF Die
  <2> QED BY <2>1, <1>r, <1>s DEF TrackTypeOK
<1>7. ASSUME NEW p \in Pollers, NEW j \in EncJobs, GetJob(p, j) \/ HeadFile(p, j) \/ FailCheck(p, j)
      PROVE  TrackTypeOK' /\ LineInv'
  <2>1. UNCHANGED <<remoteVars, rowVars, claimVars, line, targets, dead>>
    BY <1>7 DEF GetJob, HeadFile, FailCheck
  <2> QED BY <2>1, <1>r, <1>s DEF TrackTypeOK
<1>8. ASSUME NEW p \in Pollers, NEW j \in EncJobs, Save(p, j) PROVE TrackTypeOK' /\ LineInv'
  <2> DEFINE o == found[p][j]
  <2>1. /\ targets' = [targets EXCEPT ![p] = targets[p] \ {j}] /\ UNCHANGED <<remoteVars, dead>> /\ o.kind # "not yet"
    BY <1>8 DEF Save
  <2>2. targets' \in [Pollers -> SUBSET EncJobs]
    BY <2>1 DEF TrackTypeOK
  <2>3. CASE MayOverwrite(p, j)
    <3>1. /\ known' = [known EXCEPT ![j] = IF o.status = "keep" THEN known[j] ELSE o.status]
          /\ doubt' = [doubt EXCEPT ![j] = o.kind]
          /\ holder' = [holder EXCEPT ![j] = NoPoller] /\ leased' = leased \ {j} /\ line' = LineWithout(j)
      BY <1>8, <2>3 DEF Save
    <3>2. o.status \in {"keep"} \cup JobStatus /\ o.kind \in {"none", "not_found", "failed"}
      <4>1. o \in Seen
        BY DEF TrackInv, RowsTyped
      <4> QED BY <2>1, <4>1 DEF Seen
    <3> HIDE DEF o
    <3>3. Rows
      BY <3>1, <3>2 DEF TrackTypeOK
    <3>4. Claims
      BY <2>1, <2>2, <3>1 DEF TrackTypeOK
    <3>5. Line /\ ListsOf(line') \subseteq ListsOf(line)
      <4>1. CASE Contains(line, j)
        <5> DEFINE k == CHOOSE i \in DOMAIN line : line[i] = j
        <5>1. k \in 1 .. Len(line)
          BY <4>1 DEF Contains, TrackTypeOK
        <5>2. line' = RemoveAt(line, k)
          BY <3>1, <4>1 DEF LineWithout
        <5> HIDE DEF k
        <5> QED BY <5>1, <5>2, RemovedLists DEF TrackTypeOK
      <4>2. CASE ~Contains(line, j)
        BY <3>1, <4>2 DEF LineWithout, TrackTypeOK
      <4> QED BY <4>1, <4>2
    <3>6. LineInv'
      <4> SUFFICES ASSUME NEW i \in EncJobs, known'[i] = "absent" PROVE ~Contains(line', i)
        BY DEF LineInv
      <4>1. known[i] = "absent"
        BY <3>1, <3>2 DEF TrackTypeOK, JobStatus, Finished
      <4>2. i \notin ListsOf(line)
        BY <4>1 DEF LineInv, ListsOf, Contains, TrackTypeOK
      <4>3. DOMAIN line' = 1 .. Len(line')
        BY <3>5, LenProperties
      <4>4. \A k \in 1 .. Len(line') : line'[k] \in ListsOf(line')
        BY <4>3 DEF ListsOf
      <4> QED BY <3>5, <4>2, <4>4 DEF Contains
    <3> QED BY <1>r, <2>1, <3>3, <3>4, <3>5, <3>6 DEF TrackTypeOK
  <2>4. CASE ~MayOverwrite(p, j)
    <3>1. UNCHANGED <<rowVars, claimVars, line>>
      BY <1>8, <2>4 DEF Save
    <3> QED BY <2>1, <2>2, <3>1, <1>r, <1>s DEF TrackTypeOK
  <2> QED BY <2>3, <2>4
<1>9. CASE UNCHANGED trackVars
  BY <1>9, <1>r, <1>s DEF trackVars, TrackTypeOK
<1> QED BY <1>1, <1>2, <1>3, <1>4, <1>5, <1>6, <1>7, <1>8, <1>9 DEF TrackNext, PollerStep

LEMMA TrackTypeInit == TrackInit => TrackTypeOK /\ LineInv
BY DEF TrackInit, TrackTypeOK, LineInv, JobStatus, IsInjective, Contains
=============================================================================
