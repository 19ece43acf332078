----------------------------- MODULE MCServices -----------------------------
(***************************************************************************)
(* Small instances of seven services that have nothing to do with each other, *)
(* each for what must happen in the end; the first state chooses one.         *)
(*                                                                         *)
(* "history": a manual and an automatic submission of one source.              *)
(* "queue":   a tick and a manual submission for one version.                  *)
(* "pages":   two pages that show the same channel.                           *)
(* "jobs":    two polls that take one job each; j1 changes, j2 does not.       *)
(* "release": the regular pass, a full one and a retry of two torrents.      *)
(* "catalog": the full pass over two pages.                                   *)
(* "hashes":  a backfill of two folders and the hash job of a torrent.         *)
(***************************************************************************)
EXTENDS EncoderSubmission, AutomaticEncoder, UiEvents, EncoderTracking, ReleaseSync,
        CatalogSweep, FileHashes

CONSTANTS m1, a1, t1, f1, j1, j2, s1, s2, p1, p2, path, bytes, presets, jobs,
          o1, d1, r1, x, y, q1, q2, q3, q4, b1, h1

VARIABLE part

MCReqOf == [c \in Calls |-> c]
MCPresetOf == [c \in Calls |-> presets]
MCFilesOf == [c \in Calls |-> Files]
MCPathOf == [f \in Files |-> path]
MCContentOf == [f \in Files |-> bytes]
MCChannelsOf == [s \in Streams |-> Channels]
MCKindOf == [p \in Passes |-> IF p = o1 THEN "ongoing" ELSE IF p = r1 THEN "retry" ELSE "full"]

vars == <<part, subVars, autoVars, uiVars, trackVars, syncVars, catVars, hashVars>>

History(A) == part = "history" /\ A /\ UNCHANGED <<part, autoVars, uiVars, trackVars, syncVars, catVars, hashVars>>
Queue(A) == part = "queue" /\ A /\ UNCHANGED <<part, subVars, uiVars, trackVars, syncVars, catVars, hashVars>>
Pages(A) == part = "pages" /\ A /\ UNCHANGED <<part, subVars, autoVars, trackVars, syncVars, catVars, hashVars>>
Jobs(A) == part = "jobs" /\ A /\ UNCHANGED <<part, subVars, autoVars, uiVars, syncVars, catVars, hashVars>>
Release(A) == part = "release" /\ A /\ UNCHANGED <<part, subVars, autoVars, uiVars, trackVars, catVars, hashVars>>
Catalog(A) == part = "catalog" /\ A /\ UNCHANGED <<part, subVars, autoVars, uiVars, trackVars, syncVars, hashVars>>
Hashes(A) == part = "hashes" /\ A /\ UNCHANGED <<part, subVars, autoVars, uiVars, trackVars, syncVars, catVars>>

\* Bound: one answer that says nothing or one mishap, and only j1 changes.
Few == \A j \in EncJobs : troubles + mishaps <= 1 /\ news[j] <= (IF j = j1 THEN 3 ELSE 0)

Init ==
    /\ part \in {"history", "queue", "pages", "jobs", "release", "catalog", "hashes"}
    /\ SubInit /\ AutoInit /\ UiInit /\ TrackInit /\ SyncInit /\ CatInit /\ HashInit
    /\ part = "catalog" \/ catalog = <<>>

Next ==
    \/ History(SubNext) \/ Queue(AutoNext) \/ Pages(UiNext) \/ Jobs(TrackNext /\ Few')
    \/ Release(SyncNext) \/ Catalog(CatNext) \/ Hashes(HashNext)

\* The fairness of each module, for its own part.
HistoryFairness ==
    /\ \A c \in Calls :
          /\ WF_subVars(part = "history" /\ (GiveUp(c) \/ Intent(c) \/ SendStep(c) \/ Kill(c)))
          /\ WF_subVars(part = "history" /\ KensetsuStep(c))
          /\ WF_subVars(part = "history" /\ \E S \in SUBSET Calls : c \in S /\ RecoverExpired(S))
          /\ WF_subVars(part = "history" /\ Absorb(c))
    /\ WF_subVars(part = "history" /\ \E c \in Calls, r \in Receipts : Fetch(c, r))

QueueFairness ==
    \A i \in Keys :
        /\ WF_autoVars(part = "queue" /\ LeaseEnds(i))
        /\ WF_autoVars(/\ part = "queue"
                       /\ \E K \in SUBSET Keys, facts \in SourceFacts : i \in K /\ Reconcile(K, {}, facts))

PagesFairness ==
    /\ \A s \in Streams : WF_uiVars(part = "pages" /\ StreamStep(s))
    /\ WF_uiVars(part = "pages" /\ PollStep)
    /\ WF_uiVars(part = "pages" /\ Down)

JobsFairness ==
    /\ \A p \in Pollers : WF_trackVars(part = "jobs" /\ PollerStep(p) /\ Few')
    /\ \A j \in EncJobs :
          /\ WF_trackVars(part = "jobs" /\ ComeDue(j))
          /\ WF_trackVars(part = "jobs" /\ LeaseRunsOut(j) /\ Few')

ReleaseFairness == \A p \in Passes : WF_syncVars(part = "release" /\ PassStep(p))
CatalogFairness == WF_catVars(part = "catalog" /\ ScanStep)

Spec ==
    /\ Init /\ [][Next]_vars
    /\ HistoryFairness /\ QueueFairness /\ PagesFairness /\ JobsFairness /\ ReleaseFairness /\ CatalogFairness

-----------------------------------------------------------------------------
\* The services keep the types of their variables.
TypesOK == SubTypeOK /\ AutoTypeOK /\ UiTypeOK /\ TrackTypeOK /\ SyncTypeOK /\ CatTypeOK /\ HashTypeOK
=============================================================================
