---------------------------- MODULE EncoderLedger ----------------------------
(***************************************************************************)
(* What the history of submissions promises about the encoder Kensetsu,      *)
(* whoever sends: a source is only entered while an older entry may have      *)
(* reached Kensetsu if a person said so, and an entry never says more than    *)
(* is known: "not_sent" was not posted, "accepted" has a job, "rejected" has  *)
(* none and never will.  EncoderSubmission implements this.                  *)
(***************************************************************************)

CONSTANTS
    Calls,      \* submissions
    Files,
    Clashes     \* <<c, f, d, e>>: file f of c is the source that file e of d is

VARIABLES
    status,     \* status[c][f]: what the history says of file f in submission c
    posted,     \* <<c, f>>: Kensetsu may have been asked to encode f for c
    jobs,       \* <<c, f>>: Kensetsu has a job for it
    consent     \* submissions a person has confirmed in spite of older ones

ledgerVars == <<status, posted, jobs, consent>>

Status == {"none", "sending", "accepted", "not_sent", "rejected", "unknown"}
Pending == {"sending", "unknown"}
Live == Pending \cup {"accepted"}

LedgerInit ==
    /\ status = [c \in Calls |-> [f \in Files |-> "none"]]
    /\ posted = {} /\ jobs = {} /\ consent = {}

\* What an entry may become, given what was posted and which jobs there are.
Truthful(c, f, s) ==
    \/ s = status[c][f]
    \/ status[c][f] \in Pending /\ s \in Pending
    \/ status[c][f] = "sending" /\ s = "not_sent" /\ <<c, f>> \notin posted'
    \/ status[c][f] \in Pending /\ s = "accepted" /\ <<c, f>> \in jobs
    \/ status[c][f] \in Pending /\ s = "rejected" /\ <<c, f>> \notin jobs

Unclaimed(c, f) ==
    \A d \in Calls \ {c}, e \in Files :
        <<c, f, d, e>> \in Clashes => status'[d][e] \notin Live

\* The history learns what has become of older entries while one is opened.
Open(c) ==
    /\ status' \in [Calls -> [Files -> Status]]
    /\ \A f \in Files : status[c][f] = "none" /\ status'[c][f] \in {"none", "sending"}
    /\ \A d \in Calls \ {c}, f \in Files : Truthful(d, f, status'[d][f])
    /\ consent' \in {consent, consent \cup {c}}
    /\ c \in consent' \/ \A f \in Files : status'[c][f] = "sending" => Unclaimed(c, f)
    /\ UNCHANGED <<posted, jobs>>

\* An entry that was given up as unknown may still be on its way.
Post(c, F) ==
    /\ \A f \in F : status[c][f] \in Pending
    /\ posted' = posted \cup ({c} \X F)
    /\ UNCHANGED <<status, jobs, consent>>

\* Kensetsu takes files it was asked for, none that it has turned down.
Take(c, F) ==
    /\ \A f \in F : <<c, f>> \in posted /\ status[c][f] # "rejected"
    /\ jobs' = jobs \cup ({c} \X F)
    /\ UNCHANGED <<status, posted, consent>>

\* The history learns; a request that surely never left was not posted.
Learn(S) ==
    /\ posted' = posted \ (S \X Files)
    /\ jobs \subseteq posted'
    /\ status' \in [Calls -> [Files -> Status]]
    /\ \A c \in Calls, f \in Files : Truthful(c, f, status'[c][f])
    /\ UNCHANGED <<jobs, consent>>

LedgerNext ==
    \/ \E S \in SUBSET Calls : Learn(S)
    \/ \E c \in Calls : Open(c) \/ \E F \in SUBSET Files : Post(c, F) \/ Take(c, F)

LedgerSpec == LedgerInit /\ [][LedgerNext]_ledgerVars
=============================================================================
