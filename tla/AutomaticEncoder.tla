-------------------------- MODULE AutomaticEncoder --------------------------
(***************************************************************************)
(* The queue of automatic submissions of one release                         *)
(* (services/automatic_encoder.py, api/automatic_encoder.py) with its         *)
(* permissions: the general switch, tracking, the versions seen since          *)
(* tracking began, the parameters.  All of them are changed and checked under  *)
(* one lock, which nobody holds while the encoder is asked.                    *)
(*                                                                         *)
(* A submission is here what EncoderSubmission makes of it: its item, of one   *)
(* source, and whether its durable intent was committed.  That equal bytes     *)
(* under another info hash block as well is left to EncoderSubmission.         *)
(*                                                                         *)
(* A definition that nothing uses is a plausible fault of the one it stands  *)
(* before; PROJECT.json names the property that notices each of them.        *)
(***************************************************************************)
EXTENDS Naturals, FiniteSets

CONSTANTS
    Ticks,      \* ticks of the worker; a tick's claim token bears its name
    Manual,     \* manual submissions
    Versions,   \* sources of the release: an info hash and a path
    Nobody,
    MaxGen,     \* bound: how often tracking begins
    MaxRev      \* bound: how often the parameters are saved

Sends == Ticks \cup Manual
Keys == (1 .. MaxGen) \X Versions

ASSUME QueueAssumption ==
    /\ MaxGen \in Nat \ {0} /\ MaxRev \in Nat
    /\ Ticks \cap Manual = {} /\ Nobody \notin Sends /\ Versions # {}

VARIABLES
    on,             \* the general switch
    participating,  \* the release is tracked
    gen, rev,       \* generation and revision of its policy
    seen,           \* seen[f]: what the generation knows of the version f
    wanted,         \* <<g, f>> that a person has queued
    cand,           \* cand[<<g, f>>]: state of the candidate
    token,          \* token[i]: claim_token
    live,           \* candidates whose lease_until has not passed
    link,           \* link[i]: submission_id
    crev,           \* crev[i]: policy_revision
    at, key, prior, \* the tick: where it is, its candidate, a conflict's cause
    params,         \* params[c]: the revision whose parameters the tick has read
    sub,            \* sub[c]: status of the item of submission c
    source,         \* source[c]: its file
    log,            \* log[c]: the submissions that are older than c
    begun,          \* submissions with request_started_at
    cooldown        \* encoder_auto_server_retry_at has not passed

policyVars == <<on, participating, gen, rev, seen>>
candVars == <<wanted, cand, token, live, link, crev>>
tickVars == <<at, key, prior, params>>
sendVars == <<sub, source, log, begun>>
autoVars == <<policyVars, candVars, tickVars, sendVars, cooldown>>

Active == {"waiting", "ready", "claimed"}
CandState == Active \cup
    {"none", "receipt_pending", "accepted", "unknown", "attention", "preset_changed", "cancelled"}
Standing == {"sending", "accepted", "unknown"}
Facts == {"fit", "waiting", "cancelled"}
Gen(i) == i[1]
File(i) == i[2]

AutoInit ==
    /\ on = TRUE
    /\ participating = FALSE /\ gen = 0 /\ rev = 0
    /\ seen = [f \in Versions |-> "unseen"]
    /\ wanted = {}
    /\ cand = [i \in Keys |-> "none"]
    /\ token = [i \in Keys |-> Nobody] /\ live = {}
    /\ link = [i \in Keys |-> Nobody]
    /\ crev = [i \in Keys |-> 0]
    /\ at = [c \in Ticks |-> "new"]
    /\ key = [c \in Ticks |-> CHOOSE i \in Keys : TRUE]
    /\ prior = [c \in Ticks |-> Nobody]
    /\ params = [c \in Ticks |-> 0]
    /\ sub = [c \in Sends |-> "none"]
    /\ source = [c \in Sends |-> CHOOSE f \in Versions : TRUE]
    /\ log = [c \in Sends |-> {}]
    /\ begun = {} /\ cooldown = FALSE

-----------------------------------------------------------------------------
(* What receipts and permissions make of a candidate.                       *)

Opened == {c \in Sends : sub[c] # "none"}

\* previous_receipt: live items of the same source; the newest counts.
PreviousKnown(f, but) == {c \in Opened \ {but} : sub[c] \in {"sending", "accepted"} /\ source[c] = f}
Previous(f, but) == {c \in Opened \ {but} : sub[c] \in Standing /\ source[c] = f}
Newest(S) == CHOOSE c \in S : \A d \in S \ {c} : d \in log[c]

FromReceiptAgain(s) == IF s = "accepted" THEN "accepted" ELSE IF s = "sending" THEN "receipt_pending" ELSE "waiting"
FromReceipt(s) ==
    CASE s = "accepted" -> "accepted"
      [] s = "sending" -> "receipt_pending"
      [] s = "unknown" -> "unknown"
      [] s = "rejected" -> "attention"
      [] OTHER -> "waiting"

\* settle_item; statuses are those of the submissions.
SettledAs(i, c, statuses) ==
    IF cand[i] = "cancelled" \/ (cand[i] = "preset_changed" /\ c \notin begun) THEN cand[i]
    ELSE FromReceipt(statuses[c])

CooldownAfter(i, c, statuses) ==
    IF cand[i] = "cancelled" \/ (cand[i] = "preset_changed" /\ c \notin begun) THEN cooldown
    ELSE statuses[c] = "not_sent" \/ (cooldown /\ statuses[c] # "accepted")

\* assess: facts[f] is what archive, file, readiness and server say of f.
PriorOf(i) == Previous(File(i), IF cand[i] = "claimed" THEN link[i] ELSE Nobody)

Assess(i, facts) ==
    IF ~participating \/ Gen(i) # gen \/ facts[File(i)] = "cancelled" THEN "cancelled"
    ELSE IF ~on \/ facts[File(i)] = "waiting" THEN "waiting"
    ELSE IF PriorOf(i) # {} THEN FromReceipt(sub[Newest(PriorOf(i))])
    ELSE "ready"

\* An older receipt that decides is linked to the candidate.
LinkAfter(i, facts) ==
    IF /\ participating /\ Gen(i) = gen /\ on /\ facts[File(i)] = "fit"
       /\ PriorOf(i) # {}
    THEN Newest(PriorOf(i)) ELSE link[i]

-----------------------------------------------------------------------------
(* Permissions and versions.                                                *)

Pause ==
    /\ on /\ on' = FALSE
    /\ UNCHANGED <<participating, gen, rev, seen, candVars, tickVars, sendVars, cooldown>>

Resume ==
    /\ ~on /\ on' = TRUE
    /\ UNCHANGED <<participating, gen, rev, seen, candVars, tickVars, sendVars, cooldown>>

\* tracking_changed: the versions of the archive are not sent; known are those.
Track(known) ==
    /\ ~participating /\ gen < MaxGen
    /\ \A f \in Versions : seen[f] # "unseen" => f \in known
    /\ participating' = TRUE /\ gen' = gen + 1
    /\ seen' = [f \in Versions |-> IF f \in known THEN "baseline" ELSE "unseen"]
    /\ UNCHANGED <<on, rev, candVars, tickVars, sendVars, cooldown>>

\* What was not begun is cancelled.
NotBegun(i) == link[i] = Nobody \/ link[i] \notin begun

Untrack ==
    /\ participating /\ participating' = FALSE
    /\ cand' = [i \in Keys |-> IF cand[i] \in Active /\ NotBegun(i) THEN "cancelled" ELSE cand[i]]
    /\ UNCHANGED <<on, gen, rev, seen, wanted, token, live, link, crev, tickVars, sendVars, cooldown>>

\* save_policy
SavePolicy ==
    /\ rev < MaxRev /\ rev' = rev + 1
    /\ cand' = [i \in Keys |-> IF cand[i] = "preset_changed" THEN "waiting" ELSE cand[i]]
    /\ UNCHANGED <<on, participating, gen, seen, wanted, token, live, link, crev, tickVars, sendVars, cooldown>>

\* observe_archive, with the archive of a new version.
Observe(f) ==
    /\ participating /\ seen[f] = "unseen"
    /\ seen' = [seen EXCEPT ![f] = "observed"]
    /\ UNCHANGED <<on, participating, gen, rev, candVars, tickVars, sendVars, cooldown>>

Registrable(f) == participating /\ seen[f] = "observed" /\ cand[<<gen, f>>] = "none"

\* record_readiness at the end of a hash check: f is new or has changed.
Register(f) ==
    /\ Registrable(f)
    /\ cand' = [cand EXCEPT ![<<gen, f>>] = "waiting"]
    /\ UNCHANGED <<policyVars, wanted, token, live, link, crev, tickVars, sendVars, cooldown>>

\* A person queues a version of the baseline.
Backfill(f) ==
    /\ participating /\ seen[f] # "unseen" /\ Previous(f, Nobody) = {}
    /\ cand[<<gen, f>>] = "none"
    /\ cand' = [cand EXCEPT ![<<gen, f>>] = "waiting"]
    /\ wanted' = wanted \cup {<<gen, f>>}
    /\ UNCHANGED <<policyVars, token, live, link, crev, tickVars, sendVars, cooldown>>

-----------------------------------------------------------------------------
(* The tick.                                                                *)

\* reconcile: candidates that nobody holds; those of R are registered first.
DueUnheld(i) ==
    /\ cand[i] \in Active \cup {"receipt_pending", "unknown"}
    /\ token[i] = Nobody
Due(i) ==
    /\ cand[i] \in Active \cup {"receipt_pending", "unknown"}
    /\ token[i] = Nobody \/ i \notin live

BySettling(i) == link[i] # Nobody /\ sub[link[i]] \in Standing \cup {"rejected"}

Reconcile(K, R, facts) ==
    /\ K # {} \/ R # {}
    /\ \A f \in R : Registrable(f)
    /\ \A i \in K : Due(i) /\ i \notin {<<gen, f>> : f \in R}
    /\ cand' = [i \in Keys |->
          IF i \in K THEN IF BySettling(i) THEN SettledAs(i, link[i], sub) ELSE Assess(i, facts)
          ELSE IF Gen(i) = gen /\ File(i) \in R THEN "waiting" ELSE cand[i]]
    /\ link' = [i \in Keys |-> IF i \in K /\ ~BySettling(i) THEN LinkAfter(i, facts) ELSE link[i]]
    /\ token' = [i \in Keys |-> IF i \in K THEN Nobody ELSE token[i]]
    /\ live' = live \ K
    /\ cooldown' = (cooldown /\ \A i \in K : ~(BySettling(i) /\ sub[link[i]] = "accepted"))
    /\ UNCHANGED <<policyVars, wanted, crev, tickVars, sendVars>>

\* claim_next: one at a time, that of a killed sender included.
Held == {i \in live : cand[i] = "claimed"}

ClaimNext(c, i, facts) ==
    /\ at[c] = "new" /\ ~cooldown /\ Held = {}
    /\ cand[i] = "ready"
    /\ link' = [link EXCEPT ![i] = LinkAfter(i, facts)]
    /\ IF Assess(i, facts) = "ready"
       THEN /\ cand' = [cand EXCEPT ![i] = "claimed"]
            /\ token' = [token EXCEPT ![i] = c]
            /\ live' = live \cup {i}
            /\ crev' = [crev EXCEPT ![i] = rev]
            /\ at' = [at EXCEPT ![c] = "claimed"]
            /\ key' = [key EXCEPT ![c] = i]
       ELSE /\ cand' = [cand EXCEPT ![i] = Assess(i, facts)]
            /\ at' = [at EXCEPT ![c] = "over"]
            /\ UNCHANGED <<token, live, crev, key>>
    /\ UNCHANGED <<policyVars, wanted, prior, params, sendVars, cooldown>>

\* The parameters are read in a transaction of their own.
Options(c) ==
    /\ at[c] = "claimed"
    /\ params' = [params EXCEPT ![c] = rev]
    /\ at' = [at EXCEPT ![c] = "options"]
    /\ UNCHANGED <<policyVars, candVars, key, prior, sendVars, cooldown>>

Owns(c) == cand[key[c]] = "claimed" /\ token[key[c]] = c

Enter(c, f) ==
    /\ sub' = [sub EXCEPT ![c] = "sending"]
    /\ source' = [source EXCEPT ![c] = f]
    /\ log' = [log EXCEPT ![c] = Opened]

\* claim of encoder_history, for the tick.
Open(c) ==
    /\ at[c] = "options" /\ Owns(c)
    /\ Previous(File(key[c]), Nobody) = {}
    /\ Enter(c, File(key[c]))
    /\ link' = [link EXCEPT ![key[c]] = c]
    /\ at' = [at EXCEPT ![c] = "opened"]
    /\ UNCHANGED <<policyVars, wanted, cand, token, live, crev, key, prior, params, begun, cooldown>>

\* It names a submission that stands in the way.
Conflicted(c, d) ==
    /\ at[c] = "options" /\ d \in Previous(File(key[c]), Nobody)
    /\ prior' = [prior EXCEPT ![c] = d]
    /\ at' = [at EXCEPT ![c] = "clashed"]
    /\ UNCHANGED <<policyVars, candVars, key, params, sendVars, cooldown>>

\* The token is no longer the candidate's, or the encoder does not answer.
GiveUpClaim(c) ==
    /\ at[c] = "options"
    /\ at' = [at EXCEPT ![c] = "ended"]
    /\ UNCHANGED <<policyVars, candVars, key, prior, params, sendVars, cooldown>>

Apply(i, c) ==
    /\ cand' = [cand EXCEPT ![i] = SettledAs(i, c, sub)]
    /\ token' = [token EXCEPT ![i] = Nobody]
    /\ live' = live \ {i}
    /\ cooldown' = CooldownAfter(i, c, sub)

\* The tick takes over the receipt of the other submission.
NoteClash(c) ==
    /\ at[c] = "clashed"
    /\ at' = [at EXCEPT ![c] = "ended"]
    /\ IF token[key[c]] = c
       THEN Apply(key[c], prior[c]) /\ link' = [link EXCEPT ![key[c]] = prior[c]]
       ELSE UNCHANGED <<cand, token, live, link, cooldown>>
    /\ UNCHANGED <<policyVars, wanted, crev, key, prior, params, sendVars>>

MayStartUnread(c, facts) == Owns(c) /\ key[c] \in live /\ Assess(key[c], facts) = "ready"
MayStart(c, facts) ==
    /\ Owns(c) /\ key[c] \in live
    /\ Assess(key[c], facts) = "ready" /\ rev = crev[key[c]]

\* The durable intent, allowed by validate_intent; neither looks at the item
\* again, which may have expired and then stays "not_sent".
Start(c, facts) ==
    /\ at[c] = "opened"
    /\ MayStart(c, facts)
    /\ begun' = begun \cup {c}
    /\ at' = [at EXCEPT ![c] = "posting"]
    /\ UNCHANGED <<policyVars, candVars, key, prior, params, sub, source, log, cooldown>>

\* It is not allowed, the presets have changed, or something else stops the
\* sender before the intent; the submission was not sent.
Refuse(c, facts, s) ==
    /\ at[c] = "opened"
    /\ \/ s = cand[key[c]] /\ UNCHANGED link
       \/ /\ Owns(c) /\ key[c] \in live /\ ~MayStart(c, facts)
          /\ s = IF Assess(key[c], facts) = "ready" THEN "waiting" ELSE Assess(key[c], facts)
          /\ link' = [link EXCEPT ![key[c]] = LinkAfter(key[c], facts)]
       \/ MayStart(c, facts) /\ s = "preset_changed" /\ UNCHANGED link
    /\ cand' = [cand EXCEPT ![key[c]] = s]
    /\ sub' = IF sub[c] = "sending" THEN [sub EXCEPT ![c] = "not_sent"] ELSE sub
    /\ at' = [at EXCEPT ![c] = "ended"]
    /\ UNCHANGED <<policyVars, wanted, token, live, crev, key, prior, params, source, log, begun, cooldown>>

\* The answer; "not_sent" if no connection was made, "sending" after HTTP 202.
\* An item that has expired stays what it is.
Hear(c, s) ==
    /\ at[c] = "posting"
    /\ sub' = IF sub[c] = "sending" THEN [sub EXCEPT ![c] = s] ELSE sub
    /\ at' = [at EXCEPT ![c] = "ended"]
    /\ UNCHANGED <<policyVars, candVars, key, prior, params, source, log, begun, cooldown>>

\* What the tick has read is gone with it.
End(c) ==
    /\ at' = [at EXCEPT ![c] = "over"]
    /\ prior' = [prior EXCEPT ![c] = Nobody]
    /\ params' = [params EXCEPT ![c] = 0]

\* The end of the tick: its candidate is settled if it is still its own.
Finish(c) ==
    /\ at[c] = "ended"
    /\ End(c)
    /\ LET i == key[c] IN
          IF token[i] # c THEN UNCHANGED <<cand, token, live, cooldown>>
          ELSE IF link[i] # Nobody THEN Apply(i, link[i])
          ELSE /\ cand' = [cand EXCEPT ![i] = IF cand[i] = "cancelled" THEN cand[i] ELSE "waiting"]
               /\ token' = [token EXCEPT ![i] = Nobody]
               /\ live' = live \ {i}
               /\ UNCHANGED cooldown
    /\ UNCHANGED <<policyVars, wanted, link, crev, key, sendVars>>

KillTick(c) ==
    /\ at[c] \notin {"new", "over"}
    /\ End(c)
    /\ UNCHANGED <<policyVars, candVars, key, sendVars, cooldown>>

-----------------------------------------------------------------------------
(* Submissions: what manual senders, expiry and receipts do.                *)

\* A person may confirm what the queue is not sending (recorded nowhere here); two
\* persons may use different presets, which do not block each other.
ManualOpen(c, f) ==
    /\ sub[c] = "none"
    /\ \A d \in Previous(f, Nobody) \cap Ticks : sub[d] # "sending"
    /\ Enter(c, f)
    /\ UNCHANGED <<policyVars, candVars, tickVars, begun, cooldown>>

ManualStart(c) ==
    /\ sub[c] = "sending" /\ c \notin begun
    /\ begun' = begun \cup {c}
    /\ UNCHANGED <<policyVars, candVars, tickVars, sub, source, log, cooldown>>

ManualEnd(c, s) ==
    /\ sub[c] = "sending"
    /\ c \in begun \/ s = "not_sent"
    /\ sub' = [sub EXCEPT ![c] = s]
    /\ UNCHANGED <<policyVars, candVars, tickVars, source, log, begun, cooldown>>

\* recover_expired
Expire(c) ==
    /\ sub[c] = "sending"
    /\ sub' = [sub EXCEPT ![c] = IF c \in begun THEN "unknown" ELSE "not_sent"]
    /\ UNCHANGED <<policyVars, candVars, tickVars, source, log, begun, cooldown>>

\* recover_receipts, which settles the candidate of an automatic submission.
Receipt(c, s) ==
    /\ c \in begun /\ sub[c] \in {"sending", "unknown"}
    /\ sub' = [sub EXCEPT ![c] = s]
    /\ IF c \in Ticks
       THEN /\ cand' = [cand EXCEPT ![key[c]] = IF link[key[c]] = c THEN SettledAs(key[c], c, sub') ELSE "unknown"]
            /\ token' = [token EXCEPT ![key[c]] = Nobody]
            /\ live' = live \ {key[c]}
            /\ cooldown' = IF link[key[c]] = c THEN CooldownAfter(key[c], c, sub') ELSE cooldown
       ELSE UNCHANGED <<cand, token, live, cooldown>>
    /\ UNCHANGED <<policyVars, wanted, link, crev, tickVars, source, log, begun>>

LeaseEnds(i) ==
    /\ i \in live /\ live' = live \ {i}
    /\ UNCHANGED <<policyVars, wanted, cand, token, link, crev, tickVars, sendVars, cooldown>>

CooldownEnds ==
    /\ cooldown /\ cooldown' = FALSE
    /\ UNCHANGED <<policyVars, candVars, tickVars, sendVars>>

-----------------------------------------------------------------------------
SourceFacts == [Versions -> Facts]
Answers == {"accepted", "rejected", "unknown", "not_sent"}

TickStep(c) ==
    \/ Options(c) \/ Open(c) \/ (\E d \in Sends : Conflicted(c, d)) \/ NoteClash(c) \/ GiveUpClaim(c)
    \/ (\E facts \in SourceFacts : Start(c, facts) \/ (\E s \in CandState : Refuse(c, facts, s)))
    \/ (\E s \in Answers \cup {"sending"} : Hear(c, s)) \/ Finish(c) \/ KillTick(c)

ReconcileSome == \E K \in SUBSET Keys, R \in SUBSET Versions, facts \in SourceFacts : Reconcile(K, R, facts)

AutoNext ==
    \/ Pause \/ Resume \/ (\E known \in SUBSET Versions : Track(known)) \/ Untrack \/ SavePolicy
    \/ (\E f \in Versions : Observe(f) \/ Register(f) \/ Backfill(f))
    \/ ReconcileSome
    \/ (\E c \in Ticks, i \in Keys, facts \in SourceFacts : ClaimNext(c, i, facts))
    \/ (\E c \in Ticks : TickStep(c))
    \/ (\E c \in Manual : (\E f \in Versions : ManualOpen(c, f)) \/ ManualStart(c) \/ (\E s \in Answers : ManualEnd(c, s)))
    \/ (\E c \in Sends : Expire(c) \/ (\E s \in {"sending", "accepted", "rejected", "unknown"} : Receipt(c, s)))
    \/ (\E i \in Keys : LeaseEnds(i)) \/ CooldownEnds

AutoSpec == AutoInit /\ [][AutoNext]_autoVars

\* Leases run out, and the worker reconciles every thirty seconds, the
\* candidates that wait longest first.
AutoFairness ==
    \A i \in Keys :
        /\ WF_autoVars(LeaseEnds(i))
        /\ WF_autoVars(\E K \in SUBSET Keys, facts \in SourceFacts : i \in K /\ Reconcile(K, {}, facts))

-----------------------------------------------------------------------------
(* Properties.                                                              *)

AutoTypeOK ==
    /\ on \in BOOLEAN
    /\ participating \in BOOLEAN /\ gen \in 0 .. MaxGen /\ rev \in 0 .. MaxRev
    /\ seen \in [Versions -> {"unseen", "baseline", "observed"}]
    /\ wanted \subseteq Keys /\ live \subseteq Keys
    /\ cand \in [Keys -> CandState]
    /\ token \in [Keys -> Ticks \cup {Nobody}]
    /\ link \in [Keys -> Sends \cup {Nobody}]
    /\ crev \in [Keys -> 0 .. MaxRev]
    /\ at \in [Ticks -> {"new", "claimed", "options", "opened", "clashed", "posting", "ended", "over"}]
    /\ key \in [Ticks -> Keys]
    /\ prior \in [Ticks -> Sends \cup {Nobody}]
    /\ params \in [Ticks -> 0 .. MaxRev]
    /\ sub \in [Sends -> {"none", "sending", "accepted", "not_sent", "rejected", "unknown"}]
    /\ source \in [Sends -> Versions]
    /\ log \in [Sends -> SUBSET Sends]
    /\ begun \subseteq Sends /\ cooldown \in BOOLEAN

\* An automatic POST is only begun while automatic submissions are on and the
\* release is tracked, for a version that appeared since tracking began last or
\* that a person has queued since, and with the parameters that are saved now:
\* pause, untracking, tracking again and new parameters count however late in
\* the preparation they come (validate_intent).
IntentIsPermitted ==
    [][\A c \in Ticks : c \in begun' \ begun =>
          /\ on /\ participating /\ Gen(key[c]) = gen
          /\ seen[source[c]] = "observed" \/ key[c] \in wanted
          /\ params[c] = rev]_autoVars

\* What the states of candidates say is true, whatever tick was killed, lease
\* expired or receipt came late (settle_item): what waits to be sent, or has been
\* cancelled, was never asked of the encoder by the queue itself; as long as the
\* fate of an automatic submission is open its candidate points to it, so that a
\* receipt settles the right one; and what says "accepted" has an accepted
\* submission of its bytes.  A submission is what the history says of it: one that
\* had expired before its intent is "not_sent" here (late in EncoderSubmission).
CandidatesTellTruth ==
    /\ \A c \in Ticks : cand[key[c]] \in {"waiting", "ready", "cancelled", "preset_changed"} =>
          ~(c \in begun /\ sub[c] \in Standing \cup {"rejected"})
    /\ \A c \in Ticks : c \in begun /\ sub[c] \in {"sending", "unknown"} => link[key[c]] = c
    /\ \A i \in Keys : cand[i] = "accepted" =>
          \E c \in Opened : sub[c] = "accepted" /\ source[c] = File(i)

\* A source is not sent a second time by the queue while an earlier submission
\* of the same bytes, automatic or manual, may have reached the encoder; nor
\* when the release was tracked again in between.  Here too an earlier submission
\* that had expired before its intent counts as not sent.
QueueNeverRepeats ==
    [][\A c \in Ticks : c \in begun' \ begun =>
          \A d \in begun : source[d] = source[c] => sub[d] \notin Standing]_autoVars

\* No claim is held for ever, so a killed sender holds the queue for a while.
ClaimEnds == \A i \in Keys : cand[i] = "claimed" ~> cand[i] # "claimed"
=============================================================================
