-------------------------- MODULE EncoderSubmission --------------------------
(***************************************************************************)
(* Submissions to the encoder Kensetsu (services/encoder_submission.py,      *)
(* encoder_history.py) and the recovery of their receipts                    *)
(* (encoder_receipts.py).  A POST starts hours of encoding and has no undo,   *)
(* so the intent is committed before it, its outcome is only read back, and   *)
(* what nobody knows stays unknown until a person decides.                   *)
(*                                                                         *)
(* Every action is one database transaction of a sender or of the recovery,  *)
(* or a step of Kensetsu.  A submission bears the name of the call that made  *)
(* it.  Presets are checked between two transactions, so the ten minutes of   *)
(* expires_at may run out at any moment, also between the second check of the  *)
(* sources and the lock of the intent, which does not look at the items again.  *)
(* What is posted then, the late submissions, the history calls not sent: the   *)
(* properties say what holds of all the others.                              *)
(*                                                                         *)
(* A definition that nothing uses is a plausible fault of the one it stands  *)
(* before; PROJECT.json names the property that notices each of them.        *)
(***************************************************************************)
EXTENDS FiniteSets

CONSTANTS
    Calls,        \* calls of submit_files
    Automatic,         \* those of the automatic encoder
    ReqOf,        \* ReqOf[c]: request_id
    PresetOf,     \* PresetOf[c]: video_id, audio_id and downmix
    Files,        \* exact sources: an info hash and a path
    FilesOf,      \* FilesOf[c]: file_ids
    PathOf,       \* PathOf[f]: release and path; versions of a torrent share it
    ContentOf     \* ContentOf[f]: the proven hash of the bytes, or NoHash

NoHash == "nohash"
NoCall == "nocall"

ASSUME CallsAssumption == IsFiniteSet(Calls) /\ Automatic \subseteq Calls /\ NoCall \notin Calls
ASSUME FilesAssumption == FilesOf \in [Calls -> (SUBSET Files) \ {{}}]

VARIABLES
    pc,         \* pc[c]: where submit_files is
    item,       \* item[c][f]: status of the item, "none" where there is none
    before,     \* before[c]: the submissions that are older than c
    open,       \* submissions without finished_at
    started,    \* submissions with request_started_at
    asked,      \* submissions with receipt_next_at
    paths,      \* paths[c]: the files that passed the second check
    consent,    \* submissions that needed allow_repeat or acknowledge_unknown
    late,       \* submissions whose intent came after they had expired
    flight,     \* requests on the wire
    sent,       \* submissions whose request may have left
    srv,        \* srv[c]: what Kensetsu has made of the request
    took,       \* took[c]: the files Kensetsu has made jobs of
    clear,      \* clear[c]: the files its reply speaks of unmistakably
    reading,    \* the submission whose receipt is read
    receipt     \* what has been read

ledgerRows == <<item, before, open, started, asked, consent, late>>
kensetsuVars == <<flight, sent, srv, took, clear>>
readerVars == <<reading, receipt>>
subVars == <<pc, paths, ledgerRows, kensetsuVars, readerVars>>

ItemStatus == {"none", "sending", "accepted", "not_sent", "rejected", "unknown"}
LiveItem == {"sending", "accepted", "unknown"}
Receipts == {"unread", "error", "missing", "processing", "interrupted", "final", "refused"}

SubInit ==
    /\ pc = [c \in Calls |-> "new"]
    /\ item = [c \in Calls |-> [f \in Files |-> "none"]]
    /\ before = [c \in Calls |-> {}]
    /\ open = {} /\ started = {} /\ asked = {} /\ consent = {} /\ late = {}
    /\ paths = [c \in Calls |-> {}]
    /\ flight = {} /\ sent = {}
    /\ srv = [c \in Calls |-> "none"]
    /\ took = [c \in Calls |-> {}] /\ clear = [c \in Calls |-> {}]
    /\ reading = NoCall /\ receipt = "unread"

-----------------------------------------------------------------------------
(* The history.                                                             *)

Exists(c) == \E f \in Files : item[c][f] # "none"
In(c, s) == {f \in Files : item[c][f] \in s}

\* The items of c that are in s become t.
Turn(c, s, t) == [item EXCEPT ![c] = [f \in Files |-> IF item[c][f] \in s THEN t ELSE item[c][f]]]

\* recover_expired selects of the submissions without finished_at those whose
\* expires_at has passed.
MayExpireStarted == open \cap started
MayExpire == open

ExpiredAs(c) == IF c \in started THEN "unknown" ELSE "not_sent"

AfterExpiry(S) ==
    [c \in Calls |-> [f \in Files |->
        IF c \in S /\ item[c][f] = "sending" THEN ExpiredAs(c) ELSE item[c][f]]]

\* history_page, latest_receipts, a call with a request id, or the tick of the
\* automatic encoder.
RecoverExpired(S) ==
    /\ S # {} /\ S \subseteq MayExpire
    /\ item' = AfterExpiry(S)
    /\ open' = open \ S
    /\ UNCHANGED <<pc, paths, before, started, asked, consent, late, kensetsuVars, readerVars>>

\* An older item that forbids a new one; the flags are those of the request.
Forbids(s, repeat, ack) ==
    \/ s = "sending"
    \/ s = "accepted" /\ ~repeat
    \/ s = "unknown" /\ ~ack

\* The newest live item of the same file and presets; old are the items.
Latest(old, c, f, d) ==
    /\ PresetOf[d] = PresetOf[c] /\ old[d][f] \in LiveItem
    /\ \A e \in Calls : d \in before[e] /\ PresetOf[e] = PresetOf[c] => old[e][f] \notin LiveItem

Proven(f, e) == ContentOf[f] # NoHash /\ ContentOf[e] # NoHash

SameContent(f, e) ==
    \/ f = e
    \/ Proven(f, e) /\ ContentOf[f] = ContentOf[e]

\* Across presets and servers, as soon as one of the two is automatic.
Related(old, c, f, d, e) ==
    /\ c \in Automatic \/ d \in Automatic
    /\ PathOf[f] = PathOf[e]
    /\ SameContent(f, e) \/ (old[d][e] = "unknown" /\ ~Proven(f, e))

ConflictSamePreset(old, c, repeat, ack) ==
    \E f \in FilesOf[c], d \in Calls : Latest(old, c, f, d) /\ Forbids(old[d][f], repeat, ack)

Conflict(old, c, repeat, ack) ==
    \E f \in FilesOf[c], d \in Calls :
        \/ Latest(old, c, f, d) /\ Forbids(old[d][f], repeat, ack)
        \/ \E e \in Files : Related(old, c, f, d, e) /\ Forbids(old[d][e], repeat, ack)

\* A submission with this request id exists: its receipt is the answer.
Replayed(c) == \E d \in Calls : ReqOf[d] = ReqOf[c] /\ Exists(d)

-----------------------------------------------------------------------------
(* submit_files.                                                            *)

\* The request id is known, older items forbid it, or the parameters are
\* refused.
TurnAway(c) ==
    /\ pc[c] = "new"
    /\ pc' = [pc EXCEPT ![c] = "done"]
    /\ UNCHANGED <<paths, ledgerRows, kensetsuVars, readerVars>>

\* claim, under the lock that all senders and the recovery share; S expires
\* first.
Claim(c, S, repeat, ack) ==
    /\ pc[c] = "new" /\ ~Replayed(c)
    /\ S \subseteq MayExpire
    /\ c \in Automatic => ~repeat /\ ~ack
    /\ ~Conflict(AfterExpiry(S), c, repeat, ack)
    /\ item' = [AfterExpiry(S) EXCEPT ![c] = [f \in Files |-> IF f \in FilesOf[c] THEN "sending" ELSE "none"]]
    /\ open' = (open \ S) \cup {c}
    /\ before' = [before EXCEPT ![c] = {d \in Calls : Exists(d)}]
    /\ consent' = IF Conflict(AfterExpiry(S), c, FALSE, FALSE) THEN consent \cup {c} ELSE consent
    /\ pc' = [pc EXCEPT ![c] = "claimed"]
    /\ UNCHANGED <<paths, started, asked, late, kensetsuVars, readerVars>>

\* finish_failure before the intent: nothing to send, the presets or the
\* server have changed or do not answer, the call is cancelled.
GiveUp(c) ==
    /\ pc[c] \in {"claimed", "preflight", "checked"}
    /\ item' = Turn(c, {"sending"}, "not_sent")
    /\ open' = open \ {c}
    /\ pc' = [pc EXCEPT ![c] = "done"]
    /\ UNCHANGED <<paths, before, started, asked, consent, late, kensetsuVars, readerVars>>

\* The files in bad are missing, being checked, or chosen twice.
Prepare(c, bad) ==
    /\ pc[c] = "claimed"
    /\ bad \subseteq In(c, {"sending"}) /\ bad # In(c, {"sending"})
    /\ item' = [item EXCEPT ![c] = [f \in Files |-> IF f \in bad THEN "not_sent" ELSE item[c][f]]]
    /\ pc' = [pc EXCEPT ![c] = "preflight"]
    /\ UNCHANGED <<paths, before, open, started, asked, consent, late, kensetsuVars, readerVars>>

RecheckEverything(c, bad) ==
    /\ pc[c] = "preflight"
    /\ bad \subseteq FilesOf[c] /\ bad # FilesOf[c]
    /\ paths' = [paths EXCEPT ![c] = FilesOf[c] \ bad]
    /\ pc' = [pc EXCEPT ![c] = "checked"]
    /\ UNCHANGED <<ledgerRows, kensetsuVars, readerVars>>

\* The presets are there; the items are read again and the files in bad have
\* changed in the meantime, which is only written with the intent.
Recheck(c, bad) ==
    /\ pc[c] = "preflight"
    /\ bad \subseteq In(c, {"sending"}) /\ bad # In(c, {"sending"})
    /\ paths' = [paths EXCEPT ![c] = In(c, {"sending"}) \ bad]
    /\ pc' = [pc EXCEPT ![c] = "checked"]
    /\ UNCHANGED <<ledgerRows, kensetsuVars, readerVars>>

\* The durable intent, under the lock; it looks neither at the items nor at
\* finished_at once more.
Intent(c) ==
    /\ pc[c] = "checked"
    /\ item' = [item EXCEPT ![c] = [f \in Files |->
                  IF item[c][f] = "sending" /\ f \notin paths[c] THEN "not_sent" ELSE item[c][f]]]
    /\ started' = started \cup {c}
    /\ asked' = asked \cup {c}
    /\ late' = IF c \in open THEN late ELSE late \cup {c}
    /\ pc' = [pc EXCEPT ![c] = "intended"]
    /\ UNCHANGED <<paths, before, open, consent, kensetsuVars, readerVars>>

Post(c) ==
    /\ pc[c] = "intended"
    /\ flight' = flight \cup {c}
    /\ sent' = sent \cup {c}
    /\ pc' = [pc EXCEPT ![c] = "posting"]
    /\ UNCHANGED <<paths, ledgerRows, srv, took, clear, readerVars>>

\* Only positive evidence accepts a file (settle_response); what the reply
\* does not speak of unmistakably is unknown.
VerdictByDefault(c, f) == IF f \in clear[c] \ took[c] THEN "rejected" ELSE "accepted"
Verdict(c, f) ==
    IF f \notin clear[c] THEN "unknown" ELSE IF f \in took[c] THEN "accepted" ELSE "rejected"

Settled(c, s) ==
    [item EXCEPT ![c] = [f \in Files |-> IF item[c][f] \in s THEN Verdict(c, f) ELSE item[c][f]]]

\* HTTP 202: the receipt will be asked for.
HearPending(c) ==
    /\ pc[c] = "posting" /\ srv[c] \in {"processing", "interrupted"}
    /\ asked' = asked \cup {c}
    /\ pc' = [pc EXCEPT ![c] = "done"]
    /\ UNCHANGED <<paths, item, before, open, started, consent, late, kensetsuVars, readerVars>>

\* HTTP 200 or 207.
HearFinal(c) ==
    /\ pc[c] = "posting" /\ srv[c] = "final"
    /\ item' = Settled(c, {"sending"})
    /\ asked' = IF \E f \in Files : item'[c][f] = "unknown" THEN asked \cup {c} ELSE asked \ {c}
    /\ open' = open \ {c}
    /\ pc' = [pc EXCEPT ![c] = "done"]
    /\ UNCHANGED <<paths, before, started, consent, late, kensetsuVars, readerVars>>

\* HTTP 400, 403, 404 or 422: a documented refusal.
HearRefused(c) ==
    /\ pc[c] = "posting" /\ srv[c] = "refused"
    /\ item' = Turn(c, {"sending"}, "rejected")
    /\ open' = open \ {c}
    /\ pc' = [pc EXCEPT ![c] = "done"]
    /\ UNCHANGED <<paths, before, started, asked, consent, late, kensetsuVars, readerVars>>

\* No connection was made: definitely unsent.
HearUnsent(c) ==
    /\ pc[c] = "posting" /\ c \in flight
    /\ flight' = flight \ {c}
    /\ sent' = sent \ {c}
    /\ item' = Turn(c, {"sending"}, "not_sent")
    /\ open' = open \ {c}
    /\ pc' = [pc EXCEPT ![c] = "done"]
    /\ UNCHANGED <<paths, before, started, asked, consent, late, srv, took, clear, readerVars>>

LostAs == "unknown"

\* A timeout, a broken connection, a 5xx or 409, or the call is cancelled.
HearNothing(c) ==
    /\ pc[c] = "posting"
    /\ item' = Turn(c, {"sending"}, LostAs)
    /\ open' = open \ {c}
    /\ asked' = asked \cup {c}
    /\ pc' = [pc EXCEPT ![c] = "done"]
    /\ UNCHANGED <<paths, before, started, consent, late, kensetsuVars, readerVars>>

\* The process is killed.
Kill(c) ==
    /\ pc[c] \notin {"new", "done"}
    /\ pc' = [pc EXCEPT ![c] = "done"]
    /\ UNCHANGED <<paths, ledgerRows, kensetsuVars, readerVars>>

-----------------------------------------------------------------------------
(* Kensetsu, which is external: it reserves the request id, copies the       *)
(* sources, and keeps the reply.                                             *)

Arrive(c) ==
    /\ c \in flight
    /\ flight' = flight \ {c}
    /\ srv' = [srv EXCEPT ![c] = "processing"]
    /\ UNCHANGED <<pc, paths, ledgerRows, sent, took, clear, readerVars>>

\* It answers, or restarts in the middle, with the jobs of T made.
Conclude(c, r, T, C) ==
    /\ srv[c] = "processing"
    /\ T \subseteq paths[c] /\ C \subseteq paths[c]
    /\ r = "refused" => T = {} /\ C = {}
    /\ r = "interrupted" => C = {}
    /\ srv' = [srv EXCEPT ![c] = r]
    /\ took' = [took EXCEPT ![c] = T]
    /\ clear' = [clear EXCEPT ![c] = C]
    /\ UNCHANGED <<pc, paths, ledgerRows, flight, sent, readerVars>>

-----------------------------------------------------------------------------
(* recover_receipts: it reads, and never repeats the POST.                  *)

\* A due submission with pending items is asked for, outside any transaction.
\* A database that was lost, or an old version, knows no receipt.
Fetch(c, r) ==
    /\ reading = NoCall
    /\ c \in asked \cap started /\ In(c, {"sending", "unknown"}) # {}
    /\ r \in {"error", "missing", srv[c]} \ {"none"}
    /\ reading' = c /\ receipt' = r
    /\ UNCHANGED <<pc, paths, ledgerRows, kensetsuVars>>

\* Kensetsu is still at it: what was given up is being sent again.
AbsorbProcessing(c) ==
    /\ receipt = "processing"
    /\ item' = Turn(c, {"unknown"}, "sending")
    /\ open' = open \cup {c}
    /\ UNCHANGED asked

\* Nothing in it authorizes another POST.
AbsorbDoubt(c) ==
    /\ receipt \in {"error", "missing", "interrupted"}
    /\ item' = Turn(c, {"sending"}, "unknown")
    /\ open' = open \ {c}
    /\ asked' = IF receipt = "error" THEN asked ELSE asked \ {c}

AbsorbReply(c) ==
    /\ receipt \in {"final", "refused"}
    /\ item' = IF receipt = "final" THEN Settled(c, {"sending", "unknown"})
               ELSE Turn(c, {"sending", "unknown"}, "rejected")
    /\ open' = open \ {c}
    /\ asked' = asked \ {c}

Absorb(c) ==
    /\ reading = c
    /\ AbsorbProcessing(c) \/ AbsorbDoubt(c) \/ AbsorbReply(c)
    /\ reading' = NoCall /\ receipt' = "unread"
    /\ UNCHANGED <<pc, paths, before, started, consent, late, kensetsuVars>>

\* The recovery is killed, or Kensetsu is switched off meanwhile.
StopReading ==
    /\ reading # NoCall
    /\ reading' = NoCall /\ receipt' = "unread"
    /\ UNCHANGED <<pc, paths, ledgerRows, kensetsuVars>>

-----------------------------------------------------------------------------
SendStep(c) ==
    \/ \E bad \in SUBSET FilesOf[c] : Prepare(c, bad) \/ Recheck(c, bad)
    \/ Post(c) \/ HearPending(c) \/ HearFinal(c) \/ HearRefused(c) \/ HearUnsent(c) \/ HearNothing(c)

KensetsuStep(c) ==
    \/ Arrive(c)
    \/ \E r \in {"final", "refused", "interrupted"}, T, C \in SUBSET FilesOf[c] : Conclude(c, r, T, C)

SubNext ==
    \/ \E c \in Calls :
          \/ TurnAway(c) \/ (\E S \in SUBSET Calls, repeat, ack \in BOOLEAN : Claim(c, S, repeat, ack))
          \/ GiveUp(c) \/ Intent(c) \/ SendStep(c) \/ Kill(c)
          \/ KensetsuStep(c) \/ (\E r \in Receipts : Fetch(c, r)) \/ Absorb(c)
    \/ StopReading \/ (\E S \in SUBSET Calls : RecoverExpired(S))

SubSpec == SubInit /\ [][SubNext]_subVars

\* A sender finishes or is killed, Kensetsu answers in the end, and the tick
\* of the worker lets submissions expire and asks for receipts.
SubFairness ==
    /\ \A c \in Calls :
          /\ WF_subVars(GiveUp(c) \/ Intent(c) \/ SendStep(c) \/ Kill(c))
          /\ WF_subVars(KensetsuStep(c))
          /\ WF_subVars(\E S \in SUBSET Calls : c \in S /\ RecoverExpired(S))
          /\ WF_subVars(Absorb(c))
    /\ WF_subVars(\E c \in Calls, r \in Receipts : Fetch(c, r))

FairSubSpec == SubSpec /\ SubFairness

-----------------------------------------------------------------------------
(* Properties.                                                              *)

SubTypeOK ==
    /\ pc \in [Calls -> {"new", "claimed", "preflight", "checked", "intended", "posting", "done"}]
    /\ item \in [Calls -> [Files -> ItemStatus]]
    /\ before \in [Calls -> SUBSET Calls]
    /\ open \subseteq Calls /\ started \subseteq Calls
    /\ asked \subseteq Calls /\ consent \subseteq Calls /\ late \subseteq Calls
    /\ paths \in [Calls -> SUBSET Files]
    /\ flight \subseteq Calls /\ sent \subseteq Calls
    /\ srv \in [Calls -> {"none", "processing", "interrupted", "final", "refused"}]
    /\ took \in [Calls -> SUBSET Files] /\ clear \in [Calls -> SUBSET Files]
    /\ reading \in Calls \cup {NoCall} /\ receipt \in Receipts

\* Kensetsu is encoding file f for submission c, or it still may.
MayEncode(c, f) ==
    /\ c \in sent /\ f \in paths[c]
    /\ srv[c] \in {"none", "processing", "interrupted"} \/ f \in took[c]

\* The source f of c is, surely, the source e of d.  Two manual submissions
\* are only compared by torrent, path and presets.
Clash(c, f, d, e) ==
    IF c \in Automatic \/ d \in Automatic THEN PathOf[f] = PathOf[e] /\ SameContent(f, e)
    ELSE f = e /\ PresetOf[c] = PresetOf[d]

\* What the history shows is true: "accepted" has a job, "rejected" will never
\* have one, and "not_sent" is not among what Kensetsu was asked to encode,
\* whatever was lost, killed or read from a receipt; but for a submission that
\* had expired before its intent.
HistoryTellsTruth ==
    \A c \in Calls, f \in Files :
        /\ item[c][f] = "accepted" => f \in took[c]
        /\ item[c][f] = "rejected" => ~MayEncode(c, f)
        /\ item[c][f] = "not_sent" /\ c \notin late => ~(c \in sent /\ f \in paths[c])

\* Two submissions never have the same source encoded unless a person has
\* confirmed one of them in spite of the other: neither concurrent senders, nor
\* lost answers and killed processes, nor a recovery that is late (claim).  Only
\* a submission that had expired before its intent escapes this.
NoSilentRepeat ==
    \A c, d \in Calls, f, e \in Files :
        c # d /\ MayEncode(c, f) /\ MayEncode(d, e) /\ Clash(c, f, d, e)
            => {c, d} \cap (consent \cup late) # {}

\* A request id stands for one submission, however often it is asked for
\* (replay and the unique index).
OneSubmissionPerRequest ==
    \A c, d \in Calls : ReqOf[c] = ReqOf[d] /\ Exists(c) /\ Exists(d) => c = d

\* An item that is "accepted", "rejected" or "not_sent" never changes again;
\* an answer that comes after a receipt, or a receipt after the answer, finds
\* nothing left to write.
SettledStays ==
    [][\A c \in Calls, f \in Files :
          item[c][f] \in {"accepted", "rejected", "not_sent"} => item'[c][f] = item[c][f]]_subVars

\* For the ledger a late submission is what the history says of it, not sent.
Posted == UNION {{c} \X paths[c] : c \in sent \ late}
TakenUp == UNION {{c} \X took[c] : c \in Calls \ late}
Clashing == {t \in Calls \X Files \X Calls \X Files : Clash(t[1], t[2], t[3], t[4])}

Ledger == INSTANCE EncoderLedger WITH
    status <- item, posted <- Posted, jobs <- TakenUp, consent <- consent, Clashes <- Clashing

\* Senders and recovery keep what EncoderLedger promises of the submissions that
\* are not late.
KeepsLedger == Ledger!LedgerSpec

\* No item is "sending" for ever: a sender that was killed expires, a request
\* that Kensetsu works on is asked for until it is answered.
SendingEnds == <>[](\A c \in Calls, f \in Files : item[c][f] # "sending")
=============================================================================
