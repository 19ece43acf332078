--------------------------- MODULE TelegramOutbox ---------------------------
(***************************************************************************)
(* The Telegram outbox (services/telegram_outbox.py): bots drain rows of     *)
(* their profile from PostgreSQL under leases, administrators revoke chats   *)
(* (services/telegram_access.py), operators retry failed rows, and the       *)
(* outcome is written to the row and to the pipeline's tg_status.            *)
(*                                                                         *)
(* Every action is one database transaction, or one step of a bot between    *)
(* two of them; a bot holds no lock while it talks to Telegram.  The lease   *)
(* of a row may run out at any moment: a bot can be frozen for any time.     *)
(* A claim token is the bot that made the claim, because a bot has at most   *)
(* one claim at a time and forgets it when it goes on.                       *)
(*                                                                         *)
(* A definition that nothing uses is a plausible fault of the one it stands  *)
(* before; PROJECT.json names the property that notices each of them.        *)
(***************************************************************************)
EXTENDS Delivery

CONSTANTS
    Bots,          \* outbox loops of bot processes
    Hevc,          \* the rows and bots of the profile "hevc"
    Chats,         \* recipients of the profile "hevc", known to its ACL
    ChatOf,        \* ChatOf[m]: the recipient of row m
    Pipelines,
    PipelineOf,    \* PipelineOf[m]: pipeline_id of row m, or NoPipeline
    NoPipeline,
    Legacy,        \* rows without a dedupe key that are pending from the start
    Switched,      \* profiles somebody switches on and off in the meantime
    Welcomes,      \* greetings, queued when their chat is approved
    Limit,         \* rows per drain
    MaxPause,      \* bound on a pause, in steps of time
    MaxAcks,       \* bound on accepted duplicates per row
    MaxCrashes     \* bound on abandoned drains

NoBot == "nobot"
NoMsg == "nomsg"

ASSUME BotsAssumption == NoBot \notin Bots
ASSUME MsgsAssumption == NoMsg \notin Msgs
ASSUME PipelineAssumption ==
    PipelineOf \in [Msgs -> Pipelines \cup {NoPipeline}] /\ NoPipeline \notin Pipelines
ASSUME LegacyAssumption == Legacy \subseteq Msgs /\ Welcomes \subseteq Msgs
ASSUME ChatAssumption == \A m \in Msgs \cap Hevc : ChatOf[m] \in Chats
ASSUME OutboxBounds == {Limit, MaxPause, MaxAcks, MaxCrashes} \subseteq Nat /\ MaxPause > 0

Profiles == {"primary", "hevc"}
Profile(x) == IF x \in Hevc THEN "hevc" ELSE "primary"
\* The rows whose outcome is the tg_status of pipeline q.
Primary(q) == {m \in Msgs : Profile(m) = "primary" /\ PipelineOf[m] = q}

VARIABLES
    owner,      \* owner[m]: claim_token
    leased,     \* rows whose lease_until lies ahead
    due,        \* pending rows whose next_attempt_at has come
    ahead,      \* ahead[m]: the due rows that became due before m
    pause,      \* pause[f]: what is left of the cooldown of profile f
    desk,       \* desk[f]: the row whose retry holds the cooldown lock of f
    enabled,    \* profiles that are switched on and have a token
    approved,   \* chats the ACL of the profile "hevc" approves
    revoking,   \* chats whose revocation has cancelled rows and is not committed
    held,       \* rows a revocation has locked
    slipped,    \* rows that became pending behind the back of a revocation
    tg,         \* tg[q]: tg_status of pipeline q
    pc,         \* pc[b]: where drain_outbox is in bot b
    item,       \* item[b]: the row of the claim in its hands
    verdict,    \* verdict[b]: the error kind it has to record, "accepted" if none
    left,       \* left[b]: iterations its drain has left
    crashes     \* drains abandoned so far

rowVars == <<status, owner, leased, due, ahead, tg>>
ghostVars == <<exposed, acks, confirmed>>
botVars == <<pc, item, verdict, left>>
aclVars == <<approved, revoking, held, slipped>>
vars == <<rowVars, ghostVars, botVars, pause, desk, enabled, aclVars, crashes>>

Kinds == {"accepted", "temporary", "rate_limited", "configuration", "permanent",
          "delivery_unknown", "acl_rejected"}
Pausing == {"rate_limited", "configuration"}
Retryable == {"temporary", "rate_limited"}
\* What an explicit answer of Telegram, or a connection that never opened, is.
Refusals == {"temporary", "rate_limited", "configuration", "permanent"}

\* Legacy rows may share a pipeline, a later event may not.
Init ==
    /\ status = [m \in Msgs |-> IF m \in Legacy THEN "pending" ELSE "none"]
    /\ exposed = [m \in Msgs |-> 0]
    /\ acks = [m \in Msgs |-> 0]
    /\ confirmed = {}
    /\ owner = [m \in Msgs |-> NoBot]
    /\ leased = {}
    /\ due = {}
    /\ ahead = [m \in Msgs |-> {}]
    /\ pause = [f \in Profiles |-> 0]
    /\ desk = [f \in Profiles |-> NoMsg]
    /\ enabled = Profiles
    /\ approved \in SUBSET Chats
    /\ revoking = {} /\ held = {} /\ slipped = {}
    /\ tg = [q \in Pipelines |-> IF Primary(q) \cap Legacy = {} THEN "skipped" ELSE "queued"]
    /\ pc = [b \in Bots |-> "idle"]
    /\ item = [b \in Bots |-> NoMsg]
    /\ verdict = [b \in Bots |-> "accepted"]
    /\ left = [b \in Bots |-> 0]
    /\ crashes = 0

-----------------------------------------------------------------------------
(* What one transaction does to a set of rows.                              *)

TgStatus(s) == IF s = "unknown" THEN "failed" ELSE s

AuditAlways(S, s) ==
    [q \in Pipelines |-> IF Primary(q) \cap S # {} THEN TgStatus(s) ELSE tg[q]]

\* _audit_outcome: rows of the profile "hevc" leave tg_status alone, and
\* nothing but another success may replace "sent".
AuditOutcome(S, s) ==
    [q \in Pipelines |->
        IF Primary(q) \cap S # {} /\ (s = "sent" \/ tg[q] # "sent") THEN TgStatus(s) ELSE tg[q]]

\* The rows of S go to status s and nobody owns them; the drains select due
\* rows in the order in which they became due.
Settle(S, s) ==
    /\ status' = [m \in Msgs |-> IF m \in S THEN s ELSE status[m]]
    /\ owner' = [m \in Msgs |-> IF m \in S THEN NoBot ELSE owner[m]]
    /\ leased' = leased \ S
    /\ due' = due \ S
    /\ ahead' = [m \in Msgs |-> IF m \in S THEN {} ELSE ahead[m] \ S]
    /\ tg' = AuditOutcome(S, s)

BecomeDueFirst(S) ==
    /\ due' = due \cup S
    /\ ahead' = [m \in Msgs |-> IF m \in due THEN ahead[m] \cup S ELSE {}]

BecomeDue(S) ==
    /\ due' = due \cup S
    /\ ahead' = [m \in Msgs |-> IF m \in S THEN due ELSE ahead[m]]

\* A row that becomes pending is overlooked by an UPDATE that has run already.
Slip(m) == slipped' = IF m \in Hevc /\ ChatOf[m] \in revoking THEN slipped \cup {m} ELSE slipped

-----------------------------------------------------------------------------
(* Producers, time, the ACL and the operator.                               *)

\* An event is queued, once per pipeline for the primary profile.  Producers
\* of the profile "hevc" read the approved chats before they insert, so the
\* chat may be rejected by now.
Enqueue(m) ==
    /\ status[m] = "none" /\ m \notin Welcomes
    /\ \A q \in Pipelines : m \in Primary(q) => \A n \in Primary(q) : status[n] = "none"
    /\ status' = [status EXCEPT ![m] = "pending"]
    /\ BecomeDue({m})
    /\ tg' = [q \in Pipelines |-> IF m \in Primary(q) THEN "queued" ELSE tg[q]]
    /\ Slip(m)
    /\ UNCHANGED <<owner, leased, ghostVars, botVars, pause, desk, enabled, approved, revoking, held, crashes>>

\* next_attempt_at comes.
TimeUp(m) ==
    /\ status[m] = "pending" /\ m \notin due
    /\ BecomeDue({m})
    /\ UNCHANGED <<status, owner, leased, tg, ghostVars, botVars, pause, desk, enabled, aclVars, crashes>>

LeaseEnds(m) ==
    /\ m \in leased
    /\ leased' = leased \ {m}
    /\ UNCHANGED <<status, owner, due, ahead, tg, ghostVars, botVars, pause, desk, enabled, aclVars, crashes>>

PauseShrinks(f) ==
    /\ pause[f] > 0
    /\ pause' = [pause EXCEPT ![f] = pause[f] - 1]
    /\ UNCHANGED <<rowVars, ghostVars, botVars, desk, enabled, aclVars, crashes>>

\* Somebody switches a profile on or off.
Switch(f) ==
    /\ f \in Switched
    /\ enabled' = IF f \in enabled THEN enabled \ {f} ELSE enabled \cup {f}
    /\ UNCHANGED <<rowVars, ghostVars, botVars, pause, desk, aclVars, crashes>>

\* set_access_status: the chat is approved and greeted, unless it was before.
Approve(c) ==
    LET greeting == {m \in Welcomes : ChatOf[m] = c /\ status[m] = "none"} IN
    /\ c \notin approved
    /\ approved' = approved \cup {c}
    /\ status' = [m \in Msgs |-> IF m \in greeting THEN "pending" ELSE status[m]]
    /\ BecomeDue(greeting)
    /\ UNCHANGED <<owner, leased, tg, ghostVars, botVars, pause, desk, enabled, revoking, held, slipped, crashes>>

CancelledPending(c) ==
    {m \in Msgs : Profile(m) = "hevc" /\ ChatOf[m] = c /\ status[m] = "pending"}

\* cancel_pending_hevc_outbox: what it finds pending or in flight.
Cancelled(c) ==
    {m \in Msgs : Profile(m) = "hevc" /\ ChatOf[m] = c /\ status[m] \in {"pending", "sending"}}
HeldFor(c) == {m \in held : ChatOf[m] = c}

\* set_access_status: the UPDATE has run and its rows are locked; nobody else
\* sees it, nor the new state of the ACL, before the commit.
StartReject(c) ==
    /\ c \in approved \ revoking
    /\ revoking' = revoking \cup {c}
    /\ held' = held \cup Cancelled(c)
    /\ slipped' = slipped \ Cancelled(c)
    /\ UNCHANGED <<rowVars, ghostVars, botVars, pause, desk, enabled, approved, crashes>>

CommitReject(c) ==
    /\ c \in revoking
    /\ approved' = approved \ {c}
    /\ revoking' = revoking \ {c}
    /\ held' = held \ HeldFor(c)
    /\ Settle(HeldFor(c), "cancelled")
    /\ UNCHANGED <<slipped, ghostVars, botVars, pause, desk, enabled, crashes>>

\* The decision fails before its commit: rollback.
AbortReject(c) ==
    /\ c \in revoking /\ crashes < MaxCrashes
    /\ crashes' = crashes + 1
    /\ revoking' = revoking \ {c}
    /\ held' = held \ HeldFor(c)
    /\ UNCHANGED <<rowVars, ghostVars, botVars, pause, desk, enabled, approved, slipped>>

\* retry_failed_outbox: an unknown delivery needs an acknowledgement, which
\* MaxAcks bounds; the profile is enabled and its recipient approved.
MayRetry(m) ==
    /\ status[m] \in {"failed", "unknown"}
    /\ status[m] = "unknown" => acks[m] < MaxAcks
    /\ Profile(m) \in enabled
    /\ m \in Hevc => ChatOf[m] \in approved

\* The retry has locked the profile and the row and has made its checks; a
\* rejection of the chat overlooks the row, which is failed until the commit.
OpenRetry(m) ==
    /\ desk[Profile(m)] = NoMsg
    /\ MayRetry(m)
    /\ desk' = [desk EXCEPT ![Profile(m)] = m]
    /\ UNCHANGED <<rowVars, ghostVars, botVars, pause, enabled, aclVars, crashes>>

CommitRetry(m) ==
    /\ desk[Profile(m)] = m
    /\ desk' = [desk EXCEPT ![Profile(m)] = NoMsg]
    /\ status' = [status EXCEPT ![m] = "pending"]
    /\ acks' = [acks EXCEPT ![m] = IF status[m] = "unknown" THEN acks[m] + 1 ELSE acks[m]]
    /\ BecomeDue({m})
    /\ tg' = AuditOutcome({m}, "pending")
    /\ Slip(m)
    /\ UNCHANGED <<owner, leased, exposed, confirmed, botVars, pause, enabled, approved, revoking, held, crashes>>

\* The commit fails: rollback.
AbortRetry(m) ==
    /\ desk[Profile(m)] = m
    /\ desk' = [desk EXCEPT ![Profile(m)] = NoMsg]
    /\ UNCHANGED <<rowVars, ghostVars, botVars, pause, enabled, aclVars, crashes>>

-----------------------------------------------------------------------------
(* drain_outbox.                                                            *)

\* The loop goes on, which ends it when its iterations are used up.
GoOn(b) ==
    /\ pc' = [pc EXCEPT ![b] = IF left[b] = 0 THEN "idle" ELSE "next"]
    /\ item' = [item EXCEPT ![b] = NoMsg]
    /\ verdict' = [verdict EXCEPT ![b] = "accepted"]
    /\ UNCHANGED left

Stop(b) ==
    /\ pc' = [pc EXCEPT ![b] = "idle"]
    /\ item' = [item EXCEPT ![b] = NoMsg]
    /\ verdict' = [verdict EXCEPT ![b] = "accepted"]
    /\ left' = [left EXCEPT ![b] = 0]

ExpiredNever(f) == {}
Expired(f) == {m \in Msgs : Profile(m) = f /\ status[m] = "sending" /\ m \notin leased}

RecoveredStatusPending == "pending"
RecoveredStatus == "unknown"

\* recover_expired_claims, before anything else; it waits for the rows that are
\* locked.
StartDrain(b) ==
    /\ pc[b] = "idle" /\ Profile(b) \in enabled
    /\ Expired(Profile(b)) \cap held = {}
    /\ Settle(Expired(Profile(b)), RecoveredStatus)
    /\ pc' = [pc EXCEPT ![b] = "next"]
    /\ left' = [left EXCEPT ![b] = Limit]
    /\ UNCHANGED <<item, verdict, ghostVars, pause, desk, enabled, aclVars, crashes>>

Paused(f) == pause[f] > 0

\* An iteration begins by reading the settings of the profile.
ReadConfig(b) ==
    /\ pc[b] = "next"
    /\ IF left[b] > 0 /\ Profile(b) \in enabled
       THEN pc' = [pc EXCEPT ![b] = "ready"] /\ UNCHANGED <<item, verdict, left>>
       ELSE Stop(b)
    /\ UNCHANGED <<rowVars, ghostVars, pause, desk, enabled, aclVars, crashes>>

\* claim_next_outbox finds the profile paused or no row due that is not locked.
FindNothing(b) ==
    /\ pc[b] = "ready" /\ desk[Profile(b)] = NoMsg
    /\ Paused(Profile(b)) \/ \A m \in due \ held : Profile(m) # Profile(b)
    /\ Stop(b)
    /\ UNCHANGED <<rowVars, ghostVars, pause, desk, enabled, aclVars, crashes>>

\* claim_next_outbox, under the cooldown lock of the profile, skips locked rows.
ClaimNext(b) ==
    /\ pc[b] = "ready"
    /\ ~Paused(Profile(b)) /\ desk[Profile(b)] = NoMsg
    /\ \E m \in due \ held :
          /\ Profile(m) = Profile(b)
          /\ \A n \in ahead[m] \ held : Profile(n) # Profile(b)
          /\ status' = [status EXCEPT ![m] = "sending"]
          /\ owner' = [owner EXCEPT ![m] = b]
          /\ leased' = leased \cup {m}
          /\ due' = due \ {m}
          /\ ahead' = [n \in Msgs |-> IF n = m THEN {} ELSE ahead[n] \ {m}]
          /\ item' = [item EXCEPT ![b] = m]
    /\ pc' = [pc EXCEPT ![b] = "claimed"]
    /\ left' = [left EXCEPT ![b] = left[b] - 1]
    /\ UNCHANGED <<tg, verdict, ghostVars, pause, desk, enabled, aclVars, crashes>>

\* The lock of the profile is obtained.
TakeLock(b) == FindNothing(b) \/ ClaimNext(b)

\* hevc_recipient_is_approved.
Approved(m) == m \in Hevc => ChatOf[m] \in approved

\* The recipient and the text are good.
CheckRow(b) ==
    /\ pc[b] = "claimed"
    /\ Approved(item[b])
    /\ pc' = [pc EXCEPT ![b] = "checked"]
    /\ UNCHANGED <<item, verdict, left, rowVars, ghostVars, pause, desk, enabled, aclVars, crashes>>

\* The chat is not approved, or the text is empty or could not be read.
RefuseRow(b, k) ==
    /\ pc[b] = "claimed"
    /\ k = "acl_rejected" => ~Approved(item[b])
    /\ pc' = [pc EXCEPT ![b] = "deciding"]
    /\ verdict' = [verdict EXCEPT ![b] = k]
    /\ UNCHANGED <<item, left, rowVars, ghostVars, pause, desk, enabled, aclVars, crashes>>

OwnsForEver(b) == status[item[b]] = "sending" /\ owner[item[b]] = b

\* The WHERE of renew_claim and finalize_outbox.
Owns(b) == status[item[b]] = "sending" /\ owner[item[b]] = b /\ item[b] \in leased

\* renew_claim succeeds: the request may go out from now on, whatever is
\* revoked in the meantime.
Renew(b) ==
    /\ pc[b] = "checked" /\ item[b] \notin held
    /\ Owns(b)
    /\ exposed' = [exposed EXCEPT ![item[b]] = exposed[item[b]] + 1]
    /\ pc' = [pc EXCEPT ![b] = "renewed"]
    /\ UNCHANGED <<item, verdict, left, rowVars, acks, confirmed, pause, desk, enabled, aclVars, crashes>>

\* renew_claim finds the claim lost.
LoseClaim(b) ==
    /\ pc[b] = "checked" /\ item[b] \notin held
    /\ ~Owns(b)
    /\ GoOn(b)
    /\ UNCHANGED <<rowVars, ghostVars, pause, desk, enabled, aclVars, crashes>>

\* The request leaves.
Post(b) ==
    /\ pc[b] = "renewed"
    /\ pc' = [pc EXCEPT ![b] = "posting"]
    /\ UNCHANGED <<item, verdict, left, rowVars, ghostVars, pause, desk, enabled, aclVars, crashes>>

\* send_outbox_message returns or raises; the explicit refusals and a
\* connection that never opened prove that nothing was delivered.
Hear(b, k) ==
    /\ pc[b] = "posting"
    /\ exposed' = [exposed EXCEPT ![item[b]] = IF k \in Refusals THEN exposed[item[b]] - 1 ELSE exposed[item[b]]]
    /\ confirmed' = IF k = "accepted" THEN confirmed \cup {item[b]} ELSE confirmed
    /\ verdict' = [verdict EXCEPT ![b] = k]
    /\ pc' = [pc EXCEPT ![b] = IF k \in Pausing THEN "pausing" ELSE "deciding"]
    /\ UNCHANGED <<item, left, acks, rowVars, pause, desk, enabled, aclVars, crashes>>

LongerLast(d, e) == e
Longer(d, e) == IF d < e THEN e ELSE d

\* set_bot_cooldown, before the row is touched.
SetCooldown(b, d) ==
    /\ pc[b] = "pausing"
    /\ desk[Profile(b)] = NoMsg
    /\ pause' = [pause EXCEPT ![Profile(b)] = Longer(pause[Profile(b)], d)]
    /\ pc' = [pc EXCEPT ![b] = "deciding"]
    /\ UNCHANGED <<item, verdict, left, rowVars, ghostVars, desk, enabled, aclVars, crashes>>

\* retry_after, the backoff, or sixty seconds for a broken configuration.
Pause(b) == \E d \in 1..MaxPause : SetCooldown(b, d)

ResultOptimistic(k) ==
    CASE k \in {"accepted", "delivery_unknown"} -> "sent"
      [] k \in Retryable -> "pending"
      [] k = "acl_rejected" -> "cancelled"
      [] OTHER -> "failed"

ResultHopeful(k) ==
    CASE k = "accepted" -> "sent"
      [] k \in Retryable \cup {"delivery_unknown"} -> "pending"
      [] k = "acl_rejected" -> "cancelled"
      [] OTHER -> "failed"

Result(k) ==
    CASE k = "accepted" -> "sent"
      [] k \in Retryable -> "pending"
      [] k = "acl_rejected" -> "cancelled"
      [] k = "delivery_unknown" -> "unknown"
      [] OTHER -> "failed"

\* finalize_outbox; a lost claim records nothing.  A pause ends the drain.
Finalize(b) ==
    /\ pc[b] = "deciding" /\ item[b] \notin held
    /\ IF Owns(b) THEN Settle({item[b]}, Result(verdict[b])) ELSE UNCHANGED rowVars
    /\ IF verdict[b] \in Pausing THEN Stop(b) ELSE GoOn(b)
    /\ UNCHANGED <<ghostVars, pause, desk, enabled, aclVars, crashes>>

\* The bot dies, is cancelled, or an exception leaves drain_outbox.
Abandon(b) ==
    /\ pc[b] # "idle" /\ crashes < MaxCrashes
    /\ crashes' = crashes + 1
    /\ Stop(b)
    /\ UNCHANGED <<rowVars, ghostVars, pause, desk, enabled, aclVars>>

-----------------------------------------------------------------------------
BotStep(b) ==
    \/ StartDrain(b) \/ ReadConfig(b) \/ TakeLock(b)
    \/ CheckRow(b) \/ (\E k \in {"acl_rejected", "permanent"} : RefuseRow(b, k))
    \/ Renew(b) \/ LoseClaim(b) \/ Post(b)
    \/ (\E k \in Kinds \ {"acl_rejected"} : Hear(b, k))
    \/ Pause(b) \/ Finalize(b)

Next ==
    \/ \E b \in Bots : BotStep(b) \/ Abandon(b)
    \/ \E m \in Msgs : Enqueue(m) \/ TimeUp(m) \/ LeaseEnds(m) \/ OpenRetry(m) \/ CommitRetry(m)
                      \/ AbortRetry(m)
    \/ \E f \in Profiles : PauseShrinks(f) \/ Switch(f)
    \/ \E c \in Chats : Approve(c) \/ StartReject(c) \/ CommitReject(c) \/ AbortReject(c)

\* A bot keeps running, time passes, transactions end, and PostgreSQL serves
\* the waiters of a lock in turn.
Fairness ==
    /\ \A b \in Bots : SF_vars(BotStep(b))
    /\ \A m \in Msgs : WF_vars(TimeUp(m)) /\ WF_vars(LeaseEnds(m))
                       /\ WF_vars(CommitRetry(m) \/ AbortRetry(m))
    /\ \A f \in Profiles : WF_vars(PauseShrinks(f))
    /\ \A c \in Chats : WF_vars(CommitReject(c) \/ AbortReject(c))

Spec == Init /\ [][Next]_vars
FairSpec == Spec /\ Fairness

-----------------------------------------------------------------------------
TypeOK ==
    /\ status \in [Msgs -> Status]
    /\ exposed \in [Msgs -> Int] /\ acks \in [Msgs -> Nat] /\ confirmed \subseteq Msgs
    /\ owner \in [Msgs -> Bots \cup {NoBot}]
    /\ leased \subseteq Msgs /\ due \subseteq Msgs
    /\ ahead \in [Msgs -> SUBSET Msgs]
    /\ pause \in [Profiles -> 0..MaxPause]
    /\ desk \in [Profiles -> Msgs \cup {NoMsg}]
    /\ enabled \subseteq Profiles /\ approved \subseteq Chats
    /\ revoking \subseteq approved /\ held \subseteq Msgs /\ slipped \subseteq Msgs
    /\ tg \in [Pipelines -> {"skipped", "queued", "pending", "sent", "failed", "cancelled"}]
    /\ pc \in [Bots -> {"idle", "next", "ready", "claimed", "checked", "renewed",
                   "posting", "pausing", "deciding"}]
    /\ item \in [Bots -> Msgs \cup {NoMsg}]
    /\ verdict \in [Bots -> Kinds]
    /\ left \in [Bots -> Nat]
    /\ crashes \in Nat

\* The docstring of telegram_outbox: ambiguous delivery is not retried
\* automatically.  Whatever freezes, crashes and late answers, of the requests
\* for a message at most one beyond the acknowledged duplicates may have been
\* delivered.
NoSilentDuplicate == \A m \in Msgs : exposed[m] <= acks[m] + 1

\* _audit_outcome: tg_status says "sent" exactly if a primary row of the
\* pipeline was sent, whatever another row or profile ends like later.
TgTellsTruth ==
    \A q \in Pipelines :
        tg[q] = "sent" <=>
            \E m \in Msgs : PipelineOf[m] = q /\ Profile(m) = "primary" /\ status[m] = "sent"

\* A claim that is in force is held by the bot whose token it bears; rows in
\* no one's hands bear no token.
RowInv ==
    \A m \in Msgs :
        /\ status[m] = "sending" <=> owner[m] \in Bots
        /\ m \in leased => status[m] = "sending"
        /\ m \in due => status[m] = "pending"

BotInv ==
    \A b \in Bots :
        /\ pc[b] \in {"idle", "next", "ready"} <=> item[b] = NoMsg
        /\ pc[b] = "ready" => left[b] > 0
        /\ pc[b] = "pausing" => verdict[b] \in Pausing
        /\ pc[b] = "deciding" /\ verdict[b] = "accepted" => item[b] \in confirmed

\* Bot b has m in its hands and knows that its own request, if any, was refused.
Innocent(b, m) ==
    /\ item[b] = m
    /\ \/ pc[b] \in {"claimed", "checked"}
       \/ pc[b] \in {"pausing", "deciding"} /\ verdict[b] \notin {"accepted", "delivery_unknown"}

\* What looks plainly retryable surely was not delivered.
ExposureInv ==
    \A m \in Msgs :
        /\ exposed[m] <= acks[m] + 1
        /\ status[m] \in {"none", "pending", "failed"} => Clear(m)
        /\ \A b \in Bots : owner[m] = b /\ Innocent(b, m) => Clear(m)

\* The row under a retry stays as it was when the checks were made.
DeskInv ==
    \A f \in Profiles :
        desk[f] # NoMsg => Profile(desk[f]) = f /\ status[desk[f]] \in {"failed", "unknown"}

\* A row that waits or is in flight, and whose chat is being revoked, is locked
\* until the revocation is committed, or slipped behind its back.
HeldInv ==
    /\ \A m \in held :
          /\ Profile(m) = "hevc" /\ ChatOf[m] \in revoking
          /\ status[m] \in {"pending", "sending"}
    /\ \A m \in Msgs :
          /\ Profile(m) = "hevc" /\ ChatOf[m] \in revoking
          /\ status[m] \in {"pending", "sending"}
          => m \in held \cup slipped

\* A revocation takes the row out of the hands of the bot that has checked it,
\* unless the row slipped behind its back.
CheckedInv ==
    \A b \in Bots :
        pc[b] = "checked" /\ owner[item[b]] = b => Approved(item[b]) \/ item[b] \in slipped

\* The inductive invariant of TelegramOutbox.
IInv ==
    /\ TypeOK
    /\ RowInv
    /\ BotInv
    /\ ExposureInv
    /\ DeskInv
    /\ HeldInv
    /\ CheckedInv
    /\ TgTellsTruth

-----------------------------------------------------------------------------
\* finalize_outbox and recover_expired_claims: as long as a lease runs only its
\* owner or a revocation ends the claim, and a claim that has run out can only
\* end in doubt.
ClaimsAreFenced ==
    [][\A m \in Msgs :
         status[m] = "sending" /\ status'[m] \notin {"sending", "cancelled"} =>
            IF m \in leased
            THEN /\ pc[owner[m]] = "deciding" /\ item[owner[m]] = m
                 /\ status'[m] = Result(verdict[owner[m]])
            ELSE status'[m] = "unknown"]_vars

\* cancel_pending_hevc_outbox: once a revocation is committed no claim is
\* renewed for its chat, whatever was checked before, except for a row that
\* became pending between the UPDATE of this very revocation and its commit and
\* was checked before the commit: renew_claim does not look at the ACL again.
RenewedOnlyForApproved ==
    [][\A b \in Bots :
         pc[b] = "checked" /\ pc'[b] = "renewed" =>
            Approved(item[b]) \/ item[b] \in slipped]_vars

\* A sent row is never sent again and a cancelled row is never revived, by a
\* late bot, a retry or a second approval.
FinalRowsStay ==
    [][\A m \in Msgs : status[m] \in {"sent", "cancelled"} => status'[m] = status[m]]_vars

\* claim_next_outbox and set_bot_cooldown: concurrent answers never shorten a
\* pause, and nothing of the profile is claimed before it has passed.
PauseIsKept ==
    [][\A f \in Profiles :
         /\ pause'[f] < pause[f] => pause'[f] = pause[f] - 1 /\ UNCHANGED pc
         /\ (\E b \in Bots : Profile(b) = f /\ pc[b] = "ready" /\ pc'[b] = "claimed") => pause[f] = 0]_vars

\* The order of claim_next_outbox: rows that fail time and again do not starve
\* a row that is due, unless the profile is switched off.
DueRowsAreTaken ==
    \A m \in Msgs : m \in due ~> m \notin due \/ Profile(m) \notin enabled

\* recover_expired_claims: no crash leaves a row "sending" for ever.
ClaimsEnd ==
    \A m \in Msgs : status[m] = "sending" ~> status[m] # "sending" \/ Profile(m) \notin enabled

\* TelegramOutbox implements the promise about one message.
Promise == DeliverySpec
=============================================================================
