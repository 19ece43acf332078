------------------------------ MODULE Delivery ------------------------------
(***************************************************************************)
(* What the Telegram outbox promises about one message, whoever sends it:   *)
(* sendMessage has no idempotency key, so a request that Telegram did not   *)
(* refuse may have been delivered, and no second request may follow it      *)
(* unless a human accepted the possible duplicate.  A message is only        *)
(* called sent when Telegram confirmed it, and only a message that surely    *)
(* was not delivered looks retryable.  TelegramOutbox implements this.       *)
(***************************************************************************)
EXTENDS Integers

CONSTANT Msgs             \* outbox rows

VARIABLES
    status,     \* status[m]: "none" before the insert; "unknown" is a failed
                \* row whose last_error_kind is delivery_unknown
    exposed,    \* exposed[m]: requests for m let go that Telegram has not refused
    acks,       \* acks[m]: possible duplicates of m a human accepted
    confirmed   \* messages whose receipt came back

deliveryVars == <<status, exposed, acks, confirmed>>

Status == {"none", "pending", "sending", "sent", "failed", "unknown", "cancelled"}

\* No request beyond those the acknowledgements cover may have been delivered.
Clear(m) == exposed[m] <= acks[m]

DeliveryInit ==
    /\ status \in [Msgs -> {"none", "pending"}]
    /\ exposed = [m \in Msgs |-> 0]
    /\ acks = [m \in Msgs |-> 0]
    /\ confirmed = {}

\* New rows, and rows taken up by a sender.
Move(S, from, to) ==
    /\ \A m \in S : status[m] \in from
    /\ status' = [m \in Msgs |-> IF m \in S THEN to ELSE status[m]]

Create(S) == Move(S, {"none"}, "pending") /\ UNCHANGED <<exposed, acks, confirmed>>
TakeUp(m) == Move({m}, {"pending"}, "sending") /\ UNCHANGED <<exposed, acks, confirmed>>

\* A request is let go.
Send(m) ==
    /\ status[m] = "sending" /\ Clear(m)
    /\ exposed' = [exposed EXCEPT ![m] = exposed[m] + 1]
    /\ UNCHANGED <<status, acks, confirmed>>

\* Telegram refuses a request, or its receipt arrives, even long after the
\* row has been given up.
TurnDown(m) ==
    /\ exposed' = [exposed EXCEPT ![m] = exposed[m] - 1]
    /\ UNCHANGED <<status, acks, confirmed>>

Confirm(m) == confirmed' = confirmed \cup {m} /\ UNCHANGED <<status, exposed, acks>>

\* Only what surely was not delivered becomes plainly retryable.
PutBack(m) ==
    /\ Clear(m)
    /\ Move({m}, {"sending"}, "pending") \/ Move({m}, {"sending"}, "failed")
    /\ UNCHANGED <<exposed, acks, confirmed>>

Succeed(m) ==
    /\ m \in confirmed
    /\ Move({m}, {"sending"}, "sent")
    /\ UNCHANGED <<exposed, acks, confirmed>>

Doubt(S) == Move(S, {"sending"}, "unknown") /\ UNCHANGED <<exposed, acks, confirmed>>

Cancel(S) == Move(S, {"pending", "sending"}, "cancelled") /\ UNCHANGED <<exposed, acks, confirmed>>

AskAgain(m) == Move({m}, {"failed"}, "pending") /\ UNCHANGED <<exposed, acks, confirmed>>

AcceptDuplicate(m) ==
    /\ Move({m}, {"unknown"}, "pending")
    /\ acks' = [acks EXCEPT ![m] = acks[m] + 1]
    /\ UNCHANGED <<exposed, confirmed>>

DeliveryNext ==
    \/ \E S \in SUBSET Msgs : Create(S) \/ Doubt(S) \/ Cancel(S)
    \/ \E m \in Msgs :
          \/ TakeUp(m) \/ Send(m) \/ TurnDown(m) \/ Confirm(m) \/ PutBack(m)
          \/ Succeed(m) \/ AskAgain(m) \/ AcceptDuplicate(m)

DeliverySpec == DeliveryInit /\ [][DeliveryNext]_deliveryVars
=============================================================================
