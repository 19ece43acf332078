----------------------- MODULE TelegramOutboxProofs -----------------------
(***************************************************************************)
(* Proofs about TelegramOutbox, for any rows, bots, chats, pipelines and     *)
(* bounds: the inductive invariant, the properties the runs check that need  *)
(* no fairness, and that the outbox keeps the promise of Delivery.           *)
(***************************************************************************)
EXTENDS TelegramOutbox, TLAPS

LEMMA InitInv == Init => IInv
<1> SUFFICES ASSUME Init PROVE IInv OBVIOUS
<1>1. TypeOK
  BY OutboxBounds DEF Init, TypeOK, Status, Kinds
<1>2. RowInv /\ BotInv /\ DeskInv /\ HeldInv /\ CheckedInv
  BY BotsAssumption DEF Init, RowInv, BotInv, DeskInv, HeldInv, CheckedInv
<1>3. \A m \in Msgs : exposed[m] = 0 /\ acks[m] = 0
  BY DEF Init
<1>4. ExposureInv
  <2>1. ASSUME NEW m \in Msgs PROVE Clear(m) /\ exposed[m] <= acks[m] + 1
    BY <1>3 DEF Clear
  <2> QED BY <2>1 DEF ExposureInv
<1>5. TgTellsTruth
  BY DEF Init, TgTellsTruth
<1> QED BY <1>1, <1>2, <1>4, <1>5 DEF IInv

\* A bot that is past its claim has a row in its hands.
LEMMA ItemIsRow ==
    ASSUME TypeOK, BotInv, NEW b \in Bots, pc[b] \notin {"idle", "next", "ready"}
    PROVE  item[b] \in Msgs /\ item[b] # NoMsg
BY MsgsAssumption DEF TypeOK, BotInv

\* Every variable keeps its type.
LEMMA TypeStep == IInv /\ [Next]_vars => TypeOK'
<1> SUFFICES ASSUME IInv, [Next]_vars PROVE TypeOK' OBVIOUS
<1> USE DEF IInv, TypeOK, BotInv, rowVars, ghostVars, botVars, aclVars, Status, Kinds, Profile, Profiles, NoMsg
<1>1. ASSUME NEW b \in Bots, StartDrain(b) PROVE TypeOK'
  BY <1>1, OutboxBounds
  DEF StartDrain, Settle, Expired, RecoveredStatus, AuditOutcome, TgStatus
<1>2. ASSUME NEW b \in Bots, ReadConfig(b) PROVE TypeOK'
  BY <1>2 DEF ReadConfig, Stop
<1>3. ASSUME NEW b \in Bots, FindNothing(b) PROVE TypeOK'
  BY <1>3 DEF FindNothing, Stop
<1>4. ASSUME NEW b \in Bots, ClaimNext(b) PROVE TypeOK'
  BY <1>4 DEF ClaimNext
<1>5. ASSUME NEW b \in Bots, CheckRow(b) PROVE TypeOK'
  BY <1>5, ItemIsRow DEF CheckRow
<1>6. ASSUME NEW b \in Bots, NEW k \in {"acl_rejected", "permanent"}, RefuseRow(b, k) PROVE TypeOK'
  BY <1>6, ItemIsRow DEF RefuseRow
<1>7. ASSUME NEW b \in Bots, Renew(b) PROVE TypeOK'
  BY <1>7, ItemIsRow DEF Renew, Owns
<1>8. ASSUME NEW b \in Bots, LoseClaim(b) PROVE TypeOK'
  BY <1>8, ItemIsRow DEF LoseClaim, GoOn
<1>9. ASSUME NEW b \in Bots, Post(b) PROVE TypeOK'
  BY <1>9, ItemIsRow DEF Post
<1>10. ASSUME NEW b \in Bots, NEW k \in Kinds \ {"acl_rejected"}, Hear(b, k) PROVE TypeOK'
  BY <1>10, ItemIsRow DEF Hear, Refusals
<1>11. ASSUME NEW b \in Bots, NEW d \in 1..MaxPause, SetCooldown(b, d) PROVE TypeOK'
  BY <1>11, ItemIsRow, OutboxBounds DEF SetCooldown, Longer
<1>12. ASSUME NEW b \in Bots, Finalize(b) PROVE TypeOK'
  BY <1>12, ItemIsRow
  DEF Finalize, Owns, Settle, Result, Retryable, AuditOutcome, TgStatus, Stop,
      GoOn
<1>13. ASSUME NEW b \in Bots, Abandon(b) PROVE TypeOK'
  BY <1>13 DEF Abandon, Stop
<1>14. ASSUME NEW m \in Msgs, Enqueue(m) PROVE TypeOK'
  BY <1>14 DEF Enqueue, BecomeDue, Slip
<1>15. ASSUME NEW m \in Msgs, TimeUp(m) PROVE TypeOK'
  BY <1>15 DEF TimeUp, BecomeDue
<1>16. ASSUME NEW m \in Msgs, LeaseEnds(m) PROVE TypeOK'
  BY <1>16 DEF LeaseEnds
<1>17. ASSUME NEW m \in Msgs, OpenRetry(m) PROVE TypeOK'
  BY <1>17 DEF OpenRetry, MayRetry
<1>18. ASSUME NEW m \in Msgs, CommitRetry(m) PROVE TypeOK'
  BY <1>18 DEF CommitRetry, BecomeDue, Slip, AuditOutcome, TgStatus
<1>19. ASSUME NEW m \in Msgs, AbortRetry(m) PROVE TypeOK'
  BY <1>19 DEF AbortRetry
<1>20. ASSUME NEW f \in Profiles, PauseShrinks(f) PROVE TypeOK'
  BY <1>20, OutboxBounds DEF PauseShrinks
<1>21. ASSUME NEW f \in Profiles, Switch(f) PROVE TypeOK'
  BY <1>21 DEF Switch
<1>22. ASSUME NEW c \in Chats, Approve(c) PROVE TypeOK'
  <2> DEFINE greeting == {m \in Welcomes : ChatOf[m] = c /\ status[m] = "none"}
  <2>1. status' \in [Msgs -> Status] BY <1>22 DEF Approve
  <2>2. BecomeDue(greeting) /\ greeting \subseteq Welcomes BY <1>22 DEF Approve
  <2>3. due' \subseteq Msgs /\ ahead' \in [Msgs -> SUBSET Msgs] BY <2>2, LegacyAssumption DEF BecomeDue
  <2> QED BY <1>22, <2>1, <2>3 DEF Approve
<1>23. ASSUME NEW c \in Chats, StartReject(c) PROVE TypeOK'
  BY <1>23 DEF StartReject, Cancelled
<1>24. ASSUME NEW c \in Chats, CommitReject(c) PROVE TypeOK'
  BY <1>24
  DEF CommitReject, HeldFor, HeldInv, Settle, AuditOutcome, TgStatus
<1>25. ASSUME NEW c \in Chats, AbortReject(c) PROVE TypeOK'
  BY <1>25 DEF AbortReject
<1>26. CASE UNCHANGED vars BY <1>26 DEF vars
<1> QED BY <1>1, <1>2, <1>3, <1>4, <1>5, <1>6, <1>7, <1>8, <1>9, <1>10, <1>11,
         <1>12, <1>13, <1>14, <1>15, <1>16, <1>17, <1>18, <1>19, <1>20, <1>21,
         <1>22, <1>23, <1>24, <1>25, <1>26 DEF Next, BotStep, TakeLock, Pause

\* Tokens and leases come and go with the status "sending".
LEMMA RowStep == IInv /\ [Next]_vars => RowInv'
<1> SUFFICES ASSUME IInv, [Next]_vars PROVE RowInv' OBVIOUS
<1> USE DEF IInv, TypeOK, RowInv, DeskInv, rowVars, ghostVars, botVars, aclVars
<1>1. ASSUME NEW b \in Bots, StartDrain(b) PROVE RowInv'
  BY <1>1, BotsAssumption
  DEF StartDrain, Settle, Expired, RecoveredStatus, AuditOutcome, TgStatus
<1>2. ASSUME NEW b \in Bots, ReadConfig(b) PROVE RowInv'
  BY <1>2, BotsAssumption DEF ReadConfig, Stop
<1>3. ASSUME NEW b \in Bots, FindNothing(b) PROVE RowInv'
  BY <1>3, BotsAssumption DEF FindNothing, Stop
<1>4. ASSUME NEW b \in Bots, ClaimNext(b) PROVE RowInv'
  BY <1>4, BotsAssumption DEF ClaimNext
<1>5. ASSUME NEW b \in Bots, CheckRow(b) PROVE RowInv'
  BY <1>5, ItemIsRow, BotsAssumption DEF CheckRow
<1>6. ASSUME NEW b \in Bots, NEW k \in {"acl_rejected", "permanent"}, RefuseRow(b, k) PROVE RowInv'
  BY <1>6, ItemIsRow, BotsAssumption DEF RefuseRow
<1>7. ASSUME NEW b \in Bots, Renew(b) PROVE RowInv'
  BY <1>7, ItemIsRow, BotsAssumption DEF Renew, Owns
<1>8. ASSUME NEW b \in Bots, LoseClaim(b) PROVE RowInv'
  BY <1>8, ItemIsRow, BotsAssumption DEF LoseClaim, GoOn
<1>9. ASSUME NEW b \in Bots, Post(b) PROVE RowInv'
  BY <1>9, ItemIsRow, BotsAssumption DEF Post
<1>10. ASSUME NEW b \in Bots, NEW k \in Kinds \ {"acl_rejected"}, Hear(b, k) PROVE RowInv'
  BY <1>10, ItemIsRow, BotsAssumption DEF Hear, Refusals
<1>11. ASSUME NEW b \in Bots, NEW d \in 1..MaxPause, SetCooldown(b, d) PROVE RowInv'
  BY <1>11, ItemIsRow, BotsAssumption DEF SetCooldown
<1>12. ASSUME NEW b \in Bots, Finalize(b) PROVE RowInv'
  BY <1>12, ItemIsRow, BotsAssumption
  DEF Finalize, Owns, Settle, Result, Retryable, AuditOutcome, TgStatus, Stop,
      GoOn
<1>13. ASSUME NEW b \in Bots, Abandon(b) PROVE RowInv'
  BY <1>13, BotsAssumption DEF Abandon, Stop
<1>14. ASSUME NEW m \in Msgs, Enqueue(m) PROVE RowInv'
  BY <1>14, BotsAssumption DEF Enqueue, BecomeDue
<1>15. ASSUME NEW m \in Msgs, TimeUp(m) PROVE RowInv'
  BY <1>15, BotsAssumption DEF TimeUp, BecomeDue
<1>16. ASSUME NEW m \in Msgs, LeaseEnds(m) PROVE RowInv'
  BY <1>16, BotsAssumption DEF LeaseEnds
<1>17. ASSUME NEW m \in Msgs, OpenRetry(m) PROVE RowInv'
  BY <1>17, BotsAssumption DEF OpenRetry, MayRetry
<1>18. ASSUME NEW m \in Msgs, CommitRetry(m) PROVE RowInv'
  BY <1>18, BotsAssumption, MsgsAssumption DEF CommitRetry, Profiles, Profile, BecomeDue, AuditOutcome, TgStatus
<1>19. ASSUME NEW m \in Msgs, AbortRetry(m) PROVE RowInv'
  BY <1>19, BotsAssumption DEF AbortRetry
<1>20. ASSUME NEW f \in Profiles, PauseShrinks(f) PROVE RowInv'
  BY <1>20, BotsAssumption DEF PauseShrinks
<1>21. ASSUME NEW f \in Profiles, Switch(f) PROVE RowInv'
  BY <1>21, BotsAssumption DEF Switch
<1>22. ASSUME NEW c \in Chats, Approve(c) PROVE RowInv'
  BY <1>22, BotsAssumption DEF Approve, BecomeDue
<1>23. ASSUME NEW c \in Chats, StartReject(c) PROVE RowInv'
  BY <1>23, BotsAssumption DEF StartReject, Cancelled
<1>24. ASSUME NEW c \in Chats, CommitReject(c) PROVE RowInv'
  BY <1>24, BotsAssumption
  DEF CommitReject, HeldFor, HeldInv, Settle, AuditOutcome, TgStatus
<1>25. ASSUME NEW c \in Chats, AbortReject(c) PROVE RowInv'
  BY <1>25, BotsAssumption DEF AbortReject
<1>26. CASE UNCHANGED vars BY <1>26 DEF vars
<1> QED BY <1>1, <1>2, <1>3, <1>4, <1>5, <1>6, <1>7, <1>8, <1>9, <1>10, <1>11,
         <1>12, <1>13, <1>14, <1>15, <1>16, <1>17, <1>18, <1>19, <1>20, <1>21,
         <1>22, <1>23, <1>24, <1>25, <1>26 DEF Next, BotStep, TakeLock, Pause

\* What a bot carries fits where it is.
LEMMA BotStepInv == IInv /\ [Next]_vars => BotInv'
<1> SUFFICES ASSUME IInv, [Next]_vars PROVE BotInv' OBVIOUS
<1> USE DEF IInv, TypeOK, BotInv, rowVars, ghostVars, botVars, aclVars
<1>1. ASSUME NEW b \in Bots, StartDrain(b) PROVE BotInv'
  BY <1>1, MsgsAssumption
  DEF StartDrain, Settle, Expired, RecoveredStatus, AuditOutcome, TgStatus
<1>2. ASSUME NEW b \in Bots, ReadConfig(b) PROVE BotInv'
  BY <1>2, MsgsAssumption DEF ReadConfig, Stop
<1>3. ASSUME NEW b \in Bots, FindNothing(b) PROVE BotInv'
  BY <1>3, MsgsAssumption DEF FindNothing, Stop
<1>4. ASSUME NEW b \in Bots, ClaimNext(b) PROVE BotInv'
  BY <1>4, MsgsAssumption DEF ClaimNext
<1>5. ASSUME NEW b \in Bots, CheckRow(b) PROVE BotInv'
  BY <1>5, ItemIsRow, MsgsAssumption DEF CheckRow
<1>6. ASSUME NEW b \in Bots, NEW k \in {"acl_rejected", "permanent"}, RefuseRow(b, k) PROVE BotInv'
  BY <1>6, ItemIsRow, MsgsAssumption DEF RefuseRow
<1>7. ASSUME NEW b \in Bots, Renew(b) PROVE BotInv'
  BY <1>7, ItemIsRow, MsgsAssumption DEF Renew, Owns
<1>8. ASSUME NEW b \in Bots, LoseClaim(b) PROVE BotInv'
  BY <1>8, ItemIsRow, MsgsAssumption DEF LoseClaim, GoOn
<1>9. ASSUME NEW b \in Bots, Post(b) PROVE BotInv'
  BY <1>9, ItemIsRow, MsgsAssumption DEF Post
<1>10. ASSUME NEW b \in Bots, NEW k \in Kinds \ {"acl_rejected"}, Hear(b, k) PROVE BotInv'
  BY <1>10, ItemIsRow, MsgsAssumption DEF Hear, Refusals, Pausing
<1>11. ASSUME NEW b \in Bots, NEW d \in 1..MaxPause, SetCooldown(b, d) PROVE BotInv'
  BY <1>11, ItemIsRow, MsgsAssumption DEF SetCooldown, Pausing
<1>12. ASSUME NEW b \in Bots, Finalize(b) PROVE BotInv'
  BY <1>12, ItemIsRow, MsgsAssumption
  DEF Finalize, Owns, Settle, Result, Retryable, AuditOutcome, TgStatus, Stop,
      GoOn
<1>13. ASSUME NEW b \in Bots, Abandon(b) PROVE BotInv'
  BY <1>13, MsgsAssumption DEF Abandon, Stop
<1>14. ASSUME NEW m \in Msgs, Enqueue(m) PROVE BotInv'
  BY <1>14, MsgsAssumption DEF Enqueue, BecomeDue
<1>15. ASSUME NEW m \in Msgs, TimeUp(m) PROVE BotInv'
  BY <1>15, MsgsAssumption DEF TimeUp, BecomeDue
<1>16. ASSUME NEW m \in Msgs, LeaseEnds(m) PROVE BotInv'
  BY <1>16, MsgsAssumption DEF LeaseEnds
<1>17. ASSUME NEW m \in Msgs, OpenRetry(m) PROVE BotInv'
  BY <1>17, MsgsAssumption DEF OpenRetry, MayRetry
<1>18. ASSUME NEW m \in Msgs, CommitRetry(m) PROVE BotInv'
  BY <1>18, MsgsAssumption DEF CommitRetry, BecomeDue, AuditOutcome, TgStatus
<1>19. ASSUME NEW m \in Msgs, AbortRetry(m) PROVE BotInv'
  BY <1>19, MsgsAssumption DEF AbortRetry
<1>20. ASSUME NEW f \in Profiles, PauseShrinks(f) PROVE BotInv'
  BY <1>20, MsgsAssumption DEF PauseShrinks
<1>21. ASSUME NEW f \in Profiles, Switch(f) PROVE BotInv'
  BY <1>21, MsgsAssumption DEF Switch
<1>22. ASSUME NEW c \in Chats, Approve(c) PROVE BotInv'
  BY <1>22, MsgsAssumption DEF Approve, BecomeDue
<1>23. ASSUME NEW c \in Chats, StartReject(c) PROVE BotInv'
  BY <1>23, MsgsAssumption DEF StartReject, Cancelled
<1>24. ASSUME NEW c \in Chats, CommitReject(c) PROVE BotInv'
  BY <1>24, MsgsAssumption
  DEF CommitReject, HeldFor, HeldInv, Settle, AuditOutcome, TgStatus
<1>25. ASSUME NEW c \in Chats, AbortReject(c) PROVE BotInv'
  BY <1>25, MsgsAssumption DEF AbortReject
<1>26. CASE UNCHANGED vars BY <1>26 DEF vars
<1> QED BY <1>1, <1>2, <1>3, <1>4, <1>5, <1>6, <1>7, <1>8, <1>9, <1>10, <1>11,
         <1>12, <1>13, <1>14, <1>15, <1>16, <1>17, <1>18, <1>19, <1>20, <1>21,
         <1>22, <1>23, <1>24, <1>25, <1>26 DEF Next, BotStep, TakeLock, Pause

\* Nothing touches a failed row but its retry.
LEMMA DeskStep == IInv /\ [Next]_vars => DeskInv'
<1> SUFFICES ASSUME IInv, [Next]_vars PROVE DeskInv' OBVIOUS
<1> USE DEF IInv, TypeOK, RowInv, DeskInv, rowVars, ghostVars, botVars, aclVars, Profiles, Profile
<1>1. ASSUME NEW b \in Bots, StartDrain(b) PROVE DeskInv'
  BY <1>1 DEF StartDrain, Settle, Expired, RecoveredStatus, AuditOutcome, TgStatus
<1>2. ASSUME NEW b \in Bots, ReadConfig(b) PROVE DeskInv'
  BY <1>2 DEF ReadConfig, Stop
<1>3. ASSUME NEW b \in Bots, FindNothing(b) PROVE DeskInv'
  BY <1>3 DEF FindNothing, Stop
<1>4. ASSUME NEW b \in Bots, ClaimNext(b) PROVE DeskInv'
  BY <1>4 DEF ClaimNext
<1>5. ASSUME NEW b \in Bots, CheckRow(b) PROVE DeskInv'
  BY <1>5, ItemIsRow DEF CheckRow
<1>6. ASSUME NEW b \in Bots, NEW k \in {"acl_rejected", "permanent"}, RefuseRow(b, k) PROVE DeskInv'
  BY <1>6, ItemIsRow DEF RefuseRow
<1>7. ASSUME NEW b \in Bots, Renew(b) PROVE DeskInv'
  BY <1>7, ItemIsRow DEF Renew, Owns
<1>8. ASSUME NEW b \in Bots, LoseClaim(b) PROVE DeskInv'
  BY <1>8, ItemIsRow DEF LoseClaim, GoOn
<1>9. ASSUME NEW b \in Bots, Post(b) PROVE DeskInv'
  BY <1>9, ItemIsRow DEF Post
<1>10. ASSUME NEW b \in Bots, NEW k \in Kinds \ {"acl_rejected"}, Hear(b, k) PROVE DeskInv'
  BY <1>10, ItemIsRow DEF Hear, Refusals
<1>11. ASSUME NEW b \in Bots, NEW d \in 1..MaxPause, SetCooldown(b, d) PROVE DeskInv'
  BY <1>11, ItemIsRow DEF SetCooldown
<1>12. ASSUME NEW b \in Bots, Finalize(b) PROVE DeskInv'
  BY <1>12, ItemIsRow
  DEF Finalize, Owns, Settle, Result, Retryable, AuditOutcome, TgStatus, Stop,
      GoOn
<1>13. ASSUME NEW b \in Bots, Abandon(b) PROVE DeskInv'
  BY <1>13 DEF Abandon, Stop
<1>14. ASSUME NEW m \in Msgs, Enqueue(m) PROVE DeskInv'
  BY <1>14 DEF Enqueue, BecomeDue
<1>15. ASSUME NEW m \in Msgs, TimeUp(m) PROVE DeskInv'
  BY <1>15 DEF TimeUp, BecomeDue
<1>16. ASSUME NEW m \in Msgs, LeaseEnds(m) PROVE DeskInv'
  BY <1>16 DEF LeaseEnds
<1>17. ASSUME NEW m \in Msgs, OpenRetry(m) PROVE DeskInv'
  BY <1>17 DEF OpenRetry, MayRetry
<1>18. ASSUME NEW m \in Msgs, CommitRetry(m) PROVE DeskInv'
  BY <1>18 DEF CommitRetry, BecomeDue, AuditOutcome, TgStatus
<1>19. ASSUME NEW m \in Msgs, AbortRetry(m) PROVE DeskInv'
  BY <1>19 DEF AbortRetry
<1>20. ASSUME NEW f \in Profiles, PauseShrinks(f) PROVE DeskInv'
  BY <1>20 DEF PauseShrinks
<1>21. ASSUME NEW f \in Profiles, Switch(f) PROVE DeskInv'
  BY <1>21 DEF Switch
<1>22. ASSUME NEW c \in Chats, Approve(c) PROVE DeskInv'
  BY <1>22 DEF Approve, BecomeDue
<1>23. ASSUME NEW c \in Chats, StartReject(c) PROVE DeskInv'
  BY <1>23 DEF StartReject, Cancelled
<1>24. ASSUME NEW c \in Chats, CommitReject(c) PROVE DeskInv'
  BY <1>24
  DEF CommitReject, HeldFor, HeldInv, Settle, AuditOutcome, TgStatus
<1>25. ASSUME NEW c \in Chats, AbortReject(c) PROVE DeskInv'
  BY <1>25 DEF AbortReject
<1>26. CASE UNCHANGED vars BY <1>26 DEF vars
<1> QED BY <1>1, <1>2, <1>3, <1>4, <1>5, <1>6, <1>7, <1>8, <1>9, <1>10, <1>11,
         <1>12, <1>13, <1>14, <1>15, <1>16, <1>17, <1>18, <1>19, <1>20, <1>21,
         <1>22, <1>23, <1>24, <1>25, <1>26 DEF Next, BotStep, TakeLock, Pause

\* A request is only counted while the claim that sends it is in force.
LEMMA ExposureStep == IInv /\ [Next]_vars => ExposureInv'
<1> SUFFICES ASSUME IInv, [Next]_vars PROVE ExposureInv' OBVIOUS
<1> USE DEF IInv, TypeOK, RowInv, BotInv, DeskInv, ExposureInv, Innocent, Clear, rowVars, ghostVars, botVars, aclVars, Profiles, Profile
<1>1. ASSUME NEW b \in Bots, StartDrain(b) PROVE ExposureInv'
  BY <1>1, BotsAssumption, MsgsAssumption
  DEF StartDrain, Settle, Expired, RecoveredStatus, AuditOutcome, TgStatus
<1>2. ASSUME NEW b \in Bots, ReadConfig(b) PROVE ExposureInv'
  BY <1>2, BotsAssumption, MsgsAssumption DEF ReadConfig, Stop
<1>3. ASSUME NEW b \in Bots, FindNothing(b) PROVE ExposureInv'
  BY <1>3, BotsAssumption, MsgsAssumption DEF FindNothing, Stop
<1>4. ASSUME NEW b \in Bots, ClaimNext(b) PROVE ExposureInv'
  BY <1>4, BotsAssumption, MsgsAssumption DEF ClaimNext
<1>5. ASSUME NEW b \in Bots, CheckRow(b) PROVE ExposureInv'
  BY <1>5, ItemIsRow, BotsAssumption, MsgsAssumption DEF CheckRow
<1>6. ASSUME NEW b \in Bots, NEW k \in {"acl_rejected", "permanent"}, RefuseRow(b, k) PROVE ExposureInv'
  BY <1>6, ItemIsRow, BotsAssumption, MsgsAssumption DEF RefuseRow
<1>7. ASSUME NEW b \in Bots, Renew(b) PROVE ExposureInv'
  BY <1>7, ItemIsRow, BotsAssumption, MsgsAssumption DEF Renew, Owns
<1>8. ASSUME NEW b \in Bots, LoseClaim(b) PROVE ExposureInv'
  BY <1>8, ItemIsRow, BotsAssumption, MsgsAssumption DEF LoseClaim, GoOn
<1>9. ASSUME NEW b \in Bots, Post(b) PROVE ExposureInv'
  BY <1>9, ItemIsRow, BotsAssumption, MsgsAssumption DEF Post
<1>10. ASSUME NEW b \in Bots, NEW k \in Kinds \ {"acl_rejected"}, Hear(b, k) PROVE ExposureInv'
  BY <1>10, ItemIsRow, BotsAssumption, MsgsAssumption DEF Hear, Refusals, Pausing, Kinds
<1>11. ASSUME NEW b \in Bots, NEW d \in 1..MaxPause, SetCooldown(b, d) PROVE ExposureInv'
  BY <1>11, ItemIsRow, BotsAssumption, MsgsAssumption DEF SetCooldown, Pausing
<1>12. ASSUME NEW b \in Bots, Finalize(b) PROVE ExposureInv'
  BY <1>12, ItemIsRow, BotsAssumption, MsgsAssumption
  DEF Finalize, Owns, Settle, Result, Retryable, AuditOutcome, TgStatus, Stop,
      GoOn
<1>13. ASSUME NEW b \in Bots, Abandon(b) PROVE ExposureInv'
  BY <1>13, BotsAssumption, MsgsAssumption DEF Abandon, Stop
<1>14. ASSUME NEW m \in Msgs, Enqueue(m) PROVE ExposureInv'
  BY <1>14, BotsAssumption, MsgsAssumption DEF Enqueue, BecomeDue
<1>15. ASSUME NEW m \in Msgs, TimeUp(m) PROVE ExposureInv'
  BY <1>15, BotsAssumption, MsgsAssumption DEF TimeUp, BecomeDue
<1>16. ASSUME NEW m \in Msgs, LeaseEnds(m) PROVE ExposureInv'
  BY <1>16, BotsAssumption, MsgsAssumption DEF LeaseEnds
<1>17. ASSUME NEW m \in Msgs, OpenRetry(m) PROVE ExposureInv'
  BY <1>17, BotsAssumption, MsgsAssumption DEF OpenRetry, MayRetry
<1>18. ASSUME NEW m \in Msgs, CommitRetry(m) PROVE ExposureInv'
  BY <1>18, BotsAssumption, MsgsAssumption
  DEF CommitRetry, BecomeDue, AuditOutcome, TgStatus
<1>19. ASSUME NEW m \in Msgs, AbortRetry(m) PROVE ExposureInv'
  BY <1>19, BotsAssumption, MsgsAssumption DEF AbortRetry
<1>20. ASSUME NEW f \in Profiles, PauseShrinks(f) PROVE ExposureInv'
  BY <1>20, BotsAssumption, MsgsAssumption DEF PauseShrinks
<1>21. ASSUME NEW f \in Profiles, Switch(f) PROVE ExposureInv'
  BY <1>21, BotsAssumption, MsgsAssumption DEF Switch
<1>22. ASSUME NEW c \in Chats, Approve(c) PROVE ExposureInv'
  BY <1>22, BotsAssumption, MsgsAssumption DEF Approve, BecomeDue
<1>23. ASSUME NEW c \in Chats, StartReject(c) PROVE ExposureInv'
  BY <1>23, BotsAssumption, MsgsAssumption DEF StartReject, Cancelled
<1>24. ASSUME NEW c \in Chats, CommitReject(c) PROVE ExposureInv'
  BY <1>24, BotsAssumption, MsgsAssumption
  DEF CommitReject, HeldFor, HeldInv, Settle, AuditOutcome, TgStatus
<1>25. ASSUME NEW c \in Chats, AbortReject(c) PROVE ExposureInv'
  BY <1>25, BotsAssumption, MsgsAssumption DEF AbortReject
<1>26. CASE UNCHANGED vars BY <1>26 DEF vars
<1> QED BY <1>1, <1>2, <1>3, <1>4, <1>5, <1>6, <1>7, <1>8, <1>9, <1>10, <1>11,
         <1>12, <1>13, <1>14, <1>15, <1>16, <1>17, <1>18, <1>19, <1>20, <1>21,
         <1>22, <1>23, <1>24, <1>25, <1>26 DEF Next, BotStep, TakeLock, Pause

\* A revocation keeps its rows until it ends; a row that becomes pending meanwhile
\* has slipped.
LEMMA HeldStep == IInv /\ [Next]_vars => HeldInv'
<1> SUFFICES ASSUME IInv, [Next]_vars PROVE HeldInv' OBVIOUS
<1> USE DEF IInv, TypeOK, RowInv, BotInv, HeldInv, DeskInv, rowVars, ghostVars, botVars, aclVars, Profile
<1>1. ASSUME NEW b \in Bots, StartDrain(b) PROVE HeldInv'
  BY <1>1, BotsAssumption, MsgsAssumption
  DEF StartDrain, Settle, Expired, RecoveredStatus, AuditOutcome, TgStatus
<1>2. ASSUME NEW b \in Bots, ReadConfig(b) PROVE HeldInv'
  BY <1>2, BotsAssumption, MsgsAssumption DEF ReadConfig, Stop
<1>3. ASSUME NEW b \in Bots, FindNothing(b) PROVE HeldInv'
  BY <1>3, BotsAssumption, MsgsAssumption DEF FindNothing, Stop
<1>4. ASSUME NEW b \in Bots, ClaimNext(b) PROVE HeldInv'
  BY <1>4, BotsAssumption, MsgsAssumption DEF ClaimNext
<1>5. ASSUME NEW b \in Bots, CheckRow(b) PROVE HeldInv'
  BY <1>5, ItemIsRow, BotsAssumption, MsgsAssumption DEF CheckRow
<1>6. ASSUME NEW b \in Bots, NEW k \in {"acl_rejected", "permanent"}, RefuseRow(b, k) PROVE HeldInv'
  BY <1>6, ItemIsRow, BotsAssumption, MsgsAssumption DEF RefuseRow
<1>7. ASSUME NEW b \in Bots, Renew(b) PROVE HeldInv'
  BY <1>7, ItemIsRow, BotsAssumption, MsgsAssumption DEF Renew, Owns
<1>8. ASSUME NEW b \in Bots, LoseClaim(b) PROVE HeldInv'
  BY <1>8, ItemIsRow, BotsAssumption, MsgsAssumption DEF LoseClaim, GoOn
<1>9. ASSUME NEW b \in Bots, Post(b) PROVE HeldInv'
  BY <1>9, ItemIsRow, BotsAssumption, MsgsAssumption DEF Post
<1>10. ASSUME NEW b \in Bots, NEW k \in Kinds \ {"acl_rejected"}, Hear(b, k) PROVE HeldInv'
  BY <1>10, ItemIsRow, BotsAssumption, MsgsAssumption DEF Hear, Refusals
<1>11. ASSUME NEW b \in Bots, NEW d \in 1..MaxPause, SetCooldown(b, d) PROVE HeldInv'
  BY <1>11, ItemIsRow, BotsAssumption, MsgsAssumption DEF SetCooldown
<1>12. ASSUME NEW b \in Bots, Finalize(b) PROVE HeldInv'
  BY <1>12, ItemIsRow, BotsAssumption, MsgsAssumption
  DEF Finalize, Owns, Settle, Result, Retryable, AuditOutcome, TgStatus, Stop,
      GoOn
<1>13. ASSUME NEW b \in Bots, Abandon(b) PROVE HeldInv'
  BY <1>13, BotsAssumption, MsgsAssumption DEF Abandon, Stop
<1>14. ASSUME NEW m \in Msgs, Enqueue(m) PROVE HeldInv'
  BY <1>14, BotsAssumption, MsgsAssumption DEF Enqueue, BecomeDue, Slip
<1>15. ASSUME NEW m \in Msgs, TimeUp(m) PROVE HeldInv'
  BY <1>15, BotsAssumption, MsgsAssumption DEF TimeUp, BecomeDue, Slip
<1>16. ASSUME NEW m \in Msgs, LeaseEnds(m) PROVE HeldInv'
  BY <1>16, BotsAssumption, MsgsAssumption DEF LeaseEnds
<1>17. ASSUME NEW m \in Msgs, OpenRetry(m) PROVE HeldInv'
  BY <1>17, BotsAssumption, MsgsAssumption DEF OpenRetry, MayRetry
<1>18. ASSUME NEW m \in Msgs, CommitRetry(m) PROVE HeldInv'
  BY <1>18, BotsAssumption, MsgsAssumption
  DEF CommitRetry, BecomeDue, Slip, AuditOutcome, TgStatus
<1>19. ASSUME NEW m \in Msgs, AbortRetry(m) PROVE HeldInv'
  BY <1>19, BotsAssumption, MsgsAssumption DEF AbortRetry
<1>20. ASSUME NEW f \in Profiles, PauseShrinks(f) PROVE HeldInv'
  BY <1>20, BotsAssumption, MsgsAssumption DEF PauseShrinks
<1>21. ASSUME NEW f \in Profiles, Switch(f) PROVE HeldInv'
  BY <1>21, BotsAssumption, MsgsAssumption DEF Switch
<1>22. ASSUME NEW c \in Chats, Approve(c) PROVE HeldInv'
  BY <1>22, BotsAssumption, MsgsAssumption DEF Approve, BecomeDue, Slip
<1>23. ASSUME NEW c \in Chats, StartReject(c) PROVE HeldInv'
  BY <1>23, BotsAssumption, MsgsAssumption DEF StartReject, Cancelled
<1>24. ASSUME NEW c \in Chats, CommitReject(c) PROVE HeldInv'
  BY <1>24, BotsAssumption, MsgsAssumption
  DEF CommitReject, HeldFor, Settle, AuditOutcome, TgStatus
<1>25. ASSUME NEW c \in Chats, AbortReject(c) PROVE HeldInv'
  BY <1>25, BotsAssumption, MsgsAssumption DEF AbortReject, HeldFor
<1>26. CASE UNCHANGED vars BY <1>26 DEF vars
<1> QED BY <1>1, <1>2, <1>3, <1>4, <1>5, <1>6, <1>7, <1>8, <1>9, <1>10, <1>11,
         <1>12, <1>13, <1>14, <1>15, <1>16, <1>17, <1>18, <1>19, <1>20, <1>21,
         <1>22, <1>23, <1>24, <1>25, <1>26 DEF Next, BotStep, TakeLock, Pause

\* The check of the recipient stays good while the claim does.
LEMMA CheckedStep == IInv /\ [Next]_vars => CheckedInv'
<1> SUFFICES ASSUME IInv, [Next]_vars PROVE CheckedInv' OBVIOUS
<1> USE DEF IInv, TypeOK, RowInv, BotInv, HeldInv, CheckedInv, Approved, rowVars, ghostVars, botVars, aclVars, Profile
<1>1. ASSUME NEW b \in Bots, StartDrain(b) PROVE CheckedInv'
  BY <1>1, BotsAssumption, MsgsAssumption
  DEF StartDrain, Settle, Expired, RecoveredStatus, AuditOutcome, TgStatus
<1>2. ASSUME NEW b \in Bots, ReadConfig(b) PROVE CheckedInv'
  BY <1>2, BotsAssumption, MsgsAssumption DEF ReadConfig, Stop
<1>3. ASSUME NEW b \in Bots, FindNothing(b) PROVE CheckedInv'
  BY <1>3, BotsAssumption, MsgsAssumption DEF FindNothing, Stop
<1>4. ASSUME NEW b \in Bots, ClaimNext(b) PROVE CheckedInv'
  BY <1>4, BotsAssumption, MsgsAssumption DEF ClaimNext
<1>5. ASSUME NEW b \in Bots, CheckRow(b) PROVE CheckedInv'
  BY <1>5, ItemIsRow, BotsAssumption, MsgsAssumption DEF CheckRow
<1>6. ASSUME NEW b \in Bots, NEW k \in {"acl_rejected", "permanent"}, RefuseRow(b, k) PROVE CheckedInv'
  BY <1>6, ItemIsRow, BotsAssumption, MsgsAssumption DEF RefuseRow
<1>7. ASSUME NEW b \in Bots, Renew(b) PROVE CheckedInv'
  BY <1>7, ItemIsRow, BotsAssumption, MsgsAssumption DEF Renew, Owns
<1>8. ASSUME NEW b \in Bots, LoseClaim(b) PROVE CheckedInv'
  BY <1>8, ItemIsRow, BotsAssumption, MsgsAssumption DEF LoseClaim, GoOn
<1>9. ASSUME NEW b \in Bots, Post(b) PROVE CheckedInv'
  BY <1>9, ItemIsRow, BotsAssumption, MsgsAssumption DEF Post
<1>10. ASSUME NEW b \in Bots, NEW k \in Kinds \ {"acl_rejected"}, Hear(b, k) PROVE CheckedInv'
  BY <1>10, ItemIsRow, BotsAssumption, MsgsAssumption DEF Hear, Refusals
<1>11. ASSUME NEW b \in Bots, NEW d \in 1..MaxPause, SetCooldown(b, d) PROVE CheckedInv'
  BY <1>11, ItemIsRow, BotsAssumption, MsgsAssumption DEF SetCooldown
<1>12. ASSUME NEW b \in Bots, Finalize(b) PROVE CheckedInv'
  <2>1. \A x \in Bots : pc'[x] = "checked" => pc[x] = "checked" /\ item'[x] = item[x]
    BY <1>12 DEF Finalize, Stop, GoOn
  <2>2. \A m \in Msgs : owner'[m] = owner[m] \/ owner'[m] = NoBot
    BY <1>12 DEF Finalize, Settle
  <2>3. UNCHANGED <<approved, slipped>>
    BY <1>12 DEF Finalize
  <2>4. \A x \in Bots : pc[x] = "checked" => item[x] \in Msgs
    BY ItemIsRow
  <2> QED BY <2>1, <2>2, <2>3, <2>4, BotsAssumption
<1>13. ASSUME NEW b \in Bots, Abandon(b) PROVE CheckedInv'
  BY <1>13, BotsAssumption, MsgsAssumption DEF Abandon, Stop
<1>14. ASSUME NEW m \in Msgs, Enqueue(m) PROVE CheckedInv'
  BY <1>14, BotsAssumption, MsgsAssumption DEF Enqueue, BecomeDue, Slip
<1>15. ASSUME NEW m \in Msgs, TimeUp(m) PROVE CheckedInv'
  BY <1>15, BotsAssumption, MsgsAssumption DEF TimeUp, BecomeDue
<1>16. ASSUME NEW m \in Msgs, LeaseEnds(m) PROVE CheckedInv'
  BY <1>16, BotsAssumption, MsgsAssumption DEF LeaseEnds
<1>17. ASSUME NEW m \in Msgs, OpenRetry(m) PROVE CheckedInv'
  BY <1>17, BotsAssumption, MsgsAssumption DEF OpenRetry, MayRetry
<1>18. ASSUME NEW m \in Msgs, CommitRetry(m) PROVE CheckedInv'
  BY <1>18, BotsAssumption, MsgsAssumption
  DEF CommitRetry, BecomeDue, Slip, AuditOutcome, TgStatus
<1>19. ASSUME NEW m \in Msgs, AbortRetry(m) PROVE CheckedInv'
  BY <1>19, BotsAssumption, MsgsAssumption DEF AbortRetry
<1>20. ASSUME NEW f \in Profiles, PauseShrinks(f) PROVE CheckedInv'
  BY <1>20, BotsAssumption, MsgsAssumption DEF PauseShrinks
<1>21. ASSUME NEW f \in Profiles, Switch(f) PROVE CheckedInv'
  BY <1>21, BotsAssumption, MsgsAssumption DEF Switch
<1>22. ASSUME NEW c \in Chats, Approve(c) PROVE CheckedInv'
  BY <1>22, BotsAssumption, MsgsAssumption DEF Approve, BecomeDue
<1>23. ASSUME NEW c \in Chats, StartReject(c) PROVE CheckedInv'
  BY <1>23, BotsAssumption, MsgsAssumption DEF StartReject, Cancelled
<1>24. ASSUME NEW c \in Chats, CommitReject(c) PROVE CheckedInv'
  BY <1>24, BotsAssumption, MsgsAssumption
  DEF CommitReject, HeldFor, HeldInv, Settle, AuditOutcome, TgStatus
<1>25. ASSUME NEW c \in Chats, AbortReject(c) PROVE CheckedInv'
  BY <1>25, BotsAssumption, MsgsAssumption DEF AbortReject
<1>26. CASE UNCHANGED vars BY <1>26 DEF vars
<1> QED BY <1>1, <1>2, <1>3, <1>4, <1>5, <1>6, <1>7, <1>8, <1>9, <1>10, <1>11,
         <1>12, <1>13, <1>14, <1>15, <1>16, <1>17, <1>18, <1>19, <1>20, <1>21,
         <1>22, <1>23, <1>24, <1>25, <1>26 DEF Next, BotStep, TakeLock, Pause

\* tg_status and the rows change together.
LEMMA TgStep == IInv /\ [Next]_vars => TgTellsTruth'
<1> SUFFICES ASSUME IInv, [Next]_vars PROVE TgTellsTruth' OBVIOUS
<1> USE DEF IInv, TypeOK, RowInv, TgTellsTruth, Primary, rowVars, ghostVars, botVars, aclVars, Status
<1>1. ASSUME NEW b \in Bots, StartDrain(b) PROVE TgTellsTruth'
  BY <1>1 DEF StartDrain, Settle, Expired, RecoveredStatus, AuditOutcome, TgStatus
<1>2. ASSUME NEW b \in Bots, ReadConfig(b) PROVE TgTellsTruth'
  BY <1>2 DEF ReadConfig, Stop
<1>3. ASSUME NEW b \in Bots, FindNothing(b) PROVE TgTellsTruth'
  BY <1>3 DEF FindNothing, Stop
<1>4. ASSUME NEW b \in Bots, ClaimNext(b) PROVE TgTellsTruth'
  BY <1>4 DEF ClaimNext
<1>5. ASSUME NEW b \in Bots, CheckRow(b) PROVE TgTellsTruth'
  BY <1>5, ItemIsRow DEF CheckRow
<1>6. ASSUME NEW b \in Bots, NEW k \in {"acl_rejected", "permanent"}, RefuseRow(b, k) PROVE TgTellsTruth'
  BY <1>6, ItemIsRow DEF RefuseRow
<1>7. ASSUME NEW b \in Bots, Renew(b) PROVE TgTellsTruth'
  BY <1>7, ItemIsRow DEF Renew, Owns
<1>8. ASSUME NEW b \in Bots, LoseClaim(b) PROVE TgTellsTruth'
  BY <1>8, ItemIsRow DEF LoseClaim, GoOn
<1>9. ASSUME NEW b \in Bots, Post(b) PROVE TgTellsTruth'
  BY <1>9, ItemIsRow DEF Post
<1>10. ASSUME NEW b \in Bots, NEW k \in Kinds \ {"acl_rejected"}, Hear(b, k) PROVE TgTellsTruth'
  BY <1>10, ItemIsRow DEF Hear, Refusals
<1>11. ASSUME NEW b \in Bots, NEW d \in 1..MaxPause, SetCooldown(b, d) PROVE TgTellsTruth'
  BY <1>11, ItemIsRow DEF SetCooldown
<1>12. ASSUME NEW b \in Bots, Finalize(b) PROVE TgTellsTruth'
  BY <1>12, ItemIsRow
  DEF Finalize, Owns, Settle, Result, Retryable, AuditOutcome, TgStatus, Stop,
      GoOn
<1>13. ASSUME NEW b \in Bots, Abandon(b) PROVE TgTellsTruth'
  BY <1>13 DEF Abandon, Stop
<1>14. ASSUME NEW m \in Msgs, Enqueue(m) PROVE TgTellsTruth'
  BY <1>14 DEF Enqueue, BecomeDue
<1>15. ASSUME NEW m \in Msgs, TimeUp(m) PROVE TgTellsTruth'
  BY <1>15 DEF TimeUp, BecomeDue
<1>16. ASSUME NEW m \in Msgs, LeaseEnds(m) PROVE TgTellsTruth'
  BY <1>16 DEF LeaseEnds
<1>17. ASSUME NEW m \in Msgs, OpenRetry(m) PROVE TgTellsTruth'
  BY <1>17 DEF OpenRetry, MayRetry
<1>18. ASSUME NEW m \in Msgs, CommitRetry(m) PROVE TgTellsTruth'
  BY <1>18, MsgsAssumption
  DEF DeskInv, Profiles, Profile, CommitRetry, BecomeDue, AuditOutcome, TgStatus
<1>19. ASSUME NEW m \in Msgs, AbortRetry(m) PROVE TgTellsTruth'
  BY <1>19 DEF AbortRetry
<1>20. ASSUME NEW f \in Profiles, PauseShrinks(f) PROVE TgTellsTruth'
  BY <1>20 DEF PauseShrinks
<1>21. ASSUME NEW f \in Profiles, Switch(f) PROVE TgTellsTruth'
  BY <1>21 DEF Switch
<1>22. ASSUME NEW c \in Chats, Approve(c) PROVE TgTellsTruth'
  BY <1>22 DEF Approve, BecomeDue
<1>23. ASSUME NEW c \in Chats, StartReject(c) PROVE TgTellsTruth'
  BY <1>23 DEF StartReject, Cancelled
<1>24. ASSUME NEW c \in Chats, CommitReject(c) PROVE TgTellsTruth'
  BY <1>24
  DEF CommitReject, HeldFor, HeldInv, Settle, AuditOutcome, TgStatus
<1>25. ASSUME NEW c \in Chats, AbortReject(c) PROVE TgTellsTruth'
  BY <1>25 DEF AbortReject
<1>26. CASE UNCHANGED vars BY <1>26 DEF vars
<1> QED BY <1>1, <1>2, <1>3, <1>4, <1>5, <1>6, <1>7, <1>8, <1>9, <1>10, <1>11,
         <1>12, <1>13, <1>14, <1>15, <1>16, <1>17, <1>18, <1>19, <1>20, <1>21,
         <1>22, <1>23, <1>24, <1>25, <1>26 DEF Next, BotStep, TakeLock, Pause

\* The inductive invariant, for any rows, bots, chats and bounds
\* (telegram_outbox.py, telegram_access.py).
THEOREM OutboxInvariant == Spec => []IInv
<1>1. IInv /\ [Next]_vars => IInv'
  BY TypeStep, RowStep, BotStepInv, DeskStep, ExposureStep, HeldStep, CheckedStep, TgStep
  DEF IInv
<1> QED BY <1>1, InitInv, PTL DEF Spec

\* Every variable keeps its type.
THEOREM OutboxType == Spec => []TypeOK
<1>1. IInv => TypeOK BY DEF IInv
<1> QED BY <1>1, OutboxInvariant, PTL

\* At most one request beyond the acknowledged duplicates may have been
\* delivered, however many bots, freezes, crashes and retries there are: no
\* ambiguous delivery is repeated without a human (drain_outbox).
THEOREM NoDuplicateUnasked == Spec => []NoSilentDuplicate
<1>1. IInv => NoSilentDuplicate BY DEF IInv, ExposureInv, NoSilentDuplicate
<1> QED BY <1>1, OutboxInvariant, PTL

\* tg_status says "sent" exactly when a primary row of the pipeline was sent
\* (_audit_outcome).
THEOREM TgIsTruthful == Spec => []TgTellsTruth
<1>1. IInv => TgTellsTruth BY DEF IInv
<1> QED BY <1>1, OutboxInvariant, PTL

\* One step of each action property.
FencedStep ==
    \A m \in Msgs :
       status[m] = "sending" /\ status'[m] \notin {"sending", "cancelled"} =>
          IF m \in leased
          THEN /\ pc[owner[m]] = "deciding" /\ item[owner[m]] = m
               /\ status'[m] = Result(verdict[owner[m]])
          ELSE status'[m] = "unknown"

ApprovedStep ==
    \A b \in Bots :
       pc[b] = "checked" /\ pc'[b] = "renewed" =>
          Approved(item[b]) \/ item[b] \in slipped

FinalStep == \A m \in Msgs : status[m] \in {"sent", "cancelled"} => status'[m] = status[m]

\* No step ends a running claim but its owner's.
LEMMA EveryStepIsFenced == IInv /\ [Next]_vars => FencedStep
<1> SUFFICES ASSUME IInv, [Next]_vars PROVE FencedStep OBVIOUS
<1> USE DEF IInv, TypeOK, RowInv, DeskInv, FencedStep, rowVars, ghostVars, botVars, aclVars, Profiles, Profile
<1>1. ASSUME NEW b \in Bots, StartDrain(b) PROVE FencedStep
  BY <1>1, MsgsAssumption
  DEF StartDrain, Settle, Expired, RecoveredStatus, AuditOutcome, TgStatus
<1>2. ASSUME NEW b \in Bots, ReadConfig(b) PROVE FencedStep
  BY <1>2, MsgsAssumption DEF ReadConfig, Stop
<1>3. ASSUME NEW b \in Bots, FindNothing(b) PROVE FencedStep
  BY <1>3, MsgsAssumption DEF FindNothing, Stop
<1>4. ASSUME NEW b \in Bots, ClaimNext(b) PROVE FencedStep
  BY <1>4, MsgsAssumption DEF ClaimNext
<1>5. ASSUME NEW b \in Bots, CheckRow(b) PROVE FencedStep
  BY <1>5, ItemIsRow, MsgsAssumption DEF CheckRow
<1>6. ASSUME NEW b \in Bots, NEW k \in {"acl_rejected", "permanent"}, RefuseRow(b, k) PROVE FencedStep
  BY <1>6, ItemIsRow, MsgsAssumption DEF RefuseRow
<1>7. ASSUME NEW b \in Bots, Renew(b) PROVE FencedStep
  BY <1>7, ItemIsRow, MsgsAssumption DEF Renew, Owns
<1>8. ASSUME NEW b \in Bots, LoseClaim(b) PROVE FencedStep
  BY <1>8, ItemIsRow, MsgsAssumption DEF LoseClaim, GoOn
<1>9. ASSUME NEW b \in Bots, Post(b) PROVE FencedStep
  BY <1>9, ItemIsRow, MsgsAssumption DEF Post
<1>10. ASSUME NEW b \in Bots, NEW k \in Kinds \ {"acl_rejected"}, Hear(b, k) PROVE FencedStep
  BY <1>10, ItemIsRow, MsgsAssumption DEF Hear, Refusals
<1>11. ASSUME NEW b \in Bots, NEW d \in 1..MaxPause, SetCooldown(b, d) PROVE FencedStep
  BY <1>11, ItemIsRow, MsgsAssumption DEF SetCooldown
<1>12. ASSUME NEW b \in Bots, Finalize(b) PROVE FencedStep
  BY <1>12, ItemIsRow, MsgsAssumption
  DEF Finalize, Owns, Settle, Result, Retryable, AuditOutcome, TgStatus, Stop,
      GoOn
<1>13. ASSUME NEW b \in Bots, Abandon(b) PROVE FencedStep
  BY <1>13, MsgsAssumption DEF Abandon, Stop
<1>14. ASSUME NEW m \in Msgs, Enqueue(m) PROVE FencedStep
  BY <1>14, MsgsAssumption DEF Enqueue, BecomeDue
<1>15. ASSUME NEW m \in Msgs, TimeUp(m) PROVE FencedStep
  BY <1>15, MsgsAssumption DEF TimeUp, BecomeDue
<1>16. ASSUME NEW m \in Msgs, LeaseEnds(m) PROVE FencedStep
  BY <1>16, MsgsAssumption DEF LeaseEnds
<1>17. ASSUME NEW m \in Msgs, OpenRetry(m) PROVE FencedStep
  BY <1>17, MsgsAssumption DEF OpenRetry, MayRetry
<1>18. ASSUME NEW m \in Msgs, CommitRetry(m) PROVE FencedStep
  BY <1>18, MsgsAssumption DEF CommitRetry, BecomeDue, AuditOutcome, TgStatus
<1>19. ASSUME NEW m \in Msgs, AbortRetry(m) PROVE FencedStep
  BY <1>19, MsgsAssumption DEF AbortRetry
<1>20. ASSUME NEW f \in Profiles, PauseShrinks(f) PROVE FencedStep
  BY <1>20, MsgsAssumption DEF PauseShrinks
<1>21. ASSUME NEW f \in Profiles, Switch(f) PROVE FencedStep
  BY <1>21, MsgsAssumption DEF Switch
<1>22. ASSUME NEW c \in Chats, Approve(c) PROVE FencedStep
  BY <1>22, MsgsAssumption DEF Approve, BecomeDue
<1>23. ASSUME NEW c \in Chats, StartReject(c) PROVE FencedStep
  BY <1>23, MsgsAssumption DEF StartReject, Cancelled
<1>24. ASSUME NEW c \in Chats, CommitReject(c) PROVE FencedStep
  BY <1>24, MsgsAssumption
  DEF CommitReject, HeldFor, HeldInv, Settle, AuditOutcome, TgStatus
<1>25. ASSUME NEW c \in Chats, AbortReject(c) PROVE FencedStep
  BY <1>25, MsgsAssumption DEF AbortReject
<1>26. CASE UNCHANGED vars BY <1>26 DEF vars
<1> QED BY <1>1, <1>2, <1>3, <1>4, <1>5, <1>6, <1>7, <1>8, <1>9, <1>10, <1>11,
         <1>12, <1>13, <1>14, <1>15, <1>16, <1>17, <1>18, <1>19, <1>20, <1>21,
         <1>22, <1>23, <1>24, <1>25, <1>26 DEF Next, BotStep, TakeLock, Pause

\* Only Post makes a bot post, and CheckedInv says for whom.
LEMMA EveryPostIsApproved == IInv /\ [Next]_vars => ApprovedStep
<1> SUFFICES ASSUME IInv, [Next]_vars PROVE ApprovedStep OBVIOUS
<1> USE DEF IInv, TypeOK, RowInv, BotInv, HeldInv, CheckedInv, Approved, ApprovedStep, rowVars, ghostVars, botVars, aclVars
<1>1. ASSUME NEW b \in Bots, StartDrain(b) PROVE ApprovedStep
  BY <1>1 DEF StartDrain, Settle, Expired, RecoveredStatus, AuditOutcome, TgStatus
<1>2. ASSUME NEW b \in Bots, ReadConfig(b) PROVE ApprovedStep
  BY <1>2 DEF ReadConfig, Stop
<1>3. ASSUME NEW b \in Bots, FindNothing(b) PROVE ApprovedStep
  BY <1>3 DEF FindNothing, Stop
<1>4. ASSUME NEW b \in Bots, ClaimNext(b) PROVE ApprovedStep
  BY <1>4 DEF ClaimNext
<1>5. ASSUME NEW b \in Bots, CheckRow(b) PROVE ApprovedStep
  BY <1>5, ItemIsRow DEF CheckRow
<1>6. ASSUME NEW b \in Bots, NEW k \in {"acl_rejected", "permanent"}, RefuseRow(b, k) PROVE ApprovedStep
  BY <1>6, ItemIsRow DEF RefuseRow
<1>7. ASSUME NEW b \in Bots, Renew(b) PROVE ApprovedStep
  BY <1>7, ItemIsRow DEF Renew, Owns
<1>8. ASSUME NEW b \in Bots, LoseClaim(b) PROVE ApprovedStep
  BY <1>8, ItemIsRow DEF LoseClaim, GoOn
<1>9. ASSUME NEW b \in Bots, Post(b) PROVE ApprovedStep
  BY <1>9, ItemIsRow DEF Post
<1>10. ASSUME NEW b \in Bots, NEW k \in Kinds \ {"acl_rejected"}, Hear(b, k) PROVE ApprovedStep
  BY <1>10, ItemIsRow DEF Hear, Refusals
<1>11. ASSUME NEW b \in Bots, NEW d \in 1..MaxPause, SetCooldown(b, d) PROVE ApprovedStep
  BY <1>11, ItemIsRow DEF SetCooldown
<1>12. ASSUME NEW b \in Bots, Finalize(b) PROVE ApprovedStep
  BY <1>12, ItemIsRow
  DEF Finalize, Owns, Settle, Result, Retryable, AuditOutcome, TgStatus, Stop,
      GoOn
<1>13. ASSUME NEW b \in Bots, Abandon(b) PROVE ApprovedStep
  BY <1>13 DEF Abandon, Stop
<1>14. ASSUME NEW m \in Msgs, Enqueue(m) PROVE ApprovedStep
  BY <1>14 DEF Enqueue, BecomeDue
<1>15. ASSUME NEW m \in Msgs, TimeUp(m) PROVE ApprovedStep
  BY <1>15 DEF TimeUp, BecomeDue
<1>16. ASSUME NEW m \in Msgs, LeaseEnds(m) PROVE ApprovedStep
  BY <1>16 DEF LeaseEnds
<1>17. ASSUME NEW m \in Msgs, OpenRetry(m) PROVE ApprovedStep
  BY <1>17 DEF OpenRetry, MayRetry
<1>18. ASSUME NEW m \in Msgs, CommitRetry(m) PROVE ApprovedStep
  BY <1>18 DEF CommitRetry, BecomeDue, AuditOutcome, TgStatus
<1>19. ASSUME NEW m \in Msgs, AbortRetry(m) PROVE ApprovedStep
  BY <1>19 DEF AbortRetry
<1>20. ASSUME NEW f \in Profiles, PauseShrinks(f) PROVE ApprovedStep
  BY <1>20 DEF PauseShrinks
<1>21. ASSUME NEW f \in Profiles, Switch(f) PROVE ApprovedStep
  BY <1>21 DEF Switch
<1>22. ASSUME NEW c \in Chats, Approve(c) PROVE ApprovedStep
  BY <1>22 DEF Approve, BecomeDue
<1>23. ASSUME NEW c \in Chats, StartReject(c) PROVE ApprovedStep
  BY <1>23 DEF StartReject, Cancelled
<1>24. ASSUME NEW c \in Chats, CommitReject(c) PROVE ApprovedStep
  BY <1>24
  DEF CommitReject, HeldFor, HeldInv, Settle, AuditOutcome, TgStatus
<1>25. ASSUME NEW c \in Chats, AbortReject(c) PROVE ApprovedStep
  BY <1>25 DEF AbortReject
<1>26. CASE UNCHANGED vars BY <1>26 DEF vars
<1> QED BY <1>1, <1>2, <1>3, <1>4, <1>5, <1>6, <1>7, <1>8, <1>9, <1>10, <1>11,
         <1>12, <1>13, <1>14, <1>15, <1>16, <1>17, <1>18, <1>19, <1>20, <1>21,
         <1>22, <1>23, <1>24, <1>25, <1>26 DEF Next, BotStep, TakeLock, Pause

\* No step moves a sent or cancelled row.
LEMMA EveryStepKeepsFinal == IInv /\ [Next]_vars => FinalStep
<1> SUFFICES ASSUME IInv, [Next]_vars PROVE FinalStep OBVIOUS
<1> USE DEF IInv, TypeOK, RowInv, DeskInv, FinalStep, rowVars, ghostVars, botVars, aclVars, Profiles, Profile
<1>1. ASSUME NEW b \in Bots, StartDrain(b) PROVE FinalStep
  BY <1>1, MsgsAssumption
  DEF StartDrain, Settle, Expired, RecoveredStatus, AuditOutcome, TgStatus
<1>2. ASSUME NEW b \in Bots, ReadConfig(b) PROVE FinalStep
  BY <1>2, MsgsAssumption DEF ReadConfig, Stop
<1>3. ASSUME NEW b \in Bots, FindNothing(b) PROVE FinalStep
  BY <1>3, MsgsAssumption DEF FindNothing, Stop
<1>4. ASSUME NEW b \in Bots, ClaimNext(b) PROVE FinalStep
  BY <1>4, MsgsAssumption DEF ClaimNext
<1>5. ASSUME NEW b \in Bots, CheckRow(b) PROVE FinalStep
  BY <1>5, ItemIsRow, MsgsAssumption DEF CheckRow
<1>6. ASSUME NEW b \in Bots, NEW k \in {"acl_rejected", "permanent"}, RefuseRow(b, k) PROVE FinalStep
  BY <1>6, ItemIsRow, MsgsAssumption DEF RefuseRow
<1>7. ASSUME NEW b \in Bots, Renew(b) PROVE FinalStep
  BY <1>7, ItemIsRow, MsgsAssumption DEF Renew, Owns
<1>8. ASSUME NEW b \in Bots, LoseClaim(b) PROVE FinalStep
  BY <1>8, ItemIsRow, MsgsAssumption DEF LoseClaim, GoOn
<1>9. ASSUME NEW b \in Bots, Post(b) PROVE FinalStep
  BY <1>9, ItemIsRow, MsgsAssumption DEF Post
<1>10. ASSUME NEW b \in Bots, NEW k \in Kinds \ {"acl_rejected"}, Hear(b, k) PROVE FinalStep
  BY <1>10, ItemIsRow, MsgsAssumption DEF Hear, Refusals
<1>11. ASSUME NEW b \in Bots, NEW d \in 1..MaxPause, SetCooldown(b, d) PROVE FinalStep
  BY <1>11, ItemIsRow, MsgsAssumption DEF SetCooldown
<1>12. ASSUME NEW b \in Bots, Finalize(b) PROVE FinalStep
  BY <1>12, ItemIsRow, MsgsAssumption
  DEF Finalize, Owns, Settle, Result, Retryable, AuditOutcome, TgStatus, Stop,
      GoOn
<1>13. ASSUME NEW b \in Bots, Abandon(b) PROVE FinalStep
  BY <1>13, MsgsAssumption DEF Abandon, Stop
<1>14. ASSUME NEW m \in Msgs, Enqueue(m) PROVE FinalStep
  BY <1>14, MsgsAssumption DEF Enqueue, BecomeDue
<1>15. ASSUME NEW m \in Msgs, TimeUp(m) PROVE FinalStep
  BY <1>15, MsgsAssumption DEF TimeUp, BecomeDue
<1>16. ASSUME NEW m \in Msgs, LeaseEnds(m) PROVE FinalStep
  BY <1>16, MsgsAssumption DEF LeaseEnds
<1>17. ASSUME NEW m \in Msgs, OpenRetry(m) PROVE FinalStep
  BY <1>17, MsgsAssumption DEF OpenRetry, MayRetry
<1>18. ASSUME NEW m \in Msgs, CommitRetry(m) PROVE FinalStep
  BY <1>18, MsgsAssumption DEF CommitRetry, BecomeDue, AuditOutcome, TgStatus
<1>19. ASSUME NEW m \in Msgs, AbortRetry(m) PROVE FinalStep
  BY <1>19, MsgsAssumption DEF AbortRetry
<1>20. ASSUME NEW f \in Profiles, PauseShrinks(f) PROVE FinalStep
  BY <1>20, MsgsAssumption DEF PauseShrinks
<1>21. ASSUME NEW f \in Profiles, Switch(f) PROVE FinalStep
  BY <1>21, MsgsAssumption DEF Switch
<1>22. ASSUME NEW c \in Chats, Approve(c) PROVE FinalStep
  BY <1>22, MsgsAssumption DEF Approve, BecomeDue
<1>23. ASSUME NEW c \in Chats, StartReject(c) PROVE FinalStep
  BY <1>23, MsgsAssumption DEF StartReject, Cancelled
<1>24. ASSUME NEW c \in Chats, CommitReject(c) PROVE FinalStep
  BY <1>24, MsgsAssumption
  DEF CommitReject, HeldFor, HeldInv, Settle, AuditOutcome, TgStatus
<1>25. ASSUME NEW c \in Chats, AbortReject(c) PROVE FinalStep
  BY <1>25, MsgsAssumption DEF AbortReject
<1>26. CASE UNCHANGED vars BY <1>26 DEF vars
<1> QED BY <1>1, <1>2, <1>3, <1>4, <1>5, <1>6, <1>7, <1>8, <1>9, <1>10, <1>11,
         <1>12, <1>13, <1>14, <1>15, <1>16, <1>17, <1>18, <1>19, <1>20, <1>21,
         <1>22, <1>23, <1>24, <1>25, <1>26 DEF Next, BotStep, TakeLock, Pause

PauseStep ==
    \A f \in Profiles :
       /\ pause'[f] < pause[f] => pause'[f] = pause[f] - 1 /\ UNCHANGED pc
       /\ (\E b \in Bots : Profile(b) = f /\ pc[b] = "ready" /\ pc'[b] = "claimed") => pause[f] = 0

\* A cooldown only lengthens a pause, and ClaimNext looks at it under its lock.
LEMMA EveryStepKeepsPause == IInv /\ [Next]_vars => PauseStep
<1> SUFFICES ASSUME IInv, [Next]_vars PROVE PauseStep OBVIOUS
<1> USE DEF IInv, TypeOK, PauseStep, rowVars, ghostVars, botVars, aclVars, Profiles, Profile
<1>1. \A f \in Profiles : pause[f] \in Nat
  BY OutboxBounds
<1>2. ASSUME NEW b \in Bots, StartDrain(b) PROVE PauseStep
  BY <1>1, <1>2 DEF StartDrain
<1>3. ASSUME NEW b \in Bots, ReadConfig(b) PROVE PauseStep
  BY <1>1, <1>3 DEF ReadConfig, Stop
<1>4. ASSUME NEW b \in Bots, FindNothing(b) PROVE PauseStep
  BY <1>1, <1>4 DEF FindNothing, Stop
<1>5. ASSUME NEW b \in Bots, ClaimNext(b) PROVE PauseStep
  BY <1>1, <1>5 DEF ClaimNext, Paused
<1>6. ASSUME NEW b \in Bots, CheckRow(b) PROVE PauseStep
  BY <1>1, <1>6 DEF CheckRow
<1>7. ASSUME NEW b \in Bots, NEW k \in {"acl_rejected", "permanent"}, RefuseRow(b, k) PROVE PauseStep
  BY <1>1, <1>7 DEF RefuseRow
<1>8. ASSUME NEW b \in Bots, Renew(b) PROVE PauseStep
  BY <1>1, <1>8 DEF Renew
<1>9. ASSUME NEW b \in Bots, LoseClaim(b) PROVE PauseStep
  BY <1>1, <1>9 DEF LoseClaim, GoOn
<1>10. ASSUME NEW b \in Bots, Post(b) PROVE PauseStep
  BY <1>1, <1>10 DEF Post
<1>11. ASSUME NEW b \in Bots, NEW k \in Kinds \ {"acl_rejected"}, Hear(b, k) PROVE PauseStep
  BY <1>1, <1>11 DEF Hear
<1>12. ASSUME NEW b \in Bots, NEW d \in 1..MaxPause, SetCooldown(b, d) PROVE PauseStep
  BY <1>1, <1>12 DEF SetCooldown, Longer
<1>13. ASSUME NEW b \in Bots, Finalize(b) PROVE PauseStep
  BY <1>1, <1>13 DEF Finalize, Stop, GoOn
<1>14. ASSUME NEW b \in Bots, Abandon(b) PROVE PauseStep
  BY <1>1, <1>14 DEF Abandon, Stop
<1>15. ASSUME NEW m \in Msgs, Enqueue(m) PROVE PauseStep
  BY <1>1, <1>15 DEF Enqueue
<1>16. ASSUME NEW m \in Msgs, TimeUp(m) PROVE PauseStep
  BY <1>1, <1>16 DEF TimeUp
<1>17. ASSUME NEW m \in Msgs, LeaseEnds(m) PROVE PauseStep
  BY <1>1, <1>17 DEF LeaseEnds
<1>18. ASSUME NEW m \in Msgs, OpenRetry(m) PROVE PauseStep
  BY <1>1, <1>18 DEF OpenRetry
<1>19. ASSUME NEW m \in Msgs, CommitRetry(m) PROVE PauseStep
  BY <1>1, <1>19 DEF CommitRetry
<1>20. ASSUME NEW m \in Msgs, AbortRetry(m) PROVE PauseStep
  BY <1>1, <1>20 DEF AbortRetry
<1>21. ASSUME NEW f \in Profiles, PauseShrinks(f) PROVE PauseStep
  BY <1>1, <1>21 DEF PauseShrinks
<1>22. ASSUME NEW f \in Profiles, Switch(f) PROVE PauseStep
  BY <1>1, <1>22 DEF Switch
<1>23. ASSUME NEW c \in Chats, Approve(c) PROVE PauseStep
  BY <1>1, <1>23 DEF Approve
<1>24. ASSUME NEW c \in Chats, StartReject(c) PROVE PauseStep
  BY <1>1, <1>24 DEF StartReject, Cancelled
<1>25. ASSUME NEW c \in Chats, CommitReject(c) PROVE PauseStep
  BY <1>1, <1>25 DEF CommitReject
<1>26. ASSUME NEW c \in Chats, AbortReject(c) PROVE PauseStep
  BY <1>1, <1>26 DEF AbortReject
<1>27. CASE UNCHANGED vars BY <1>1, <1>27 DEF vars
<1> QED BY <1>2, <1>3, <1>4, <1>5, <1>6, <1>7, <1>8, <1>9, <1>10, <1>11, <1>12,
         <1>13, <1>14, <1>15, <1>16, <1>17, <1>18, <1>19, <1>20, <1>21, <1>22,
         <1>23, <1>24, <1>25, <1>26, <1>27 DEF Next, BotStep, TakeLock, Pause

\* Fencing: as long as a lease runs only its owner or a revocation ends the
\* claim, and one that ran out ends in doubt (finalize_outbox).
THEOREM ClaimsStayFenced == Spec => ClaimsAreFenced
<1>1. IInv /\ [Next]_vars => FencedStep BY EveryStepIsFenced
<1>2. Spec => [][FencedStep]_vars BY <1>1, OutboxInvariant, PTL DEF Spec
<1> QED BY <1>2 DEF ClaimsAreFenced, FencedStep

\* Once a revocation is committed nothing is let go to its chat any more, except
\* a row that slipped between its UPDATE and its commit (renew_claim against
\* set_access_status).
THEOREM RevokedGetNothing == Spec => RenewedOnlyForApproved
<1>1. IInv /\ [Next]_vars => ApprovedStep BY EveryPostIsApproved
<1>2. Spec => [][ApprovedStep]_vars BY <1>1, OutboxInvariant, PTL DEF Spec
<1> QED BY <1>2 DEF RenewedOnlyForApproved, ApprovedStep

\* Sent and cancelled rows are final (retry_failed_outbox, finalize_outbox).
THEOREM FinalRowsAreKept == Spec => FinalRowsStay
<1>1. IInv /\ [Next]_vars => FinalStep BY EveryStepKeepsFinal
<1>2. Spec => [][FinalStep]_vars BY <1>1, OutboxInvariant, PTL DEF Spec
<1> QED BY <1>2 DEF FinalRowsStay, FinalStep

\* A pause is never shortened and nothing is claimed before it has passed
\* (set_bot_cooldown, claim_next_outbox).
THEOREM PausesAreKept == Spec => PauseIsKept
<1>1. IInv /\ [Next]_vars => PauseStep BY EveryStepKeepsPause
<1>2. Spec => [][PauseStep]_vars BY <1>1, OutboxInvariant, PTL DEF Spec
<1> QED BY <1>2 DEF PauseIsKept, PauseStep

\* Every step of the outbox is a step of the promise or changes nothing it shows.
LEMMA DeliveryStep == IInv /\ [Next]_vars => [DeliveryNext]_deliveryVars
<1> SUFFICES ASSUME IInv, [Next]_vars PROVE [DeliveryNext]_deliveryVars OBVIOUS
<1> USE DEF IInv, TypeOK, RowInv, BotInv, deliveryVars, rowVars, ghostVars, botVars, aclVars
<1>1. ASSUME NEW b \in Bots, StartDrain(b) PROVE [DeliveryNext]_deliveryVars
  <2> DEFINE late == Expired(Profile(b))
  <2>1. Doubt(late) BY <1>1 DEF StartDrain, Settle, Expired, RecoveredStatus, Doubt, Move
  <2>2. late \in SUBSET Msgs BY DEF Expired
  <2> QED BY <2>1, <2>2 DEF DeliveryNext
<1>2. ASSUME NEW b \in Bots, ReadConfig(b) PROVE [DeliveryNext]_deliveryVars
  BY <1>2 DEF ReadConfig, Stop
<1>3. ASSUME NEW b \in Bots, FindNothing(b) PROVE [DeliveryNext]_deliveryVars
  BY <1>3 DEF FindNothing, Stop
<1>4. ASSUME NEW b \in Bots, ClaimNext(b) PROVE [DeliveryNext]_deliveryVars
  <2>1. PICK m \in Msgs : m \in due /\ status' = [status EXCEPT ![m] = "sending"]
    BY <1>4 DEF ClaimNext
  <2>2. UNCHANGED <<exposed, acks, confirmed>> BY <1>4 DEF ClaimNext
  <2>3. TakeUp(m) BY <2>1, <2>2 DEF TakeUp, Move
  <2> QED BY <2>3 DEF DeliveryNext
<1>5. ASSUME NEW b \in Bots, CheckRow(b) PROVE [DeliveryNext]_deliveryVars
  BY <1>5 DEF CheckRow
<1>6. ASSUME NEW b \in Bots, NEW k \in {"acl_rejected", "permanent"}, RefuseRow(b, k) PROVE [DeliveryNext]_deliveryVars
  BY <1>6 DEF RefuseRow
<1>7. ASSUME NEW b \in Bots, Renew(b) PROVE [DeliveryNext]_deliveryVars
  <2>1. Clear(item[b]) BY <1>7, ItemIsRow DEF Renew, Owns, ExposureInv, Innocent
  <2>2. Send(item[b]) BY <1>7, <2>1 DEF Renew, Owns, Send
  <2> QED BY <1>7, <2>2, ItemIsRow DEF Renew, DeliveryNext
<1>8. ASSUME NEW b \in Bots, LoseClaim(b) PROVE [DeliveryNext]_deliveryVars
  BY <1>8 DEF LoseClaim, GoOn
<1>9. ASSUME NEW b \in Bots, Post(b) PROVE [DeliveryNext]_deliveryVars
  BY <1>9 DEF Post
<1>10. ASSUME NEW b \in Bots, NEW k \in Kinds \ {"acl_rejected"}, Hear(b, k) PROVE [DeliveryNext]_deliveryVars
  <2>0. item[b] \in Msgs BY <1>10, ItemIsRow DEF Hear
  <2>1. CASE k \in Refusals
    <3>1. TurnDown(item[b]) BY <1>10, <2>1 DEF Hear, TurnDown, Refusals
    <3> QED BY <2>0, <3>1 DEF DeliveryNext
  <2>2. CASE k = "accepted"
    <3>1. Confirm(item[b]) BY <1>10, <2>0, <2>2 DEF Hear, Confirm, Refusals
    <3> QED BY <2>0, <3>1 DEF DeliveryNext
  <2>3. CASE k = "delivery_unknown"
    BY <1>10, <2>0, <2>3 DEF Hear, Refusals
  <2> QED BY <2>1, <2>2, <2>3 DEF Kinds, Refusals
<1>11. ASSUME NEW b \in Bots, NEW d \in 1..MaxPause, SetCooldown(b, d) PROVE [DeliveryNext]_deliveryVars
  BY <1>11 DEF SetCooldown
<1>12. ASSUME NEW b \in Bots, Finalize(b) PROVE [DeliveryNext]_deliveryVars
  <2>0. item[b] \in Msgs BY <1>12, ItemIsRow DEF Finalize
  <2>1. CASE ~Owns(b) BY <1>12, <2>1 DEF Finalize
  <2>2. CASE Owns(b)
    <3> DEFINE m == item[b]
    <3>1. status[m] = "sending" /\ status' = [n \in Msgs |-> IF n \in {m} THEN Result(verdict[b]) ELSE status[n]]
      BY <1>12, <2>2 DEF Finalize, Owns, Settle
    <3>2. UNCHANGED <<exposed, acks, confirmed>> BY <1>12 DEF Finalize
    <3>3. CASE verdict[b] = "accepted"
      <4>1. m \in confirmed BY <1>12, <3>3 DEF Finalize
      <4>2. Succeed(m) BY <3>1, <3>2, <3>3, <4>1 DEF Result, Retryable, Succeed, Move
      <4> QED BY <2>0, <4>2 DEF DeliveryNext
    <3>4. CASE verdict[b] = "delivery_unknown"
      <4>1. Doubt({m}) BY <3>1, <3>2, <3>4 DEF Result, Retryable, Doubt, Move
      <4> QED BY <2>0, <4>1 DEF DeliveryNext
    <3>5. CASE verdict[b] = "acl_rejected"
      <4>1. Cancel({m}) BY <3>1, <3>2, <3>5 DEF Result, Retryable, Cancel, Move
      <4> QED BY <2>0, <4>1 DEF DeliveryNext
    <3>6. CASE verdict[b] \in Refusals
      <4>1. Clear(m)
        BY <1>12, <2>0, <2>2, <3>6 DEF Finalize, Owns, ExposureInv, Innocent, Refusals
      <4>2. PutBack(m)
        BY <3>1, <3>2, <3>6, <4>1 DEF Result, Retryable, Refusals, PutBack, Move
      <4> QED BY <2>0, <4>2 DEF DeliveryNext
    <3> QED BY <3>3, <3>4, <3>5, <3>6 DEF TypeOK, Kinds, Refusals
  <2> QED BY <2>1, <2>2
<1>13. ASSUME NEW b \in Bots, Abandon(b) PROVE [DeliveryNext]_deliveryVars
  BY <1>13 DEF Abandon, Stop
<1>14. ASSUME NEW m \in Msgs, Enqueue(m) PROVE [DeliveryNext]_deliveryVars
  <2>1. Create({m}) BY <1>14 DEF Enqueue, Create, Move
  <2> QED BY <2>1 DEF DeliveryNext
<1>15. ASSUME NEW m \in Msgs, TimeUp(m) PROVE [DeliveryNext]_deliveryVars
  BY <1>15 DEF TimeUp
<1>16. ASSUME NEW m \in Msgs, LeaseEnds(m) PROVE [DeliveryNext]_deliveryVars
  BY <1>16 DEF LeaseEnds
<1>17. ASSUME NEW m \in Msgs, OpenRetry(m) PROVE [DeliveryNext]_deliveryVars
  BY <1>17 DEF OpenRetry
<1>18. ASSUME NEW m \in Msgs, CommitRetry(m) PROVE [DeliveryNext]_deliveryVars
  <2>1. status[m] \in {"failed", "unknown"}
    BY <1>18, MsgsAssumption DEF CommitRetry, DeskInv, Profiles, Profile
  <2>2. CASE status[m] = "failed"
    <3>1. AskAgain(m) BY <1>18, <2>2 DEF CommitRetry, AskAgain, Move
    <3> QED BY <3>1 DEF DeliveryNext
  <2>3. CASE status[m] = "unknown"
    <3>1. AcceptDuplicate(m) BY <1>18, <2>3 DEF CommitRetry, AcceptDuplicate, Move
    <3> QED BY <3>1 DEF DeliveryNext
  <2> QED BY <2>1, <2>2, <2>3
<1>19. ASSUME NEW m \in Msgs, AbortRetry(m) PROVE [DeliveryNext]_deliveryVars
  BY <1>19 DEF AbortRetry
<1>20. ASSUME NEW f \in Profiles, PauseShrinks(f) PROVE [DeliveryNext]_deliveryVars
  BY <1>20 DEF PauseShrinks
<1>21. ASSUME NEW f \in Profiles, Switch(f) PROVE [DeliveryNext]_deliveryVars
  BY <1>21 DEF Switch
<1>22. ASSUME NEW c \in Chats, Approve(c) PROVE [DeliveryNext]_deliveryVars
  <2> DEFINE greeting == {m \in Welcomes : ChatOf[m] = c /\ status[m] = "none"}
  <2>1. Create(greeting) BY <1>22, LegacyAssumption DEF Approve, Create, Move
  <2>2. greeting \in SUBSET Msgs BY LegacyAssumption
  <2> QED BY <2>1, <2>2 DEF DeliveryNext
<1>23. ASSUME NEW c \in Chats, StartReject(c) PROVE [DeliveryNext]_deliveryVars
  BY <1>23 DEF StartReject, Cancelled
<1>24. ASSUME NEW c \in Chats, CommitReject(c) PROVE [DeliveryNext]_deliveryVars
  <2>1. Cancel(HeldFor(c)) BY <1>24 DEF CommitReject, HeldFor, HeldInv, Settle, Cancel, Move
  <2>2. HeldFor(c) \in SUBSET Msgs BY DEF HeldFor
  <2> QED BY <2>1, <2>2 DEF DeliveryNext
<1>25. ASSUME NEW c \in Chats, AbortReject(c) PROVE [DeliveryNext]_deliveryVars
  BY <1>25 DEF AbortReject
<1>26. CASE UNCHANGED vars BY <1>26 DEF vars
<1> QED BY <1>1, <1>2, <1>3, <1>4, <1>5, <1>6, <1>7, <1>8, <1>9, <1>10, <1>11,
         <1>12, <1>13, <1>14, <1>15, <1>16, <1>17, <1>18, <1>19, <1>20, <1>21,
         <1>22, <1>23, <1>24, <1>25, <1>26 DEF Next, BotStep, TakeLock, Pause

\* The outbox implements the promise about one message.
THEOREM ImplementsDelivery == Spec => Promise
<1>1. Init => DeliveryInit BY DEF Init, DeliveryInit
<1>2. IInv /\ [Next]_vars => [DeliveryNext]_deliveryVars BY DeliveryStep
<1> QED BY <1>1, <1>2, OutboxInvariant, PTL DEF Spec, Promise, DeliverySpec
=============================================================================
