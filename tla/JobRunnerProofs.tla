-------------------------- MODULE JobRunnerProofs --------------------------
(***************************************************************************)
(* Proofs that JobRunner keeps its type invariant and its inductive         *)
(* invariant for any set of jobs, processes, types and keys, any pool and   *)
(* any number of stops and lost locks.                                      *)
(***************************************************************************)
EXTENDS JobRunner, TLAPS

LEMMA InitType == Init => TypeOK
BY DEF Init, TypeOK, TableInit, IdleCreator, IdleReclaimer, NoReq, NoOne,
       Status, ActiveStatus, TerminalStatus, Alive, Holding, CreatorState,
       ReclaimerState

\* The records creator and reclaimer, field by field.
LEMMA TypeFields ==
    ASSUME TypeOK, NEW p \in Procs
    PROVE  /\ creator[p].pc \in {"idle", "checked", "created"}
           /\ creator[p].req \in Requests \cup {NoReq}
           /\ creator[p].job \in Jobs \cup {NoOne}
           /\ reclaimer[p].todo \subseteq Jobs
           /\ reclaimer[p].job \in Jobs \cup {NoOne}
BY DEF TypeOK, CreatorState, ReclaimerState

\* A pass that moves on stays well typed.
LEMMA ReclaimerMoves ==
    ASSUME NEW s \in ReclaimerState, NEW where \in {"scan", "locked"},
           NEW left \in SUBSET Jobs, NEW j \in Jobs \cup {NoOne}
    PROVE  /\ [s EXCEPT !.pc = where, !.todo = left, !.job = j] \in ReclaimerState
           /\ [s EXCEPT !.todo = left] \in ReclaimerState
           /\ [s EXCEPT !.pc = where, !.job = j] \in ReclaimerState
BY DEF ReclaimerState

LEMMA ScanType ==
    ASSUME NEW pass \in {"orphan", "stale"}
    PROVE  Scan(pass) \in ReclaimerState /\ IdleReclaimer \in ReclaimerState
BY DEF Scan, Candidates, IdleReclaimer, ReclaimerState

LEMMA TypeStep == TypeOK /\ [Next]_vars => TypeOK'
<1> SUFFICES ASSUME TypeOK, [Next]_vars PROVE TypeOK' OBVIOUS
<1> USE DEF TypeOK, rowVars, tableVars, creationVars, threadVars, processVars, others, Goto,
            Status, ActiveStatus, TerminalStatus, Alive, Holding, NoOne
<1>1. ASSUME NEW p \in Procs, NEW r \in Requests, BeginCreate(p, r) PROVE TypeOK'
  BY <1>1 DEF BeginCreate, TypeLockFree, Requests, CreatorState
<1>2. ASSUME NEW p \in Procs, NEW i \in Jobs, CommitCreate(p, i) PROVE TypeOK'
  BY <1>2 DEF CommitCreate, CreatorState
<1>3. ASSUME NEW p \in Procs, AbortCreate(p) PROVE TypeOK'
  BY <1>3 DEF AbortCreate, IdleCreator, CreatorState
<1>4. ASSUME NEW p \in Procs, Schedule(p) PROVE TypeOK'
  BY <1>4 DEF Schedule, IdleCreator, CreatorState
<1>5. ASSUME NEW p \in Procs, ScheduleFails(p) PROVE TypeOK'
  BY <1>5 DEF ScheduleFails, IdleCreator, CreatorState
<1>6. ASSUME NEW i \in Jobs, Thread(i) PROVE TypeOK'
  <2>1. CASE TakeRunLock(i) BY <2>1 DEF TakeRunLock, RunLockFree
  <2>2. CASE RunLockRefused(i) BY <2>2 DEF RunLockRefused
  <2>3. CASE Claim(i) BY <2>3 DEF Claim, Claimable, Register
  <2>4. CASE ClaimFails(i) BY <2>4 DEF ClaimFails
  <2>5. CASE CommitClaim(i) BY <2>5 DEF CommitClaim
  <2>7. CASE StartHandler(i) BY <2>7 DEF StartHandler
  <2>8. CASE HandlerStops(i) BY <2>8 DEF HandlerStops
  <2>9. CASE HandlerEnds(i) BY <2>9 DEF HandlerEnds, Outcomes
  <2>10. CASE Finalize(i) BY <2>10 DEF Finalize, FinalStatus
  <2>12. CASE Leave(i) BY <2>12 DEF Leave, Unregister, GiveUpRunLock
  <2> QED BY <1>6, <2>1, <2>2, <2>3, <2>4, <2>5, <2>7, <2>8, <2>9, <2>10, <2>12
          DEF Thread
<1>7. ASSUME NEW i \in Jobs, LoseRunLock(i) \/ RequestStop(i) \/ Age(i) PROVE TypeOK'
  <2>1. CASE LoseRunLock(i) BY <2>1 DEF LoseRunLock
  <2>2. CASE RequestStop(i) BY <2>2 DEF RequestStop
  <2>3. CASE Age(i) BY <2>3 DEF Age
  <2> QED BY <1>7, <2>1, <2>2, <2>3
<1>8. ASSUME NEW p \in Procs, Reclaim(p) PROVE TypeOK'
  <2>1. CASE StartReclaim(p) BY <2>1, ScanType DEF StartReclaim
  <2>2. ASSUME NEW i \in Jobs, ReclaimNext(p, i) PROVE TypeOK'
    <3> DEFINE left == reclaimer[p].todo \ {i}
    <3>1. reclaimer[p] \in ReclaimerState /\ left \in SUBSET Jobs BY TypeFields
    <3>2. /\ [reclaimer[p] EXCEPT !.pc = "locked", !.todo = left, !.job = i]
                \in ReclaimerState
          /\ [reclaimer[p] EXCEPT !.todo = left] \in ReclaimerState
      BY <3>1, ReclaimerMoves
    <3>3. reclaimer' \in [Procs -> ReclaimerState]
      BY <2>2, <3>2 DEF ReclaimNext, RunLockFree
    <3> QED BY <2>2, <3>3 DEF ReclaimNext, RunLockFree
  <2>3. CASE ReclaimCancel(p) \/ ReclaimSpare(p)
    <3>1. [reclaimer[p] EXCEPT !.pc = "scan", !.job = NoOne] \in ReclaimerState
      BY ReclaimerMoves
    <3>2. ReclaimUnlock(p) BY <2>3 DEF ReclaimCancel, ReclaimSpare
    <3>3. reclaimer' \in [Procs -> ReclaimerState] BY <3>1, <3>2 DEF ReclaimUnlock
    <3> QED BY <2>3, <3>2, <3>3 DEF ReclaimCancel, ReclaimSpare, ReclaimUnlock
  <2>5. CASE EndPass(p) BY <2>5, ScanType DEF EndPass
  <2> QED BY <1>8, <2>1, <2>2, <2>3, <2>5 DEF Reclaim
<1>9. ASSUME NEW p \in Procs, Process(p) PROVE TypeOK'
  <2>1. CASE ShutdownRead(p) BY <2>1, BoundsAssumption DEF ShutdownRead
  <2>2. CASE ShutdownCancel(p) BY <2>2 DEF ShutdownCancel, RowLocksFree
  <2>3. CASE Exit(p) BY <2>3 DEF Exit
  <2>4. CASE Crash(p) BY <2>4, BoundsAssumption, ScanType DEF Crash, IdleCreator, CreatorState
  <2>5. CASE Restart(p) BY <2>5, ScanType DEF Restart
  <2> QED BY <1>9, <2>1, <2>2, <2>3, <2>4, <2>5 DEF Process
<1>10. CASE UNCHANGED vars BY <1>10 DEF vars
<1> QED BY <1>1, <1>2, <1>3, <1>4, <1>5, <1>6, <1>7, <1>8, <1>9, <1>10
        DEF Next, Creation, EndCreate

\* Every variable keeps the type its declaration states.
THEOREM TypeCorrect == Spec => []TypeOK
BY InitType, TypeStep, PTL DEF Spec

\* Only the commit of create_job makes a row active.
LEMMA OnlyCreateActivates ==
    ASSUME TypeOK, ThreadInv, [Next]_vars,
           \A p \in Procs, i \in Jobs : ~CommitCreate(p, i)
    PROVE  (\A k \in Jobs : Active(k)' => Active(k)) /\ req' = req
<1> DEFINE Goal == (\A k \in Jobs : Active(k)' => Active(k)) /\ req' = req
<1> USE DEF TypeOK, Active, ActiveStatus, TerminalStatus, rowVars, tableVars, others, Goto
<1>1. ASSUME NEW p \in Procs, NEW r \in Requests, BeginCreate(p, r) PROVE Goal
  BY <1>1 DEF BeginCreate, TypeLockFree
<1>2. ASSUME NEW p \in Procs, NEW i \in Jobs, CommitCreate(p, i) PROVE Goal
  BY <1>2
<1>3. ASSUME NEW p \in Procs, AbortCreate(p) PROVE Goal
  BY <1>3 DEF AbortCreate
<1>4. ASSUME NEW p \in Procs, Schedule(p) PROVE Goal
  BY <1>4 DEF Schedule
<1>5. ASSUME NEW p \in Procs, ScheduleFails(p) PROVE Goal
  BY <1>5 DEF ScheduleFails
<1>6. ASSUME NEW i \in Jobs, TakeRunLock(i) PROVE Goal
  BY <1>6 DEF TakeRunLock, RunLockFree
<1>7. ASSUME NEW i \in Jobs, RunLockRefused(i) PROVE Goal
  BY <1>7 DEF RunLockRefused
<1>8. ASSUME NEW i \in Jobs, Claim(i) PROVE Goal
  BY <1>8 DEF Claim, Claimable, Register
<1>9. ASSUME NEW i \in Jobs, ClaimFails(i) PROVE Goal
  BY <1>9 DEF ClaimFails
<1>10. ASSUME NEW i \in Jobs, CommitClaim(i) PROVE Goal
  BY <1>10 DEF CommitClaim, ThreadInv
<1>11. ASSUME NEW i \in Jobs, StartHandler(i) PROVE Goal
  BY <1>11 DEF StartHandler
<1>12. ASSUME NEW i \in Jobs, HandlerStops(i) PROVE Goal
  BY <1>12 DEF HandlerStops
<1>13. ASSUME NEW i \in Jobs, HandlerEnds(i) PROVE Goal
  BY <1>13 DEF HandlerEnds, Outcomes
<1>14. ASSUME NEW i \in Jobs, Finalize(i) PROVE Goal
  BY <1>14 DEF Finalize, ThreadInv, FinalStatus, Owning
<1>15. ASSUME NEW i \in Jobs, Leave(i) PROVE Goal
  BY <1>15 DEF Leave, Unregister, GiveUpRunLock
<1>16. ASSUME NEW i \in Jobs, LoseRunLock(i) PROVE Goal
  BY <1>16 DEF LoseRunLock
<1>17. ASSUME NEW i \in Jobs, RequestStop(i) PROVE Goal
  BY <1>17 DEF RequestStop
<1>18. ASSUME NEW i \in Jobs, Age(i) PROVE Goal
  BY <1>18 DEF Age
<1>19. ASSUME NEW p \in Procs, StartReclaim(p) PROVE Goal
  BY <1>19 DEF StartReclaim
<1>20. ASSUME NEW p \in Procs, NEW i \in Jobs, ReclaimNext(p, i) PROVE Goal
  BY <1>20 DEF ReclaimNext, RunLockFree
<1>21. ASSUME NEW p \in Procs, ReclaimCancel(p) PROVE Goal
  BY <1>21 DEF ReclaimCancel
<1>22. ASSUME NEW p \in Procs, ReclaimSpare(p) PROVE Goal
  BY <1>22 DEF ReclaimSpare
<1>23. ASSUME NEW p \in Procs, EndPass(p) PROVE Goal
  BY <1>23 DEF EndPass
<1>24. ASSUME NEW p \in Procs, ShutdownRead(p) PROVE Goal
  BY <1>24 DEF ShutdownRead
<1>25. ASSUME NEW p \in Procs, ShutdownCancel(p) PROVE Goal
  BY <1>25 DEF ShutdownCancel, RowLocksFree
<1>26. ASSUME NEW p \in Procs, Exit(p) PROVE Goal
  BY <1>26 DEF Exit
<1>27. ASSUME NEW p \in Procs, Crash(p) PROVE Goal
  BY <1>27 DEF Crash
<1>28. ASSUME NEW p \in Procs, Restart(p) PROVE Goal
  BY <1>28 DEF Restart
<1>29. CASE UNCHANGED vars
  BY <1>29 DEF vars
<1> QED
  BY <1>1, <1>2, <1>3, <1>4, <1>5, <1>6, <1>7, <1>8, <1>9, <1>10,
     <1>11, <1>12, <1>13, <1>14, <1>15, <1>16, <1>17, <1>18, <1>19,
     <1>20, <1>21, <1>22, <1>23, <1>24, <1>25, <1>26, <1>27, <1>28,
     <1>29
     DEF Next, Creation, EndCreate, Thread, Reclaim, Process

\* The slot a creation under way found free is still free.
LEMMA SlotStep ==
    ASSUME TypeOK, OneActivePerSlot, CheckedInv, ThreadInv, [Next]_vars
    PROVE  OneActivePerSlot'
<1>1. CASE \A p \in Procs, i \in Jobs : ~CommitCreate(p, i)
  BY <1>1, OnlyCreateActivates DEF OneActivePerSlot
<1>2. ASSUME NEW p \in Procs, NEW i \in Jobs, CommitCreate(p, i)
      PROVE  OneActivePerSlot'
  <2>1. /\ \A k \in Jobs \ {i} : Active(k)' = Active(k) /\ req'[k] = req[k]
        /\ req'[i] = creator[p].req
    BY <1>2 DEF CommitCreate, TypeOK, Active
  <2>2. \A k \in Jobs \ {i} : Active(k)' => ~Conflict(req[k], creator[p].req)
    BY <1>2, <2>1 DEF CommitCreate, CheckedInv, SlotFree
  <2> QED BY <2>1, <2>2 DEF OneActivePerSlot, Conflict
<1> QED BY <1>1, <1>2

\* Only creation steps and a crash touch the creators and the type locks.
LEMMA CreationFrame ==
    ASSUME [Next]_vars
    PROVE  \/ UNCHANGED creationVars
           \/ \E p \in Procs :
                 Crash(p) \/ EndCreate(p) \/ \E r \in Requests : BeginCreate(p, r)
<1> DEFINE Goal == \/ UNCHANGED creationVars
                   \/ \E p \in Procs :
                         Crash(p) \/ EndCreate(p) \/ \E r \in Requests : BeginCreate(p, r)
<1> USE DEF creationVars, EndCreate, others, Goto
<1>1. ASSUME NEW p \in Procs, NEW r \in Requests, BeginCreate(p, r) PROVE Goal
  BY <1>1
<1>2. ASSUME NEW p \in Procs, NEW i \in Jobs, CommitCreate(p, i) PROVE Goal
  BY <1>2
<1>3. ASSUME NEW p \in Procs, AbortCreate(p) PROVE Goal
  BY <1>3
<1>4. ASSUME NEW p \in Procs, Schedule(p) PROVE Goal
  BY <1>4
<1>5. ASSUME NEW p \in Procs, ScheduleFails(p) PROVE Goal
  BY <1>5
<1>6. ASSUME NEW i \in Jobs, TakeRunLock(i) PROVE Goal
  BY <1>6 DEF TakeRunLock, RunLockFree
<1>7. ASSUME NEW i \in Jobs, RunLockRefused(i) PROVE Goal
  BY <1>7 DEF RunLockRefused
<1>8. ASSUME NEW i \in Jobs, Claim(i) PROVE Goal
  BY <1>8 DEF Claim, Claimable, Register
<1>9. ASSUME NEW i \in Jobs, ClaimFails(i) PROVE Goal
  BY <1>9 DEF ClaimFails
<1>10. ASSUME NEW i \in Jobs, CommitClaim(i) PROVE Goal
  BY <1>10 DEF CommitClaim
<1>11. ASSUME NEW i \in Jobs, StartHandler(i) PROVE Goal
  BY <1>11 DEF StartHandler
<1>12. ASSUME NEW i \in Jobs, HandlerStops(i) PROVE Goal
  BY <1>12 DEF HandlerStops
<1>13. ASSUME NEW i \in Jobs, HandlerEnds(i) PROVE Goal
  BY <1>13 DEF HandlerEnds, Outcomes
<1>14. ASSUME NEW i \in Jobs, Finalize(i) PROVE Goal
  BY <1>14 DEF Finalize
<1>15. ASSUME NEW i \in Jobs, Leave(i) PROVE Goal
  BY <1>15 DEF Leave, Unregister, GiveUpRunLock
<1>16. ASSUME NEW i \in Jobs, LoseRunLock(i) PROVE Goal
  BY <1>16 DEF LoseRunLock
<1>17. ASSUME NEW i \in Jobs, RequestStop(i) PROVE Goal
  BY <1>17 DEF RequestStop
<1>18. ASSUME NEW i \in Jobs, Age(i) PROVE Goal
  BY <1>18 DEF Age
<1>19. ASSUME NEW p \in Procs, StartReclaim(p) PROVE Goal
  BY <1>19 DEF StartReclaim
<1>20. ASSUME NEW p \in Procs, NEW i \in Jobs, ReclaimNext(p, i) PROVE Goal
  BY <1>20 DEF ReclaimNext, RunLockFree
<1>21. ASSUME NEW p \in Procs, ReclaimCancel(p) PROVE Goal
  BY <1>21 DEF ReclaimCancel
<1>22. ASSUME NEW p \in Procs, ReclaimSpare(p) PROVE Goal
  BY <1>22 DEF ReclaimSpare
<1>23. ASSUME NEW p \in Procs, EndPass(p) PROVE Goal
  BY <1>23 DEF EndPass
<1>24. ASSUME NEW p \in Procs, ShutdownRead(p) PROVE Goal
  BY <1>24 DEF ShutdownRead
<1>25. ASSUME NEW p \in Procs, ShutdownCancel(p) PROVE Goal
  BY <1>25 DEF ShutdownCancel, RowLocksFree
<1>26. ASSUME NEW p \in Procs, Exit(p) PROVE Goal
  BY <1>26 DEF Exit
<1>27. ASSUME NEW p \in Procs, Crash(p) PROVE Goal
  BY <1>27
<1>28. ASSUME NEW p \in Procs, Restart(p) PROVE Goal
  BY <1>28 DEF Restart
<1>29. CASE UNCHANGED vars
  BY <1>29 DEF vars
<1> QED
  BY <1>1, <1>2, <1>3, <1>4, <1>5, <1>6, <1>7, <1>8, <1>9, <1>10,
     <1>11, <1>12, <1>13, <1>14, <1>15, <1>16, <1>17, <1>18, <1>19,
     <1>20, <1>21, <1>22, <1>23, <1>24, <1>25, <1>26, <1>27, <1>28,
     <1>29
     DEF Next, Creation, EndCreate, Thread, Reclaim, Process

LEMMA CheckedStep ==
    ASSUME TypeOK, CheckedInv, ThreadInv, [Next]_vars
    PROVE  CheckedInv'
<1> USE DEF TypeOK, CreatorState
<1>1. CASE UNCHANGED creationVars
  <2>1. \A p \in Procs, i \in Jobs : ~CommitCreate(p, i)
    BY <1>1 DEF CommitCreate, creationVars
  <2>2. (\A k \in Jobs : Active(k)' => Active(k)) /\ req' = req
    BY <2>1, OnlyCreateActivates
  <2> QED BY <1>1, <2>2 DEF creationVars, CheckedInv, SlotFree
<1>2. ASSUME NEW p \in Procs, NEW r \in Requests, BeginCreate(p, r)
      PROVE  CheckedInv'
  <2>1. SlotFree(r) /\ \A x \in Requests : SlotFree(x)' <=> SlotFree(x)
    BY <1>2 DEF BeginCreate, TypeLockFree, rowVars, SlotFree, Active
  <2>2. /\ creator' = [creator EXCEPT ![p] = [pc |-> "checked", req |-> r, job |-> NoOne]]
        /\ typeLock' = [typeLock EXCEPT ![r.type] = p]
        /\ typeLock[r.type] = "free"
    BY <1>2 DEF BeginCreate, TypeLockFree
  <2>3. r.type \in Types BY DEF Requests
  <2>4. ASSUME NEW q \in Procs, creator'[q].pc = "checked"
        PROVE  /\ creator'[q].req \in Requests
               /\ typeLock'[creator'[q].req.type] = q
               /\ SlotFree(creator[q].req)'
    <3>1. CASE q = p BY <2>1, <2>2, <2>3, <3>1
    <3>2. CASE q # p
      BY <2>1, <2>2, <2>3, <2>4, <3>2, ProcsAssumption DEF CheckedInv
    <3> QED BY <3>1, <3>2
  <2> QED BY <2>4 DEF CheckedInv
<1>3. ASSUME NEW p \in Procs, EndCreate(p) PROVE CheckedInv'
  <2>1. creator'[p].pc # "checked" /\ \A q \in Procs \ {p} : creator'[q] = creator[q]
    BY <1>3 DEF EndCreate, CommitCreate, AbortCreate, Schedule, ScheduleFails, IdleCreator
  <2>2. ASSUME NEW q \in Procs \ {p}, creator[q].pc = "checked"
        PROVE  typeLock'[creator[q].req.type] = q
    <3>1. typeLock[creator[q].req.type] = q /\ creator[q].req.type \in Types
      BY <2>2 DEF CheckedInv, Requests
    <3>2. CASE UNCHANGED typeLock BY <3>1, <3>2
    <3>3. CASE creator[p].pc = "checked"
               /\ typeLock' = [typeLock EXCEPT ![creator[p].req.type] = "free"]
      <4>1. typeLock[creator[p].req.type] = p BY <3>3 DEF CheckedInv
      <4> QED BY <3>1, <3>3, <4>1
    <3> QED BY <1>3, <3>2, <3>3 DEF EndCreate, CommitCreate, AbortCreate, Schedule, ScheduleFails
  <2>3. ASSUME NEW q \in Procs \ {p}, creator[q].pc = "checked"
        PROVE  SlotFree(creator[q].req)'
    <3>1. CASE \A i \in Jobs : ~CommitCreate(p, i)
      <4>1. \A x \in Procs, i \in Jobs : ~CommitCreate(x, i)
        BY <1>3, <3>1, <2>1 DEF CommitCreate
      <4> QED BY <2>1, <2>3, <4>1, OnlyCreateActivates DEF SlotFree, CheckedInv
    <3>2. ASSUME NEW i \in Jobs, CommitCreate(p, i) PROVE SlotFree(creator[q].req)'
      <4>1. /\ \A k \in Jobs \ {i} : Active(k)' = Active(k) /\ req'[k] = req[k]
            /\ req'[i] = creator[p].req
        BY <3>2 DEF CommitCreate, Active
      <4>2. creator[p].req.type # creator[q].req.type
        BY <2>3, <3>2 DEF CheckedInv, CommitCreate
      <4> QED BY <2>1, <2>3, <4>1, <4>2 DEF CheckedInv, SlotFree, Conflict
    <3> QED BY <3>1, <3>2
  <2> QED BY <2>1, <2>2, <2>3 DEF CheckedInv
<1>4. ASSUME NEW p \in Procs, Crash(p) PROVE CheckedInv'
  BY <1>4, ProcsAssumption
  DEF Crash, CheckedInv, SlotFree, Active, rowVars, IdleCreator, Requests
<1> QED BY <1>1, <1>2, <1>3, <1>4, CreationFrame

\* What a creation has inserted stays fresh.
LEMMA CreatedStep ==
    ASSUME TypeOK, CreatedInv, ReclaimLockInv, ThreadInv, ProcessInv, [Next]_vars
    PROVE  CreatedInv'
<1> USE DEF TypeOK, rowVars, tableVars, creationVars, threadVars, processVars, others, Goto,
            CreatedInv, NoOne, CreatorState, IdleCreator
<1>1. ASSUME NEW p \in Procs, NEW r \in Requests,
             BeginCreate(p, r)
      PROVE  CreatedInv'
  BY <1>1 DEF BeginCreate, TypeLockFree
<1>2. ASSUME NEW p \in Procs, NEW i \in Jobs, CommitCreate(p, i) PROVE CreatedInv'
  BY <1>2, JobsAssumption DEF CommitCreate, ThreadInv
<1>3. ASSUME NEW p \in Procs, AbortCreate(p) PROVE CreatedInv'
  BY <1>3 DEF AbortCreate
<1>4. ASSUME NEW p \in Procs, Schedule(p) PROVE CreatedInv'
  BY <1>4, JobsAssumption DEF Schedule
<1>5. ASSUME NEW p \in Procs, ScheduleFails(p) PROVE CreatedInv'
  BY <1>5, JobsAssumption DEF ScheduleFails
<1>6. ASSUME NEW i \in Jobs, TakeRunLock(i) PROVE CreatedInv'
  BY <1>6 DEF TakeRunLock, RunLockFree
<1>7. ASSUME NEW i \in Jobs, RunLockRefused(i) PROVE CreatedInv'
  BY <1>7 DEF RunLockRefused
<1>8. ASSUME NEW i \in Jobs, Claim(i) PROVE CreatedInv'
  BY <1>8 DEF Claim, Claimable, Register
<1>9. ASSUME NEW i \in Jobs, ClaimFails(i) PROVE CreatedInv'
  BY <1>9 DEF ClaimFails
<1>10. ASSUME NEW i \in Jobs, CommitClaim(i) PROVE CreatedInv'
  BY <1>10 DEF CommitClaim
<1>11. ASSUME NEW i \in Jobs, StartHandler(i) PROVE CreatedInv'
  BY <1>11 DEF StartHandler
<1>12. ASSUME NEW i \in Jobs, HandlerStops(i) PROVE CreatedInv'
  BY <1>12 DEF HandlerStops
<1>13. ASSUME NEW i \in Jobs, HandlerEnds(i) PROVE CreatedInv'
  BY <1>13 DEF HandlerEnds, Outcomes
<1>14. ASSUME NEW i \in Jobs, Finalize(i) PROVE CreatedInv'
  BY <1>14 DEF Finalize, FinalStatus
<1>15. ASSUME NEW i \in Jobs, Leave(i) PROVE CreatedInv'
  BY <1>15 DEF Leave, Unregister, GiveUpRunLock
<1>16. ASSUME NEW i \in Jobs, LoseRunLock(i) PROVE CreatedInv'
  BY <1>16 DEF LoseRunLock
<1>17. ASSUME NEW i \in Jobs, RequestStop(i) PROVE CreatedInv'
  BY <1>17 DEF RequestStop
<1>18. ASSUME NEW i \in Jobs, Age(i) PROVE CreatedInv'
  BY <1>18 DEF Age
<1>19. ASSUME NEW p \in Procs, StartReclaim(p) PROVE CreatedInv'
  BY <1>19 DEF StartReclaim
<1>20. ASSUME NEW p \in Procs, NEW i \in Jobs, ReclaimNext(p, i) PROVE CreatedInv'
  BY <1>20 DEF ReclaimNext, RunLockFree
<1>21. ASSUME NEW p \in Procs, ReclaimCancel(p) PROVE CreatedInv'
  BY <1>21 DEF ReclaimCancel, ReclaimUnlock, Reclaimable, ReclaimLockInv, Active, ActiveStatus
<1>22. ASSUME NEW p \in Procs, ReclaimSpare(p) PROVE CreatedInv'
  BY <1>22 DEF ReclaimSpare, ReclaimUnlock
<1>23. ASSUME NEW p \in Procs, EndPass(p) PROVE CreatedInv'
  BY <1>23 DEF EndPass
<1>24. ASSUME NEW p \in Procs, ShutdownRead(p) PROVE CreatedInv'
  BY <1>24 DEF ShutdownRead
<1>25. ASSUME NEW p \in Procs, ShutdownCancel(p) PROVE CreatedInv'
  BY <1>25 DEF ShutdownCancel, RowLocksFree, ProcessInv
<1>26. ASSUME NEW p \in Procs, Exit(p) PROVE CreatedInv'
  BY <1>26 DEF Exit
<1>27. ASSUME NEW p \in Procs, Crash(p) PROVE CreatedInv'
  BY <1>27, JobsAssumption DEF Crash
<1>28. ASSUME NEW p \in Procs, Restart(p) PROVE CreatedInv'
  BY <1>28 DEF Restart
<1>29. CASE UNCHANGED vars
  BY <1>29 DEF vars
<1> QED
  BY <1>1, <1>2, <1>3, <1>4, <1>5, <1>6, <1>7, <1>8, <1>9, <1>10,
     <1>11, <1>12, <1>13, <1>14, <1>15, <1>16, <1>17, <1>18, <1>19,
     <1>20, <1>21, <1>22, <1>23, <1>24, <1>25, <1>26, <1>27, <1>28,
     <1>29
     DEF Next, Creation, EndCreate, Thread, Reclaim, Process

LEMMA RequestStep ==
    ASSUME TypeOK, CheckedInv, RequestInv, ThreadInv, [Next]_vars
    PROVE  RequestInv'
<1>1. CASE \A p \in Procs, i \in Jobs : ~CommitCreate(p, i)
  BY <1>1, OnlyCreateActivates DEF RequestInv
<1>2. ASSUME NEW p \in Procs, NEW i \in Jobs, CommitCreate(p, i) PROVE RequestInv'
  BY <1>2 DEF CommitCreate, TypeOK, CheckedInv, RequestInv, Active
<1> QED BY <1>1, <1>2

\* A thread holds its run lock between taking and giving it up.
LEMMA RunnerLockStep ==
    ASSUME TypeOK, CreatedInv, RunnerLockInv, ReclaimLockInv, ThreadInv, [Next]_vars
    PROVE  RunnerLockInv'
<1> USE DEF TypeOK, rowVars, tableVars, creationVars, threadVars, processVars, others, Goto,
            RunnerLockInv, Holding, Alive, NoOne
<1>1. ASSUME NEW p \in Procs, NEW r \in Requests,
             BeginCreate(p, r)
      PROVE  RunnerLockInv'
  BY <1>1 DEF BeginCreate, TypeLockFree
<1>2. ASSUME NEW p \in Procs, NEW i \in Jobs,
             CommitCreate(p, i)
      PROVE  RunnerLockInv'
  BY <1>2 DEF CommitCreate
<1>3. ASSUME NEW p \in Procs, AbortCreate(p) PROVE RunnerLockInv'
  BY <1>3 DEF AbortCreate
<1>4. ASSUME NEW p \in Procs, Schedule(p) PROVE RunnerLockInv'
  BY <1>4 DEF Schedule, CreatedInv
<1>5. ASSUME NEW p \in Procs, ScheduleFails(p) PROVE RunnerLockInv'
  BY <1>5 DEF ScheduleFails
<1>6. ASSUME NEW i \in Jobs, TakeRunLock(i) PROVE RunnerLockInv'
  BY <1>6 DEF TakeRunLock, RunLockFree
<1>7. ASSUME NEW i \in Jobs, RunLockRefused(i) PROVE RunnerLockInv'
  BY <1>7 DEF RunLockRefused
<1>8. ASSUME NEW i \in Jobs, Claim(i) PROVE RunnerLockInv'
  BY <1>8 DEF Claim, Claimable, Register
<1>9. ASSUME NEW i \in Jobs, ClaimFails(i) PROVE RunnerLockInv'
  BY <1>9 DEF ClaimFails
<1>10. ASSUME NEW i \in Jobs, CommitClaim(i) PROVE RunnerLockInv'
  BY <1>10 DEF CommitClaim
<1>11. ASSUME NEW i \in Jobs, StartHandler(i) PROVE RunnerLockInv'
  BY <1>11 DEF StartHandler
<1>12. ASSUME NEW i \in Jobs, HandlerStops(i) PROVE RunnerLockInv'
  BY <1>12 DEF HandlerStops
<1>13. ASSUME NEW i \in Jobs, HandlerEnds(i) PROVE RunnerLockInv'
  BY <1>13 DEF HandlerEnds, Outcomes
<1>14. ASSUME NEW i \in Jobs, Finalize(i) PROVE RunnerLockInv'
  BY <1>14 DEF Finalize
<1>15. ASSUME NEW i \in Jobs, Leave(i) PROVE RunnerLockInv'
  BY <1>15 DEF Leave, Unregister, GiveUpRunLock
<1>16. ASSUME NEW i \in Jobs, LoseRunLock(i) PROVE RunnerLockInv'
  BY <1>16 DEF LoseRunLock
<1>17. ASSUME NEW i \in Jobs, RequestStop(i) PROVE RunnerLockInv'
  BY <1>17 DEF RequestStop
<1>18. ASSUME NEW i \in Jobs, Age(i) PROVE RunnerLockInv'
  BY <1>18 DEF Age
<1>19. ASSUME NEW p \in Procs, StartReclaim(p) PROVE RunnerLockInv'
  BY <1>19 DEF StartReclaim
<1>20. ASSUME NEW p \in Procs, NEW i \in Jobs,
              ReclaimNext(p, i)
      PROVE  RunnerLockInv'
  BY <1>20, ProcsAssumption DEF ReclaimNext, RunLockFree
<1>21. ASSUME NEW p \in Procs, ReclaimCancel(p) PROVE RunnerLockInv'
  BY <1>21, ProcsAssumption DEF ReclaimCancel, ReclaimUnlock, ReclaimLockInv
<1>22. ASSUME NEW p \in Procs, ReclaimSpare(p) PROVE RunnerLockInv'
  BY <1>22, ProcsAssumption DEF ReclaimSpare, ReclaimUnlock, ReclaimLockInv
<1>23. ASSUME NEW p \in Procs, EndPass(p) PROVE RunnerLockInv'
  BY <1>23 DEF EndPass
<1>24. ASSUME NEW p \in Procs, ShutdownRead(p) PROVE RunnerLockInv'
  BY <1>24 DEF ShutdownRead
<1>25. ASSUME NEW p \in Procs, ShutdownCancel(p) PROVE RunnerLockInv'
  BY <1>25 DEF ShutdownCancel, RowLocksFree
<1>26. ASSUME NEW p \in Procs, Exit(p) PROVE RunnerLockInv'
  BY <1>26 DEF Exit
<1>27. ASSUME NEW p \in Procs, Crash(p) PROVE RunnerLockInv'
  BY <1>27, ProcsAssumption DEF Crash, ThreadInv
<1>28. ASSUME NEW p \in Procs, Restart(p) PROVE RunnerLockInv'
  BY <1>28 DEF Restart
<1>29. CASE UNCHANGED vars
  BY <1>29 DEF vars
<1> QED
  BY <1>1, <1>2, <1>3, <1>4, <1>5, <1>6, <1>7, <1>8, <1>9, <1>10,
     <1>11, <1>12, <1>13, <1>14, <1>15, <1>16, <1>17, <1>18, <1>19,
     <1>20, <1>21, <1>22, <1>23, <1>24, <1>25, <1>26, <1>27, <1>28,
     <1>29
     DEF Next, Creation, EndCreate, Thread, Reclaim, Process

\* A reclaim pass holds the run lock of the job it looks at.
LEMMA ReclaimLockStep ==
    ASSUME TypeOK, RunnerLockInv, ReclaimLockInv, ProcessInv, [Next]_vars
    PROVE  ReclaimLockInv'
<1> USE DEF TypeOK, rowVars, tableVars, creationVars, threadVars, processVars, others, Goto,
            ReclaimLockInv, NoOne, ReclaimerState
<1>1. ASSUME NEW p \in Procs, NEW r \in Requests,
             BeginCreate(p, r)
      PROVE  ReclaimLockInv'
  BY <1>1 DEF BeginCreate, TypeLockFree
<1>2. ASSUME NEW p \in Procs, NEW i \in Jobs,
             CommitCreate(p, i)
      PROVE  ReclaimLockInv'
  BY <1>2 DEF CommitCreate
<1>3. ASSUME NEW p \in Procs, AbortCreate(p) PROVE ReclaimLockInv'
  BY <1>3 DEF AbortCreate
<1>4. ASSUME NEW p \in Procs, Schedule(p) PROVE ReclaimLockInv'
  BY <1>4 DEF Schedule
<1>5. ASSUME NEW p \in Procs, ScheduleFails(p) PROVE ReclaimLockInv'
  BY <1>5 DEF ScheduleFails
<1>6. ASSUME NEW i \in Jobs, TakeRunLock(i) PROVE ReclaimLockInv'
  BY <1>6, ProcsAssumption DEF TakeRunLock, RunLockFree
<1>7. ASSUME NEW i \in Jobs, RunLockRefused(i) PROVE ReclaimLockInv'
  BY <1>7 DEF RunLockRefused
<1>8. ASSUME NEW i \in Jobs, Claim(i) PROVE ReclaimLockInv'
  BY <1>8 DEF Claim, Claimable, Register
<1>9. ASSUME NEW i \in Jobs, ClaimFails(i) PROVE ReclaimLockInv'
  BY <1>9 DEF ClaimFails
<1>10. ASSUME NEW i \in Jobs, CommitClaim(i) PROVE ReclaimLockInv'
  BY <1>10 DEF CommitClaim
<1>11. ASSUME NEW i \in Jobs, StartHandler(i) PROVE ReclaimLockInv'
  BY <1>11 DEF StartHandler
<1>12. ASSUME NEW i \in Jobs, HandlerStops(i) PROVE ReclaimLockInv'
  BY <1>12 DEF HandlerStops
<1>13. ASSUME NEW i \in Jobs, HandlerEnds(i) PROVE ReclaimLockInv'
  BY <1>13 DEF HandlerEnds, Outcomes
<1>14. ASSUME NEW i \in Jobs, Finalize(i) PROVE ReclaimLockInv'
  BY <1>14 DEF Finalize
<1>15. ASSUME NEW i \in Jobs, Leave(i) PROVE ReclaimLockInv'
  BY <1>15, ProcsAssumption DEF Leave, Unregister, GiveUpRunLock
<1>16. ASSUME NEW i \in Jobs, LoseRunLock(i) PROVE ReclaimLockInv'
  BY <1>16, ProcsAssumption DEF LoseRunLock
<1>17. ASSUME NEW i \in Jobs, RequestStop(i) PROVE ReclaimLockInv'
  BY <1>17 DEF RequestStop
<1>18. ASSUME NEW i \in Jobs, Age(i) PROVE ReclaimLockInv'
  BY <1>18 DEF Age
<1>19. ASSUME NEW p \in Procs, StartReclaim(p) PROVE ReclaimLockInv'
  BY <1>19, JobsAssumption, ScanType DEF StartReclaim, Scan, IdleReclaimer
<1>20. ASSUME NEW p \in Procs, NEW i \in Jobs,
              ReclaimNext(p, i)
      PROVE  ReclaimLockInv'
  <2> DEFINE left == reclaimer[p].todo \ {i}
  <2> DEFINE new == [reclaimer[p] EXCEPT !.pc = "locked", !.todo = left, !.job = i]
  <2>1. ASSUME runLock[i] = "free" PROVE ReclaimLockInv'
    <3>1. \A q \in Procs : ~(reclaimer[q].pc = "locked" /\ reclaimer[q].job = i)
      BY <2>1, ProcsAssumption
    <3>2. /\ runLock' = [runLock EXCEPT ![i] = p]
          /\ reclaimer' = [reclaimer EXCEPT ![p] = new]
      BY <2>1, <1>20 DEF ReclaimNext, RunLockFree
    <3>3. new.pc = "locked" /\ new.job = i BY TypeFields
    <3> HIDE DEF new
    <3>4. /\ reclaimer'[p].pc = "locked" /\ reclaimer'[p].job = i
          /\ \A q \in Procs \ {p} : reclaimer'[q] = reclaimer[q]
      BY <3>2, <3>3
    <3>5. reclaimer[p].pc = "scan" BY <1>20 DEF ReclaimNext, RunLockFree
    <3> QED BY <3>1, <3>2, <3>4, <3>5, ProcsAssumption
  <2>2. ASSUME runLock[i] # "free" PROVE ReclaimLockInv'
    <3>1. /\ runLock' = runLock
          /\ reclaimer'[p].pc = "scan" /\ reclaimer[p].pc = "scan"
          /\ \A q \in Procs \ {p} : reclaimer'[q] = reclaimer[q]
      BY <2>2, <1>20 DEF ReclaimNext, RunLockFree
    <3> QED BY <3>1
  <2> QED BY <2>1, <2>2
<1>21. ASSUME NEW p \in Procs, ReclaimCancel(p) PROVE ReclaimLockInv'
  BY <1>21, ProcsAssumption, JobsAssumption DEF ReclaimCancel, ReclaimUnlock
<1>22. ASSUME NEW p \in Procs, ReclaimSpare(p) PROVE ReclaimLockInv'
  BY <1>22, ProcsAssumption, JobsAssumption DEF ReclaimSpare, ReclaimUnlock
<1>23. ASSUME NEW p \in Procs, EndPass(p) PROVE ReclaimLockInv'
  BY <1>23, JobsAssumption, ScanType DEF EndPass, Scan, IdleReclaimer
<1>24. ASSUME NEW p \in Procs, ShutdownRead(p) PROVE ReclaimLockInv'
  BY <1>24 DEF ShutdownRead
<1>25. ASSUME NEW p \in Procs, ShutdownCancel(p) PROVE ReclaimLockInv'
  BY <1>25 DEF ShutdownCancel, RowLocksFree
<1>26. ASSUME NEW p \in Procs, Exit(p) PROVE ReclaimLockInv'
  BY <1>26 DEF Exit
<1>27. ASSUME NEW p \in Procs, Crash(p) PROVE ReclaimLockInv'
  BY <1>27, ProcsAssumption, JobsAssumption DEF Crash, IdleReclaimer
<1>28. ASSUME NEW p \in Procs, Restart(p) PROVE ReclaimLockInv'
  <2>1. reclaimer[p].pc = "idle" BY <1>28 DEF Restart, ProcessInv
  <2>2. reclaimer' = [reclaimer EXCEPT ![p] = Scan("orphan")] /\ UNCHANGED runLock
    BY <1>28 DEF Restart
  <2> QED BY <2>1, <2>2, ScanType DEF Scan
<1>29. CASE UNCHANGED vars
  BY <1>29 DEF vars
<1> QED
  BY <1>1, <1>2, <1>3, <1>4, <1>5, <1>6, <1>7, <1>8, <1>9, <1>10,
     <1>11, <1>12, <1>13, <1>14, <1>15, <1>16, <1>17, <1>18, <1>19,
     <1>20, <1>21, <1>22, <1>23, <1>24, <1>25, <1>26, <1>27, <1>28,
     <1>29
     DEF Next, Creation, EndCreate, Thread, Reclaim, Process

\* Threads, rows and active sets stay in step.
LEMMA ThreadStep ==
    ASSUME TypeOK, RunnerLockInv, ReclaimLockInv, CreatedInv, ThreadInv, ProcessInv, [Next]_vars
    PROVE  ThreadInv'
<1> USE DEF TypeOK, rowVars, tableVars, creationVars, threadVars, processVars, others, Goto, ThreadInv, Owning, Holding, Alive, NoOne, Active, ActiveStatus,
            TerminalStatus, Status
<1>1. ASSUME NEW p \in Procs, NEW r \in Requests, BeginCreate(p, r) PROVE ThreadInv'
  BY <1>1 DEF BeginCreate, TypeLockFree
<1>2. ASSUME NEW p \in Procs, NEW i \in Jobs, CommitCreate(p, i) PROVE ThreadInv'
  BY <1>2 DEF CommitCreate
<1>3. ASSUME NEW p \in Procs, AbortCreate(p) PROVE ThreadInv'
  BY <1>3 DEF AbortCreate
<1>4. ASSUME NEW p \in Procs, Schedule(p) PROVE ThreadInv'
  BY <1>4, ProcsAssumption DEF Schedule, CreatedInv
<1>5. ASSUME NEW p \in Procs, ScheduleFails(p) PROVE ThreadInv'
  BY <1>5 DEF ScheduleFails, CreatedInv
<1>6. ASSUME NEW i \in Jobs, TakeRunLock(i) PROVE ThreadInv'
  BY <1>6 DEF TakeRunLock, RunLockFree
<1>7. ASSUME NEW i \in Jobs, RunLockRefused(i) PROVE ThreadInv'
  BY <1>7, ProcsAssumption DEF RunLockRefused
<1>8. ASSUME NEW i \in Jobs, Claim(i) PROVE ThreadInv'
  BY <1>8 DEF Claim, Claimable, Register
<1>9. ASSUME NEW i \in Jobs, ClaimFails(i) PROVE ThreadInv'
  BY <1>9 DEF ClaimFails
<1>10. ASSUME NEW i \in Jobs, CommitClaim(i) PROVE ThreadInv'
  BY <1>10 DEF CommitClaim
<1>11. ASSUME NEW i \in Jobs, StartHandler(i) PROVE ThreadInv'
  BY <1>11 DEF StartHandler
<1>12. ASSUME NEW i \in Jobs, HandlerStops(i) PROVE ThreadInv'
  BY <1>12 DEF HandlerStops
<1>13. ASSUME NEW i \in Jobs, HandlerEnds(i) PROVE ThreadInv'
  BY <1>13 DEF HandlerEnds, Outcomes
<1>14. ASSUME NEW i \in Jobs, Finalize(i) PROVE ThreadInv'
  BY <1>14 DEF Finalize, FinalStatus
<1>15. ASSUME NEW i \in Jobs, Leave(i) PROVE ThreadInv'
  BY <1>15 DEF Leave, Unregister, GiveUpRunLock
<1>16. ASSUME NEW i \in Jobs, LoseRunLock(i) PROVE ThreadInv'
  BY <1>16 DEF LoseRunLock
<1>17. ASSUME NEW i \in Jobs, RequestStop(i) PROVE ThreadInv'
  BY <1>17 DEF RequestStop
<1>18. ASSUME NEW i \in Jobs, Age(i) PROVE ThreadInv'
  BY <1>18 DEF Age
<1>19. ASSUME NEW p \in Procs, StartReclaim(p) PROVE ThreadInv'
  BY <1>19 DEF StartReclaim
<1>20. ASSUME NEW p \in Procs, NEW i \in Jobs, ReclaimNext(p, i) PROVE ThreadInv'
  BY <1>20 DEF ReclaimNext, RunLockFree
<1>21. ASSUME NEW p \in Procs, ReclaimCancel(p) PROVE ThreadInv'
  BY <1>21, ProcsAssumption
  DEF ReclaimCancel, ReclaimUnlock, RunnerLockInv, ReclaimLockInv, Reclaimable
<1>22. ASSUME NEW p \in Procs, ReclaimSpare(p) PROVE ThreadInv'
  BY <1>22 DEF ReclaimSpare, ReclaimUnlock
<1>23. ASSUME NEW p \in Procs, EndPass(p) PROVE ThreadInv'
  BY <1>23, ProcsAssumption DEF EndPass, ProcessInv, Lives
<1>24. ASSUME NEW p \in Procs, ShutdownRead(p) PROVE ThreadInv'
  BY <1>24 DEF ShutdownRead
<1>25. ASSUME NEW p \in Procs, ShutdownCancel(p) PROVE ThreadInv'
  BY <1>25, ProcsAssumption DEF ShutdownCancel, RowLocksFree, ProcessInv
<1>26. ASSUME NEW p \in Procs, Exit(p) PROVE ThreadInv'
  BY <1>26 DEF Exit
<1>27. ASSUME NEW p \in Procs, Crash(p) PROVE ThreadInv'
  BY <1>27 DEF Crash
<1>28. ASSUME NEW p \in Procs, Restart(p) PROVE ThreadInv'
  BY <1>28 DEF Restart
<1>29. CASE UNCHANGED vars
  BY <1>29 DEF vars
<1> QED
  BY <1>1, <1>2, <1>3, <1>4, <1>5, <1>6, <1>7, <1>8, <1>9, <1>10,
     <1>11, <1>12, <1>13, <1>14, <1>15, <1>16, <1>17, <1>18, <1>19,
     <1>20, <1>21, <1>22, <1>23, <1>24, <1>25, <1>26, <1>27, <1>28,
     <1>29
     DEF Next, Creation, EndCreate, Thread, Reclaim, Process

\* Processes and their shutdowns stay in step.
LEMMA ProcessStep ==
    ASSUME TypeOK, CreatedInv, ThreadInv, ProcessInv, [Next]_vars
    PROVE  ProcessInv'
<1> USE DEF TypeOK, rowVars, tableVars, creationVars, threadVars, processVars, others, Goto, ProcessInv, Lives, NoOne, Active, Terminal, ActiveStatus,
            TerminalStatus, Status
<1>1. ASSUME NEW p \in Procs, NEW r \in Requests,
             BeginCreate(p, r)
      PROVE  ProcessInv'
  BY <1>1, JobsAssumption DEF BeginCreate, TypeLockFree, MayCreate
<1>2. ASSUME NEW p \in Procs, NEW i \in Jobs, CommitCreate(p, i) PROVE ProcessInv'
  BY <1>2 DEF CommitCreate
<1>3. ASSUME NEW p \in Procs, AbortCreate(p) PROVE ProcessInv'
  BY <1>3, JobsAssumption, ProcsAssumption DEF AbortCreate, IdleCreator, CreatedInv
<1>4. ASSUME NEW p \in Procs, Schedule(p) PROVE ProcessInv'
  BY <1>4, JobsAssumption, ProcsAssumption DEF Schedule, IdleCreator, CreatedInv
<1>5. ASSUME NEW p \in Procs, ScheduleFails(p) PROVE ProcessInv'
  BY <1>5, JobsAssumption, ProcsAssumption DEF ScheduleFails, IdleCreator, CreatedInv
<1>6. ASSUME NEW i \in Jobs, TakeRunLock(i) PROVE ProcessInv'
  BY <1>6 DEF TakeRunLock, RunLockFree
<1>7. ASSUME NEW i \in Jobs, RunLockRefused(i) PROVE ProcessInv'
  BY <1>7, ProcsAssumption DEF RunLockRefused
<1>8. ASSUME NEW i \in Jobs, Claim(i) PROVE ProcessInv'
  BY <1>8 DEF Claim, Claimable, Register
<1>9. ASSUME NEW i \in Jobs, ClaimFails(i) PROVE ProcessInv'
  BY <1>9 DEF ClaimFails
<1>10. ASSUME NEW i \in Jobs, CommitClaim(i) PROVE ProcessInv'
  BY <1>10 DEF CommitClaim, ThreadInv
<1>11. ASSUME NEW i \in Jobs, StartHandler(i) PROVE ProcessInv'
  BY <1>11 DEF StartHandler
<1>12. ASSUME NEW i \in Jobs, HandlerStops(i) PROVE ProcessInv'
  BY <1>12 DEF HandlerStops
<1>13. ASSUME NEW i \in Jobs, HandlerEnds(i) PROVE ProcessInv'
  BY <1>13 DEF HandlerEnds, Outcomes
<1>14. ASSUME NEW i \in Jobs, Finalize(i) PROVE ProcessInv'
  BY <1>14 DEF Finalize, FinalStatus, ThreadInv
<1>15. ASSUME NEW i \in Jobs, Leave(i) PROVE ProcessInv'
  BY <1>15, ProcsAssumption DEF Leave, Unregister, GiveUpRunLock
<1>16. ASSUME NEW i \in Jobs, LoseRunLock(i) PROVE ProcessInv'
  BY <1>16 DEF LoseRunLock
<1>17. ASSUME NEW i \in Jobs, RequestStop(i) PROVE ProcessInv'
  BY <1>17 DEF RequestStop
<1>18. ASSUME NEW i \in Jobs, Age(i) PROVE ProcessInv'
  BY <1>18 DEF Age
<1>19. ASSUME NEW p \in Procs, StartReclaim(p) PROVE ProcessInv'
  BY <1>19 DEF StartReclaim
<1>20. ASSUME NEW p \in Procs, NEW i \in Jobs, ReclaimNext(p, i) PROVE ProcessInv'
  BY <1>20 DEF ReclaimNext, RunLockFree
<1>21. ASSUME NEW p \in Procs, ReclaimCancel(p) PROVE ProcessInv'
  BY <1>21, TypeFields DEF ReclaimCancel, ReclaimUnlock, ReclaimerState
<1>22. ASSUME NEW p \in Procs, ReclaimSpare(p) PROVE ProcessInv'
  BY <1>22, TypeFields DEF ReclaimSpare, ReclaimUnlock, ReclaimerState
<1>23. ASSUME NEW p \in Procs, EndPass(p) PROVE ProcessInv'
  BY <1>23 DEF EndPass
<1>24. ASSUME NEW p \in Procs, ShutdownRead(p) PROVE ProcessInv'
  BY <1>24, JobsAssumption, ProcsAssumption
  DEF ShutdownRead, ThreadInv, CreatedInv, Owning
<1>25. ASSUME NEW p \in Procs, ShutdownCancel(p) PROVE ProcessInv'
  BY <1>25 DEF ShutdownCancel, RowLocksFree
<1>26. ASSUME NEW p \in Procs, Exit(p) PROVE ProcessInv'
  BY <1>26 DEF Exit
<1>27. ASSUME NEW p \in Procs, Crash(p) PROVE ProcessInv'
  BY <1>27, JobsAssumption, ProcsAssumption DEF Crash, IdleCreator, IdleReclaimer
<1>28. ASSUME NEW p \in Procs, Restart(p) PROVE ProcessInv'
  BY <1>28 DEF Restart
<1>29. CASE UNCHANGED vars
  BY <1>29 DEF vars
<1> QED
  BY <1>1, <1>2, <1>3, <1>4, <1>5, <1>6, <1>7, <1>8, <1>9, <1>10,
     <1>11, <1>12, <1>13, <1>14, <1>15, <1>16, <1>17, <1>18, <1>19,
     <1>20, <1>21, <1>22, <1>23, <1>24, <1>25, <1>26, <1>27, <1>28,
     <1>29
     DEF Next, Creation, EndCreate, Thread, Reclaim, Process

-----------------------------------------------------------------------------
LEMMA InitInv == Init => IInv
<1> SUFFICES ASSUME Init PROVE IInv OBVIOUS
<1>1. TypeOK BY InitType
<1>2. \A i \in Jobs : ~Active(i) BY DEF Init, TableInit, Active, ActiveStatus
<1>3. OneActivePerSlot /\ RequestInv BY <1>2 DEF OneActivePerSlot, RequestInv
<1>4. CheckedInv /\ CreatedInv
  BY JobsAssumption DEF Init, CheckedInv, CreatedInv, IdleCreator, NoOne
<1>5. RunnerLockInv /\ ReclaimLockInv
  BY ProcsAssumption
  DEF Init, RunnerLockInv, ReclaimLockInv, Holding, IdleReclaimer, NoOne
<1>6. ThreadInv BY DEF Init, TableInit, ThreadInv, Owning, NoOne
<1>7. ProcessInv BY DEF Init, ProcessInv, Lives, IdleReclaimer
<1> QED BY <1>1, <1>3, <1>4, <1>5, <1>6, <1>7 DEF IInv

LEMMA StepInv == IInv /\ [Next]_vars => IInv'
BY TypeStep, SlotStep, CheckedStep, CreatedStep, RequestStep, RunnerLockStep,
   ReclaimLockStep, ThreadStep, ProcessStep
DEF IInv

\* The invariant that every other safety result rests on.
THEOREM InductiveInvariant == Spec => []IInv
BY InitInv, StepInv, PTL DEF Spec

\* create_job: no two active jobs share a slot, in any process.
THEOREM SlotsAreExclusive == Spec => []OneActivePerSlot
<1>1. IInv => OneActivePerSlot BY DEF IInv
<1> QED BY <1>1, InductiveInvariant, PTL

\* A shutdown that went through leaves nothing running that it had read.
THEOREM ShutdownIsComplete == Spec => [](ShutdownSettles /\ RunningIsRegistered)
<1>1. IInv => ShutdownSettles /\ RunningIsRegistered
  BY DEF IInv, ProcessInv, ThreadInv, ShutdownSettles, RunningIsRegistered, Owning
<1> QED BY <1>1, InductiveInvariant, PTL

\* A handler with its lock, in a process that is not draining, has the slot to
\* itself.
THEOREM HandlersAreExclusive == Spec => [](HandlerOwnsSlot /\ OneHandlerPerSlot)
<1>1. IInv => HandlerOwnsSlot BY DEF IInv, ThreadInv, HandlerOwnsSlot
<1>2. IInv => OneHandlerPerSlot
  <2> SUFFICES ASSUME IInv, NEW i \in Jobs, NEW j \in Jobs, i # j,
                      pc[i] = "executing", pc[j] = "executing",
                      Conflict(req[i], req[j])
               PROVE  \E k \in {i, j} : k \in lost \/ up[home[k]] = "draining"
    BY DEF OneHandlerPerSlot
  <2>1. \A k \in {i, j} : home[k] \in Procs /\ up[home[k]] \in {"up", "cancelling", "draining"}
    BY DEF IInv, TypeOK, ThreadInv, ProcessInv, Lives, NoOne
  <2>2. ~(Active(i) /\ Active(j)) BY DEF IInv, OneActivePerSlot
  <2> QED BY <1>1, <2>1, <2>2 DEF HandlerOwnsSlot
<1> QED BY <1>1, <1>2, InductiveInvariant, PTL

\* Every step of the detailed model is a step of the table, or leaves it alone.
LEMMA TableStep ==
    ASSUME IInv, [Next]_vars
    PROVE  [TableNext]_tableVars
<1> USE DEF IInv, rowVars, tableVars, others, Goto
<1>1. ASSUME NEW p \in Procs, NEW r \in Requests,
             BeginCreate(p, r)
      PROVE  [TableNext]_tableVars
  BY <1>1 DEF BeginCreate, TypeLockFree
<1>2. ASSUME NEW p \in Procs, NEW i \in Jobs,
             CommitCreate(p, i)
      PROVE  [TableNext]_tableVars
  <2>1. CreateRow(i, creator[p].req) /\ creator[p].req \in Requests
    BY <1>2 DEF CommitCreate, CheckedInv, CreateRow
  <2> QED BY <2>1 DEF TableNext
<1>3. ASSUME NEW p \in Procs, AbortCreate(p) PROVE [TableNext]_tableVars
  BY <1>3 DEF AbortCreate
<1>4. ASSUME NEW p \in Procs, Schedule(p) PROVE [TableNext]_tableVars
  BY <1>4 DEF Schedule
<1>5. ASSUME NEW p \in Procs, ScheduleFails(p) PROVE [TableNext]_tableVars
  <2> DEFINE j == creator[p].job
  <2>1. j \in Jobs /\ status[j] = "pending" BY <1>5 DEF ScheduleFails, CreatedInv
  <2>2. CASE status' = [status EXCEPT ![j] = "failed"]
    <3>1. RejectRow(j) BY <1>5, <2>1, <2>2 DEF ScheduleFails, RejectRow, Move
    <3> QED BY <2>1, <3>1 DEF TableNext
  <2> QED BY <1>5, <2>2 DEF ScheduleFails, tableVars
<1>6. ASSUME NEW i \in Jobs, TakeRunLock(i) PROVE [TableNext]_tableVars
  BY <1>6 DEF TakeRunLock, RunLockFree
<1>7. ASSUME NEW i \in Jobs, RunLockRefused(i) PROVE [TableNext]_tableVars
  BY <1>7 DEF RunLockRefused
<1>8. ASSUME NEW i \in Jobs, Claim(i) PROVE [TableNext]_tableVars
  BY <1>8 DEF Claim, Claimable, Register
<1>9. ASSUME NEW i \in Jobs, ClaimFails(i) PROVE [TableNext]_tableVars
  BY <1>9 DEF ClaimFails
<1>10. ASSUME NEW i \in Jobs, CommitClaim(i) PROVE [TableNext]_tableVars
  <2>1. StartRow(i) BY <1>10 DEF CommitClaim, ThreadInv, StartRow, Move
  <2> QED BY <2>1 DEF TableNext
<1>11. ASSUME NEW i \in Jobs, StartHandler(i) PROVE [TableNext]_tableVars
  BY <1>11 DEF StartHandler
<1>12. ASSUME NEW i \in Jobs, HandlerStops(i) PROVE [TableNext]_tableVars
  BY <1>12 DEF HandlerStops
<1>13. ASSUME NEW i \in Jobs, HandlerEnds(i) PROVE [TableNext]_tableVars
  BY <1>13 DEF HandlerEnds, Outcomes
<1>14. ASSUME NEW i \in Jobs, Finalize(i) PROVE [TableNext]_tableVars
  <2>4. CASE UNCHANGED status BY <1>14, <2>4 DEF Finalize
  <2>5. CASE status' # status
    <3>1. status' = [status EXCEPT ![i] = FinalStatus(i)] /\ UNCHANGED req
      BY <1>14, <2>5 DEF Finalize
    <3>2. CASE status[i] = "running"
      <4>1. Settle(i)
        BY <1>14, <3>1, <3>2 DEF Finalize, FinalStatus, ThreadInv, Settle, Move
      <4> QED BY <4>1 DEF TableNext
    <3>3. CASE status[i] = "stopping"
      <4>1. CancelRows({i})
        BY <3>1, <3>3 DEF FinalStatus, CancelRows, Active, ActiveStatus, TypeOK
      <4> QED BY <4>1 DEF TableNext
    <3>4. CASE status[i] \notin {"running", "stopping"}
      BY <3>1, <3>4, <2>5 DEF FinalStatus, TypeOK
    <3> QED BY <3>2, <3>3, <3>4
  <2> QED BY <2>4, <2>5
<1>15. ASSUME NEW i \in Jobs, Leave(i) PROVE [TableNext]_tableVars
  BY <1>15 DEF Leave, Unregister, GiveUpRunLock
<1>16. ASSUME NEW i \in Jobs, LoseRunLock(i) PROVE [TableNext]_tableVars
  BY <1>16 DEF LoseRunLock
<1>17. ASSUME NEW i \in Jobs, RequestStop(i) PROVE [TableNext]_tableVars
  <2>1. AskStop(i) BY <1>17 DEF RequestStop, AskStop, Move
  <2> QED BY <2>1 DEF TableNext
<1>18. ASSUME NEW i \in Jobs, Age(i) PROVE [TableNext]_tableVars
  BY <1>18 DEF Age
<1>19. ASSUME NEW p \in Procs, StartReclaim(p) PROVE [TableNext]_tableVars
  BY <1>19 DEF StartReclaim
<1>20. ASSUME NEW p \in Procs, NEW i \in Jobs,
              ReclaimNext(p, i)
      PROVE  [TableNext]_tableVars
  BY <1>20 DEF ReclaimNext, RunLockFree
<1>21. ASSUME NEW p \in Procs, ReclaimCancel(p) PROVE [TableNext]_tableVars
  <2> DEFINE j == reclaimer[p].job
  <2>1. j \in Jobs BY <1>21 DEF ReclaimCancel, ReclaimLockInv
  <2>2. CancelRows({j})
    BY <1>21, <2>1 DEF ReclaimCancel, Reclaimable, CancelRows, TypeOK
  <2> QED BY <2>1, <2>2 DEF TableNext
<1>22. ASSUME NEW p \in Procs, ReclaimSpare(p) PROVE [TableNext]_tableVars
  BY <1>22 DEF ReclaimSpare
<1>23. ASSUME NEW p \in Procs, EndPass(p) PROVE [TableNext]_tableVars
  BY <1>23 DEF EndPass
<1>24. ASSUME NEW p \in Procs, ShutdownRead(p) PROVE [TableNext]_tableVars
  BY <1>24 DEF ShutdownRead
<1>25. ASSUME NEW p \in Procs, ShutdownCancel(p) PROVE [TableNext]_tableVars
  <2> DEFINE S == {i \in snapshot[p] : Active(i)}
  <2>1. S \in SUBSET Jobs BY DEF TypeOK
  <2>2. CancelRows(S) BY <1>25, <2>1 DEF ShutdownCancel, RowLocksFree, CancelRows
  <2> QED BY <2>1, <2>2 DEF TableNext
<1>26. ASSUME NEW p \in Procs, Exit(p) PROVE [TableNext]_tableVars
  BY <1>26 DEF Exit
<1>27. ASSUME NEW p \in Procs, Crash(p) PROVE [TableNext]_tableVars
  BY <1>27 DEF Crash
<1>28. ASSUME NEW p \in Procs, Restart(p) PROVE [TableNext]_tableVars
  BY <1>28 DEF Restart
<1>29. CASE UNCHANGED vars
  BY <1>29 DEF vars
<1> QED
  BY <1>1, <1>2, <1>3, <1>4, <1>5, <1>6, <1>7, <1>8, <1>9, <1>10,
     <1>11, <1>12, <1>13, <1>14, <1>15, <1>16, <1>17, <1>18, <1>19,
     <1>20, <1>21, <1>22, <1>23, <1>24, <1>25, <1>26, <1>27, <1>28,
     <1>29
     DEF Next, Creation, EndCreate, Thread, Reclaim, Process

\* JobRunner implements JobTable: whatever processes, locks, crashes and
\* reclaim passes do, the table behaves as it promises.
THEOREM ImplementsTable == Spec => Table
<1>1. Init => TableInit BY DEF Init
<1>2. IInv /\ [Next]_vars => [TableNext]_tableVars BY TableStep
<1> QED BY <1>1, <1>2, InductiveInvariant, PTL DEF Spec, Table, TableSpec

\* A finished row never changes again.
THEOREM FinishedRowsAreFinal == Spec => TerminalIsFinal
<1> DEFINE Final == \A i \in Jobs : Terminal(i) => status'[i] = status[i]
<1>1. ASSUME TypeOK, [TableNext]_tableVars PROVE Final
  BY <1>1 DEF TypeOK, TableNext, tableVars, CreateRow, StartRow, RejectRow, AskStop,
     Settle, Move, CancelRows, Active, ActiveStatus, Terminal, TerminalStatus
<1>2. IInv /\ [Next]_vars => [Final]_vars BY <1>1, TableStep DEF IInv
<1> QED BY <1>2, InductiveInvariant, PTL DEF Spec, TerminalIsFinal

\* A stop request can only end in "cancelled".
THEOREM StopRequestsWin == Spec => StopWins
<1> DEFINE Wins == \A i \in Jobs : status[i] = "stopping" => status'[i] \in {"stopping", "cancelled"}
<1>1. ASSUME TypeOK, [TableNext]_tableVars PROVE Wins
  BY <1>1 DEF TypeOK, TableNext, tableVars, CreateRow, StartRow, RejectRow, AskStop,
     Settle, Move, CancelRows
<1>2. IInv /\ [Next]_vars => [Wins]_vars BY <1>1, TableStep DEF IInv
<1> QED BY <1>2, InductiveInvariant, PTL DEF Spec, StopWins

\* What only its own thread or its own process's shutdown may do to a job whose
\* thread holds the run lock.
LEMMA KeptStep ==
    ASSUME IInv, [Next]_vars, NEW k \in Jobs,
           pc[k] \in {"claiming", "claimed", "executing", "finalizing"}, k \notin lost,
           Active(k), status'[k] = "cancelled"
    PROVE  pc'[k] = "leaving" \/ up[home[k]] = "cancelling"
<1> DEFINE Kept == pc'[k] = "leaving" \/ up[home[k]] = "cancelling"
<1> USE DEF IInv, TypeOK, rowVars, tableVars, others, Goto, Active, ActiveStatus
<1>1. ASSUME NEW p \in Procs, NEW r \in Requests, BeginCreate(p, r) PROVE Kept
  BY <1>1 DEF BeginCreate, TypeLockFree
<1>2. ASSUME NEW p \in Procs, NEW i \in Jobs, CommitCreate(p, i) PROVE Kept
  BY <1>2 DEF CommitCreate
<1>3. ASSUME NEW p \in Procs, AbortCreate(p) PROVE Kept
  BY <1>3 DEF AbortCreate
<1>4. ASSUME NEW p \in Procs, Schedule(p) PROVE Kept
  BY <1>4 DEF Schedule
<1>5. ASSUME NEW p \in Procs, ScheduleFails(p) PROVE Kept
  BY <1>5 DEF ScheduleFails, CreatedInv
<1>6. ASSUME NEW i \in Jobs, TakeRunLock(i) PROVE Kept
  BY <1>6 DEF TakeRunLock, RunLockFree
<1>7. ASSUME NEW i \in Jobs, RunLockRefused(i) PROVE Kept
  BY <1>7 DEF RunLockRefused
<1>8. ASSUME NEW i \in Jobs, Claim(i) PROVE Kept
  BY <1>8 DEF Claim, Claimable, Register
<1>9. ASSUME NEW i \in Jobs, ClaimFails(i) PROVE Kept
  BY <1>9 DEF ClaimFails
<1>10. ASSUME NEW i \in Jobs, CommitClaim(i) PROVE Kept
  BY <1>10 DEF CommitClaim
<1>11. ASSUME NEW i \in Jobs, StartHandler(i) PROVE Kept
  BY <1>11 DEF StartHandler
<1>12. ASSUME NEW i \in Jobs, HandlerStops(i) PROVE Kept
  BY <1>12 DEF HandlerStops
<1>13. ASSUME NEW i \in Jobs, HandlerEnds(i) PROVE Kept
  BY <1>13 DEF HandlerEnds, Outcomes
<1>14. ASSUME NEW i \in Jobs, Finalize(i) PROVE Kept
  BY <1>14 DEF Finalize
<1>15. ASSUME NEW i \in Jobs, Leave(i) PROVE Kept
  BY <1>15 DEF Leave, Unregister, GiveUpRunLock
<1>16. ASSUME NEW i \in Jobs, LoseRunLock(i) PROVE Kept
  BY <1>16 DEF LoseRunLock
<1>17. ASSUME NEW i \in Jobs, RequestStop(i) PROVE Kept
  BY <1>17 DEF RequestStop
<1>18. ASSUME NEW i \in Jobs, Age(i) PROVE Kept
  BY <1>18 DEF Age
<1>19. ASSUME NEW p \in Procs, StartReclaim(p) PROVE Kept
  BY <1>19 DEF StartReclaim
<1>20. ASSUME NEW p \in Procs, NEW i \in Jobs, ReclaimNext(p, i) PROVE Kept
  BY <1>20 DEF ReclaimNext, RunLockFree
<1>21. ASSUME NEW p \in Procs, ReclaimCancel(p) PROVE Kept
  <2>1. runLock[k] = "runner" BY DEF RunnerLockInv, Holding
  <2>2. reclaimer[p].job # k
    BY <1>21, <2>1, ProcsAssumption DEF ReclaimCancel, ReclaimLockInv
  <2> QED BY <1>21, <2>2 DEF ReclaimCancel
<1>22. ASSUME NEW p \in Procs, ReclaimSpare(p) PROVE Kept
  BY <1>22 DEF ReclaimSpare
<1>23. ASSUME NEW p \in Procs, EndPass(p) PROVE Kept
  BY <1>23 DEF EndPass
<1>24. ASSUME NEW p \in Procs, ShutdownRead(p) PROVE Kept
  BY <1>24 DEF ShutdownRead
<1>25. ASSUME NEW p \in Procs, ShutdownCancel(p) PROVE Kept
  <2>1. k \in snapshot[p] BY <1>25 DEF ShutdownCancel, RowLocksFree
  <2>2. home[k] = p BY <2>1 DEF ProcessInv, ThreadInv
  <2> QED BY <1>25, <2>2 DEF ShutdownCancel, RowLocksFree
<1>26. ASSUME NEW p \in Procs, Exit(p) PROVE Kept
  BY <1>26 DEF Exit
<1>27. ASSUME NEW p \in Procs, Crash(p) PROVE Kept
  BY <1>27 DEF Crash
<1>28. ASSUME NEW p \in Procs, Restart(p) PROVE Kept
  BY <1>28 DEF Restart
<1>29. CASE UNCHANGED vars
  BY <1>29 DEF vars
<1> QED
  BY <1>1, <1>2, <1>3, <1>4, <1>5, <1>6, <1>7, <1>8, <1>9, <1>10,
     <1>11, <1>12, <1>13, <1>14, <1>15, <1>16, <1>17, <1>18, <1>19,
     <1>20, <1>21, <1>22, <1>23, <1>24, <1>25, <1>26, <1>27, <1>28,
     <1>29
     DEF Next, Creation, EndCreate, Thread, Reclaim, Process

\* A job whose thread lives and holds its lock is never reclaimed.
THEOREM LiveJobsAreKept == Spec => LiveJobIsKept
<1> DEFINE Kept(i) ==
        /\ pc[i] \in {"claiming", "claimed", "executing", "finalizing"}
        /\ i \notin lost
        /\ Active(i) /\ status'[i] = "cancelled"
        => pc'[i] = "leaving" \/ up[home[i]] = "cancelling"
<1>1. IInv /\ [Next]_vars => [\A i \in Jobs : Kept(i)]_vars BY KeptStep
<1> QED BY <1>1, InductiveInvariant, PTL DEF Spec, LiveJobIsKept

\* Only a thread that is there already, or that commits its claim, is about to
\* call the handler.
LEMMA HandlerStep ==
    ASSUME TypeOK, [Next]_vars, NEW k \in Jobs, pc'[k] \in {"claimed", "executing"}
    PROVE  pc[k] \in {"claiming", "claimed", "executing"}
<1> USE DEF TypeOK, Goto, others, creationVars, threadVars, processVars
<1>1. CASE UNCHANGED vars
  BY <1>1 DEF vars
<1>2. ASSUME NEW p \in Procs, Creation(p) \/ Reclaim(p) PROVE pc[k] \in {"claiming", "claimed", "executing"}
  <2>1. \/ pc' = pc
        \/ \E i \in Jobs \cup {NoOne} : pc' = [pc EXCEPT ![i] = "queued"]
    BY <1>2, TypeFields
       DEF Creation, EndCreate, BeginCreate, CommitCreate, AbortCreate, Schedule, ScheduleFails,
           Reclaim, StartReclaim, ReclaimNext, ReclaimCancel, ReclaimSpare, ReclaimUnlock, EndPass
  <2> QED BY <2>1
<1>3. ASSUME NEW p \in Procs, Process(p) PROVE pc[k] \in {"claiming", "claimed", "executing"}
  BY <1>3 DEF Process, ShutdownRead, ShutdownCancel, Exit, Crash, Restart
<1>4. ASSUME NEW i \in Jobs, Thread(i) PROVE pc[k] \in {"claiming", "claimed", "executing"}
  BY <1>4 DEF Thread, TakeRunLock, RunLockRefused, Claim, ClaimFails, CommitClaim,
     StartHandler, HandlerStops, HandlerEnds, Finalize, Leave
<1>5. ASSUME NEW i \in Jobs, LoseRunLock(i) \/ RequestStop(i) \/ Age(i)
      PROVE  pc[k] \in {"claiming", "claimed", "executing"}
  BY <1>5 DEF LoseRunLock, RequestStop, Age
<1> QED BY <1>1, <1>2, <1>3, <1>4, <1>5 DEF Next

\* No handler is called twice, or after its job was cancelled.
THEOREM HandlersAreCalledOnce == Spec => HandlersRunOnce
<1>1. ASSUME IInv, [Next]_vars, NEW i \in Jobs, Behind(i) PROVE Behind(i)'
  <2>1. status'[i] \notin {"none", "pending"}
    BY <1>1, TableStep
       DEF IInv, TypeOK, Behind, TableNext, tableVars, CreateRow, StartRow, RejectRow, AskStop,
           Settle, Move, CancelRows, Active, ActiveStatus, Status, TerminalStatus
  <2>2. pc'[i] \notin {"claimed", "executing"}
    BY <1>1, HandlerStep DEF IInv, Behind, ThreadInv
  <2> QED BY <2>1, <2>2 DEF Behind
<1>2. IInv /\ [Next]_vars => [\A i \in Jobs : Behind(i) => Behind(i)']_vars BY <1>1
<1> QED BY <1>2, InductiveInvariant, PTL DEF Spec, HandlersRunOnce
=============================================================================
