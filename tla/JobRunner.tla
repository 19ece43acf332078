----------------------------- MODULE JobRunner -----------------------------
(***************************************************************************)
(* How the API process and the worker process create, run, stop, reclaim    *)
(* and cancel jobs over one PostgreSQL table (services/job_runner.py, with   *)
(* its callers in main.py, worker.py and api/rest.py).                       *)
(*                                                                         *)
(* Every action is one database transaction, or one step of a thread        *)
(* between two of them.  A job thread holds a session advisory lock on its   *)
(* job id for as long as its dedicated connection lives; the reclaimer takes *)
(* the same lock before it cancels a row, and a killed process loses it.     *)
(*                                                                         *)
(* A definition that nothing uses is a plausible fault of the one it stands  *)
(* before; PROJECT.json names the property that notices each of them.        *)
(***************************************************************************)
EXTENDS JobTable, FiniteSets, Naturals

CONSTANTS
    Procs,           \* the processes that run jobs: the API and the worker
    Reclaimers,      \* those that also reclaim periodically (the worker)
    PoolSize,        \* threads of the executor of a process
    Results,         \* the outcomes handlers have in an instance
    MaxStops,        \* bound on shutdowns and crashes in a behaviour
    MaxDrops         \* bound on lost lock connections in a behaviour

ASSUME ReclaimersAssumption == Reclaimers \subseteq Procs
ASSUME ProcsAssumption == Procs \cap {"free", "runner", "none"} = {}
ASSUME JobsAssumption == "none" \notin Jobs
ASSUME NoneTypeAssumption == "none" \notin Types
ASSUME BoundsAssumption == PoolSize \in Nat /\ MaxStops \in Nat /\ MaxDrops \in Nat

VARIABLES
    aged,      \* the pending rows older than the sixty-second grace
    creator,   \* creator[p]: how far create_job and schedule_job are in p
    typeLock,  \* typeLock[t]: who holds pg_advisory_xact_lock of type t
    pc,        \* pc[i]: where the thread that runs i is, "none" if there is none
    home,      \* home[i]: the process whose executor that thread is in
    outcome,   \* outcome[i]: final_status, between handler and finalization
    runLock,   \* runLock[i]: "free", "runner", or the process reclaiming i
    lost,      \* jobs whose lock connection broke under a live thread
    active,    \* active[p]: _active_job_ids of p
    up,        \* up[p]: the life of process p
    snapshot,  \* snapshot[p]: the ids its shutdown is going to cancel
    stops,     \* shutdowns and crashes so far
    reclaimer  \* reclaimer[p]: how far a reclaim pass is in p

rowVars == <<status, req, aged>>
creationVars == <<creator, typeLock>>
threadVars == <<pc, home, outcome, runLock, lost, active>>
processVars == <<up, snapshot, stops>>
others == <<creationVars, processVars, reclaimer>>
vars == <<rowVars, threadVars, others>>

NoOne == "none"

\* Where a thread is between taking and giving up the run lock.
Holding == {"locked", "claiming", "claimed", "executing", "finalizing", "leaving"}
\* Where a thread is while its process knows it as an active owner.
Owning == {"claiming", "claimed", "executing", "finalizing"}
\* Where work is lost if the process dies.
Alive == {"queued"} \cup Holding

IdleCreator == [pc |-> "idle", req |-> NoReq, job |-> NoOne]
IdleReclaimer == [pc |-> "idle", pass |-> "orphan", todo |-> {}, job |-> NoOne]

\* The process can execute Python: it is not dead and not still starting.
Lives(p) == up[p] \in {"up", "cancelling", "draining"}

Init ==
    /\ TableInit
    /\ aged = {}
    /\ creator = [p \in Procs |-> IdleCreator]
    /\ typeLock = [t \in Types |-> "free"]
    /\ pc = [i \in Jobs |-> "none"]
    /\ home = [i \in Jobs |-> NoOne]
    /\ outcome = [i \in Jobs |-> "none"]
    /\ runLock = [i \in Jobs |-> "free"]
    /\ lost = {}
    /\ active = [p \in Procs |-> {}]
    /\ up = [p \in Procs |-> "up"]
    /\ snapshot = [p \in Procs |-> {}]
    /\ stops = 0
    /\ reclaimer = [p \in Procs |-> IdleReclaimer]

-----------------------------------------------------------------------------
(* create_job and schedule_job.                                             *)

\* Requests and ticks come while p is up; a draining process still creates
\* jobs from the handlers it is finishing.
MayCreate(p) ==
    \/ up[p] = "up"
    \/ Lives(p) /\ \E i \in Jobs : home[i] = p /\ pc[i] = "executing"

TypeLockFree(r) == typeLock[r.type] = "free"

\* create_job up to its check: the type lock is held until the transaction
\* ends.  A conflict raises and ends it at once, which changes nothing.
BeginCreate(p, r) ==
    /\ MayCreate(p)
    /\ creator[p].pc = "idle"
    /\ TypeLockFree(r)
    /\ SlotFree(r)
    /\ typeLock' = [typeLock EXCEPT ![r.type] = p]
    /\ creator' = [creator EXCEPT ![p] = [pc |-> "checked", req |-> r, job |-> NoOne]]
    /\ UNCHANGED <<rowVars, threadVars, processVars, reclaimer>>

\* The insert is committed; the commit gives up the type lock.
CommitCreate(p, i) ==
    /\ creator[p].pc = "checked"
    /\ status[i] = "none"
    /\ status' = [status EXCEPT ![i] = "pending"]
    /\ req' = [req EXCEPT ![i] = creator[p].req]
    /\ typeLock' = [typeLock EXCEPT ![creator[p].req.type] = "free"]
    /\ creator' = [creator EXCEPT ![p] = [pc |-> "created", req |-> NoReq, job |-> i]]
    /\ UNCHANGED <<aged, threadVars, processVars, reclaimer>>

\* The insert or its commit fails: rollback.
AbortCreate(p) ==
    /\ creator[p].pc = "checked"
    /\ typeLock' = [typeLock EXCEPT ![creator[p].req.type] = "free"]
    /\ creator' = [creator EXCEPT ![p] = IdleCreator]
    /\ UNCHANGED <<rowVars, threadVars, processVars, reclaimer>>

\* schedule_job: the executor accepts the job.
Schedule(p) ==
    /\ creator[p].pc = "created"
    /\ pc' = [pc EXCEPT ![creator[p].job] = "queued"]
    /\ home' = [home EXCEPT ![creator[p].job] = p]
    /\ creator' = [creator EXCEPT ![p] = IdleCreator]
    /\ UNCHANGED <<rowVars, typeLock, outcome, runLock, lost, active,
                   processVars, reclaimer>>

\* The executor refuses it: the pipeline and the automatic encoder mark their
\* hash job failed, every other caller leaves the row pending.
ScheduleFails(p) ==
    /\ creator[p].pc = "created"
    /\ \/ /\ req[creator[p].job].type \in ConcurrentTypes
          /\ status' = [status EXCEPT ![creator[p].job] = "failed"]
       \/ UNCHANGED status
    /\ creator' = [creator EXCEPT ![p] = IdleCreator]
    /\ UNCHANGED <<req, aged, typeLock, threadVars, processVars, reclaimer>>

\* Sixty seconds pass over a pending row; the grace is longer than the time
\* between the commit of create_job and the call of schedule_job.
Age(i) ==
    /\ status[i] = "pending"
    /\ i \notin aged
    /\ \A p \in Procs : creator[p].job # i
    /\ aged' = aged \cup {i}
    /\ UNCHANGED <<status, req, threadVars, others>>

-----------------------------------------------------------------------------
(* run_job, in a thread of the executor.                                    *)

Busy(p) == {i \in Jobs : home[i] = p /\ pc[i] \in Holding}

Goto(i, from, to) == pc[i] \in from /\ pc' = [pc EXCEPT ![i] = to]

\* pg_try_advisory_lock on the job id.
RunLockNotTried(i) == TRUE
RunLockFree(i) == runLock[i] = "free"

\* A pool thread takes i and its run lock.
TakeRunLock(i) ==
    /\ Goto(i, {"queued"}, "locked")
    /\ Cardinality(Busy(home[i])) < PoolSize
    /\ RunLockFree(i)
    /\ runLock' = [runLock EXCEPT ![i] = "runner"]
    /\ UNCHANGED <<rowVars, home, outcome, lost, active, others>>

\* The lock is held by a reclaimer, or the connection for it fails: the thread
\* returns and the row stays as it is.
RunLockRefused(i) ==
    /\ Goto(i, {"queued"}, "none")
    /\ Cardinality(Busy(home[i])) < PoolSize
    /\ home' = [home EXCEPT ![i] = NoOne]
    /\ UNCHANGED <<rowVars, outcome, runLock, lost, active, others>>

ClaimableAlways(i) == TRUE
Claimable(i) == status[i] = "pending"

RegisterNothing(i) == UNCHANGED active
Register(i) == active' = [active EXCEPT ![home[i]] = @ \cup {i}]

\* UPDATE ... WHERE status = 'pending', then the process-local registration:
\* both before the commit, so the row still reads "pending" to everybody else
\* and its row lock makes another UPDATE of it wait.
Claim(i) ==
    /\ Goto(i, {"locked"}, "claiming")
    /\ Claimable(i)
    /\ Register(i)
    /\ UNCHANGED <<rowVars, home, outcome, runLock, lost, others>>

\* The row is no longer pending, nothing to run; or the commit of the claim
\* fails and the row is pending again.
ClaimFails(i) ==
    /\ \/ Goto(i, {"locked"}, "leaving") /\ status[i] # "pending"
       \/ Goto(i, {"claiming"}, "leaving")
    /\ UNCHANGED <<rowVars, home, outcome, runLock, lost, active, others>>

CommitClaim(i) ==
    /\ Goto(i, {"claiming"}, "claimed")
    /\ status' = [status EXCEPT ![i] = "running"]
    /\ aged' = aged \ {i}
    /\ UNCHANGED <<req, home, outcome, runLock, lost, active, others>>

\* The row is read again before the handler is called.
StartHandler(i) ==
    /\ Goto(i, {"claimed"}, "executing")
    /\ status[i] \notin {"stopping", "cancelled"}
    /\ UNCHANGED <<rowVars, home, outcome, runLock, lost, active, others>>

\* The handler, or the check before it, sees the stop request or the
\* cancellation and raises JobStopRequested.
HandlerStops(i) ==
    /\ Goto(i, {"claimed", "executing"}, "finalizing")
    /\ status[i] \in {"stopping", "cancelled"}
    /\ outcome' = [outcome EXCEPT ![i] = "cancelled"]
    /\ UNCHANGED <<rowVars, home, runLock, lost, active, others>>

\* The handler returns, raises JobPartialFailure or raises anything else.
Outcomes == {"success", "partial", "failed"} \cap Results

HandlerEnds(i) ==
    /\ Goto(i, {"executing"}, "finalizing")
    /\ \E o \in Outcomes : outcome' = [outcome EXCEPT ![i] = o]
    /\ UNCHANGED <<rowVars, home, runLock, lost, active, others>>

\* A write deaf to a stop request.
FinalStatusDeaf(i) == IF Active(i) THEN outcome[i] ELSE status[i]

\* One UPDATE: a stop request turns any outcome into "cancelled", and a row
\* that is no longer active keeps what it has.
FinalStatus(i) ==
    CASE status[i] = "running"  -> outcome[i]
      [] status[i] = "stopping" -> "cancelled"
      [] OTHER                  -> status[i]

\* Or the database refuses it: the row stays active, without an owner.
Finalize(i) ==
    /\ Goto(i, {"finalizing"}, "leaving")
    /\ status' = [status EXCEPT ![i] = FinalStatus(i)] \/ UNCHANGED status
    /\ outcome' = [outcome EXCEPT ![i] = "none"]
    /\ UNCHANGED <<req, aged, home, runLock, lost, active, others>>

Unregister(i) == active' = [active EXCEPT ![home[i]] = @ \ {i}]

GiveUpRunLock(i) == runLock' = [runLock EXCEPT ![i] = IF @ = "runner" THEN "free" ELSE @]

\* The outer finally: forget the job, unlock, close the connection.
Leave(i) ==
    /\ Goto(i, {"leaving"}, "none")
    /\ Unregister(i)
    /\ GiveUpRunLock(i)
    /\ home' = [home EXCEPT ![i] = NoOne]
    /\ lost' = lost \ {i}
    /\ UNCHANGED <<rowVars, outcome, others>>

\* The dedicated connection breaks: PostgreSQL frees the lock, the thread
\* does not notice.
LoseRunLock(i) ==
    /\ runLock[i] = "runner"
    /\ Cardinality(lost) < MaxDrops
    /\ runLock' = [runLock EXCEPT ![i] = "free"]
    /\ lost' = lost \cup {i}
    /\ UNCHANGED <<rowVars, pc, home, outcome, active, others>>

\* The Stop button, in any process: UPDATE ... WHERE status = 'running'.
RequestStop(i) ==
    /\ status[i] = "running"
    /\ status' = [status EXCEPT ![i] = "stopping"]
    /\ UNCHANGED <<req, aged, threadVars, others>>

-----------------------------------------------------------------------------
(* Shutdown, crash, restart.                                                *)

\* shutdown_cancel_active_jobs, first half: copy the active set.  A reclaim
\* pass runs in the thread that shuts down, so none is under way.
ShutdownRead(p) ==
    /\ up[p] = "up"
    /\ reclaimer[p].pc = "idle"
    /\ stops < MaxStops
    /\ stops' = stops + 1
    /\ up' = [up EXCEPT ![p] = "cancelling"]
    /\ snapshot' = [snapshot EXCEPT ![p] = active[p]]
    /\ UNCHANGED <<rowVars, creationVars, threadVars, reclaimer>>

RowLocksIgnored(p) == TRUE
RowLocksFree(p) == \A i \in snapshot[p] : pc[i] # "claiming"

\* Second half: one UPDATE of the ids that are still active, which waits for
\* the row of a claim that is not committed yet.
ShutdownCancel(p) ==
    /\ up[p] = "cancelling"
    /\ RowLocksFree(p)
    /\ status' = [i \in Jobs |-> IF i \in snapshot[p] /\ Active(i)
                                 THEN "cancelled" ELSE status[i]]
    /\ aged' = aged \ snapshot[p]
    /\ up' = [up EXCEPT ![p] = "draining"]
    /\ UNCHANGED <<req, creationVars, threadVars, snapshot, stops, reclaimer>>

\* The interpreter joins the executor's threads, what is queued included.
Exit(p) ==
    /\ up[p] = "draining"
    /\ creator[p].pc = "idle"
    /\ \A i \in Jobs : home[i] # p
    /\ up' = [up EXCEPT ![p] = "down"]
    /\ snapshot' = [snapshot EXCEPT ![p] = {}]
    /\ UNCHANGED <<rowVars, creationVars, threadVars, stops, reclaimer>>

\* kill -9, or the end of the container's grace period: the threads are gone,
\* PostgreSQL rolls back what was open and frees every lock of the process.
Crash(p) ==
    /\ up[p] # "down"
    /\ stops < MaxStops
    /\ stops' = stops + 1
    /\ up' = [up EXCEPT ![p] = "down"]
    /\ snapshot' = [snapshot EXCEPT ![p] = {}]
    /\ active' = [active EXCEPT ![p] = {}]
    /\ pc' = [i \in Jobs |-> IF home[i] = p THEN "none" ELSE pc[i]]
    /\ home' = [i \in Jobs |-> IF home[i] = p THEN NoOne ELSE home[i]]
    /\ outcome' = [i \in Jobs |-> IF home[i] = p THEN "none" ELSE outcome[i]]
    /\ lost' = {i \in lost : home[i] # p}
    /\ runLock' = [i \in Jobs |->
                      IF runLock[i] = p \/ (home[i] = p /\ runLock[i] = "runner")
                      THEN "free" ELSE runLock[i]]
    /\ creator' = [creator EXCEPT ![p] = IdleCreator]
    /\ typeLock' = [t \in Types |-> IF typeLock[t] = p THEN "free" ELSE typeLock[t]]
    /\ reclaimer' = [reclaimer EXCEPT ![p] = IdleReclaimer]
    /\ UNCHANGED rowVars

-----------------------------------------------------------------------------
(* reclaim_orphan_jobs and then reclaim_stale_jobs.                         *)

Candidates == {i \in Jobs : Active(i)}

Scan(pass) == [pc |-> "scan", pass |-> pass, todo |-> Candidates, job |-> NoOne]

\* The container restarts: both passes run before the process serves anything.
Restart(p) ==
    /\ up[p] = "down"
    /\ up' = [up EXCEPT ![p] = "starting"]
    /\ reclaimer' = [reclaimer EXCEPT ![p] = Scan("orphan")]
    /\ UNCHANGED <<rowVars, creationVars, threadVars, snapshot, stops>>

\* The worker's schedule; with no candidate both passes return at once.
StartReclaim(p) ==
    /\ p \in Reclaimers
    /\ up[p] = "up"
    /\ reclaimer[p].pc = "idle"
    /\ Candidates # {}
    /\ reclaimer' = [reclaimer EXCEPT ![p] = Scan("orphan")]
    /\ UNCHANGED <<rowVars, creationVars, threadVars, processVars>>

\* The next candidate: its run lock is taken, or it is skipped.
ReclaimNext(p, i) ==
    LET left == reclaimer[p].todo \ {i} IN
    /\ reclaimer[p].pc = "scan"
    /\ i \in reclaimer[p].todo
    /\ IF RunLockFree(i)
       THEN /\ runLock' = [runLock EXCEPT ![i] = p]
            /\ reclaimer' = [reclaimer EXCEPT ![p] =
                                [reclaimer[p] EXCEPT !.pc = "locked", !.todo = left, !.job = i]]
       ELSE /\ reclaimer' = [reclaimer EXCEPT ![p] = [reclaimer[p] EXCEPT !.todo = left]]
            /\ UNCHANGED runLock
    /\ UNCHANGED <<rowVars, creationVars, pc, home, outcome, lost, active, processVars>>

\* The job asked to stop is not among the stale ones.
ReclaimableExceptStopping(i) ==
    status[i] = "running" \/ (status[i] = "pending" /\ i \in aged)

\* Whether a pass may cancel i when it reads the row again under the lock.  The
\* stale pass also asks for half an hour of silence, which may be over or not.
Reclaimable(i) == Active(i) /\ (status[i] = "pending" => i \in aged)

ReclaimUnlock(p) ==
    /\ runLock' = [runLock EXCEPT ![reclaimer[p].job] = "free"]
    /\ reclaimer' = [reclaimer EXCEPT ![p] =
                                [reclaimer[p] EXCEPT !.pc = "scan", !.job = NoOne]]
    /\ UNCHANGED <<pc, home, outcome, lost, active>>

\* The row is cancelled, committed, and only then is its run lock given up.  The
\* UPDATE waits for the row of a claim that is not committed yet.
ReclaimCancel(p) ==
    /\ reclaimer[p].pc = "locked"
    /\ Reclaimable(reclaimer[p].job)
    /\ pc[reclaimer[p].job] # "claiming"
    /\ status' = [status EXCEPT ![reclaimer[p].job] = "cancelled"]
    /\ aged' = aged \ {reclaimer[p].job}
    /\ ReclaimUnlock(p)
    /\ UNCHANGED <<req, creationVars, processVars>>

ReclaimSpare(p) ==
    /\ reclaimer[p].pc = "locked"
    /\ reclaimer[p].pass = "stale" \/ ~Reclaimable(reclaimer[p].job)
    /\ ReclaimUnlock(p)
    /\ UNCHANGED <<rowVars, creationVars, processVars>>

EndPass(p) ==
    /\ reclaimer[p].pc = "scan"
    /\ reclaimer[p].todo = {}
    /\ \/ /\ reclaimer[p].pass = "orphan"
          /\ reclaimer' = [reclaimer EXCEPT ![p] = Scan("stale")]
          /\ UNCHANGED up
       \/ /\ reclaimer[p].pass = "stale"
          /\ reclaimer' = [reclaimer EXCEPT ![p] = IdleReclaimer]
          /\ up' = [up EXCEPT ![p] = "up"]
    /\ UNCHANGED <<rowVars, creationVars, threadVars, snapshot, stops>>

-----------------------------------------------------------------------------
EndCreate(p) ==
    \/ \E i \in Jobs : CommitCreate(p, i)
    \/ AbortCreate(p)
    \/ Schedule(p)
    \/ ScheduleFails(p)

Creation(p) == EndCreate(p) \/ \E r \in Requests : BeginCreate(p, r)

Thread(i) ==
    \/ TakeRunLock(i) \/ RunLockRefused(i)
    \/ Claim(i) \/ ClaimFails(i) \/ CommitClaim(i)
    \/ StartHandler(i) \/ HandlerStops(i) \/ HandlerEnds(i)
    \/ Finalize(i) \/ Leave(i)

Reclaim(p) ==
    \/ StartReclaim(p)
    \/ \E i \in Jobs : ReclaimNext(p, i)
    \/ ReclaimCancel(p) \/ ReclaimSpare(p) \/ EndPass(p)

Process(p) ==
    \/ ShutdownRead(p) \/ ShutdownCancel(p) \/ Exit(p) \/ Crash(p) \/ Restart(p)

Next ==
    \/ \E p \in Procs : Creation(p) \/ Reclaim(p) \/ Process(p)
    \/ \E i \in Jobs : Thread(i) \/ LoseRunLock(i) \/ RequestStop(i) \/ Age(i)

Spec == Init /\ [][Next]_vars

\* Threads, transactions and reclaim passes are scheduled, handlers return,
\* time passes, a shutdown goes through and docker restarts what is down
\* (restart: unless-stopped).  Nobody has to create jobs, stop, crash or drop.
Fairness ==
    /\ \A i \in Jobs : WF_vars(Thread(i)) /\ WF_vars(Age(i))
    /\ \A p \in Procs :
          /\ WF_vars(EndCreate(p)) /\ WF_vars(Reclaim(p))
          /\ WF_vars(ShutdownCancel(p)) /\ WF_vars(Exit(p)) /\ WF_vars(Restart(p))

FairSpec == Spec /\ Fairness

-----------------------------------------------------------------------------
CreatorState ==
    [pc : {"idle", "checked", "created"},
     req : Requests \cup {NoReq}, job : Jobs \cup {NoOne}]

ReclaimerState ==
    [pc : {"idle", "scan", "locked"}, pass : {"orphan", "stale"},
     todo : SUBSET Jobs, job : Jobs \cup {NoOne}]

\* Every variable holds what its comment says.
TypeOK ==
    /\ status \in [Jobs -> Status]
    /\ req \in [Jobs -> Requests \cup {NoReq}]
    /\ aged \subseteq Jobs
    /\ creator \in [Procs -> CreatorState]
    /\ typeLock \in [Types -> {"free"} \cup Procs]
    /\ pc \in [Jobs -> {"none"} \cup Alive]
    /\ home \in [Jobs -> {NoOne} \cup Procs]
    /\ outcome \in [Jobs -> {"none"} \cup TerminalStatus]
    /\ runLock \in [Jobs -> {"free", "runner"} \cup Procs]
    /\ lost \subseteq Jobs
    /\ active \in [Procs -> SUBSET Jobs]
    /\ up \in [Procs -> {"up", "cancelling", "draining", "down", "starting"}]
    /\ snapshot \in [Procs -> SUBSET Jobs]
    /\ stops \in Nat
    /\ reclaimer \in [Procs -> ReclaimerState]

\* create_job: two jobs that occupy one slot (a type, or a type and a key) are
\* never active together, whichever processes create them.
OneActivePerSlot ==
    \A i, j \in Jobs :
        i # j /\ Active(i) /\ Active(j) => ~Conflict(req[i], req[j])

\* run_job and reclaim: a handler is running, in a process that has not begun
\* to cancel its jobs and with its lock connection intact, only for a row that
\* is still active; with OneActivePerSlot, the slot is exclusive to it.
HandlerOwnsSlot ==
    \A i \in Jobs :
        pc[i] = "executing" /\ up[home[i]] \in {"up", "cancelling"} /\ i \notin lost
            => Active(i)

\* Two handlers of one slot overlap only after a shutdown cancelled one that
\* still runs, or after a lost lock connection.
OneHandlerPerSlot ==
    \A i, j \in Jobs :
        /\ i # j /\ pc[i] = "executing" /\ pc[j] = "executing"
        /\ Conflict(req[i], req[j])
        => \E k \in {i, j} : k \in lost \/ up[home[k]] = "draining"

\* shutdown_cancel_active_jobs: what the process owned when its shutdown read
\* the active set, a claim not committed yet included, is finished or cancelled
\* once the shutdown went through, even if its thread still runs.
ShutdownSettles ==
    \A p \in Procs : up[p] = "draining" => \A i \in snapshot[p] : Terminal(i)

\* Every job published as running by a live thread is in the active set of its
\* process, where a shutdown will find it.
RunningIsRegistered ==
    \A i \in Jobs :
        pc[i] \in {"claimed", "executing", "finalizing"} => i \in active[home[i]]

-----------------------------------------------------------------------------
(* What the invariants above need to be inductive.                          *)

\* A creation under way holds the lock of its type until its row is inserted,
\* so the slot it found free stays free.
CheckedInv ==
    \A p \in Procs : creator[p].pc = "checked" =>
        /\ creator[p].req \in Requests
        /\ typeLock[creator[p].req.type] = p
        /\ SlotFree(creator[p].req)

\* The row a creation has inserted is fresh, and only its creator submits it.
CreatedInv ==
    \A p \in Procs :
        /\ creator[p].pc = "created" =>
              /\ creator[p].job \in Jobs
              /\ status[creator[p].job] = "pending"
              /\ pc[creator[p].job] = "none"
              /\ creator[p].job \notin aged
        /\ creator[p].pc # "created" => creator[p].job = NoOne
        /\ \A q \in Procs :
              creator[p].pc = "created" /\ creator[p].job = creator[q].job => p = q

RequestInv == \A i \in Jobs : Active(i) => req[i] \in Requests

\* The run lock of i is held by its thread exactly while the thread is between
\* taking and giving it up and has not lost it ...
RunnerLockInv ==
    \A i \in Jobs :
        /\ runLock[i] = "runner" <=> pc[i] \in Holding /\ i \notin lost
        /\ i \in lost => pc[i] \in Holding

\* ... and by the reclaimer that is looking at i.
ReclaimLockInv ==
    \A p \in Procs :
        /\ \A i \in Jobs :
              runLock[i] = p <=> reclaimer[p].pc = "locked" /\ reclaimer[p].job = i
        /\ reclaimer[p].pc = "locked" => reclaimer[p].job \in Jobs

\* Where a thread is tells what is known of its row and of its process.
ThreadInv ==
    \A i \in Jobs :
        /\ status[i] = "none" => pc[i] = "none"
        /\ pc[i] = "none" <=> home[i] = NoOne
        /\ pc[i] \in Owning => i \in active[home[i]]
        /\ pc[i] = "claiming" => status[i] = "pending"
        /\ pc[i] \in {"claimed", "executing", "finalizing"} =>
              /\ status[i] # "pending"
              /\ up[home[i]] \in {"up", "cancelling"} /\ i \notin lost => Active(i)
        /\ pc[i] = "finalizing" => outcome[i] \in TerminalStatus
        /\ i \in aged => status[i] = "pending"
        /\ \A p \in Procs : i \in active[p] =>
              home[i] = p /\ status[i] # "none" /\ pc[i] \in Owning \cup {"leaving"}

\* A process that is down or starting runs nothing; what a shutdown read is
\* its own and is never submitted again.
ProcessInv ==
    \A p \in Procs :
        /\ ~Lives(p) => (\A i \in Jobs : home[i] # p) /\ creator[p].pc = "idle"
        /\ reclaimer[p].pc # "idle" => up[p] \in {"up", "starting"}
        /\ \A i \in snapshot[p] :
              /\ home[i] \in {p, NoOne}
              /\ status[i] # "none"
              /\ \A q \in Procs : creator[q].job # i
              /\ up[p] = "draining" => Terminal(i)

\* The inductive invariant of JobRunner: all that the proofs keep step by step.
IInv ==
    /\ TypeOK
    /\ OneActivePerSlot
    /\ CheckedInv
    /\ CreatedInv
    /\ RequestInv
    /\ RunnerLockInv
    /\ ReclaimLockInv
    /\ ThreadInv
    /\ ProcessInv

-----------------------------------------------------------------------------
\* The CAS updates: no late handler, stop, reclaim or shutdown changes a
\* finished row.
TerminalIsFinal ==
    [][\A i \in Jobs : Terminal(i) => status'[i] = status[i]]_vars

\* request_stop: a job asked to stop ends up cancelled, whatever its handler
\* returns meanwhile.
StopWins ==
    [][\A i \in Jobs : status[i] = "stopping" => status'[i] \in {"stopping", "cancelled"}]_vars

\* Reclaim leaves alone every job whose thread lives: a job between its claim
\* and its finalization is cancelled by its own thread or by the shutdown of
\* its own process, as long as its lock connection holds.
LiveJobIsKept ==
    [][\A i \in Jobs :
         /\ pc[i] \in {"claiming", "claimed", "executing", "finalizing"}
         /\ i \notin lost
         /\ Active(i) /\ status'[i] = "cancelled"
         => pc'[i] = "leaving" \/ up[home[i]] = "cancelling"]_vars

\* The row was claimed, or put out of reach, and no thread is about to call its
\* handler.
Behind(i) == status[i] \notin {"none", "pending"} /\ pc[i] \notin {"claimed", "executing"}

\* run_job: a handler that returned, died with its process or was forestalled
\* is never called (again), in no process and after no restart.
HandlersRunOnce == [][\A i \in Jobs : Behind(i) => Behind(i)']_vars

\* What docs/design/job-execution.md:72 says of reclaim: it does not touch the
\* jobs of another live container, a job waiting in its executor included.
QueuedJobIsKept ==
    [][\A i \in Jobs :
         pc[i] = "queued" /\ up[home[i]] = "up" /\ Active(i) => status'[i] # "cancelled"]_vars

\* A slot is never blocked for ever: what is active is finished at last, after
\* any crash, refused schedule, failed claim or failed finalization.
Resolved == \A i \in Jobs : Active(i) ~> Terminal(i)

\* JobRunner implements the table's promise.
Table == TableSpec
=============================================================================
