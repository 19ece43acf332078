------------------------------ MODULE Pipeline ------------------------------
(***************************************************************************)
(* The rows of one torrent on its way from the master qBittorrent to the    *)
(* slave: services/pipeline.py with the webhook of api/rest.py, the polls of *)
(* worker.py, the reconcile, retry and resume jobs, and the insertion by     *)
(* services/torrent_processor.py.  All of them may move the same row at the  *)
(* same time, and any of them may die between two steps.                     *)
(*                                                                         *)
(* A step is what happens between two calls to the outside (a qBittorrent,   *)
(* AniLibria), or between a commit and the next such call.  A session keeps  *)
(* the status it has loaded until it commits, and an assignment of that very *)
(* value writes nothing: "loaded" is what each session believes.             *)
(*                                                                         *)
(* A definition that nothing uses is a plausible fault of the one it stands  *)
(* before; PROJECT.json names the property that notices each of them.        *)
(***************************************************************************)
EXTENDS Naturals

CONSTANTS
    Workers,       \* the scheduled actors that take part
    Hooks,         \* webhook requests with role=master
    SlaveHooks,    \* webhook requests with role=slave
    MaxRow,        \* bound on rows inserted for the torrent
    MaxCrashes,    \* bound on actors that die at work
    MaxOutages,    \* bound on qBittorrent outages and lost answers
    MaxErrors,     \* bound on other exceptions
    MaxMoves       \* bound on what people do to the torrent outside

WorkerNames == {"sync", "poll_master", "poll_slave", "reconcile",
                "retry_master", "retry_slave", "resume"}

ASSUME WorkersAssumption == Workers \subseteq WorkerNames
ASSUME HooksAssumption ==
    Hooks \cap WorkerNames = {} /\ SlaveHooks \cap (WorkerNames \cup Hooks) = {}
ASSUME BoundsAssumption ==
    /\ MaxRow \in Nat /\ MaxCrashes \in Nat /\ MaxOutages \in Nat
    /\ MaxErrors \in Nat /\ MaxMoves \in Nat

Actors == Workers \cup Hooks \cup SlaveHooks
Retries == {"retry_master", "retry_slave"}
\* Those that run as jobs: their _add_log commits, and so expires what is loaded.
JobActors == {"sync", "reconcile", "resume"} \cup Retries
Rows == 1..MaxRow

Status == {"none", "discovered", "waiting_master", "master_added", "master_complete",
           "waiting_slave", "slave_added", "done", "failed", "cancelled"}
Expired == "expired"
\* What the error text of a row tells the selections: of a failed row, whether
\* it reads like a lost connection; of a cancelled one, whether the torrent was
\* missing in a qBittorrent or in the API.
ErrorKind == {"none", "connection", "other", "gone", "api"}
CopyState == {"missing", "in_progress", "complete"}
Clients == {"master", "slave"}
SlaveReached == {"slave_added", "done"}
ExcludedFromLatest == {"none", "failed", "cancelled"}
PC == {"idle", "connect", "down", "next", "askMaster", "askSlave", "api", "bytes",
       "complete", "claim", "auth", "add", "added", "hash", "promote", "hashResumed",
       "hashDone", "markDone", "deliver", "delivered", "seen"}

VARIABLES
    status, err,   \* status[r], err[r]: the columns of row r
    grace,         \* rows with an event of a resume in the last 15 minutes
    master, slave, \* the copy each client has, as torrents_info shows it
    up,            \* the clients that answer
    inApi,         \* AniLibria still has the torrent (and the archive its api_present)
    seen,          \* a seen_torrents row exists
    hashJob,       \* "none", or how far the last hash_torrent job of the hash is
    pc,            \* pc[a]: where actor a is
    row,           \* row[a]: the row a is at, 0 if none
    loop,          \* loop[a]: which of its lists a is in
    todo, recover, \* the rows a has listed and not taken yet
    loaded,        \* loaded[a][r]: the status a's session has loaded, or Expired
    crashes, outages, errors, moves,
    whole, byHand, offered, hashed, reported,   \* as in Handover
    removed        \* somebody has removed the torrent from a client or the API

rows == <<status, err, grace, reported>>
lists == <<row, loop, todo, recover>>
actorVars == <<pc, lists, loaded>>
budget == <<crashes, outages, errors, moves>>
outside == <<master, slave, up, inApi, seen, hashJob, whole, byHand, offered, hashed, removed>>
vars == <<rows, actorVars, budget, outside>>

NothingLoaded == [r \in Rows |-> Expired]

Init ==
    /\ status = [r \in Rows |-> "none"] /\ err = [r \in Rows |-> "none"]
    /\ grace = {}
    /\ master = "missing" /\ slave = "missing"
    /\ up = Clients
    /\ inApi = TRUE /\ seen = FALSE /\ hashJob = "none"
    /\ pc = [a \in Actors |-> "idle"]
    /\ row = [a \in Actors |-> 0]
    /\ loop = [a \in Actors |-> "todo"]
    /\ todo = [a \in Actors |-> {}] /\ recover = [a \in Actors |-> {}]
    /\ loaded = [a \in Actors |-> NothingLoaded]
    /\ crashes = 0 /\ outages = 0 /\ errors = 0 /\ moves = 0
    /\ whole = {} /\ byHand = FALSE
    /\ offered = FALSE /\ hashed = FALSE /\ reported = FALSE /\ removed = FALSE

-----------------------------------------------------------------------------
(* Sessions, and how an actor leaves the row it is at.                      *)

Goto(a, p) == pc' = [pc EXCEPT ![a] = p]
Forget(a) == loaded' = [loaded EXCEPT ![a] = NothingLoaded]
Load(a, r, s) == loaded' = [loaded EXCEPT ![a] = [loaded[a] EXCEPT ![r] = s]]
Believes(a, r) == IF loaded[a][r] = Expired THEN status[r] ELSE loaded[a][r]

\* mark_* and its commit, by a session that believes v: no status goes into the
\* UPDATE when v is the new one.  mark_waiting_* returns early in that case.
WriteOver(a, r, v, s, e) ==
    /\ status' = IF v = s THEN status ELSE [status EXCEPT ![r] = s]
    /\ err' = [err EXCEPT ![r] = e]
    /\ reported' = (reported \/ s = "done")
    /\ Forget(a)

Mark(a, s, e) ==
    WriteOver(a, row[a], Believes(a, row[a]), s, e) /\ UNCHANGED grace

\* mark_* with details.resume_cancelled.
MarkResumed(a, s) ==
    /\ WriteOver(a, row[a], Believes(a, row[a]), s, "none")
    /\ grace' = grace \cup {row[a]}

Leave(a) == Goto(a, "next") /\ UNCHANGED <<rows, loaded, lists>>
Settle(a, s, e) == Goto(a, "next") /\ Mark(a, s, e) /\ UNCHANGED lists

Fault == errors < MaxErrors /\ errors' = errors + 1 /\ UNCHANGED <<crashes, outages, moves>>
AnswerLost == outages < MaxOutages /\ outages' = outages + 1 /\ UNCHANGED <<crashes, errors, moves>>

Recovering(a) == a = "reconcile" /\ loop[a] = "recover"
Sweeping(a) == a = "poll_master" \/ (a = "reconcile" /\ loop[a] = "todo")

WaitingFor(a) == IF a = "retry_master" THEN "waiting_master" ELSE "waiting_slave"

\* Whoever caught an exception that should_wait_for_qb: the retries mark the
\* row and end their loop, all others leave the row as it is.
OnWait(a) ==
    \/ a \notin Retries /\ Leave(a)
    \/ /\ a = "retry_master" /\ loop[a] = "recover"
       /\ recover' = [recover EXCEPT ![a] = {}]
       /\ Goto(a, "next")
       /\ UNCHANGED <<rows, loaded, row, loop, todo>>
    \/ /\ a \in Retries /\ loop[a] = "todo"
       /\ Mark(a, WaitingFor(a), "none")
       /\ todo' = [todo EXCEPT ![a] = {}]
       /\ Goto(a, "next")
       /\ UNCHANGED <<row, loop, recover>>

\* Whoever caught another one, its session believing v.
OnErrorOver(a, v, e) ==
    \/ Recovering(a) /\ Leave(a)
    \/ /\ a = "resume"     \* the event of its failure counts as one of a resume
       /\ grace' = grace \cup {row[a]}
       /\ Goto(a, "next") /\ Forget(a)
       /\ UNCHANGED <<status, err, reported, lists>>
    \/ /\ a # "resume" /\ ~Recovering(a)
       /\ WriteOver(a, row[a], v, "failed", e)
       /\ Goto(a, "next")
       /\ UNCHANGED <<grace, lists>>

OnError(a) == \E e \in {"connection", "other"} : OnErrorOver(a, Believes(a, row[a]), e)

-----------------------------------------------------------------------------
(* How actors start.                                                        *)

Live == {r \in Rows : status[r] \notin ExcludedFromLatest}

\* get_latest_by_hash where it finds a row a webhook does not turn away.
Latest(r) == r \in Live /\ \A x \in Live : x <= r

\* Webhooks share the event loop of the API and give it up only while they
\* fetch the .torrent from AniLibria.
LoopFree(a) == \A b \in (Hooks \cup SlaveHooks) \ {a} : pc[b] \in {"idle", "bytes"}

HookBegins(a) ==
    /\ a \in Hooks /\ pc[a] = "idle" /\ LoopFree(a)
    /\ \E r \in Rows :
          /\ Latest(r)
          /\ \/ status[r] = "master_added" /\ Goto(a, "askMaster")
             \/ status[r] \in {"master_complete", "waiting_slave"} /\ Goto(a, "bytes")
          /\ row' = [row EXCEPT ![a] = r]
          /\ Load(a, r, status[r])
    /\ UNCHANGED <<rows, loop, todo, recover, budget, outside>>

SlaveHookBegins(a) ==
    /\ a \in SlaveHooks /\ pc[a] = "idle" /\ LoopFree(a)
    /\ \E r \in Rows :
          /\ Latest(r) /\ status[r] = "slave_added"
          /\ row' = [row EXCEPT ![a] = r]
          /\ Load(a, r, status[r])
    /\ Goto(a, "askSlave")
    /\ UNCHANGED <<rows, loop, todo, recover, budget, outside>>

ListedButSent(a) == {r \in Rows :
    \/ a = "poll_master" /\ status[r] = "master_added"
    \/ a = "reconcile" /\ status[r] \in {"master_added", "master_complete"}
    \/ a = "retry_master" /\ status[r] = "waiting_master"
    \/ a = "retry_slave" /\ status[r] = "waiting_slave"}

\* get_master_added_older_than (a row that is not old enough yet is one the
\* poll has not come for), get_slave_added_older_than,
\* get_pipelines_awaiting_slave, get_waiting_*_pipelines,
\* get_cancelled_resume_candidates.
Listed(a) == {r \in Rows :
    \/ a = "poll_master" /\ status[r] = "master_added"
    \/ a = "poll_slave" /\ status[r] = "slave_added"
    \/ a = "reconcile" /\ status[r] \in {"master_added", "master_complete"}
    \/ a = "retry_master" /\ status[r] = "waiting_master"
    \/ a = "retry_slave" /\ status[r] = "waiting_slave"
    \/ /\ a = "resume" /\ status[r] = "cancelled" /\ err[r] = "gone"
       /\ \A x \in Rows : status[x] = "cancelled" /\ err[x] = "gone" => x <= r}

RecoverableOther(a) == {r \in Rows :
    a \in {"reconcile", "retry_master"} /\ status[r] = "failed" /\ err[r] = "other"}

\* get_failed_qb_wait_pipelines.
Recoverable(a) == {r \in Rows :
    a \in {"reconcile", "retry_master"} /\ status[r] = "failed" /\ err[r] = "connection"}

\* A tick that finds nothing to do does nothing.
Begin(a) ==
    /\ a \in Workers /\ a # "sync" /\ pc[a] = "idle"
    /\ Listed(a) \cup Recoverable(a) # {}
    /\ todo' = [todo EXCEPT ![a] = Listed(a)]
    /\ recover' = [recover EXCEPT ![a] = Recoverable(a)]
    /\ loaded' = [loaded EXCEPT ![a] = [r \in Rows |->
          IF r \in Listed(a) \cup Recoverable(a) THEN status[r] ELSE Expired]]
    /\ Goto(a, IF a \in Retries THEN "connect" ELSE "next")
    /\ UNCHANGED <<rows, row, loop, budget, outside>>

\* test_qb_connection of a retry.
ClientOf(a) == IF a = "retry_master" THEN "master" ELSE "slave"

Connect(a) ==
    /\ pc[a] = "connect"
    /\ \/ ClientOf(a) \in up /\ Goto(a, "next") /\ UNCHANGED recover
       \/ /\ ClientOf(a) \notin up
          /\ Goto(a, "down")
          /\ recover' = [recover EXCEPT ![a] = {}]
    /\ UNCHANGED <<rows, row, loop, todo, loaded, budget, outside>>

\* It failed: every listed row is marked waiting, whatever it is by now.
MarkDown(a) ==
    /\ pc[a] = "down"
    /\ \E r \in todo[a] :
          /\ WriteOver(a, r, Believes(a, r), WaitingFor(a), "none")
          /\ todo' = [todo EXCEPT ![a] = todo[a] \ {r}]
    /\ UNCHANGED <<grace, pc, row, loop, recover, budget, outside>>

\* A list goes through its rows in some order, recovered ones first.
Take(a, r, which) ==
    /\ pc[a] = "next"
    /\ row' = [row EXCEPT ![a] = r]
    /\ loop' = [loop EXCEPT ![a] = which]
    /\ \/ /\ which = "recover" /\ r \in recover[a]
          /\ recover' = [recover EXCEPT ![a] = recover[a] \ {r}]
          /\ UNCHANGED todo
       \/ /\ which = "todo" /\ r \in todo[a] /\ recover[a] = {}
          /\ todo' = [todo EXCEPT ![a] = todo[a] \ {r}]
          /\ UNCHANGED recover
    /\ UNCHANGED <<rows, budget, outside>>

TakeForMaster(a, r, which) ==
    /\ \/ a \in {"poll_master", "reconcile"}
       \/ a = "retry_master" /\ which = "recover"
    /\ Take(a, r, which)
    /\ Load(a, r, Believes(a, r))
    /\ Goto(a, "askMaster")

\* torrent_still_in_api comes first for rows that wait.
TakeWaiting(a, r) ==
    /\ a \in Retries
    /\ Take(a, r, "todo")
    /\ Load(a, r, Believes(a, r))
    /\ Goto(a, "api")

\* process_slave_completion up to its call: the row is refreshed, and left
\* alone unless it is still slave_added.
TakeForSlave(a, r) ==
    /\ a = "poll_slave"
    /\ Take(a, r, "todo")
    /\ \/ status[r] = "slave_added" /\ Goto(a, "askSlave") /\ Load(a, r, status[r])
       \/ status[r] # "slave_added" /\ Goto(a, "next") /\ Forget(a)

\* resume_cancelled_from_qb does not look at its candidate again, only for another
\* active row (_other_active_pipeline).
Resumable(r) == Live \ {r} = {}

TakeCancelled(a, r) ==
    /\ a = "resume"
    /\ Take(a, r, "todo")
    /\ Load(a, r, Believes(a, r))
    /\ Goto(a, IF Resumable(r) THEN "askSlave" ELSE "next")

\* The handler returns, the session is closed.
Finish(a) ==
    /\ pc[a] \in {"next", "down"} /\ todo[a] = {} /\ recover[a] = {}
    /\ Goto(a, "idle")
    /\ row' = [row EXCEPT ![a] = 0]
    /\ loop' = [loop EXCEPT ![a] = "todo"]
    /\ Forget(a)
    /\ UNCHANGED <<rows, todo, recover, budget, outside>>

-----------------------------------------------------------------------------
(* classify_master_torrent and what each caller does with the answer.       *)

MasterWhole(a) ==
    \/ /\ a \in Hooks \cup {"retry_slave"} \/ Sweeping(a)
       /\ Goto(a, "bytes")
       /\ UNCHANGED <<rows, loaded, lists>>
    \/ /\ Recovering(a)
       /\ Mark(a, "master_added", "none")
       /\ todo' = [todo EXCEPT ![a] = todo[a] \cup {row[a]}]
       /\ Goto(a, "next")
       /\ UNCHANGED <<row, loop, recover>>
    \/ a = "retry_master" /\ Mark(a, "master_added", "none") /\ Goto(a, "bytes") /\ UNCHANGED lists
    \/ a = "resume" /\ MarkResumed(a, "master_added") /\ Goto(a, "bytes") /\ UNCHANGED lists

MasterPartialTrusted(a) ==
    \/ Sweeping(a) /\ Leave(a)
    \/ a \in Hooks \cup {"retry_slave"} /\ Goto(a, "bytes") /\ UNCHANGED <<rows, loaded, lists>>
    \/ (Recovering(a) \/ a = "retry_master") /\ Settle(a, "master_added", "none")
    \/ a = "resume" /\ MarkResumed(a, "master_added") /\ Goto(a, "next") /\ UNCHANGED lists

MasterPartial(a) ==
    \/ (a \in Hooks \/ Sweeping(a)) /\ Leave(a)
    \/ a = "retry_slave" /\ Goto(a, "bytes") /\ UNCHANGED <<rows, loaded, lists>>
    \/ (Recovering(a) \/ a = "retry_master") /\ Settle(a, "master_added", "none")
    \/ a = "resume" /\ MarkResumed(a, "master_added") /\ Goto(a, "next") /\ UNCHANGED lists

MasterMissingEven(a) ==
    \/ Sweeping(a) /\ row[a] \in grace /\ Leave(a)
    \/ Sweeping(a) /\ row[a] \notin grace /\ Settle(a, "cancelled", "gone")
    \/ (a \in Hooks \cup {"retry_slave"} \/ Recovering(a)) /\ Settle(a, "cancelled", "gone")
    \/ a = "resume" /\ Leave(a)
    \/ a = "retry_master" /\ Goto(a, "api") /\ UNCHANGED <<rows, loaded, lists>>

MasterMissing(a) ==
    \/ Sweeping(a) /\ row[a] \in grace /\ Leave(a)
    \/ Sweeping(a) /\ row[a] \notin grace /\ Settle(a, "cancelled", "gone")
    \/ a \in Hooks \cup {"retry_slave"} /\ Settle(a, "cancelled", "gone")
    \/ (Recovering(a) \/ a = "resume") /\ Leave(a)
    \/ a = "retry_master" /\ Goto(a, "api") /\ UNCHANGED <<rows, loaded, lists>>

AskMaster(a) ==
    /\ pc[a] = "askMaster"
    /\ \/ /\ "master" \in up
          /\ \/ master = "complete" /\ MasterWhole(a)
             \/ master = "in_progress" /\ MasterPartial(a)
             \/ master = "missing" /\ MasterMissing(a)
          /\ UNCHANGED budget
       \/ "master" \notin up /\ OnWait(a) /\ UNCHANGED budget
       \/ Fault /\ (IF a \in Hooks THEN Leave(a) ELSE OnError(a))
    /\ UNCHANGED outside

-----------------------------------------------------------------------------
(* classify_slave_torrent, asked by the poll, by the webhook and by resume. *)

SlaveWhole(a) ==
    \/ a # "resume" /\ Settle(a, "done", "none")
    \/ a = "resume" /\ MarkResumed(a, "slave_added") /\ Goto(a, "hashDone") /\ UNCHANGED lists

SlavePartialDone(a) ==
    \/ a # "resume" /\ Leave(a)
    \/ a = "resume" /\ MarkResumed(a, "slave_added") /\ Goto(a, "hashDone") /\ UNCHANGED lists

SlavePartial(a) ==
    \/ a # "resume" /\ Leave(a)
    \/ a = "resume" /\ MarkResumed(a, "slave_added") /\ Goto(a, "hashResumed") /\ UNCHANGED lists

SlaveMissing(a) ==
    \/ a \in SlaveHooks /\ Leave(a)
    \/ a = "poll_slave" /\ row[a] \in grace /\ Leave(a)
    \/ a = "poll_slave" /\ row[a] \notin grace /\ Settle(a, "cancelled", "gone")
    \/ a = "resume" /\ Goto(a, "askMaster") /\ UNCHANGED <<rows, loaded, lists>>

\* Resume takes an exception for a missing copy.
NoAnswer(a) ==
    \/ a # "resume" /\ Leave(a)
    \/ a = "resume" /\ Goto(a, "askMaster") /\ UNCHANGED <<rows, loaded, lists>>

AskSlave(a) ==
    /\ pc[a] = "askSlave"
    /\ \/ /\ "slave" \in up
          /\ \/ slave = "complete" /\ SlaveWhole(a)
             \/ slave = "in_progress" /\ SlavePartial(a)
             \/ slave = "missing" /\ SlaveMissing(a)
          /\ UNCHANGED budget
       \/ "slave" \notin up /\ NoAnswer(a) /\ UNCHANGED budget
       \/ Fault /\ (IF a = "poll_slave" THEN OnError(a) ELSE NoAnswer(a))
    /\ UNCHANGED outside

-----------------------------------------------------------------------------
(* The .torrent itself, and process_completion.                             *)

\* load_torrent_bytes_*: the archive, then AniLibria, whose failure may look
\* like that of a qBittorrent.
Bytes(a) ==
    /\ pc[a] = "bytes"
    /\ a \in Hooks => LoopFree(a)
    /\ \/ Goto(a, "complete") /\ UNCHANGED <<rows, loaded, lists, budget>>
       \/ Fault /\ (OnWait(a) \/ OnError(a))
    /\ UNCHANGED outside

\* What a caller does with the row process_completion returned: only the retry
\* of waiting_slave looks at it.
Conclude(a, s) ==
    \/ (a # "retry_slave" \/ s \in SlaveReached) /\ Leave(a)
    \/ /\ a = "retry_slave" /\ s = "waiting_slave"
       /\ todo' = [todo EXCEPT ![a] = {}]
       /\ Goto(a, "next")
       /\ UNCHANGED <<rows, loaded, row, loop, recover>>
    \/ a = "retry_slave" /\ s \notin SlaveReached \cup {"waiting_slave"}
       /\ OnErrorOver(a, s, "other")

\* The status it has refreshed decides; a row elsewhere raises.
Dispatch(a, s) ==
    \/ s = "slave_added" /\ Goto(a, "hash") /\ Forget(a) /\ UNCHANGED <<rows, lists>>
    \/ /\ s \in {"master_complete", "waiting_slave"}
       /\ Goto(a, "auth") /\ Load(a, row[a], s)
       /\ UNCHANGED <<rows, lists>>
    \/ /\ s \notin {"slave_added", "done", "master_complete", "waiting_slave", "master_added"}
       /\ OnErrorOver(a, s, "other")

Complete(a) ==
    /\ pc[a] = "complete"
    /\ LET s == status[row[a]] IN
       \/ Dispatch(a, s)
       \/ s = "done" /\ Leave(a)
       \/ s = "master_added" /\ Goto(a, "claim") /\ Load(a, row[a], s) /\ UNCHANGED <<rows, lists>>
    /\ UNCHANGED <<budget, outside>>

\* _claim_master_complete: the conditional UPDATE, and the refresh when it
\* matched nothing.
Claim(a) ==
    /\ pc[a] = "claim"
    /\ LET s == status[row[a]] IN
       \/ /\ s = "master_added"
          /\ status' = [status EXCEPT ![row[a]] = "master_complete"]
          /\ err' = [err EXCEPT ![row[a]] = "none"]
          /\ Forget(a) /\ Goto(a, "auth")
          /\ UNCHANGED <<grace, reported, lists>>
       \/ Dispatch(a, s)
       \/ s = "done" /\ Goto(a, "hash") /\ Forget(a) /\ UNCHANGED <<rows, lists>>
    /\ UNCHANGED <<budget, outside>>

\* _add_to_slave up to its request: the row is loaded again once the client
\* has accepted the login.
Auth(a) ==
    /\ pc[a] = "auth"
    /\ \/ "slave" \notin up /\ Goto(a, "hash") /\ Mark(a, "waiting_slave", "none") /\ UNCHANGED <<lists, budget>>
       \/ /\ "slave" \in up
          /\ Goto(a, "add") /\ Load(a, row[a], Believes(a, row[a]))
          /\ UNCHANGED <<rows, lists, budget>>
       \/ Fault /\ (\E e \in {"connection", "other"} : OnErrorOver(a, status[row[a]], e))
    /\ UNCHANGED outside

\* qb_add_torrent takes effect; a torrent the slave has is a Conflict.
SlaveTakes ==
    /\ slave' = IF slave = "missing" THEN "in_progress" ELSE slave
    /\ offered' = TRUE

\* The answer may be lost after the effect, and a later call may fail.
Add(a) ==
    /\ pc[a] = "add"
    /\ \/ /\ "slave" \in up /\ SlaveTakes
          /\ \/ /\ Goto(a, "added")
                /\ IF a \in JobActors THEN Forget(a) ELSE UNCHANGED loaded
                /\ UNCHANGED <<rows, lists, budget>>
             \/ AnswerLost /\ Goto(a, "hash") /\ Mark(a, "waiting_slave", "none") /\ UNCHANGED lists
             \/ Fault /\ (\E e \in {"connection", "other"} : OnErrorOver(a, status[row[a]], e))
       \/ /\ "slave" \notin up
          /\ Goto(a, "hash") /\ Mark(a, "waiting_slave", "none")
          /\ UNCHANGED <<lists, budget, slave, offered>>
    /\ UNCHANGED <<master, up, inApi, seen, hashJob, whole, byHand, hashed, removed>>

Added(a) ==
    /\ pc[a] = "added"
    /\ Goto(a, "hash") /\ Mark(a, "slave_added", "none")
    /\ UNCHANGED <<lists, budget, outside>>

\* _enqueue_hash_torrent: not for a torrent that left the API, not while a job
\* is queued or running or after one succeeded.  A failure is only an event.
HashKnown == hashJob \in {"active", "success"}

QueueHash ==
    \/ (~inApi \/ HashKnown) /\ UNCHANGED <<hashJob, hashed, budget>>
    \/ inApi /\ ~HashKnown /\ hashJob' = "active" /\ hashed' = TRUE /\ UNCHANGED budget
    \/ inApi /\ ~HashKnown /\ Fault /\ UNCHANGED <<hashJob, hashed>>

hashOutside == <<master, slave, up, inApi, seen, whole, byHand, offered, removed>>

\* _after_slave_add: whatever became of the add, the hash job is queued; then
\* a row that is slave_added now goes on to the question whether it is done.
Enqueue(a) ==
    /\ pc[a] = "hash"
    /\ QueueHash
    /\ LET s == status[row[a]] IN
       \/ s = "slave_added" /\ Goto(a, "promote") /\ Load(a, row[a], s) /\ UNCHANGED <<rows, lists>>
       \/ s # "slave_added" /\ Conclude(a, s)
    /\ UNCHANGED hashOutside

\* _maybe_promote_slave_complete: exceptions leave the row as it is.
Promote(a) ==
    /\ pc[a] = "promote"
    /\ \/ "slave" \in up /\ slave = "complete" /\ Settle(a, "done", "none")
       \/ ("slave" \notin up \/ slave # "complete") /\ Leave(a)
    /\ UNCHANGED <<budget, outside>>

\* The same for a row that resume found on the slave.
EnqueueResumed(a) ==
    /\ pc[a] \in {"hashResumed", "hashDone"}
    /\ QueueHash
    /\ Goto(a, IF pc[a] = "hashDone" THEN "markDone" ELSE "next")
    /\ UNCHANGED <<rows, loaded, lists, hashOutside>>

MarkDone(a) ==
    /\ pc[a] = "markDone"
    /\ MarkResumed(a, "done") /\ Goto(a, "next")
    /\ UNCHANGED <<lists, budget, outside>>

-----------------------------------------------------------------------------
(* waiting_master_retry towards the master, and the torrent processor.      *)

MasterTakes == master' = IF master = "missing" THEN "in_progress" ELSE master
besideMaster == <<slave, up, inApi, seen, hashJob, whole, byHand, offered, hashed, removed>>

\* torrent_still_in_api.
Api(a) ==
    /\ pc[a] = "api"
    /\ \/ /\ inApi
          /\ Goto(a, IF a = "retry_master" THEN "deliver" ELSE "askMaster")
          /\ UNCHANGED <<rows, loaded, lists, budget>>
       \/ ~inApi /\ Settle(a, "cancelled", "api") /\ UNCHANGED budget
       \/ Fault /\ (OnWait(a) \/ OnError(a))
    /\ UNCHANGED outside

\* An unavailable master: the row waits; a retry ends its loop.
MasterUnavailable(a) ==
    /\ Mark(a, "waiting_master", "none")
    /\ \/ a = "sync" /\ Goto(a, "seen") /\ UNCHANGED lists
       \/ /\ a = "retry_master"
          /\ Goto(a, "next")
          /\ IF loop[a] = "todo"
             THEN todo' = [todo EXCEPT ![a] = {}] /\ UNCHANGED recover
             ELSE recover' = [recover EXCEPT ![a] = {}] /\ UNCHANGED todo
          /\ UNCHANGED <<row, loop>>

\* _add_pipeline_to_master, and the part of process_release after
\* create_discovered.
Deliver(a) ==
    /\ pc[a] = "deliver"
    /\ \/ /\ "master" \in up /\ MasterTakes
          /\ \/ Goto(a, "delivered") /\ UNCHANGED <<rows, loaded, lists, budget>>
             \/ AnswerLost /\ MasterUnavailable(a)
       \/ "master" \notin up /\ MasterUnavailable(a) /\ UNCHANGED <<budget, master>>
       \/ Fault /\ OnError(a) /\ (MasterTakes \/ UNCHANGED master)
    /\ UNCHANGED besideMaster

Delivered(a) ==
    /\ pc[a] = "delivered"
    /\ Goto(a, IF a = "sync" THEN "seen" ELSE "next")
    /\ Mark(a, "master_added", "none")
    /\ UNCHANGED <<lists, budget, outside>>

\* create_discovered, for a torrent without a seen_torrents row.
Discover(a) ==
    /\ a = "sync" /\ a \in Workers /\ pc[a] = "idle"
    /\ ~seen /\ inApi
    /\ \E r \in Rows :
          /\ status[r] = "none" /\ \A x \in Rows : x < r => status[x] # "none"
          /\ status' = [status EXCEPT ![r] = "discovered"]
          /\ row' = [row EXCEPT ![a] = r]
    /\ Goto(a, "deliver")
    /\ UNCHANGED <<err, grace, reported, loop, todo, recover, loaded, budget, outside>>

\* _mark_seen, last; what fails before it fails the row.
MarkSeen(a) ==
    /\ pc[a] = "seen"
    /\ \/ seen' = TRUE /\ Leave(a) /\ UNCHANGED budget
       \/ Fault /\ OnError(a) /\ UNCHANGED seen
    /\ UNCHANGED <<master, slave, up, inApi, hashJob, whole, byHand, offered, hashed, removed>>

-----------------------------------------------------------------------------
(* What happens outside.                                                    *)

Calm == UNCHANGED <<rows, actorVars>>
Moved == moves < MaxMoves /\ moves' = moves + 1 /\ UNCHANGED <<crashes, outages, errors>>

\* An actor dies at work: its thread or its process is killed, or its job is
\* stopped between two rows.  A new one starts from what is committed.
Crash(a) ==
    /\ pc[a] # "idle"
    /\ crashes < MaxCrashes /\ crashes' = crashes + 1
    /\ Goto(a, "idle")
    /\ row' = [row EXCEPT ![a] = 0]
    /\ loop' = [loop EXCEPT ![a] = "todo"]
    /\ todo' = [todo EXCEPT ![a] = {}]
    /\ recover' = [recover EXCEPT ![a] = {}]
    /\ Forget(a)
    /\ UNCHANGED <<rows, outages, errors, moves, outside>>

\* A copy is completed.
Download ==
    /\ \/ /\ master = "in_progress" /\ master' = "complete"
          /\ whole' = whole \cup {"master"} /\ UNCHANGED slave
       \/ /\ slave = "in_progress" /\ slave' = "complete"
          /\ whole' = whole \cup {"slave"} /\ UNCHANGED master
    /\ Calm
    /\ UNCHANGED <<budget, up, inApi, seen, hashJob, byHand, offered, hashed, removed>>

\* People remove a copy or put one into a client, AniLibria drops the torrent.
Remove ==
    /\ Moved /\ Calm /\ removed' = TRUE
    /\ \/ master # "missing" /\ master' = "missing" /\ UNCHANGED <<slave, inApi>>
       \/ slave # "missing" /\ slave' = "missing" /\ UNCHANGED <<master, inApi>>
       \/ inApi /\ inApi' = FALSE /\ UNCHANGED <<master, slave>>
    /\ UNCHANGED <<up, seen, hashJob, whole, byHand, offered, hashed>>

PutBack ==
    /\ Moved /\ Calm
    /\ \/ master = "missing" /\ master' = "in_progress" /\ UNCHANGED <<slave, byHand>>
       \/ slave = "missing" /\ slave' = "in_progress" /\ byHand' = TRUE /\ UNCHANGED master
    /\ UNCHANGED <<up, inApi, seen, hashJob, whole, offered, hashed, removed>>

GoDown(q) ==
    /\ q \in up /\ AnswerLost /\ Calm
    /\ up' = up \ {q}
    /\ UNCHANGED <<master, slave, inApi, seen, hashJob, whole, byHand, offered, hashed, removed>>

ComeUp(q) ==
    /\ q \notin up /\ Calm
    /\ up' = up \cup {q}
    /\ UNCHANGED <<budget, master, slave, inApi, seen, hashJob, whole, byHand, offered, hashed, removed>>

\* The hash job ends, well or not (see JobRunner).
HashEnds ==
    /\ hashJob = "active" /\ Calm
    /\ \/ hashJob' = "success" /\ UNCHANGED budget
       \/ hashJob' = "failed" /\ Fault
    /\ UNCHANGED <<hashed, hashOutside>>

\* Fifteen minutes after a resume.
GraceEnds(r) ==
    /\ r \in grace
    /\ grace' = grace \ {r}
    /\ UNCHANGED <<status, err, reported, actorVars, budget, outside>>

-----------------------------------------------------------------------------

Takes(a) == \E r \in Rows :
    \/ TakeWaiting(a, r) \/ TakeForSlave(a, r) \/ TakeCancelled(a, r)
    \/ \E which \in {"todo", "recover"} : TakeForMaster(a, r, which)

\* Everything an actor does once it has started.
Work(a) ==
    \/ Connect(a) \/ MarkDown(a) \/ Takes(a) \/ Finish(a)
    \/ AskMaster(a) \/ AskSlave(a) \/ Bytes(a) \/ Complete(a) \/ Claim(a)
    \/ Auth(a) \/ Add(a) \/ Added(a) \/ Enqueue(a) \/ Promote(a)
    \/ EnqueueResumed(a) \/ MarkDone(a)
    \/ Api(a) \/ Deliver(a) \/ Delivered(a) \/ MarkSeen(a)

Start(a) == HookBegins(a) \/ SlaveHookBegins(a) \/ Begin(a) \/ Discover(a)

Next ==
    \/ \E a \in Actors : Start(a) \/ Work(a) \/ Crash(a)
    \/ Download \/ Remove \/ PutBack \/ HashEnds
    \/ \E q \in Clients : GoDown(q) \/ ComeUp(q)
    \/ \E r \in Rows : GraceEnds(r)

Spec == Init /\ [][Next]_vars

\* Threads run, schedules tick, outages end, downloads and jobs come to their
\* end.  Webhooks may never be sent and nobody has to press resume.
Fairness ==
    /\ \A a \in Actors : WF_vars(Work(a))
    /\ \A a \in Workers \ {"resume"} : WF_vars(Begin(a) \/ Discover(a))
    /\ WF_vars(Download) /\ WF_vars(HashEnds)
    /\ \A q \in Clients : WF_vars(ComeUp(q))
    /\ \A r \in Rows : WF_vars(GraceEnds(r))

FairSpec == Spec /\ Fairness

-----------------------------------------------------------------------------
(* Properties.                                                              *)

\* Every variable holds what the columns, the clients and the sessions can hold.
TypeOK ==
    /\ status \in [Rows -> Status] /\ err \in [Rows -> ErrorKind] /\ grace \subseteq Rows
    /\ master \in CopyState /\ slave \in CopyState /\ up \subseteq Clients
    /\ inApi \in BOOLEAN /\ seen \in BOOLEAN
    /\ hashJob \in {"none", "active", "success", "failed"}
    /\ pc \in [Actors -> PC]
    /\ row \in [Actors -> 0..MaxRow]
    /\ loop \in [Actors -> {"todo", "recover"}]
    /\ todo \in [Actors -> SUBSET Rows] /\ recover \in [Actors -> SUBSET Rows]
    /\ loaded \in [Actors -> [Rows -> Status \cup {Expired}]]
    /\ crashes \in 0..MaxCrashes /\ outages \in 0..MaxOutages
    /\ errors \in 0..MaxErrors /\ moves \in 0..MaxMoves
    /\ whole \subseteq Clients
    /\ byHand \in BOOLEAN /\ offered \in BOOLEAN /\ hashed \in BOOLEAN
    /\ reported \in BOOLEAN /\ removed \in BOOLEAN

\* The pipeline keeps the promise of Handover: whichever actors race over a
\* row, and however stale what they have loaded is, process_completion gives
\* the slave nothing the master has not had whole, hashes nothing before, and
\* mark_done is never reached before the slave has had it whole.
H == INSTANCE Handover
KeepsPromise == H!HandoverSpec

\* What keeps the promise from one step to the next: what a copy, a stage and
\* the place of an actor each say about who has had the torrent whole.
HandedOn == "master" \in whole \/ byHand

CopyInv ==
    /\ master = "complete" => "master" \in whole
    /\ slave = "complete" => "slave" \in whole
    /\ slave # "missing" => HandedOn

StageFits(s) ==
    /\ s \in {"master_complete", "waiting_slave"} => "master" \in whole
    /\ s = "slave_added" => HandedOn
    /\ s = "done" => "slave" \in whole

StageInv == \A r \in Rows : StageFits(status[r])

PlaceFits(a, p, r) ==
    /\ p \notin {"idle", "connect", "down", "next"} => r \in Rows
    /\ p \in {"connect", "down"} => a \in Retries
    /\ p \in {"bytes", "complete", "claim", "auth", "add", "added"} => "master" \in whole
    /\ a = "retry_slave" /\ p # "idle" => "master" \in whole
    /\ p \in {"hash", "hashResumed", "hashDone"} => HandedOn
    /\ p \in {"hashDone", "markDone"} => "slave" \in whole

ActorInv == \A a \in Actors : PlaceFits(a, pc[a], row[a])

\* Stages, copies and actors agree on it in every reachable state, so that no
\* stale row lets process_completion or mark_done run ahead of the clients.
IInv == TypeOK /\ CopyInv /\ StageInv /\ ActorInv

\* As long as nobody removes the torrent from a client or from AniLibria, no
\* poll, reconcile, webhook or retry cancels a row of it, in no interleaving
\* of its insertion with their classification.
NoFalseCancel == ~removed => \A r \in Rows : status[r] # "cancelled"

\* A row that somebody works on: everything but rows only "discovered", which
\* no selection of pipeline.py looks for, and rows at an end.
Working(r) ==
    \/ status[r] \in {"waiting_master", "master_added", "master_complete",
                      "waiting_slave", "slave_added"}
    \/ status[r] = "failed" /\ err[r] = "connection"

\* Wherever an actor dies, whatever fails or disappears, and if no webhook ever
\* comes: polls, reconcile and retries bring every row that left "discovered"
\* to an end, and then it stays there.
Settles == \A r \in Rows : <>[]~Working(r)

\* A row that is done stays done: _TERMINAL_OK in pipeline.py calls it terminal.
DoneIsFinal == [][\A r \in Rows : status[r] = "done" => status'[r] = "done"]_status

\* After the add to the slave the files are hashed "at once", and "even on a
\* race" process_completion sees to it that the job is queued: a done row of a
\* torrent that stays in AniLibria has or gets its hash job.
HashFollows == (\E r \in Rows : status[r] = "done") ~> (hashJob # "none" \/ ~inApi)

\* After the add to the slave (_after_slave_add), unless a call raised, an actor
\* died or the torrent was removed: the hash job of a row that reached the slave
\* was queued, or somebody is on his way to queue it.
HashPlaces == {"hash", "hashResumed", "hashDone"}
HashPromised == hashed \/ \E a \in Actors : pc[a] \in HashPlaces
HashIsPromised ==
    crashes = 0 /\ errors = 0 /\ ~removed =>
        ((\E r \in Rows : status[r] \in SlaveReached) => HashPromised)

\* Outages, lost answers and crashes alone cost no torrent: unless a call raised
\* something else, some row of it is done in the end.
DoneAtLast == <>[](errors > 0 \/ \E r \in Rows : status[r] = "done")
=============================================================================
