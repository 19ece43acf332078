------------------------------ MODULE JobTable ------------------------------
(***************************************************************************)
(* What the jobs table promises to everybody who reads it: the API, the    *)
(* worker's schedules, the UI and the pipeline.  A row is created only if   *)
(* no active row occupies its slot, it starts at most once, a stop request  *)
(* can only end in "cancelled", and a finished row never changes again.     *)
(* JobRunner implements this; who takes each step, under which lock and     *)
(* after which failure, is hidden here.                                     *)
(***************************************************************************)
CONSTANTS
    Jobs,             \* job ids, each used by at most one row
    Types,            \* registered job types
    ConcurrentTypes,  \* types that run once per key instead of once per type
    Keys,             \* values of the key parameter (info_hash, release scope)
    NoKey             \* the key parameter is absent or blank

ASSUME ConcurrentTypesAssumption == ConcurrentTypes \subseteq Types
ASSUME NoKeyAssumption == NoKey \notin Keys

VARIABLES
    status,           \* status[i]: "none" until the row of i exists
    req               \* req[i]: what row i asks for

tableVars == <<status, req>>

ActiveStatus == {"pending", "running", "stopping"}
TerminalStatus == {"success", "partial", "failed", "cancelled"}
Status == {"none"} \cup ActiveStatus \cup TerminalStatus

\* The key is only looked at for the types that have one.
Requests == {r \in [type : Types, key : Keys \cup {NoKey}] :
                r.type \notin ConcurrentTypes => r.key = NoKey}

\* The request of a row that does not exist yet.
NoReq == [type |-> "none", key |-> NoKey]

\* Two requests that may not be active together.
Conflict(r1, r2) ==
    /\ r1.type = r2.type
    /\ r1.type \in ConcurrentTypes => r1.key # NoKey /\ r1.key = r2.key

Active(i) == status[i] \in ActiveStatus
Terminal(i) == status[i] \in TerminalStatus

\* As if a job asked to stop no longer occupied its slot.
SlotFreeDespiteStopping(r) ==
    \A i \in Jobs : status[i] \in {"pending", "running"} => ~Conflict(req[i], r)

SlotFree(r) == \A i \in Jobs : Active(i) => ~Conflict(req[i], r)

-----------------------------------------------------------------------------
TableInit ==
    /\ status = [i \in Jobs |-> "none"]
    /\ req = [i \in Jobs |-> NoReq]

CreateRow(i, r) ==
    /\ status[i] = "none"
    /\ SlotFree(r)
    /\ status' = [status EXCEPT ![i] = "pending"]
    /\ req' = [req EXCEPT ![i] = r]

Move(i, from, to) ==
    /\ status[i] \in from
    /\ \E s \in to : status' = [status EXCEPT ![i] = s]
    /\ UNCHANGED req

StartRow(i) == Move(i, {"pending"}, {"running"})
RejectRow(i) == Move(i, {"pending"}, {"failed"})
AskStop(i) == Move(i, {"running"}, {"stopping"})
Settle(i) == Move(i, {"running"}, TerminalStatus)

\* Several rows at once: a shutdown cancels all it owns in one statement.
CancelRows(S) ==
    /\ \A i \in S : Active(i)
    /\ status' = [i \in Jobs |-> IF i \in S THEN "cancelled" ELSE status[i]]
    /\ UNCHANGED req

TableNext ==
    \/ \E i \in Jobs, r \in Requests : CreateRow(i, r)
    \/ \E i \in Jobs : StartRow(i) \/ RejectRow(i) \/ AskStop(i) \/ Settle(i)
    \/ \E S \in SUBSET Jobs : CancelRows(S)

TableSpec == TableInit /\ [][TableNext]_tableVars
=============================================================================
