--------------------------- MODULE PipelineProofs ---------------------------
(***************************************************************************)
(* Proofs about Pipeline, for any actors, rows and bounds: its variables     *)
(* keep their types, IInv is inductive, Pipeline implements Handover,        *)
(* nothing is cancelled as long as nothing is removed, and no hash job is     *)
(* forgotten as long as nothing disturbs the actors.                          *)
(*                                                                         *)
(* An action is a guard and one of the few ways to leave a row (Leave, Mark, *)
(* OnWait, OnError, ...).  A lemma for each of those says that it keeps      *)
(* what IInv says of rows and actors; the step of an action is then one line.*)
(***************************************************************************)
EXTENDS Pipeline, TLAPS

-----------------------------------------------------------------------------
(* The parts of the type invariant.                                         *)

RowsOK ==
    /\ status \in [Rows -> Status] /\ err \in [Rows -> ErrorKind]
    /\ grace \subseteq Rows /\ reported \in BOOLEAN

LoadedOK == loaded \in [Actors -> [Rows -> Status \cup {Expired}]]

ListsOK ==
    /\ row \in [Actors -> 0..MaxRow]
    /\ loop \in [Actors -> {"todo", "recover"}]
    /\ todo \in [Actors -> SUBSET Rows] /\ recover \in [Actors -> SUBSET Rows]

PlacesOK == pc \in [Actors -> PC]

BudgetOK ==
    /\ crashes \in 0..MaxCrashes /\ outages \in 0..MaxOutages
    /\ errors \in 0..MaxErrors /\ moves \in 0..MaxMoves

OutsideOK ==
    /\ master \in CopyState /\ slave \in CopyState /\ up \subseteq Clients
    /\ inApi \in BOOLEAN /\ seen \in BOOLEAN
    /\ hashJob \in {"none", "active", "success", "failed"}
    /\ whole \subseteq Clients
    /\ byHand \in BOOLEAN /\ offered \in BOOLEAN /\ hashed \in BOOLEAN
    /\ removed \in BOOLEAN

LEMMA TypeParts ==
    TypeOK <=> RowsOK /\ LoadedOK /\ ListsOK /\ PlacesOK /\ BudgetOK /\ OutsideOK
BY DEF TypeOK, RowsOK, LoadedOK, ListsOK, PlacesOK, BudgetOK, OutsideOK

LEMMA TypePartsNext ==
    TypeOK' <=> RowsOK' /\ LoadedOK' /\ ListsOK' /\ PlacesOK' /\ BudgetOK' /\ OutsideOK'
BY DEF TypeOK, RowsOK, LoadedOK, ListsOK, PlacesOK, BudgetOK, OutsideOK

\* What a step of an actor has to keep of rows and actors.
RowsInv == RowsOK /\ StageInv
PlacesInv == PlacesOK /\ ListsOK /\ ActorInv

\* A step may report the torrent only when the slave has had it.
MayReport == reported' = reported \/ (reported' = TRUE /\ "slave" \in whole)

-----------------------------------------------------------------------------
(* Writing a row and going on.                                              *)

\* A mark_* keeps rows and sessions sound when the new stage fits what the
\* clients have had, whatever stale status the session believes in.
LEMMA WriteOverSound ==
    ASSUME RowsInv, LoadedOK, NEW a \in Actors, NEW r, NEW v,
           NEW s \in Status, NEW e \in ErrorKind,
           WriteOver(a, r, v, s, e), StageFits(s),
           grace' \subseteq Rows, UNCHANGED <<whole, byHand>>
    PROVE  RowsInv' /\ LoadedOK' /\ MayReport /\ (s # "done" => reported' = reported)
<1>1. RowsOK'
  BY DEF RowsInv, RowsOK, WriteOver
<1>2. LoadedOK'
  BY DEF LoadedOK, WriteOver, Forget, NothingLoaded
<1>3. StageInv'
  <2> SUFFICES ASSUME NEW q \in Rows PROVE StageFits(status[q])'
    BY DEF StageInv
  <2>1. status'[q] = s \/ status'[q] = status[q]
    BY DEF RowsInv, RowsOK, WriteOver
  <2>2. StageFits(status[q])
    BY DEF RowsInv, StageInv
  <2> QED BY <2>1, <2>2 DEF StageFits, HandedOn
<1>4. s # "done" => reported' = reported
  BY DEF WriteOver, RowsInv, RowsOK
<1>5. MayReport
  BY <1>4, <1>1 DEF MayReport, WriteOver, StageFits
<1> QED BY <1>1, <1>2, <1>3, <1>4, <1>5 DEF RowsInv

LEMMA RowsUntouched ==
    ASSUME RowsInv, UNCHANGED <<rows, whole, byHand>>
    PROVE  RowsInv' /\ reported' = reported
BY DEF RowsInv, RowsOK, StageInv, StageFits, HandedOn, rows

\* Moving one actor is sound when the new place fits it.
LEMMA GotoSound ==
    ASSUME PlacesInv, NEW a \in Actors, NEW p \in PC, Goto(a, p),
           ListsOK', \A b \in Actors : b # a => row'[b] = row[b],
           PlaceFits(a, p, row'[a]), UNCHANGED <<whole, byHand>>
    PROVE  PlacesInv'
<1>1. PlacesOK'
  BY DEF PlacesInv, PlacesOK, Goto
<1>2. ActorInv'
  <2> SUFFICES ASSUME NEW b \in Actors PROVE PlaceFits(b, pc[b], row[b])'
    BY DEF ActorInv
  <2>1. CASE b = a
    <3>1. pc'[a] = p
      BY DEF Goto, PlacesInv, PlacesOK
    <3> QED BY <2>1, <3>1 DEF PlaceFits, HandedOn
  <2>2. CASE b # a
    <3>1. pc'[b] = pc[b] /\ row'[b] = row[b]
      BY <2>2 DEF Goto, PlacesInv, PlacesOK
    <3>2. PlaceFits(b, pc[b], row[b])
      BY DEF PlacesInv, ActorInv
    <3> QED BY <3>1, <3>2 DEF PlaceFits, HandedOn
  <2> QED BY <2>1, <2>2
<1> QED BY <1>1, <1>2 DEF PlacesInv

LEMMA GotoOnly ==
    ASSUME PlacesInv, NEW a \in Actors, NEW p \in PC, Goto(a, p),
           UNCHANGED lists, PlaceFits(a, p, row[a]), UNCHANGED <<whole, byHand>>
    PROVE  PlacesInv'
<1>1. ListsOK' /\ row' = row
  BY DEF PlacesInv, ListsOK, lists
<1> QED BY <1>1, GotoSound

\* The next row of the list is always a sound place for an actor at work.
LEMMA NextFits ==
    ASSUME PlacesInv, NEW a \in Actors, pc[a] # "idle", NEW r
    PROVE  PlaceFits(a, "next", r)
BY DEF PlacesInv, ActorInv, PlaceFits

\* Where a row is needed, there is one; and the retry of waiting_slave runs
\* only for a torrent the master has had.
LEMMA AtARow ==
    ASSUME PlacesInv, NEW a \in Actors, pc[a] \notin {"idle", "connect", "down", "next"}
    PROVE  row[a] \in Rows /\ (a = "retry_slave" => "master" \in whole)
BY DEF PlacesInv, ActorInv, PlaceFits

-----------------------------------------------------------------------------
(* The ways to leave a row.                                                 *)

\* An actor at work, in a step in which nothing happens to what the clients
\* have had; and what such a step keeps.
AtWork(a) ==
    /\ RowsInv /\ LoadedOK /\ PlacesInv
    /\ pc[a] # "idle"
    /\ UNCHANGED <<whole, byHand>>

AtRow(a) == AtWork(a) /\ pc[a] \notin {"connect", "down", "next"}

Kept == RowsInv' /\ LoadedOK' /\ PlacesInv' /\ MayReport

LEMMA GoingOn ==
    ASSUME NEW a \in Actors, AtWork(a), NEW p \in PC, Goto(a, p),
           ListsOK', UNCHANGED row, PlaceFits(a, p, row[a])
    PROVE  PlacesInv'
BY GotoSound DEF AtWork

LEMMA ToNext ==
    ASSUME NEW a \in Actors, AtWork(a), Goto(a, "next"), ListsOK', UNCHANGED row
    PROVE  PlacesInv'
<1>1. PlaceFits(a, "next", row[a])
  BY NextFits DEF AtWork
<1>2. "next" \in PC
  BY DEF PC
<1> QED BY <1>1, <1>2, GoingOn

LEMMA SameLists ==
    ASSUME PlacesInv, UNCHANGED lists
    PROVE  ListsOK' /\ UNCHANGED row
BY DEF PlacesInv, ListsOK, lists

LEMMA LeaveSound ==
    ASSUME NEW a \in Actors, AtWork(a), Leave(a)
    PROVE  Kept /\ reported' = reported
<1>1. RowsInv' /\ reported' = reported
  BY RowsUntouched DEF Leave, AtWork
<1>2. LoadedOK'
  BY DEF Leave, AtWork, LoadedOK
<1>3. PlacesInv'
  BY ToNext, SameLists DEF Leave, AtWork
<1> QED BY <1>1, <1>2, <1>3 DEF Kept, MayReport

\* An unchanged row and session, another place.
LEMMA StaySound ==
    ASSUME NEW a \in Actors, AtWork(a), NEW p \in PC, Goto(a, p),
           UNCHANGED <<rows, lists>>, LoadedOK', PlaceFits(a, p, row[a])
    PROVE  Kept /\ reported' = reported
<1>1. RowsInv' /\ reported' = reported
  BY RowsUntouched DEF AtWork
<1>2. PlacesInv'
  BY GoingOn, SameLists DEF AtWork
<1> QED BY <1>1, <1>2 DEF Kept, MayReport

LEMMA SessionTypes ==
    ASSUME LoadedOK, NEW a \in Actors
    PROVE  /\ UNCHANGED loaded => LoadedOK'
           /\ Forget(a) => LoadedOK'
           /\ \A r \in Rows, s \in Status : Load(a, r, s) => LoadedOK'
BY DEF LoadedOK, Forget, Load, NothingLoaded

LEMMA MarkSound ==
    ASSUME NEW a \in Actors, AtWork(a), NEW s \in Status, NEW e \in ErrorKind,
           Mark(a, s, e), StageFits(s),
           NEW p \in PC, Goto(a, p), ListsOK', UNCHANGED row, PlaceFits(a, p, row[a])
    PROVE  Kept /\ (s # "done" => reported' = reported)
<1>1. grace' \subseteq Rows
  BY DEF Mark, AtWork, RowsInv, RowsOK
<1>2. RowsInv' /\ LoadedOK' /\ MayReport /\ (s # "done" => reported' = reported)
  <2>1. WriteOver(a, row[a], Believes(a, row[a]), s, e)
    BY DEF Mark
  <2> QED BY <1>1, <2>1, WriteOverSound DEF AtWork
<1>3. PlacesInv'
  BY GoingOn
<1> QED BY <1>2, <1>3 DEF Kept

LEMMA MarkResumedSound ==
    ASSUME NEW a \in Actors, AtRow(a), NEW s \in Status,
           MarkResumed(a, s), StageFits(s),
           NEW p \in PC, Goto(a, p), UNCHANGED lists, PlaceFits(a, p, row[a])
    PROVE  Kept /\ (s # "done" => reported' = reported)
<1>1. grace' \subseteq Rows
  BY AtARow DEF MarkResumed, AtRow, AtWork, RowsInv, RowsOK
<1>2. RowsInv' /\ LoadedOK' /\ MayReport /\ (s # "done" => reported' = reported)
  <2>1. WriteOver(a, row[a], Believes(a, row[a]), s, "none") /\ "none" \in ErrorKind
    BY DEF MarkResumed, ErrorKind
  <2> QED BY <1>1, <2>1, WriteOverSound DEF AtRow, AtWork
<1>3. PlacesInv'
  BY GoingOn, SameLists DEF AtRow, AtWork
<1> QED BY <1>2, <1>3 DEF Kept

LEMMA SettleSound ==
    ASSUME NEW a \in Actors, AtWork(a), NEW s \in Status, NEW e \in ErrorKind,
           Settle(a, s, e), StageFits(s)
    PROVE  Kept /\ (s # "done" => reported' = reported)
<1>1. PlaceFits(a, "next", row[a]) /\ "next" \in PC
  BY NextFits DEF AtWork, PC
<1>2. ListsOK' /\ UNCHANGED row
  BY SameLists DEF Settle, AtWork
<1> QED BY <1>1, <1>2, MarkSound DEF Settle

\* Whoever meets an exception that should_wait_for_qb.
LEMMA OnWaitSound ==
    ASSUME NEW a \in Actors, AtRow(a), OnWait(a)
    PROVE  Kept /\ reported' = reported
<1> USE DEF AtRow
<1>1. CASE Leave(a)
  BY <1>1, LeaveSound
<1>2. CASE /\ recover' = [recover EXCEPT ![a] = {}]
           /\ Goto(a, "next")
           /\ UNCHANGED <<rows, loaded, row, loop, todo>>
  <2>1. ListsOK'
    BY <1>2 DEF AtWork, PlacesInv, ListsOK
  <2>2. PlacesInv'
    BY <1>2, <2>1, ToNext
  <2>3. RowsInv' /\ reported' = reported
    BY <1>2, RowsUntouched DEF AtWork
  <2>4. LoadedOK'
    BY <1>2, SessionTypes DEF AtWork
  <2> QED BY <2>2, <2>3, <2>4 DEF Kept, MayReport
<1>3. CASE /\ a \in Retries
           /\ Mark(a, WaitingFor(a), "none")
           /\ todo' = [todo EXCEPT ![a] = {}]
           /\ Goto(a, "next")
           /\ UNCHANGED <<row, loop, recover>>
  <2>1. ListsOK'
    BY <1>3 DEF AtWork, PlacesInv, ListsOK
  <2>2. PlaceFits(a, "next", row[a]) /\ "next" \in PC
    BY NextFits DEF AtWork, PC
  <2>3. StageFits(WaitingFor(a)) /\ WaitingFor(a) \in Status /\ WaitingFor(a) # "done"
    BY <1>3, AtARow DEF AtWork, Retries, WaitingFor, StageFits, Status
  <2>4. "none" \in ErrorKind
    BY DEF ErrorKind
  <2> QED BY <1>3, <2>1, <2>2, <2>3, <2>4, MarkSound
<1> QED BY <1>1, <1>2, <1>3 DEF OnWait

\* Whoever meets another exception.
LEMMA OnErrorOverSound ==
    ASSUME NEW a \in Actors, AtRow(a), NEW v, NEW e \in {"connection", "other"},
           OnErrorOver(a, v, e)
    PROVE  Kept /\ reported' = reported
<1> USE DEF AtRow
<1>1. CASE Leave(a)
  BY <1>1, LeaveSound
<1>2. CASE /\ grace' = grace \cup {row[a]}
           /\ Goto(a, "next") /\ Forget(a)
           /\ UNCHANGED <<status, err, reported, lists>>
  <2>1. RowsInv'
    BY <1>2, AtARow DEF AtWork, RowsInv, RowsOK, StageInv, StageFits, HandedOn
  <2>2. LoadedOK'
    BY <1>2, SessionTypes DEF AtWork
  <2>3. PlacesInv'
    BY <1>2, ToNext, SameLists DEF AtWork
  <2> QED BY <1>2, <2>1, <2>2, <2>3 DEF Kept, MayReport
<1>3. CASE /\ WriteOver(a, row[a], v, "failed", e)
           /\ Goto(a, "next")
           /\ UNCHANGED <<grace, lists>>
  <2>1. grace' \subseteq Rows /\ "failed" \in Status /\ e \in ErrorKind /\ StageFits("failed")
    BY <1>3 DEF AtWork, RowsInv, RowsOK, Status, ErrorKind, StageFits
  <2>2. RowsInv' /\ LoadedOK' /\ reported' = reported
    BY <1>3, <2>1, WriteOverSound DEF AtWork
  <2>3. PlacesInv'
    BY <1>3, ToNext, SameLists DEF AtWork
  <2> QED BY <2>2, <2>3 DEF Kept, MayReport
<1> QED BY <1>1, <1>2, <1>3 DEF OnErrorOver

LEMMA OnErrorSound ==
    ASSUME NEW a \in Actors, AtRow(a), OnError(a)
    PROVE  Kept /\ reported' = reported
BY OnErrorOverSound DEF OnError

\* The caller of process_completion, and its own dispatch on the stage.
LEMMA ConcludeSound ==
    ASSUME NEW a \in Actors, AtRow(a), NEW s \in Status, Conclude(a, s)
    PROVE  Kept /\ reported' = reported
<1>1. CASE Leave(a)
  BY <1>1, LeaveSound DEF AtRow
<1>2. CASE /\ todo' = [todo EXCEPT ![a] = {}]
           /\ Goto(a, "next")
           /\ UNCHANGED <<rows, loaded, row, loop, recover>>
  <2>1. ListsOK'
    BY <1>2 DEF AtRow, AtWork, PlacesInv, ListsOK
  <2>2. PlacesInv'
    BY <1>2, <2>1, ToNext DEF AtRow
  <2>3. RowsInv' /\ reported' = reported
    BY <1>2, RowsUntouched DEF AtRow, AtWork
  <2>4. LoadedOK'
    BY <1>2, SessionTypes DEF AtRow, AtWork
  <2> QED BY <2>2, <2>3, <2>4 DEF Kept, MayReport
<1>3. CASE OnErrorOver(a, s, "other")
  BY <1>3, OnErrorOverSound
<1> QED BY <1>1, <1>2, <1>3 DEF Conclude

LEMMA DispatchSound ==
    ASSUME NEW a \in Actors, AtRow(a), "master" \in whole, Dispatch(a, status[row[a]])
    PROVE  Kept /\ reported' = reported
<1> DEFINE s == status[row[a]]
<1>1. row[a] \in Rows /\ s \in Status /\ (a = "retry_slave" => "master" \in whole)
  BY AtARow DEF AtRow, AtWork, RowsInv, RowsOK
<1>2. CASE Goto(a, "hash") /\ Forget(a) /\ UNCHANGED <<rows, lists>>
  <2>1. LoadedOK' /\ "hash" \in PC /\ PlaceFits(a, "hash", row[a])
    BY <1>1, <1>2, SessionTypes DEF AtRow, AtWork, PC, PlaceFits, HandedOn
  <2> QED BY <1>2, <2>1, StaySound DEF AtRow
<1>3. CASE Goto(a, "auth") /\ Load(a, row[a], s) /\ UNCHANGED <<rows, lists>>
  <2>1. LoadedOK' /\ "auth" \in PC /\ PlaceFits(a, "auth", row[a])
    BY <1>1, <1>3, SessionTypes DEF AtRow, AtWork, PC, PlaceFits
  <2> QED BY <1>3, <2>1, StaySound DEF AtRow
<1>4. CASE OnErrorOver(a, s, "other")
  BY <1>4, OnErrorOverSound
<1> QED BY <1>2, <1>3, <1>4 DEF Dispatch

LEMMA MasterUnavailableSound ==
    ASSUME NEW a \in Actors, AtRow(a), MasterUnavailable(a)
    PROVE  Kept /\ reported' = reported
<1>1. /\ "waiting_master" \in Status /\ "none" \in ErrorKind /\ StageFits("waiting_master")
      /\ Mark(a, "waiting_master", "none")
  BY DEF Status, ErrorKind, StageFits, MasterUnavailable
<1>2. CASE a = "sync" /\ Goto(a, "seen") /\ UNCHANGED lists
  <2>1. "seen" \in PC /\ PlaceFits(a, "seen", row[a])
    BY <1>2, AtARow DEF AtRow, AtWork, PC, PlaceFits
  <2>2. ListsOK' /\ UNCHANGED row
    BY <1>2, SameLists DEF AtRow, AtWork
  <2> QED BY <1>1, <1>2, <2>1, <2>2, MarkSound DEF AtRow
<1>3. CASE /\ a = "retry_master"
           /\ Goto(a, "next")
           /\ IF loop[a] = "todo"
              THEN todo' = [todo EXCEPT ![a] = {}] /\ UNCHANGED recover
              ELSE recover' = [recover EXCEPT ![a] = {}] /\ UNCHANGED todo
           /\ UNCHANGED <<row, loop>>
  <2>1. "next" \in PC /\ PlaceFits(a, "next", row[a])
    BY NextFits DEF AtRow, AtWork, PC
  <2>2. ListsOK' /\ UNCHANGED row
    BY <1>3 DEF AtRow, AtWork, PlacesInv, ListsOK
  <2> QED BY <1>1, <1>3, <2>1, <2>2, MarkSound DEF AtRow
<1> QED BY <1>2, <1>3 DEF MasterUnavailable

\* What follows from the answer of the master.
LEMMA MasterWholeSound ==
    ASSUME NEW a \in Actors, AtRow(a), "master" \in whole, MasterWhole(a)
    PROVE  Kept /\ reported' = reported
<1> USE DEF AtRow
<1>1. /\ row[a] \in Rows
      /\ "bytes" \in PC /\ PlaceFits(a, "bytes", row[a])
      /\ "next" \in PC /\ PlaceFits(a, "next", row[a])
  BY AtARow, NextFits DEF AtWork, PC, PlaceFits
<1>2. "master_added" \in Status /\ "none" \in ErrorKind /\ StageFits("master_added")
  BY DEF Status, ErrorKind, StageFits
<1>3. CASE Goto(a, "bytes") /\ UNCHANGED <<rows, loaded, lists>>
  BY <1>1, <1>3, SessionTypes, StaySound DEF AtWork
<1>4. CASE /\ Mark(a, "master_added", "none")
           /\ todo' = [todo EXCEPT ![a] = todo[a] \cup {row[a]}]
           /\ Goto(a, "next")
           /\ UNCHANGED <<row, loop, recover>>
  <2>1. ListsOK'
    BY <1>1, <1>4 DEF AtWork, PlacesInv, ListsOK
  <2> QED BY <1>1, <1>2, <1>4, <2>1, MarkSound
<1>5. CASE Mark(a, "master_added", "none") /\ Goto(a, "bytes") /\ UNCHANGED lists
  <2>1. ListsOK' /\ UNCHANGED row
    BY <1>5, SameLists DEF AtWork
  <2> QED BY <1>1, <1>2, <1>5, <2>1, MarkSound
<1>6. CASE MarkResumed(a, "master_added") /\ Goto(a, "bytes") /\ UNCHANGED lists
  BY <1>1, <1>2, <1>6, MarkResumedSound
<1> QED BY <1>3, <1>4, <1>5, <1>6 DEF MasterWhole

LEMMA MasterPartialSound ==
    ASSUME NEW a \in Actors, AtRow(a), MasterPartial(a)
    PROVE  Kept /\ reported' = reported
<1> USE DEF AtRow
<1>1. "master_added" \in Status /\ "none" \in ErrorKind /\ StageFits("master_added")
  BY DEF Status, ErrorKind, StageFits
<1>2. CASE Leave(a)
  BY <1>2, LeaveSound
<1>3. CASE a = "retry_slave" /\ Goto(a, "bytes") /\ UNCHANGED <<rows, loaded, lists>>
  <2>1. "bytes" \in PC /\ PlaceFits(a, "bytes", row[a]) /\ LoadedOK'
    BY <1>3, AtARow, SessionTypes DEF AtWork, PC, PlaceFits
  <2> QED BY <1>3, <2>1, StaySound
<1>4. CASE Settle(a, "master_added", "none")
  BY <1>1, <1>4, SettleSound
<1>5. CASE MarkResumed(a, "master_added") /\ Goto(a, "next") /\ UNCHANGED lists
  <2>1. "next" \in PC /\ PlaceFits(a, "next", row[a])
    BY NextFits DEF AtWork, PC
  <2> QED BY <1>1, <1>5, <2>1, MarkResumedSound
<1> QED BY <1>2, <1>3, <1>4, <1>5 DEF MasterPartial

LEMMA MasterMissingSound ==
    ASSUME NEW a \in Actors, AtRow(a), MasterMissing(a)
    PROVE  Kept /\ reported' = reported
<1> USE DEF AtRow
<1>1. CASE Leave(a)
  BY <1>1, LeaveSound
<1>2. CASE Settle(a, "cancelled", "gone")
  <2>1. "cancelled" \in Status /\ "gone" \in ErrorKind /\ StageFits("cancelled")
    BY DEF Status, ErrorKind, StageFits
  <2> QED BY <1>2, <2>1, SettleSound
<1>3. CASE a = "retry_master" /\ Goto(a, "api") /\ UNCHANGED <<rows, loaded, lists>>
  <2>1. "api" \in PC /\ PlaceFits(a, "api", row[a]) /\ LoadedOK'
    BY <1>3, AtARow, SessionTypes DEF AtWork, PC, PlaceFits
  <2> QED BY <1>3, <2>1, StaySound
<1> QED BY <1>1, <1>2, <1>3 DEF MasterMissing

\* What follows from the answer of the slave.
LEMMA SlaveWholeSound ==
    ASSUME NEW a \in Actors, AtRow(a), "slave" \in whole, HandedOn, SlaveWhole(a)
    PROVE  Kept
<1>1. CASE Settle(a, "done", "none")
  <2>1. "done" \in Status /\ "none" \in ErrorKind /\ StageFits("done")
    BY DEF Status, ErrorKind, StageFits
  <2> QED BY <1>1, <2>1, SettleSound DEF AtRow
<1>2. CASE MarkResumed(a, "slave_added") /\ Goto(a, "hashDone") /\ UNCHANGED lists
  <2>1. "slave_added" \in Status /\ StageFits("slave_added")
    BY DEF Status, StageFits
  <2>2. "hashDone" \in PC /\ PlaceFits(a, "hashDone", row[a])
    BY AtARow DEF AtRow, AtWork, PC, PlaceFits
  <2> QED BY <1>2, <2>1, <2>2, MarkResumedSound
<1> QED BY <1>1, <1>2 DEF SlaveWhole

LEMMA SlavePartialSound ==
    ASSUME NEW a \in Actors, AtRow(a), HandedOn, SlavePartial(a)
    PROVE  Kept
<1>1. CASE Leave(a)
  BY <1>1, LeaveSound DEF AtRow
<1>2. CASE MarkResumed(a, "slave_added") /\ Goto(a, "hashResumed") /\ UNCHANGED lists
  <2>1. "slave_added" \in Status /\ StageFits("slave_added")
    BY DEF Status, StageFits
  <2>2. "hashResumed" \in PC /\ PlaceFits(a, "hashResumed", row[a])
    BY AtARow DEF AtRow, AtWork, PC, PlaceFits
  <2> QED BY <1>2, <2>1, <2>2, MarkResumedSound
<1> QED BY <1>1, <1>2 DEF SlavePartial

LEMMA NoAnswerSound ==
    ASSUME NEW a \in Actors, AtRow(a), NoAnswer(a)
    PROVE  Kept
<1>1. CASE Leave(a)
  BY <1>1, LeaveSound DEF AtRow
<1>2. CASE a = "resume" /\ Goto(a, "askMaster") /\ UNCHANGED <<rows, loaded, lists>>
  <2>1. "askMaster" \in PC /\ PlaceFits(a, "askMaster", row[a]) /\ LoadedOK'
    BY <1>2, AtARow, SessionTypes DEF AtRow, AtWork, PC, PlaceFits
  <2> QED BY <1>2, <2>1, StaySound DEF AtRow
<1> QED BY <1>1, <1>2 DEF NoAnswer

LEMMA SlaveMissingSound ==
    ASSUME NEW a \in Actors, AtRow(a), SlaveMissing(a)
    PROVE  Kept
<1>1. CASE Leave(a)
  BY <1>1, LeaveSound DEF AtRow
<1>2. CASE Settle(a, "cancelled", "gone")
  <2>1. "cancelled" \in Status /\ "gone" \in ErrorKind /\ StageFits("cancelled")
    BY DEF Status, ErrorKind, StageFits
  <2> QED BY <1>2, <2>1, SettleSound DEF AtRow
<1>3. CASE a = "resume" /\ Goto(a, "askMaster") /\ UNCHANGED <<rows, loaded, lists>>
  <2>1. NoAnswer(a)
    BY <1>3 DEF NoAnswer
  <2> QED BY <2>1, NoAnswerSound
<1> QED BY <1>1, <1>2, <1>3 DEF SlaveMissing

-----------------------------------------------------------------------------
(* Steps that leave the outside alone.                                      *)

\* What a step has to keep, and what Handover allows it to do.
StepSound == IInv' /\ [H!HandoverNext]_(H!handoverVars)

LEMMA BudgetKept ==
    ASSUME BudgetOK, UNCHANGED budget \/ Fault \/ AnswerLost \/ Moved
    PROVE  BudgetOK'
BY BoundsAssumption DEF BudgetOK, budget, Fault, AnswerLost, Moved

\* The parts of IInv for a step that starts from it.
LEMMA FromIInv ==
    ASSUME IInv
    PROVE  /\ RowsInv /\ LoadedOK /\ PlacesInv /\ BudgetOK /\ OutsideOK
           /\ CopyInv /\ StageInv /\ ActorInv /\ RowsOK /\ ListsOK /\ PlacesOK
BY TypeParts DEF IInv, RowsInv, PlacesInv

LEMMA ToIInv ==
    ASSUME RowsInv', LoadedOK', PlacesInv', BudgetOK', OutsideOK', CopyInv'
    PROVE  IInv'
BY TypePartsNext DEF IInv, RowsInv, PlacesInv

LEMMA StartsAtRow ==
    ASSUME IInv, NEW a \in Actors, pc[a] \notin {"idle", "connect", "down", "next"},
           UNCHANGED <<whole, byHand>>
    PROVE  AtRow(a) /\ AtWork(a) /\ row[a] \in Rows /\ (a = "retry_slave" => "master" \in whole)
BY FromIInv, AtARow DEF AtRow, AtWork

LEMMA InsideStep ==
    ASSUME IInv, RowsInv', LoadedOK', PlacesInv', MayReport, BudgetOK', UNCHANGED outside
    PROVE  StepSound
<1>1. CopyInv' /\ OutsideOK'
  BY FromIInv DEF CopyInv, OutsideOK, HandedOn, outside
<1>2. IInv'
  BY <1>1, ToIInv
<1>3. CASE reported' = reported
  BY <1>2, <1>3 DEF StepSound, outside, H!handoverVars
<1>4. CASE reported' = TRUE /\ "slave" \in whole
  <2>1. H!Report
    BY <1>4 DEF H!Report, outside
  <2> QED BY <1>2, <2>1 DEF StepSound, H!HandoverNext
<1> QED BY <1>3, <1>4 DEF MayReport

LEMMA KeptStep ==
    ASSUME IInv, Kept, UNCHANGED outside, UNCHANGED budget \/ Fault \/ AnswerLost
    PROVE  StepSound
BY FromIInv, BudgetKept, InsideStep DEF Kept

\* The start of a webhook request, of a tick, of an insertion.
LEMMA HookBeginsStep ==
    ASSUME IInv, NEW a \in Actors, HookBegins(a) \/ SlaveHookBegins(a)
    PROVE  StepSound
<1>1. PICK r \in Rows, p \in {"askMaster", "bytes", "askSlave"} :
        /\ Goto(a, p) /\ row' = [row EXCEPT ![a] = r] /\ Load(a, r, status[r])
        /\ p = "bytes" => status[r] \in {"master_complete", "waiting_slave"}
  BY DEF HookBegins, SlaveHookBegins
<1>2. a # "retry_slave"
  BY HooksAssumption DEF HookBegins, SlaveHookBegins, WorkerNames
<1>3. UNCHANGED <<rows, loop, todo, recover, budget, outside>>
  BY DEF HookBegins, SlaveHookBegins
<1>4. UNCHANGED <<whole, byHand>> /\ BudgetOK'
  BY <1>3, FromIInv, BudgetKept DEF outside
<1>5. RowsInv' /\ reported' = reported
  BY <1>3, <1>4, FromIInv, RowsUntouched
<1>6. LoadedOK'
  <2>1. status[r] \in Status
    BY FromIInv DEF RowsOK
  <2> QED BY <1>1, <2>1, SessionTypes, FromIInv
<1>7. PlacesInv'
  <2>1. ListsOK' /\ (\A b \in Actors : b # a => row'[b] = row[b]) /\ row'[a] = r
    BY <1>1, <1>3, FromIInv DEF ListsOK, Rows
  <2>2. StageFits(status[r])
    BY FromIInv DEF StageInv
  <2>3. p \in PC /\ PlaceFits(a, p, r)
    BY <1>1, <1>2, <2>2 DEF PC, PlaceFits, StageFits
  <2> QED BY <1>1, <1>4, <2>1, <2>3, GotoSound, FromIInv
<1> QED BY <1>3, <1>4, <1>5, <1>6, <1>7, InsideStep DEF MayReport

LEMMA BeginStep ==
    ASSUME IInv, NEW a \in Actors, Begin(a)
    PROVE  StepSound
<1>1. UNCHANGED <<rows, row, loop, budget, outside>>
  BY DEF Begin
<1>2. UNCHANGED <<whole, byHand>> /\ BudgetOK'
  BY <1>1, FromIInv, BudgetKept DEF outside
<1>3. RowsInv' /\ reported' = reported
  BY <1>1, <1>2, FromIInv, RowsUntouched
<1>4. LoadedOK'
  BY FromIInv DEF LoadedOK, Begin, RowsOK
<1>5. ListsOK'
  BY FromIInv DEF ListsOK, Begin, Listed, Recoverable
<1>6. PICK p \in {"connect", "next"} : Goto(a, p) /\ (p = "connect" => a \in Retries)
  BY DEF Begin
<1>7. a = "retry_slave" => "master" \in whole
  BY FromIInv DEF Begin, Listed, Recoverable, StageInv, StageFits
<1>8. PlaceFits(a, p, row'[a]) /\ p \in PC
  BY <1>6, <1>7 DEF PlaceFits, PC
<1>9. PlacesInv'
  BY <1>1, <1>2, <1>5, <1>6, <1>8, GotoSound, FromIInv
<1> QED BY <1>1, <1>2, <1>3, <1>4, <1>9, InsideStep DEF MayReport

LEMMA DiscoverStep ==
    ASSUME IInv, NEW a \in Actors, Discover(a)
    PROVE  StepSound
<1>1. PICK r \in Rows : /\ status' = [status EXCEPT ![r] = "discovered"]
                        /\ row' = [row EXCEPT ![a] = r]
  BY DEF Discover
<1>2. /\ a = "sync" /\ Goto(a, "deliver")
      /\ UNCHANGED <<err, grace, reported, loop, todo, recover, loaded, budget, outside>>
  BY DEF Discover
<1>3. UNCHANGED <<whole, byHand>> /\ BudgetOK'
  BY <1>2, FromIInv, BudgetKept DEF outside
<1>4. RowsInv'
  BY <1>1, <1>2, <1>3, FromIInv DEF RowsInv, RowsOK, Status, StageInv, StageFits, HandedOn
<1>5. LoadedOK'
  BY <1>2, FromIInv, SessionTypes
<1>6. ListsOK' /\ (\A b \in Actors : b # a => row'[b] = row[b]) /\ row'[a] = r
  BY <1>1, <1>2, FromIInv DEF ListsOK, Rows
<1>7. "deliver" \in PC /\ PlaceFits(a, "deliver", r)
  BY <1>2 DEF PC, PlaceFits
<1>8. PlacesInv'
  BY <1>2, <1>3, <1>6, <1>7, GotoSound, FromIInv
<1> QED BY <1>2, <1>3, <1>4, <1>5, <1>8, InsideStep DEF MayReport

\* Going through the lists.
LEMMA ConnectStep ==
    ASSUME IInv, NEW a \in Actors, Connect(a)
    PROVE  StepSound
<1>1. UNCHANGED <<rows, row, loop, todo, loaded, budget, outside>>
  BY DEF Connect
<1>2. UNCHANGED <<whole, byHand>> /\ BudgetOK'
  BY <1>1, FromIInv, BudgetKept DEF outside
<1>3. RowsInv' /\ reported' = reported /\ LoadedOK'
  BY <1>1, <1>2, FromIInv, RowsUntouched, SessionTypes
<1>4. ListsOK'
  BY <1>1, FromIInv DEF ListsOK, Connect
<1>5. PICK p \in {"next", "down"} : Goto(a, p)
  BY DEF Connect
<1>6. p \in PC /\ PlaceFits(a, p, row[a])
  BY <1>5, FromIInv DEF PC, PlaceFits, ActorInv, Connect
<1>7. PlacesInv'
  BY <1>1, <1>2, <1>4, <1>5, <1>6, GotoSound, FromIInv
<1> QED BY <1>1, <1>2, <1>3, <1>7, InsideStep DEF MayReport

LEMMA MarkDownStep ==
    ASSUME IInv, NEW a \in Actors, MarkDown(a)
    PROVE  StepSound
<1>1. PICK r \in todo[a] :
        /\ WriteOver(a, r, Believes(a, r), WaitingFor(a), "none")
        /\ todo' = [todo EXCEPT ![a] = todo[a] \ {r}]
  BY DEF MarkDown
<1>2. pc[a] = "down" /\ UNCHANGED <<grace, pc, row, loop, recover, budget, outside>>
  BY DEF MarkDown
<1>3. UNCHANGED <<whole, byHand>> /\ BudgetOK'
  BY <1>2, FromIInv, BudgetKept DEF outside
<1>4. StageFits(WaitingFor(a)) /\ WaitingFor(a) \in Status /\ "none" \in ErrorKind
  <2>1. a = "retry_slave" => "master" \in whole
    BY <1>2, FromIInv DEF ActorInv, PlaceFits
  <2>2. a \in Retries
    BY <1>2, FromIInv DEF ActorInv, PlaceFits
  <2> QED BY <2>1, <2>2 DEF Retries, WaitingFor, StageFits, Status, ErrorKind
<1>5. RowsInv' /\ LoadedOK' /\ MayReport
  <2>1. grace' \subseteq Rows
    BY <1>2, FromIInv DEF RowsOK
  <2> QED BY <1>1, <1>3, <1>4, <2>1, WriteOverSound, FromIInv
<1>6. PlacesInv'
  BY <1>1, <1>2, <1>3, FromIInv DEF PlacesInv, PlacesOK, ListsOK, ActorInv, PlaceFits, HandedOn
<1> QED BY <1>2, <1>3, <1>5, <1>6, InsideStep

\* Taking the next row of a list.
LEMMA TakesStep ==
    ASSUME IInv, NEW a \in Actors, Takes(a)
    PROVE  StepSound
<1>1. PICK r \in Rows, which \in {"todo", "recover"}, p \in {"askMaster", "api", "askSlave", "next"} :
        Take(a, r, which) /\ Goto(a, p)
  BY DEF Takes, TakeWaiting, TakeForSlave, TakeCancelled, TakeForMaster
<1>2. LoadedOK'
  <2>1. status[r] \in Status /\ (Believes(a, r) \in Status \cup {Expired})
    BY FromIInv DEF RowsOK, LoadedOK, Believes
  <2>2. \E q \in Rows, x \in Status \cup {Expired} : Load(a, q, x) \/ Forget(a)
    BY FromIInv DEF Takes, TakeWaiting, TakeForSlave, TakeCancelled, TakeForMaster,
                    RowsOK, LoadedOK, Believes
  <2> QED BY <2>2, FromIInv DEF LoadedOK, Load, Forget, NothingLoaded
<1>3. UNCHANGED <<rows, budget, outside>> /\ pc[a] = "next"
  BY <1>1 DEF Take
<1>4. UNCHANGED <<whole, byHand>> /\ BudgetOK'
  BY <1>3, FromIInv, BudgetKept DEF outside
<1>5. RowsInv' /\ reported' = reported
  BY <1>3, <1>4, FromIInv, RowsUntouched
<1>6. ListsOK' /\ (\A b \in Actors : b # a => row'[b] = row[b]) /\ row'[a] = r
  BY <1>1, FromIInv DEF ListsOK, Take, Rows
<1>7. a = "retry_slave" => "master" \in whole
  BY <1>3, FromIInv DEF ActorInv, PlaceFits
<1>8. p \in PC /\ PlaceFits(a, p, r)
  BY <1>7 DEF PC, PlaceFits
<1>9. PlacesInv'
  BY <1>1, <1>4, <1>6, <1>8, GotoSound, FromIInv
<1> QED BY <1>2, <1>3, <1>4, <1>5, <1>9, InsideStep DEF MayReport

LEMMA BackToIdle ==
    ASSUME IInv, NEW a \in Actors, Goto(a, "idle"), ListsOK', UNCHANGED rows,
           \A b \in Actors : b # a => row'[b] = row[b],
           Forget(a), UNCHANGED outside, BudgetOK'
    PROVE  StepSound
<1>1. UNCHANGED <<whole, byHand>>
  BY DEF outside
<1>2. RowsInv' /\ reported' = reported /\ LoadedOK'
  BY <1>1, FromIInv, RowsUntouched, SessionTypes
<1>3. "idle" \in PC /\ PlaceFits(a, "idle", row'[a])
  BY DEF PC, PlaceFits
<1>4. PlacesInv'
  BY <1>1, <1>3, GotoSound, FromIInv
<1> QED BY <1>2, <1>4, InsideStep DEF MayReport

LEMMA FinishStep ==
    ASSUME IInv, NEW a \in Actors, Finish(a)
    PROVE  StepSound
<1>1. ListsOK' /\ (\A b \in Actors : b # a => row'[b] = row[b])
  BY FromIInv, BoundsAssumption DEF Finish, ListsOK
<1> QED BY <1>1, BackToIdle, BudgetKept, FromIInv DEF Finish

LEMMA CrashStep ==
    ASSUME IInv, NEW a \in Actors, Crash(a)
    PROVE  StepSound
<1>1. ListsOK' /\ (\A b \in Actors : b # a => row'[b] = row[b])
  BY FromIInv, BoundsAssumption DEF Crash, ListsOK
<1>2. BudgetOK'
  BY BoundsAssumption, FromIInv DEF BudgetOK, Crash
<1> QED BY <1>1, <1>2, BackToIdle DEF Crash

\* Asking the clients.
LEMMA AskMasterStep ==
    ASSUME IInv, NEW a \in Actors, AskMaster(a)
    PROVE  StepSound
<1>1. pc[a] = "askMaster" /\ UNCHANGED outside /\ (UNCHANGED budget \/ Fault)
  BY DEF AskMaster
<1>2. UNCHANGED <<whole, byHand>>
  BY <1>1 DEF outside
<1>3. AtRow(a) /\ AtWork(a)
  BY <1>1, <1>2, StartsAtRow
<1>4. Kept
  <2>1. CASE master = "complete" /\ MasterWhole(a)
    BY <1>3, <2>1, FromIInv, MasterWholeSound DEF CopyInv
  <2>2. CASE MasterPartial(a)
    BY <1>3, <2>2, MasterPartialSound
  <2>3. CASE MasterMissing(a)
    BY <1>3, <2>3, MasterMissingSound
  <2>4. CASE OnWait(a)
    BY <1>3, <2>4, OnWaitSound
  <2>5. CASE Leave(a)
    BY <1>3, <2>5, LeaveSound
  <2>6. CASE OnError(a)
    BY <1>3, <2>6, OnErrorSound
  <2> QED BY <2>1, <2>2, <2>3, <2>4, <2>5, <2>6 DEF AskMaster
<1> QED BY <1>1, <1>4, KeptStep

LEMMA AskSlaveStep ==
    ASSUME IInv, NEW a \in Actors, AskSlave(a)
    PROVE  StepSound
<1>1. pc[a] = "askSlave" /\ UNCHANGED outside /\ (UNCHANGED budget \/ Fault)
  BY DEF AskSlave
<1>2. UNCHANGED <<whole, byHand>>
  BY <1>1 DEF outside
<1>3. AtRow(a) /\ AtWork(a)
  BY <1>1, <1>2, StartsAtRow
<1>4. Kept
  <2>1. CASE slave = "complete" /\ SlaveWhole(a)
    BY <1>3, <2>1, FromIInv, SlaveWholeSound DEF CopyInv
  <2>2. CASE slave = "in_progress" /\ SlavePartial(a)
    BY <1>3, <2>2, FromIInv, SlavePartialSound DEF CopyInv
  <2>3. CASE SlaveMissing(a)
    BY <1>3, <2>3, SlaveMissingSound
  <2>4. CASE NoAnswer(a)
    BY <1>3, <2>4, NoAnswerSound
  <2>5. CASE OnError(a)
    BY <1>3, <2>5, OnErrorSound
  <2> QED BY <2>1, <2>2, <2>3, <2>4, <2>5 DEF AskSlave
<1> QED BY <1>1, <1>4, KeptStep

\* The way to the slave.
LEMMA BytesStep ==
    ASSUME IInv, NEW a \in Actors, Bytes(a)
    PROVE  StepSound
<1>1. pc[a] = "bytes" /\ UNCHANGED outside /\ (UNCHANGED budget \/ Fault)
  BY DEF Bytes
<1>2. UNCHANGED <<whole, byHand>> /\ "master" \in whole
  BY <1>1, FromIInv DEF outside, ActorInv, PlaceFits
<1>3. AtRow(a) /\ AtWork(a) /\ row[a] \in Rows
  BY <1>1, <1>2, StartsAtRow
<1>4. Kept
  <2>1. CASE Goto(a, "complete") /\ UNCHANGED <<rows, loaded, lists>>
    <3>1. "complete" \in PC /\ PlaceFits(a, "complete", row[a]) /\ LoadedOK'
      BY <1>2, <1>3, <2>1, FromIInv, SessionTypes DEF PC, PlaceFits
    <3> QED BY <1>3, <2>1, <3>1, StaySound
  <2>2. CASE OnWait(a)
    BY <1>3, <2>2, OnWaitSound
  <2>3. CASE OnError(a)
    BY <1>3, <2>3, OnErrorSound
  <2> QED BY <2>1, <2>2, <2>3 DEF Bytes
<1> QED BY <1>1, <1>4, KeptStep

LEMMA CompleteStep ==
    ASSUME IInv, NEW a \in Actors, Complete(a)
    PROVE  StepSound
<1>1. pc[a] = "complete" /\ UNCHANGED <<budget, outside>>
  BY DEF Complete
<1>2. UNCHANGED <<whole, byHand>> /\ "master" \in whole
  BY <1>1, FromIInv DEF outside, ActorInv, PlaceFits
<1>3. AtRow(a) /\ AtWork(a) /\ row[a] \in Rows /\ status[row[a]] \in Status
  BY <1>1, <1>2, StartsAtRow, FromIInv DEF RowsOK
<1>4. Kept
  <2>1. CASE Dispatch(a, status[row[a]])
    BY <1>2, <1>3, <2>1, DispatchSound
  <2>2. CASE Leave(a)
    BY <1>3, <2>2, LeaveSound
  <2>3. CASE Goto(a, "claim") /\ Load(a, row[a], status[row[a]]) /\ UNCHANGED <<rows, lists>>
    <3>1. "claim" \in PC /\ PlaceFits(a, "claim", row[a]) /\ LoadedOK'
      BY <1>2, <1>3, <2>3, FromIInv, SessionTypes DEF PC, PlaceFits
    <3> QED BY <1>3, <2>3, <3>1, StaySound
  <2> QED BY <2>1, <2>2, <2>3 DEF Complete
<1> QED BY <1>1, <1>4, KeptStep

LEMMA ClaimStep ==
    ASSUME IInv, NEW a \in Actors, Claim(a)
    PROVE  StepSound
<1>1. pc[a] = "claim" /\ UNCHANGED <<budget, outside>>
  BY DEF Claim
<1>2. UNCHANGED <<whole, byHand>> /\ "master" \in whole
  BY <1>1, FromIInv DEF outside, ActorInv, PlaceFits
<1>3. AtRow(a) /\ AtWork(a) /\ row[a] \in Rows /\ (a = "retry_slave" => "master" \in whole)
  BY <1>1, <1>2, StartsAtRow
<1>4. Kept
  <2>1. CASE /\ status' = [status EXCEPT ![row[a]] = "master_complete"]
             /\ err' = [err EXCEPT ![row[a]] = "none"]
             /\ Forget(a) /\ Goto(a, "auth")
             /\ UNCHANGED <<grace, reported, lists>>
    <3>1. "auth" \in PC /\ PlaceFits(a, "auth", row[a])
      BY <1>2, <1>3 DEF PC, PlaceFits
    <3>2. PlacesInv'
      BY <1>2, <2>1, <3>1, GotoOnly, FromIInv
    <3>3. RowsOK'
      BY <2>1, FromIInv DEF RowsOK, Status, ErrorKind
    <3>4. StageInv'
      BY <1>2, <2>1, FromIInv DEF RowsOK, StageInv, StageFits, HandedOn
    <3>5. LoadedOK'
      BY <2>1, FromIInv, SessionTypes
    <3> QED BY <2>1, <3>2, <3>3, <3>4, <3>5 DEF Kept, RowsInv, MayReport
  <2>2. CASE Dispatch(a, status[row[a]])
    BY <1>2, <1>3, <2>2, DispatchSound
  <2>3. CASE Goto(a, "hash") /\ Forget(a) /\ UNCHANGED <<rows, lists>>
    <3>1. "hash" \in PC /\ PlaceFits(a, "hash", row[a]) /\ LoadedOK'
      BY <1>2, <1>3, <2>3, FromIInv, SessionTypes DEF PC, PlaceFits, HandedOn
    <3> QED BY <1>3, <2>3, <3>1, StaySound
  <2> QED BY <2>1, <2>2, <2>3 DEF Claim
<1> QED BY <1>1, <1>4, KeptStep

\* Up to its request _add_to_slave leaves the slave alone.
LEMMA AuthStep ==
    ASSUME IInv, NEW a \in Actors, Auth(a)
    PROVE  StepSound
<1>1. pc[a] = "auth" /\ UNCHANGED outside /\ (UNCHANGED budget \/ Fault)
  BY DEF Auth
<1>2. UNCHANGED <<whole, byHand>> /\ "master" \in whole
  BY <1>1, FromIInv DEF outside, ActorInv, PlaceFits
<1>3. AtRow(a) /\ AtWork(a) /\ row[a] \in Rows /\ status[row[a]] \in Status
  BY <1>1, <1>2, StartsAtRow, FromIInv DEF RowsOK
<1>4. Kept
  <2>1. CASE Goto(a, "hash") /\ Mark(a, "waiting_slave", "none") /\ UNCHANGED lists
    <3>1. "waiting_slave" \in Status /\ "none" \in ErrorKind /\ StageFits("waiting_slave")
      BY <1>2 DEF Status, ErrorKind, StageFits
    <3>2. "hash" \in PC /\ PlaceFits(a, "hash", row[a])
      BY <1>2, <1>3 DEF PC, PlaceFits, HandedOn
    <3>3. ListsOK' /\ UNCHANGED row
      BY <2>1, SameLists, FromIInv
    <3> QED BY <1>3, <2>1, <3>1, <3>2, <3>3, MarkSound
  <2>2. CASE Goto(a, "add") /\ Load(a, row[a], Believes(a, row[a])) /\ UNCHANGED <<rows, lists>>
    <3>1. LoadedOK'
      BY <1>3, <2>2, FromIInv DEF LoadedOK, Load, Believes
    <3>2. "add" \in PC /\ PlaceFits(a, "add", row[a])
      BY <1>2, <1>3 DEF PC, PlaceFits
    <3> QED BY <1>3, <2>2, <3>1, <3>2, StaySound
  <2>3. CASE \E e \in {"connection", "other"} : OnErrorOver(a, status[row[a]], e)
    BY <1>3, <2>3, OnErrorOverSound
  <2> QED BY <2>1, <2>2, <2>3 DEF Auth
<1> QED BY <1>1, <1>4, KeptStep

\* The request itself offers the torrent: the master has had it by then.
LEMMA AddStep ==
    ASSUME IInv, NEW a \in Actors, Add(a)
    PROVE  StepSound
<1>1. /\ pc[a] = "add"
      /\ UNCHANGED <<master, up, inApi, seen, hashJob, whole, byHand, hashed, removed>>
  BY DEF Add
<1>2. UNCHANGED <<whole, byHand>> /\ "master" \in whole
  BY <1>1, FromIInv DEF ActorInv, PlaceFits
<1>3. AtRow(a) /\ AtWork(a) /\ row[a] \in Rows /\ status[row[a]] \in Status
  BY <1>1, <1>2, StartsAtRow, FromIInv DEF RowsOK
<1>4. Kept /\ reported' = reported
  <2>1. CASE /\ Goto(a, "added")
             /\ IF a \in JobActors THEN Forget(a) ELSE UNCHANGED loaded
             /\ UNCHANGED <<rows, lists>>
    <3>1. LoadedOK'
      BY <2>1, FromIInv, SessionTypes
    <3>2. "added" \in PC /\ PlaceFits(a, "added", row[a])
      BY <1>2, <1>3 DEF PC, PlaceFits
    <3> QED BY <1>3, <2>1, <3>1, <3>2, StaySound
  <2>2. CASE Goto(a, "hash") /\ Mark(a, "waiting_slave", "none") /\ UNCHANGED lists
    <3>1. /\ "waiting_slave" \in Status /\ "none" \in ErrorKind /\ StageFits("waiting_slave")
          /\ "waiting_slave" # "done"
      BY <1>2 DEF Status, ErrorKind, StageFits
    <3>2. "hash" \in PC /\ PlaceFits(a, "hash", row[a])
      BY <1>2, <1>3 DEF PC, PlaceFits, HandedOn
    <3>3. ListsOK' /\ UNCHANGED row
      BY <2>2, SameLists, FromIInv
    <3> QED BY <1>3, <2>2, <3>1, <3>2, <3>3, MarkSound
  <2>3. CASE \E e \in {"connection", "other"} : OnErrorOver(a, status[row[a]], e)
    BY <1>3, <2>3, OnErrorOverSound
  <2> QED BY <2>1, <2>2, <2>3 DEF Add
<1>5. BudgetOK'
  <2>1. UNCHANGED budget \/ Fault \/ AnswerLost
    BY DEF Add
  <2> QED BY <2>1, BudgetKept, FromIInv
<1>6. SlaveTakes \/ UNCHANGED <<slave, offered>>
  BY DEF Add
<1>7. OutsideOK' /\ CopyInv'
  BY <1>1, <1>2, <1>6, FromIInv DEF OutsideOK, CopyInv, HandedOn, CopyState, SlaveTakes
<1>8. IInv'
  BY <1>4, <1>5, <1>7, ToIInv DEF Kept
<1>9. [H!HandoverNext]_(H!handoverVars)
  <2>1. CASE SlaveTakes
    <3>1. H!Offer
      BY <1>1, <1>2, <1>4, <2>1 DEF H!Offer, SlaveTakes
    <3> QED BY <3>1 DEF H!HandoverNext
  <2>2. CASE UNCHANGED <<slave, offered>>
    BY <1>1, <1>4, <2>2 DEF H!handoverVars
  <2> QED BY <1>6, <2>1, <2>2
<1> QED BY <1>8, <1>9 DEF StepSound

LEMMA AddedStep ==
    ASSUME IInv, NEW a \in Actors, Added(a)
    PROVE  StepSound
<1>1. pc[a] = "added" /\ UNCHANGED <<budget, outside>>
  BY DEF Added
<1>2. UNCHANGED <<whole, byHand>> /\ "master" \in whole
  BY <1>1, FromIInv DEF outside, ActorInv, PlaceFits
<1>3. AtRow(a) /\ AtWork(a) /\ row[a] \in Rows
  BY <1>1, <1>2, StartsAtRow
<1>4. "slave_added" \in Status /\ "none" \in ErrorKind /\ StageFits("slave_added")
  BY <1>2 DEF Status, ErrorKind, StageFits, HandedOn
<1>5. "hash" \in PC /\ PlaceFits(a, "hash", row[a])
  BY <1>2, <1>3 DEF PC, PlaceFits, HandedOn
<1>6. ListsOK' /\ UNCHANGED row /\ Goto(a, "hash") /\ Mark(a, "slave_added", "none")
  BY SameLists, FromIInv DEF Added
<1>7. Kept
  BY <1>3, <1>4, <1>5, <1>6, MarkSound
<1> QED BY <1>1, <1>7, KeptStep

\* A hash job is queued only for a torrent that has been handed on.
LEMMA HashingStep ==
    ASSUME IInv, HandedOn, QueueHash, Kept, reported' = reported, UNCHANGED hashOutside
    PROVE  StepSound
<1>1. UNCHANGED <<whole, byHand, offered>>
  BY DEF hashOutside
<1>2. BudgetOK'
  <2>1. UNCHANGED budget \/ Fault
    BY DEF QueueHash
  <2> QED BY <2>1, BudgetKept, FromIInv
<1>3. OutsideOK' /\ CopyInv'
  BY FromIInv DEF OutsideOK, CopyInv, HandedOn, QueueHash, hashOutside
<1>4. IInv'
  BY <1>2, <1>3, ToIInv DEF Kept
<1>5. CASE hashed' = TRUE
  <2>1. H!Hash
    BY <1>1, <1>5 DEF H!Hash, HandedOn
  <2> QED BY <1>4, <2>1 DEF StepSound, H!HandoverNext
<1>6. CASE hashed' = hashed
  BY <1>1, <1>4, <1>6 DEF StepSound, H!handoverVars
<1> QED BY <1>5, <1>6 DEF QueueHash

LEMMA EnqueueStep ==
    ASSUME IInv, NEW a \in Actors, Enqueue(a)
    PROVE  StepSound
<1>1. pc[a] = "hash" /\ QueueHash /\ UNCHANGED hashOutside
  BY DEF Enqueue
<1>2. UNCHANGED <<whole, byHand>> /\ HandedOn
  BY <1>1, FromIInv DEF hashOutside, ActorInv, PlaceFits
<1>3. /\ AtRow(a) /\ AtWork(a) /\ row[a] \in Rows /\ (a = "retry_slave" => "master" \in whole)
      /\ status[row[a]] \in Status
  BY <1>1, <1>2, StartsAtRow, FromIInv DEF RowsOK
<1>4. Kept /\ reported' = reported
  <2>1. CASE Goto(a, "promote") /\ Load(a, row[a], status[row[a]]) /\ UNCHANGED <<rows, lists>>
    <3>1. "promote" \in PC /\ PlaceFits(a, "promote", row[a]) /\ LoadedOK'
      BY <1>3, <2>1, FromIInv, SessionTypes DEF PC, PlaceFits
    <3> QED BY <1>3, <2>1, <3>1, StaySound
  <2>2. CASE Conclude(a, status[row[a]])
    BY <1>3, <2>2, ConcludeSound
  <2> QED BY <2>1, <2>2 DEF Enqueue
<1> QED BY <1>1, <1>2, <1>4, HashingStep

LEMMA EnqueueResumedStep ==
    ASSUME IInv, NEW a \in Actors, EnqueueResumed(a)
    PROVE  StepSound
<1>1. pc[a] \in {"hashResumed", "hashDone"} /\ QueueHash /\ UNCHANGED <<hashOutside, rows, loaded, lists>>
  BY DEF EnqueueResumed
<1>2. UNCHANGED <<whole, byHand>> /\ HandedOn /\ (pc[a] = "hashDone" => "slave" \in whole)
  BY <1>1, FromIInv DEF hashOutside, ActorInv, PlaceFits
<1>3. AtRow(a) /\ AtWork(a) /\ row[a] \in Rows /\ (a = "retry_slave" => "master" \in whole)
  BY <1>1, <1>2, StartsAtRow
<1>4. PICK p \in {"markDone", "next"} : Goto(a, p) /\ (p = "markDone" => pc[a] = "hashDone")
  BY DEF EnqueueResumed
<1>5. p \in PC /\ PlaceFits(a, p, row[a])
  BY <1>2, <1>3, <1>4 DEF PC, PlaceFits
<1>6. LoadedOK'
  BY <1>1, FromIInv, SessionTypes
<1>7. Kept /\ reported' = reported
  BY <1>1, <1>3, <1>4, <1>5, <1>6, StaySound
<1> QED BY <1>1, <1>2, <1>7, HashingStep

\* Reports.
LEMMA PromoteStep ==
    ASSUME IInv, NEW a \in Actors, Promote(a)
    PROVE  StepSound
<1>1. pc[a] = "promote" /\ UNCHANGED <<budget, outside>>
  BY DEF Promote
<1>2. AtRow(a) /\ AtWork(a)
  BY <1>1, StartsAtRow DEF outside
<1>3. Kept
  <2>1. CASE slave = "complete" /\ Settle(a, "done", "none")
    <3>1. "done" \in Status /\ "none" \in ErrorKind /\ StageFits("done")
      BY <2>1, FromIInv DEF Status, ErrorKind, StageFits, CopyInv
    <3> QED BY <1>2, <2>1, <3>1, SettleSound
  <2>2. CASE Leave(a)
    BY <1>2, <2>2, LeaveSound
  <2> QED BY <2>1, <2>2 DEF Promote
<1> QED BY <1>1, <1>3, KeptStep

LEMMA MarkDoneStep ==
    ASSUME IInv, NEW a \in Actors, MarkDone(a)
    PROVE  StepSound
<1>1. pc[a] = "markDone" /\ UNCHANGED <<budget, outside>>
  BY DEF MarkDone
<1>2. AtRow(a) /\ AtWork(a)
  BY <1>1, StartsAtRow DEF outside
<1>3. "done" \in Status /\ StageFits("done")
  BY <1>1, FromIInv DEF Status, StageFits, ActorInv, PlaceFits
<1>4. "next" \in PC /\ PlaceFits(a, "next", row[a])
  BY <1>1, FromIInv, NextFits DEF PC
<1>5. Kept
  BY <1>2, <1>3, <1>4, MarkResumedSound DEF MarkDone
<1> QED BY <1>1, <1>5, KeptStep

-----------------------------------------------------------------------------
(* The way to the master.                                                   *)

LEMMA ApiStep ==
    ASSUME IInv, NEW a \in Actors, Api(a)
    PROVE  StepSound
<1>1. pc[a] = "api" /\ UNCHANGED outside /\ (UNCHANGED budget \/ Fault)
  BY DEF Api
<1>2. AtRow(a) /\ AtWork(a) /\ row[a] \in Rows /\ (a = "retry_slave" => "master" \in whole)
  BY <1>1, StartsAtRow DEF outside
<1>3. Kept
  <2>1. CASE UNCHANGED <<rows, loaded, lists>> /\ Goto(a, IF a = "retry_master" THEN "deliver" ELSE "askMaster")
    <3>1. PICK p \in {"deliver", "askMaster"} : Goto(a, p)
      BY <2>1
    <3>2. p \in PC /\ PlaceFits(a, p, row[a]) /\ LoadedOK'
      BY <1>2, <2>1, FromIInv, SessionTypes DEF PC, PlaceFits
    <3> QED BY <1>2, <2>1, <3>1, <3>2, StaySound
  <2>2. CASE Settle(a, "cancelled", "api")
    <3>1. "cancelled" \in Status /\ "api" \in ErrorKind /\ StageFits("cancelled")
      BY DEF Status, ErrorKind, StageFits
    <3> QED BY <1>2, <2>2, <3>1, SettleSound
  <2>3. CASE OnWait(a)
    BY <1>2, <2>3, OnWaitSound
  <2>4. CASE OnError(a)
    BY <1>2, <2>4, OnErrorSound
  <2> QED BY <2>1, <2>2, <2>3, <2>4 DEF Api
<1> QED BY <1>1, <1>3, KeptStep

\* A step that changes nothing Handover knows of.
LEMMA HiddenStep ==
    ASSUME IInv, Kept, reported' = reported, BudgetOK', OutsideOK', CopyInv',
           UNCHANGED <<whole, byHand, offered, hashed>>
    PROVE  StepSound
BY ToIInv DEF Kept, StepSound, H!handoverVars

LEMMA DeliverStep ==
    ASSUME IInv, NEW a \in Actors, Deliver(a)
    PROVE  StepSound
<1>1. pc[a] = "deliver" /\ UNCHANGED besideMaster /\ (MasterTakes \/ UNCHANGED master)
  BY DEF Deliver
<1>2. UNCHANGED <<whole, byHand, offered, hashed>>
  BY <1>1 DEF besideMaster
<1>3. AtRow(a) /\ AtWork(a) /\ row[a] \in Rows /\ (a = "retry_slave" => "master" \in whole)
  BY <1>1, <1>2, StartsAtRow
<1>4. Kept /\ reported' = reported
  <2>1. CASE Goto(a, "delivered") /\ UNCHANGED <<rows, loaded, lists>>
    <3>1. "delivered" \in PC /\ PlaceFits(a, "delivered", row[a]) /\ LoadedOK'
      BY <1>3, <2>1, FromIInv, SessionTypes DEF PC, PlaceFits
    <3> QED BY <1>3, <2>1, <3>1, StaySound
  <2>2. CASE MasterUnavailable(a)
    BY <1>3, <2>2, MasterUnavailableSound
  <2>3. CASE OnError(a)
    BY <1>3, <2>3, OnErrorSound
  <2> QED BY <2>1, <2>2, <2>3 DEF Deliver
<1>5. BudgetOK'
  <2>1. UNCHANGED budget \/ Fault \/ AnswerLost
    BY DEF Deliver
  <2> QED BY <2>1, BudgetKept, FromIInv
<1>6. OutsideOK' /\ CopyInv'
  BY <1>1, FromIInv DEF OutsideOK, CopyInv, HandedOn, CopyState, MasterTakes, besideMaster
<1> QED BY <1>2, <1>4, <1>5, <1>6, HiddenStep

LEMMA DeliveredStep ==
    ASSUME IInv, NEW a \in Actors, Delivered(a)
    PROVE  StepSound
<1>1. pc[a] = "delivered" /\ UNCHANGED <<budget, outside>>
  BY DEF Delivered
<1>2. AtRow(a) /\ AtWork(a) /\ row[a] \in Rows /\ (a = "retry_slave" => "master" \in whole)
  BY <1>1, StartsAtRow DEF outside
<1>3. "master_added" \in Status /\ "none" \in ErrorKind /\ StageFits("master_added")
  BY DEF Status, ErrorKind, StageFits
<1>4. PICK p \in {"seen", "next"} : Goto(a, p)
  BY DEF Delivered
<1>5. p \in PC /\ PlaceFits(a, p, row[a])
  BY <1>2 DEF PC, PlaceFits
<1>6. ListsOK' /\ UNCHANGED row /\ Mark(a, "master_added", "none")
  BY SameLists, FromIInv DEF Delivered
<1>7. Kept
  BY <1>2, <1>3, <1>4, <1>5, <1>6, MarkSound
<1> QED BY <1>1, <1>7, KeptStep

LEMMA MarkSeenStep ==
    ASSUME IInv, NEW a \in Actors, MarkSeen(a)
    PROVE  StepSound
<1>1. /\ pc[a] = "seen" /\ seen' \in {TRUE, seen}
      /\ UNCHANGED <<master, slave, up, inApi, hashJob, whole, byHand, offered, hashed, removed>>
  BY DEF MarkSeen
<1>2. AtRow(a) /\ AtWork(a)
  BY <1>1, StartsAtRow
<1>3. Kept /\ reported' = reported
  BY <1>2, LeaveSound, OnErrorSound DEF MarkSeen
<1>4. BudgetOK'
  <2>1. UNCHANGED budget \/ Fault
    BY DEF MarkSeen
  <2> QED BY <2>1, BudgetKept, FromIInv
<1>5. OutsideOK' /\ CopyInv'
  BY <1>1, FromIInv DEF OutsideOK, CopyInv, HandedOn
<1> QED BY <1>1, <1>3, <1>4, <1>5, HiddenStep

-----------------------------------------------------------------------------
(* The outside.                                                             *)

\* What the clients have had only grows, so rows and actors stay sound.
LEMMA CalmKeeps ==
    ASSUME IInv, Calm, whole \subseteq whole', byHand => byHand'
    PROVE  RowsInv' /\ LoadedOK' /\ PlacesInv' /\ reported' = reported
<1>1. UNCHANGED <<status, err, grace, reported, pc, row, loop, todo, recover, loaded>>
  BY DEF Calm, rows, actorVars, lists
<1>2. RowsOK' /\ LoadedOK' /\ PlacesOK' /\ ListsOK'
  BY <1>1, FromIInv DEF RowsOK, LoadedOK, PlacesOK, ListsOK
<1>3. StageInv'
  BY <1>1, FromIInv DEF StageInv, StageFits, HandedOn
<1>4. ActorInv'
  BY <1>1, FromIInv DEF ActorInv, PlaceFits, HandedOn
<1> QED BY <1>1, <1>2, <1>3, <1>4 DEF RowsInv, PlacesInv

LEMMA DownloadStep ==
    ASSUME IInv, Download
    PROVE  StepSound
<1>1. PICK q \in {"master", "slave"} : whole' = whole \cup {q}
  BY DEF Download
<1>2. UNCHANGED <<budget, byHand, offered, hashed>> /\ Calm
  BY DEF Download
<1>3. RowsInv' /\ LoadedOK' /\ PlacesInv' /\ reported' = reported
  BY <1>1, <1>2, CalmKeeps
<1>4. BudgetOK'
  BY <1>2, BudgetKept, FromIInv
<1>5. OutsideOK' /\ CopyInv'
  BY FromIInv DEF OutsideOK, CopyInv, HandedOn, CopyState, Clients, Download
<1>6. H!Download(q)
  BY <1>1, <1>2, <1>3 DEF H!Download
<1> QED BY <1>3, <1>4, <1>5, <1>6, ToIInv DEF StepSound, H!HandoverNext

LEMMA PutBackStep ==
    ASSUME IInv, PutBack
    PROVE  StepSound
<1>1. Calm /\ Moved /\ UNCHANGED <<up, inApi, seen, hashJob, whole, offered, hashed, removed>>
      /\ (byHand' = TRUE \/ UNCHANGED byHand)
  BY DEF PutBack
<1>2. RowsInv' /\ LoadedOK' /\ PlacesInv' /\ reported' = reported
  BY <1>1, CalmKeeps
<1>3. BudgetOK'
  BY <1>1, BudgetKept, FromIInv
<1>4. OutsideOK' /\ CopyInv'
  <2>1. master' \in {"in_progress", master} /\ slave' \in {"in_progress", slave}
        /\ (slave' # slave => byHand' = TRUE)
    BY DEF PutBack
  <2>2. byHand' \in BOOLEAN
    BY <1>1, FromIInv DEF OutsideOK
  <2>3. OutsideOK'
    BY <1>1, <2>1, <2>2, FromIInv DEF OutsideOK, CopyState
  <2>4. CopyInv'
    BY <1>1, <2>1, FromIInv DEF CopyInv, HandedOn
  <2> QED BY <2>3, <2>4
<1>5. IInv'
  BY <1>2, <1>3, <1>4, ToIInv
<1>6. [H!HandoverNext]_(H!handoverVars)
  <2>1. CASE byHand' = TRUE
    BY <1>1, <1>2, <2>1 DEF H!PutOnSlave, H!HandoverNext
  <2>2. CASE UNCHANGED byHand
    BY <1>1, <1>2, <2>2 DEF H!handoverVars
  <2> QED BY <1>1, <2>1, <2>2
<1> QED BY <1>5, <1>6 DEF StepSound

\* The other things that happen outside are nothing to Handover.
LEMMA OutsideStep ==
    ASSUME IInv, Remove \/ HashEnds \/ \E q \in Clients : GoDown(q) \/ ComeUp(q)
    PROVE  StepSound
<1>1. Calm /\ UNCHANGED <<whole, byHand, offered, hashed>>
  BY DEF Remove, HashEnds, GoDown, ComeUp, hashOutside
<1>2. RowsInv' /\ LoadedOK' /\ PlacesInv' /\ reported' = reported
  BY <1>1, CalmKeeps
<1>3. BudgetOK'
  <2>1. UNCHANGED budget \/ Fault \/ AnswerLost \/ Moved
    BY DEF Remove, HashEnds, GoDown, ComeUp
  <2> QED BY <2>1, BudgetKept, FromIInv
<1>4. OutsideOK'
  <2>1. CASE Remove
    BY <2>1, FromIInv DEF OutsideOK, CopyState, Remove
  <2>2. CASE HashEnds
    BY <2>2, FromIInv DEF OutsideOK, HashEnds, hashOutside
  <2>3. CASE \E q \in Clients : GoDown(q) \/ ComeUp(q)
    BY <2>3, FromIInv DEF OutsideOK, GoDown, ComeUp
  <2> QED BY <2>1, <2>2, <2>3
<1>5. CopyInv'
  BY FromIInv DEF OutsideOK, CopyInv, HandedOn, Remove, HashEnds, GoDown, ComeUp, hashOutside
<1> QED BY <1>1, <1>2, <1>3, <1>4, <1>5, HiddenStep DEF Kept, MayReport

LEMMA GraceEndsStep ==
    ASSUME IInv, NEW r \in Rows, GraceEnds(r)
    PROVE  StepSound
<1>1. UNCHANGED <<status, err, reported, pc, row, loop, todo, recover, loaded, budget, outside>>
      /\ grace' = grace \ {r}
  BY DEF GraceEnds, actorVars, lists
<1>2. UNCHANGED <<whole, byHand, reported>>
  BY <1>1 DEF outside
<1>3. RowsInv'
  BY <1>1, <1>2, FromIInv DEF RowsInv, RowsOK, StageInv, StageFits, HandedOn
<1>4. LoadedOK' /\ PlacesInv'
  BY <1>1, <1>2, FromIInv DEF LoadedOK, PlacesInv, PlacesOK, ListsOK, ActorInv, PlaceFits, HandedOn
<1> QED BY <1>1, <1>2, <1>3, <1>4, KeptStep DEF Kept, MayReport

-----------------------------------------------------------------------------
(* Theorems.                                                                *)

LEMMA InitSound == Init => IInv /\ H!HandoverInit
<1> SUFFICES ASSUME Init PROVE IInv /\ H!HandoverInit
  OBVIOUS
<1>1. TypeOK
  <2>1. RowsOK
    BY DEF Init, RowsOK, Status, ErrorKind
  <2>2. LoadedOK /\ PlacesOK
    BY DEF Init, LoadedOK, NothingLoaded, PlacesOK, PC
  <2>3. ListsOK
    BY BoundsAssumption DEF Init, ListsOK
  <2>4. BudgetOK
    BY BoundsAssumption DEF Init, BudgetOK
  <2>5. OutsideOK
    BY DEF Init, OutsideOK, CopyState, Clients
  <2> QED BY <2>1, <2>2, <2>3, <2>4, <2>5, TypeParts
<1>2. CopyInv
  BY DEF Init, CopyInv
<1>3. StageInv
  BY DEF Init, StageInv, StageFits
<1>4. ActorInv
  BY DEF Init, ActorInv, PlaceFits
<1>5. H!HandoverInit
  BY DEF Init, H!HandoverInit
<1> QED BY <1>1, <1>2, <1>3, <1>4, <1>5 DEF IInv

LEMMA WorkSound ==
    ASSUME IInv, NEW a \in Actors, Work(a)
    PROVE  StepSound
BY ConnectStep, MarkDownStep, TakesStep, FinishStep, AskMasterStep, AskSlaveStep,
   BytesStep, CompleteStep, ClaimStep, AuthStep, AddStep, AddedStep, EnqueueStep,
   PromoteStep, EnqueueResumedStep, MarkDoneStep, ApiStep, DeliverStep,
   DeliveredStep, MarkSeenStep DEF Work

LEMMA NextSound ==
    ASSUME IInv, [Next]_vars
    PROVE  StepSound
<1>1. CASE \E a \in Actors : Start(a) \/ Work(a) \/ Crash(a)
  BY <1>1, HookBeginsStep, BeginStep, DiscoverStep, WorkSound, CrashStep DEF Start
<1>2. CASE Download \/ Remove \/ PutBack \/ HashEnds
  BY <1>2, DownloadStep, OutsideStep, PutBackStep
<1>3. CASE \E q \in Clients : GoDown(q) \/ ComeUp(q)
  BY <1>3, OutsideStep
<1>4. CASE \E r \in Rows : GraceEnds(r)
  BY <1>4, GraceEndsStep
<1>5. CASE UNCHANGED vars
  <2>1. UNCHANGED <<rows, actorVars, budget, outside>>
    BY <1>5 DEF vars
  <2>2. Calm /\ UNCHANGED <<whole, byHand>>
    BY <2>1 DEF Calm, outside
  <2>3. RowsInv' /\ LoadedOK' /\ PlacesInv' /\ reported' = reported
    BY <2>2, CalmKeeps
  <2> QED BY <2>1, <2>3, KeptStep DEF Kept, MayReport
<1> QED BY <1>1, <1>2, <1>3, <1>4, <1>5 DEF Next

\* The inductive invariant: stages, copies and actors agree on who has had the
\* torrent whole, for any actors, rows and bounds.
THEOREM PipelineInvariant == Spec => []IInv
<1>1. Init => IInv
  BY InitSound
<1>2. IInv /\ [Next]_vars => IInv'
  BY NextSound DEF StepSound
<1> QED BY <1>1, <1>2, PTL DEF Spec

\* Every variable keeps its type.
THEOREM PipelineTypes == Spec => []TypeOK
<1>1. IInv => TypeOK
  BY DEF IInv
<1> QED BY <1>1, PipelineInvariant, PTL

\* Pipeline implements Handover: nothing reaches the slave, is hashed or is
\* reported ahead of the clients, whoever races and whoever dies.
THEOREM ImplementsHandover == Spec => KeepsPromise
<1>1. Init => H!HandoverInit
  BY InitSound
<1>2. IInv /\ [Next]_vars => [H!HandoverNext]_(H!handoverVars)
  BY NextSound DEF StepSound
<1> QED BY <1>1, <1>2, PipelineInvariant, PTL DEF Spec, KeepsPromise, H!HandoverSpec

-----------------------------------------------------------------------------
(* Nothing is cancelled as long as nothing is removed: what each stage and    *)
(* each question of an actor promises about the copies that are there.        *)

CopiesFound ==
    /\ inApi
    /\ "master" \in whole => master = "complete"
    /\ "slave" \in whole => slave = "complete"

StageFound(s) ==
    /\ s # "cancelled"
    /\ s = "master_added" => master # "missing"
    /\ s = "slave_added" => slave # "missing"

RowsFound == \A r \in Rows : StageFound(status[r])

\* Who may cancel a row for a missing copy only asks when there is one; what
\* was sent to a client is there when the row is marked.
PlaceFound(a) ==
    /\ pc[a] = "askMaster" /\ (a \in Hooks \/ Sweeping(a)) => master # "missing"
    /\ pc[a] = "askSlave" /\ a = "poll_slave" => slave # "missing"
    /\ pc[a] = "delivered" => master # "missing"
    /\ pc[a] = "added" => slave # "missing"
    /\ pc[a] = "api" => a \in Retries
    /\ a \in {"poll_master", "reconcile"} /\ todo[a] # {} => master # "missing"
    /\ a = "poll_master" => recover[a] = {}

PlacesFound == \A a \in Actors : PlaceFound(a)

Found == CopiesFound /\ RowsFound /\ PlacesFound
FoundInv == ~removed => Found

\* No copy gets lost.
Grows ==
    /\ CopiesFound'
    /\ master # "missing" => master' # "missing"
    /\ slave # "missing" => slave' # "missing"

LEMMA SameGrows == ASSUME CopiesFound, UNCHANGED <<master, slave, inApi, whole>> PROVE Grows
BY DEF CopiesFound, Grows

\* What a step that neither asks nor promises anything leaves of rows and actors.
Marks(S) == \A r \in Rows : status'[r] \in {status[r]} \cup S
Idles(a) == \A b \in Actors \ {a} :
    pc'[b] = pc[b] /\ loop'[b] = loop[b] /\ todo'[b] = todo[b] /\ recover'[b] = recover[b]
Arrives(a, p) == /\ Idles(a) /\ pc'[a] = p
                 /\ todo'[a] \subseteq todo[a] /\ recover'[a] \subseteq recover[a]

Plain == {"failed", "waiting_master", "waiting_slave", "master_complete", "done", "discovered"}
Quiet == {"idle", "down", "connect", "next", "bytes", "complete", "claim", "auth", "add", "hash",
          "promote", "hashResumed", "hashDone", "markDone", "deliver", "seen"}

Passes(a) == Marks(Plain) /\ \E p \in Quiet : Arrives(a, p)

LEMMA MarksFound ==
    ASSUME RowsFound, Grows, NEW S, Marks(S), \A s \in S : StageFound(s)'
    PROVE  RowsFound'
BY DEF RowsFound, StageFound, Grows, Marks

LEMMA ArrivesFound ==
    ASSUME PlacesFound, Grows, NEW a \in Actors, Idles(a), PlaceFound(a)'
    PROVE  PlacesFound'
<1> SUFFICES ASSUME NEW b \in Actors, b # a PROVE PlaceFound(b)'
  BY DEF PlacesFound
<1>1. PlaceFound(b) /\ pc'[b] = pc[b] /\ loop'[b] = loop[b] /\ todo'[b] = todo[b] /\ recover'[b] = recover[b]
  BY DEF PlacesFound, Idles
<1>2. Sweeping(b)' = Sweeping(b)
  BY <1>1 DEF Sweeping
<1> QED BY <1>1, <1>2 DEF PlaceFound, Grows

LEMMA PassesFound ==
    ASSUME Found, Grows, NEW a \in Actors, Passes(a)
    PROVE  Found'
<1>1. \A s \in Plain : StageFound(s)'
  BY DEF Plain, StageFound
<1>2. PlaceFound(a)'
  BY DEF Found, PlacesFound, PlaceFound, Passes, Arrives, Quiet, Grows
<1> QED BY <1>1, <1>2, MarksFound, ArrivesFound DEF Found, Passes, Arrives, Grows

LEMMA GotoArrives ==
    ASSUME PlacesOK, NEW a \in Actors, NEW p, Goto(a, p), UNCHANGED lists
    PROVE  Arrives(a, p)
BY DEF PlacesOK, Goto, Arrives, Idles, lists

LEMMA WriteMarks ==
    ASSUME RowsOK, NEW a, NEW r, NEW v, NEW s, NEW e, WriteOver(a, r, v, s, e)
    PROVE  Marks({s})
BY DEF RowsOK, WriteOver, Marks

LEMMA SomeMarks ==
    ASSUME NEW S, NEW s \in S, Marks({s}) \/ UNCHANGED status
    PROVE  Marks(S)
BY DEF Marks

\* The ways to leave a row, once more.
LEMMA LeavePasses ==
    ASSUME IInv, NEW a \in Actors, Leave(a) PROVE Passes(a)
<1>1. Arrives(a, "next") BY GotoArrives, FromIInv DEF Leave
<1> QED BY <1>1 DEF Passes, Quiet, Leave, rows, Marks

LEMMA MovePasses ==
    ASSUME IInv, NEW a \in Actors, NEW p \in Quiet, Goto(a, p), UNCHANGED <<status, lists>>
    PROVE  Passes(a)
<1>1. Arrives(a, p) BY GotoArrives, FromIInv
<1> QED BY <1>1 DEF Passes, Marks

LEMMA MarkPasses ==
    ASSUME IInv, NEW a \in Actors, NEW r, NEW v, NEW s \in Plain, NEW e, WriteOver(a, r, v, s, e),
           NEW p \in Quiet, Goto(a, p), UNCHANGED lists
    PROVE  Passes(a)
<1>1. Arrives(a, p) BY GotoArrives, FromIInv
<1>2. Marks(Plain) BY WriteMarks, SomeMarks, FromIInv
<1> QED BY <1>1, <1>2 DEF Passes

LEMMA OnWaitPasses ==
    ASSUME IInv, NEW a \in Actors, OnWait(a) PROVE Passes(a)
<1>1. CASE Leave(a)
  BY <1>1, LeavePasses
<1>2. CASE /\ recover' = [recover EXCEPT ![a] = {}] /\ Goto(a, "next")
           /\ UNCHANGED <<rows, loaded, row, loop, todo>>
  <2>1. Arrives(a, "next")
    BY <1>2, FromIInv DEF Arrives, Idles, Goto, ListsOK, PlacesOK
  <2> QED BY <1>2, <2>1 DEF Passes, Quiet, Marks, rows
<1>3. CASE /\ Mark(a, WaitingFor(a), "none")
           /\ todo' = [todo EXCEPT ![a] = {}] /\ Goto(a, "next")
           /\ UNCHANGED <<row, loop, recover>>
  <2>1. Arrives(a, "next")
    BY <1>3, FromIInv DEF Arrives, Idles, Goto, ListsOK, PlacesOK
  <2>2. Marks({WaitingFor(a)})
    BY <1>3, WriteMarks, FromIInv DEF Mark
  <2>3. Marks(Plain)
    BY <2>2, SomeMarks DEF WaitingFor, Plain
  <2> QED BY <2>1, <2>3 DEF Passes, Quiet
<1> QED BY <1>1, <1>2, <1>3 DEF OnWait

LEMMA OnErrorOverPasses ==
    ASSUME IInv, NEW a \in Actors, NEW v, NEW e, OnErrorOver(a, v, e) PROVE Passes(a)
<1>1. CASE Leave(a)
  BY <1>1, LeavePasses
<1>2. CASE Goto(a, "next") /\ UNCHANGED <<status, err, reported, lists>>
  BY <1>2, MovePasses DEF Quiet
<1>3. CASE WriteOver(a, row[a], v, "failed", e) /\ Goto(a, "next") /\ UNCHANGED <<grace, lists>>
  BY <1>3, MarkPasses DEF Quiet, Plain
<1> QED BY <1>1, <1>2, <1>3 DEF OnErrorOver

LEMMA OnErrorPasses ==
    ASSUME IInv, NEW a \in Actors, OnError(a) PROVE Passes(a)
BY OnErrorOverPasses DEF OnError

LEMMA ConcludePasses ==
    ASSUME IInv, NEW a \in Actors, NEW s, Conclude(a, s) PROVE Passes(a)
<1>1. CASE Leave(a)
  BY <1>1, LeavePasses
<1>2. CASE todo' = [todo EXCEPT ![a] = {}] /\ Goto(a, "next") /\ UNCHANGED <<rows, loaded, row, loop, recover>>
  <2>1. Arrives(a, "next")
    BY <1>2, FromIInv DEF Arrives, Idles, Goto, ListsOK, PlacesOK
  <2> QED BY <1>2, <2>1 DEF Passes, Quiet, Marks, rows
<1>3. CASE OnErrorOver(a, s, "other")
  BY <1>3, OnErrorOverPasses
<1> QED BY <1>1, <1>2, <1>3 DEF Conclude

LEMMA DispatchPasses ==
    ASSUME IInv, NEW a \in Actors, NEW s, Dispatch(a, s) PROVE Passes(a)
<1>1. CASE \E p \in {"hash", "auth"} : Goto(a, p) /\ UNCHANGED <<rows, lists>>
  BY <1>1, MovePasses DEF Quiet, rows
<1>2. CASE OnErrorOver(a, s, "other")
  BY <1>2, OnErrorOverPasses
<1> QED BY <1>1, <1>2 DEF Dispatch

LEMMA MasterUnavailablePasses ==
    ASSUME IInv, NEW a \in Actors, MasterUnavailable(a) PROVE Passes(a)
<1>1. Marks(Plain)
  <2>1. Marks({"waiting_master"})
    BY WriteMarks, FromIInv DEF Mark, MasterUnavailable
  <2> QED BY <2>1, SomeMarks DEF Plain
<1>2. \E p \in {"seen", "next"} : Arrives(a, p)
  <2>1. CASE Goto(a, "seen") /\ UNCHANGED lists
    BY <2>1, GotoArrives, FromIInv
  <2>2. CASE /\ Goto(a, "next")
             /\ IF loop[a] = "todo"
                THEN todo' = [todo EXCEPT ![a] = {}] /\ UNCHANGED recover
                ELSE recover' = [recover EXCEPT ![a] = {}] /\ UNCHANGED todo
             /\ UNCHANGED <<row, loop>>
    BY <2>2, FromIInv DEF Arrives, Idles, Goto, ListsOK, PlacesOK
  <2> QED BY <2>1, <2>2 DEF MasterUnavailable
<1> QED BY <1>1, <1>2 DEF Passes, Quiet

\* Where an actor stops or asks nobody, and where it asks the right ones.
LEMMA AsksFound ==
    ASSUME Found, Grows, NEW a \in Actors, NEW p, Arrives(a, p),
           NEW S, Marks(S), \A s \in S : StageFound(s)',
           PlaceFound(a)'
    PROVE  Found'
BY MarksFound, ArrivesFound DEF Found, Arrives, Grows

\* The start of an actor.
LEMMA HookBeginsFound ==
    ASSUME IInv, Found, NEW a \in Actors, HookBegins(a) \/ SlaveHookBegins(a)
    PROVE  Found'
<1>1. UNCHANGED <<status, loop, todo, recover, master, slave, inApi, whole>>
  BY DEF HookBegins, SlaveHookBegins, rows, outside
<1>2. PICK r \in Rows, p \in {"askMaster", "bytes", "askSlave"} :
        /\ Goto(a, p)
        /\ p = "askMaster" => status[r] = "master_added"
        /\ p = "askSlave" => a \in SlaveHooks
  BY DEF HookBegins, SlaveHookBegins
<1>3. a \in Hooks \cup SlaveHooks
  BY DEF HookBegins, SlaveHookBegins
<1>4. a \notin WorkerNames
  BY <1>3, HooksAssumption
<1>5. Arrives(a, p)
  BY <1>1, <1>2, FromIInv DEF Arrives, Idles, Goto, PlacesOK
<1>6. PlaceFound(a)'
  BY <1>1, <1>2, <1>4, <1>5 DEF Found, RowsFound, StageFound, PlaceFound, Arrives, WorkerNames
<1>7. Grows /\ Marks({})
  BY <1>1, SameGrows DEF Found, Marks
<1> QED BY <1>5, <1>6, <1>7, AsksFound

LEMMA BeginFound ==
    ASSUME IInv, Found, NEW a \in Actors, Begin(a)
    PROVE  Found'
<1>1. UNCHANGED <<status, loop, master, slave, inApi, whole>>
  BY DEF Begin, rows, outside
<1>2. PICK p \in {"connect", "next"} : Goto(a, p)
  BY DEF Begin
<1>3. Idles(a) /\ pc'[a] = p /\ todo'[a] = Listed(a) /\ recover'[a] = Recoverable(a)
  BY <1>1, <1>2, FromIInv DEF Begin, Idles, Goto, PlacesOK, ListsOK
<1>4. a \in {"poll_master", "reconcile"} /\ Listed(a) # {} => master # "missing"
  <2> SUFFICES ASSUME NEW r \in Rows, status[r] \in {"master_added", "master_complete"}
               PROVE  master # "missing"
    BY DEF Listed
  <2> QED BY FromIInv DEF Found, CopiesFound, RowsFound, StageFound, StageInv, StageFits
<1>5. PlaceFound(a)'
  BY <1>1, <1>2, <1>3, <1>4 DEF PlaceFound, Recoverable
<1>6. Grows /\ Marks({})
  BY <1>1, SameGrows DEF Found, Marks
<1> QED BY <1>3, <1>5, <1>6, MarksFound, ArrivesFound DEF Found, Grows

LEMMA DiscoverFound ==
    ASSUME IInv, Found, NEW a \in Actors, Discover(a)
    PROVE  Found'
<1>1. UNCHANGED <<loop, todo, recover, master, slave, inApi, whole>> /\ Goto(a, "deliver")
  BY DEF Discover, outside
<1>2. Arrives(a, "deliver")
  BY <1>1, FromIInv DEF Arrives, Idles, Goto, PlacesOK
<1>3. Marks(Plain)
  BY FromIInv DEF Discover, Marks, Plain, RowsOK
<1> QED BY <1>1, <1>2, <1>3, PassesFound, SameGrows DEF Passes, Quiet, Found

\* Going through the lists.
LEMMA ConnectFound ==
    ASSUME IInv, NEW a \in Actors, Connect(a)
    PROVE  Passes(a)
<1>1. PICK p \in {"next", "down"} : Arrives(a, p)
  BY FromIInv DEF Connect, Goto, Arrives, Idles, PlacesOK, ListsOK
<1> QED BY <1>1 DEF Passes, Quiet, Marks, Connect, rows

LEMMA MarkDownFound ==
    ASSUME IInv, NEW a \in Actors, MarkDown(a)
    PROVE  Passes(a)
<1>1. Arrives(a, "down")
  BY FromIInv DEF MarkDown, Arrives, Idles, ListsOK
<1>2. Marks({WaitingFor(a)})
  BY WriteMarks, FromIInv DEF MarkDown
<1>3. Marks(Plain)
  BY <1>2, SomeMarks DEF WaitingFor, Plain
<1> QED BY <1>1, <1>3 DEF Passes, Quiet

LEMMA BackPasses ==
    ASSUME IInv, NEW a \in Actors, Finish(a) \/ Crash(a)
    PROVE  Passes(a)
<1>1. Arrives(a, "idle")
  BY FromIInv DEF Finish, Crash, Goto, Arrives, Idles, PlacesOK, ListsOK
<1> QED BY <1>1 DEF Passes, Quiet, Marks, Finish, Crash, rows

\* A row of a sweep is there; a poll of the slave looks at the row again.
LEMMA TakesFound ==
    ASSUME IInv, Found, NEW a \in Actors, Takes(a)
    PROVE  Found'
<1>1. PICK r \in Rows, which \in {"todo", "recover"}, p \in {"askMaster", "api", "askSlave", "next"} :
        /\ Take(a, r, which) /\ Goto(a, p)
        /\ p = "askMaster" => a \in {"poll_master", "reconcile", "retry_master"}
        /\ p = "api" => a \in Retries
        /\ p = "askSlave" /\ a = "poll_slave" => status[r] = "slave_added"
  BY DEF Takes, TakeWaiting, TakeForSlave, TakeCancelled, TakeForMaster
<1>2. /\ Idles(a) /\ pc'[a] = p /\ loop'[a] = which
      /\ todo'[a] \subseteq todo[a] /\ recover'[a] \subseteq recover[a]
      /\ IF which = "todo" THEN todo[a] # {} ELSE recover[a] # {}
  BY <1>1, FromIInv DEF Take, Goto, Idles, PlacesOK, ListsOK
<1>3. UNCHANGED <<status, master, slave, inApi, whole>>
  BY <1>1 DEF Take, rows, outside
<1>4. Grows /\ Marks({}) /\ PlaceFound(a)
  BY <1>3, SameGrows DEF Found, Marks, PlacesFound
<1>5. a \notin Hooks \/ p \notin {"askMaster"}
  BY <1>1, HooksAssumption DEF WorkerNames
<1>6. PlaceFound(a)'
  <2>1. p = "askMaster" /\ Sweeping(a)' => master # "missing"
    BY <1>1, <1>2, <1>4 DEF PlaceFound, Sweeping
  <2>2. p = "askSlave" /\ a = "poll_slave" => slave # "missing"
    BY <1>1 DEF Found, RowsFound, StageFound
  <2> QED BY <1>1, <1>2, <1>3, <1>4, <1>5, <2>1, <2>2 DEF PlaceFound
<1> QED BY <1>2, <1>4, <1>6, MarksFound, ArrivesFound DEF Found, Grows

\* Marking a row with what the copies bear out, on the way to a harmless place.
LEMMA MarkedFound ==
    ASSUME IInv, Found, Grows, NEW a \in Actors, NEW s, Marks({s}), StageFound(s)',
           NEW p \in Quiet, Goto(a, p), UNCHANGED lists
    PROVE  Found'
<1>1. Arrives(a, p)
  BY GotoArrives, FromIInv
<1>2. PlaceFound(a)'
  BY <1>1 DEF Found, PlacesFound, PlaceFound, Arrives, Quiet, Grows
<1> QED BY <1>1, <1>2, AsksFound

LEMMA MarkMarks ==
    ASSUME IInv, NEW a, NEW s, (\E e : Mark(a, s, e)) \/ MarkResumed(a, s)
    PROVE  Marks({s})
BY WriteMarks, FromIInv DEF Mark, MarkResumed

\* The questions and what follows from the answers.
LEMMA MasterAnswerFound ==
    ASSUME IInv, Found, NEW a \in Actors, UNCHANGED outside, master # "missing",
           MasterWhole(a) \/ MasterPartial(a)
    PROVE  Found'
<1>1. Grows /\ StageFound("master_added")'
  BY SameGrows DEF Found, outside, StageFound
<1>2. CASE Leave(a) \/ (Goto(a, "bytes") /\ UNCHANGED <<rows, loaded, lists>>)
  BY <1>1, <1>2, LeavePasses, MovePasses, PassesFound DEF Quiet, rows
<1>3. CASE /\ Recovering(a) /\ Mark(a, "master_added", "none")
           /\ todo' = [todo EXCEPT ![a] = todo[a] \cup {row[a]}]
           /\ Goto(a, "next")
           /\ UNCHANGED <<row, loop, recover>>
  <2>1. Idles(a) /\ pc'[a] = "next" /\ recover'[a] = recover[a]
    BY <1>3, FromIInv DEF Idles, Goto, PlacesOK, ListsOK
  <2>2. PlaceFound(a)'
    BY <1>1, <2>1 DEF Found, PlacesFound, PlaceFound, Grows
  <2>3. Marks({"master_added"})
    BY <1>3, MarkMarks
  <2> QED BY <1>1, <2>1, <2>2, <2>3, MarksFound, ArrivesFound DEF Found, Grows
<1>4. CASE /\ Mark(a, "master_added", "none") \/ MarkResumed(a, "master_added")
           /\ \E p \in {"bytes", "next"} : Goto(a, p) /\ UNCHANGED lists
  <2>1. Marks({"master_added"})
    BY <1>4, MarkMarks
  <2> QED BY <1>1, <1>4, <2>1, MarkedFound DEF Quiet
<1> QED BY <1>2, <1>3, <1>4 DEF MasterWhole, MasterPartial, Settle

\* None of those who would cancel a row asks for a copy that was never there.
LEMMA MasterMissingFound ==
    ASSUME IInv, Found, NEW a \in Actors, UNCHANGED outside, pc[a] = "askMaster",
           master = "missing", MasterMissing(a)
    PROVE  Found'
<1>1. Grows /\ PlaceFound(a)
  BY SameGrows DEF Found, PlacesFound, outside
<1>2. a \notin Hooks /\ ~Sweeping(a) /\ a # "retry_slave"
  BY <1>1, FromIInv DEF PlaceFound, Found, CopiesFound, ActorInv, PlaceFits
<1>3. CASE Leave(a)
  BY <1>1, <1>3, LeavePasses, PassesFound
<1>4. CASE a = "retry_master" /\ Goto(a, "api") /\ UNCHANGED <<rows, loaded, lists>>
  <2>1. Arrives(a, "api") /\ Marks({})
    BY <1>4, GotoArrives, FromIInv DEF Marks, rows
  <2>2. PlaceFound(a)'
    BY <1>1, <1>4, <2>1 DEF PlaceFound, Arrives, Retries
  <2> QED BY <1>1, <2>1, <2>2, AsksFound
<1> QED BY <1>2, <1>3, <1>4 DEF MasterMissing

LEMMA AskMasterFound ==
    ASSUME IInv, Found, NEW a \in Actors, AskMaster(a)
    PROVE  Found'
<1>1. pc[a] = "askMaster" /\ UNCHANGED outside /\ Grows
  BY SameGrows DEF AskMaster, Found, outside
<1>2. CASE master # "missing" /\ (MasterWhole(a) \/ MasterPartial(a))
  BY <1>1, <1>2, MasterAnswerFound
<1>3. CASE master = "missing" /\ MasterMissing(a)
  BY <1>1, <1>3, MasterMissingFound
<1>4. CASE OnWait(a) \/ Leave(a) \/ OnError(a)
  BY <1>1, <1>4, OnWaitPasses, LeavePasses, OnErrorPasses, PassesFound
<1> QED BY <1>2, <1>3, <1>4 DEF AskMaster

LEMMA NoAnswerFound ==
    ASSUME IInv, Found, Grows, NEW a \in Actors, NoAnswer(a)
    PROVE  Found'
<1>1. CASE Leave(a)
  BY <1>1, LeavePasses, PassesFound
<1>2. CASE a = "resume" /\ Goto(a, "askMaster") /\ UNCHANGED <<rows, loaded, lists>>
  <2>1. Arrives(a, "askMaster") /\ Marks({})
    BY <1>2, GotoArrives, FromIInv DEF Marks, rows
  <2>2. a \notin Hooks /\ a \notin {"poll_master", "poll_slave", "reconcile"}
    BY <1>2, HooksAssumption DEF WorkerNames
  <2>3. PlaceFound(a)'
    BY <2>1, <2>2 DEF PlaceFound, Arrives, Sweeping
  <2> QED BY <2>1, <2>3, AsksFound
<1> QED BY <1>1, <1>2 DEF NoAnswer

LEMMA AskSlaveFound ==
    ASSUME IInv, Found, NEW a \in Actors, AskSlave(a)
    PROVE  Found'
<1>1. pc[a] = "askSlave" /\ UNCHANGED outside /\ Grows /\ PlaceFound(a)
  BY SameGrows DEF AskSlave, Found, PlacesFound, outside
<1>2. CASE slave # "missing" /\ (SlaveWhole(a) \/ SlavePartial(a))
  <2>1. StageFound("slave_added")' /\ StageFound("done")'
    BY <1>1, <1>2 DEF StageFound, Grows
  <2>2. CASE Leave(a)
    BY <1>1, <2>2, LeavePasses, PassesFound
  <2>3. CASE Settle(a, "done", "none")
    BY <1>1, <2>1, <2>3, MarkMarks, MarkedFound DEF Settle, Quiet
  <2>4. CASE \E p \in {"hashDone", "hashResumed"} :
               MarkResumed(a, "slave_added") /\ Goto(a, p) /\ UNCHANGED lists
    BY <1>1, <2>1, <2>4, MarkMarks, MarkedFound DEF Quiet
  <2> QED BY <1>2, <2>2, <2>3, <2>4 DEF SlaveWhole, SlavePartial
<1>3. CASE slave = "missing" /\ SlaveMissing(a)
  <2>1. a # "poll_slave"
    BY <1>1, <1>3 DEF PlaceFound
  <2>2. Leave(a) \/ NoAnswer(a)
    BY <1>3, <2>1 DEF SlaveMissing, NoAnswer
  <2> QED BY <1>1, <2>2, LeavePasses, PassesFound, NoAnswerFound
<1>4. CASE NoAnswer(a) \/ OnError(a)
  BY <1>1, <1>4, NoAnswerFound, OnErrorPasses, PassesFound
<1> QED BY <1>2, <1>3, <1>4 DEF AskSlave

\* The way to the slave.
LEMMA CompletionPasses ==
    ASSUME IInv, NEW a \in Actors, Bytes(a) \/ Complete(a) \/ Claim(a) \/ Auth(a)
    PROVE  Passes(a)
<1>1. CASE OnWait(a) \/ OnError(a) \/ Leave(a) \/ Dispatch(a, status[row[a]])
           \/ \E e : OnErrorOver(a, status[row[a]], e)
  BY <1>1, OnWaitPasses, OnErrorPasses, LeavePasses, DispatchPasses, OnErrorOverPasses
<1>2. CASE \E p \in {"complete", "claim", "hash", "add"} : Goto(a, p) /\ UNCHANGED <<rows, lists>>
  BY <1>2, MovePasses DEF Quiet, rows
<1>3. CASE status' = [status EXCEPT ![row[a]] = "master_complete"] /\ Goto(a, "auth") /\ UNCHANGED lists
  <2>1. Arrives(a, "auth") /\ Marks(Plain)
    BY <1>3, GotoArrives, FromIInv DEF Marks, Plain, RowsOK
  <2> QED BY <2>1 DEF Passes, Quiet
<1>4. CASE Goto(a, "hash") /\ Mark(a, "waiting_slave", "none") /\ UNCHANGED lists
  BY <1>4, MarkPasses DEF Mark, Plain, Quiet
<1> QED BY <1>1, <1>2, <1>3, <1>4 DEF Bytes, Complete, Claim, Auth

LEMMA AddFound ==
    ASSUME IInv, Found, NEW a \in Actors, Add(a)
    PROVE  Found'
<1>1. UNCHANGED <<master, inApi, whole>> /\ (SlaveTakes \/ UNCHANGED slave)
  BY DEF Add
<1>2. Grows /\ PlaceFound(a)
  BY <1>1 DEF Found, PlacesFound, CopiesFound, Grows, SlaveTakes
<1>3. CASE SlaveTakes /\ Goto(a, "added") /\ UNCHANGED <<rows, lists>>
  <2>1. Arrives(a, "added") /\ Marks({}) /\ slave' # "missing"
    BY <1>3, GotoArrives, FromIInv DEF Marks, rows, SlaveTakes
  <2>2. PlaceFound(a)'
    BY <1>2, <2>1 DEF PlaceFound, Arrives, Grows
  <2> QED BY <1>2, <2>1, <2>2, AsksFound
<1>4. CASE Goto(a, "hash") /\ Mark(a, "waiting_slave", "none") /\ UNCHANGED lists
  BY <1>2, <1>4, MarkPasses, PassesFound DEF Mark, Plain, Quiet
<1>5. CASE \E e : OnErrorOver(a, status[row[a]], e)
  BY <1>2, <1>5, OnErrorOverPasses, PassesFound
<1> QED BY <1>3, <1>4, <1>5 DEF Add

LEMMA AddedFound ==
    ASSUME IInv, Found, NEW a \in Actors, Added(a)
    PROVE  Found'
<1>1. Grows /\ slave' # "missing"
  BY SameGrows DEF Added, Found, PlacesFound, PlaceFound, outside
<1>2. StageFound("slave_added")'
  BY <1>1 DEF StageFound
<1> QED BY <1>1, <1>2, MarkMarks, MarkedFound DEF Added, Quiet

LEMMA HashingPasses ==
    ASSUME IInv, NEW a \in Actors, Enqueue(a) \/ EnqueueResumed(a) \/ Promote(a) \/ MarkDone(a)
    PROVE  Passes(a)
<1>1. CASE \E p \in {"promote", "markDone", "next"} : Goto(a, p) /\ UNCHANGED <<rows, lists>>
  BY <1>1, MovePasses DEF Quiet, rows
<1>2. CASE Leave(a) \/ Conclude(a, status[row[a]])
  BY <1>2, LeavePasses, ConcludePasses
<1>3. CASE (Mark(a, "done", "none") \/ MarkResumed(a, "done")) /\ Goto(a, "next") /\ UNCHANGED lists
  BY <1>3, MarkPasses DEF Mark, MarkResumed, Plain, Quiet
<1> QED BY <1>1, <1>2, <1>3 DEF Enqueue, EnqueueResumed, Promote, MarkDone, Settle

\* The way to the master.
LEMMA ApiFound ==
    ASSUME IInv, Found, NEW a \in Actors, Api(a)
    PROVE  Found'
<1>1. Grows /\ inApi /\ a \in Retries
  BY SameGrows DEF Api, Found, CopiesFound, PlacesFound, PlaceFound, outside
<1>2. CASE Goto(a, "deliver") /\ UNCHANGED <<rows, lists>>
  BY <1>1, <1>2, MovePasses, PassesFound DEF Quiet, rows
<1>3. CASE Goto(a, "askMaster") /\ UNCHANGED <<rows, lists>>
  <2>1. Arrives(a, "askMaster") /\ Marks({})
    BY <1>3, GotoArrives, FromIInv DEF Marks, rows
  <2>2. a \notin Hooks /\ a \notin {"poll_master", "poll_slave", "reconcile"}
    BY <1>1, HooksAssumption DEF WorkerNames, Retries
  <2>3. PlaceFound(a)'
    BY <2>1, <2>2 DEF PlaceFound, Arrives, Sweeping
  <2> QED BY <1>1, <2>1, <2>3, AsksFound
<1>4. CASE OnWait(a) \/ OnError(a)
  BY <1>1, <1>4, OnWaitPasses, OnErrorPasses, PassesFound
<1> QED BY <1>1, <1>2, <1>3, <1>4 DEF Api

LEMMA DeliverFound ==
    ASSUME IInv, Found, NEW a \in Actors, Deliver(a)
    PROVE  Found'
<1>1. UNCHANGED <<slave, inApi, whole>> /\ (MasterTakes \/ UNCHANGED master)
  BY DEF Deliver, besideMaster
<1>2. Grows /\ PlaceFound(a)
  BY <1>1 DEF Found, PlacesFound, CopiesFound, Grows, MasterTakes
<1>3. CASE MasterTakes /\ Goto(a, "delivered") /\ UNCHANGED <<rows, lists>>
  <2>1. Arrives(a, "delivered") /\ Marks({}) /\ master' # "missing"
    BY <1>3, GotoArrives, FromIInv DEF Marks, rows, MasterTakes
  <2>2. PlaceFound(a)'
    BY <1>2, <2>1 DEF PlaceFound, Arrives
  <2> QED BY <1>2, <2>1, <2>2, AsksFound
<1>4. CASE MasterUnavailable(a) \/ OnError(a)
  BY <1>2, <1>4, MasterUnavailablePasses, OnErrorPasses, PassesFound
<1> QED BY <1>3, <1>4 DEF Deliver

LEMMA DeliveredFound ==
    ASSUME IInv, Found, NEW a \in Actors, Delivered(a)
    PROVE  Found'
<1>1. Grows /\ master' # "missing"
  BY SameGrows DEF Delivered, Found, PlacesFound, PlaceFound, outside
<1>2. StageFound("master_added")'
  BY <1>1 DEF StageFound
<1>3. PICK p \in {"seen", "next"} : Goto(a, p)
  BY DEF Delivered
<1> QED BY <1>1, <1>2, <1>3, MarkMarks, MarkedFound DEF Delivered, Quiet

LEMMA MarkSeenPasses ==
    ASSUME IInv, NEW a \in Actors, MarkSeen(a)
    PROVE  Passes(a)
BY LeavePasses, OnErrorPasses DEF MarkSeen

LEMMA ActorFound ==
    ASSUME IInv, Found, NEW a \in Actors, Start(a) \/ Work(a) \/ Crash(a)
    PROVE  Found'
<1>1. CASE Start(a) \/ Takes(a) \/ AskMaster(a) \/ AskSlave(a) \/ Add(a) \/ Added(a)
           \/ Api(a) \/ Deliver(a) \/ Delivered(a)
  BY <1>1, HookBeginsFound, BeginFound, DiscoverFound, TakesFound, AskMasterFound, AskSlaveFound,
     AddFound, AddedFound, ApiFound, DeliverFound, DeliveredFound DEF Start
<1>2. CASE Connect(a) \/ MarkDown(a) \/ Finish(a) \/ Crash(a) \/ Bytes(a) \/ Complete(a)
           \/ Claim(a) \/ Auth(a) \/ Enqueue(a) \/ EnqueueResumed(a) \/ Promote(a)
           \/ MarkDone(a) \/ MarkSeen(a)
  <2>1. Passes(a)
    BY <1>2, ConnectFound, MarkDownFound, BackPasses, CompletionPasses, HashingPasses, MarkSeenPasses
  <2>2. UNCHANGED <<master, slave, inApi, whole>>
    BY <1>2 DEF Connect, MarkDown, Finish, Crash, Bytes, Complete, Claim, Auth, Enqueue,
                EnqueueResumed, Promote, MarkDone, MarkSeen, outside, hashOutside
  <2> QED BY <2>1, <2>2, SameGrows, PassesFound DEF Found
<1> QED BY <1>1, <1>2 DEF Work

LEMMA OutsideFound ==
    ASSUME IInv, Found, Calm, Grows
    PROVE  Found'
<1>1. UNCHANGED <<status, pc, loop, todo, recover>>
  BY DEF Calm, rows, actorVars, lists
<1>2. \A a \in Actors : PlaceFound(a)'
  BY <1>1 DEF Found, PlacesFound, PlaceFound, Sweeping, Grows
<1>3. Marks({})
  BY <1>1 DEF Marks
<1> QED BY <1>2, <1>3, MarksFound DEF Found, PlacesFound, Grows

LEMMA FoundStep ==
    ASSUME IInv, FoundInv, [Next]_vars
    PROVE  FoundInv'
<1> SUFFICES ASSUME ~removed' PROVE Found'
  BY DEF FoundInv
<1>1. CASE Remove
  BY <1>1 DEF Remove
<1>2. CASE ~Remove
  <2>1. removed' = removed
    BY <1>2 DEF Next, Start, Work, Takes, vars, outside, hashOutside, besideMaster,
        HookBegins, SlaveHookBegins, Begin, Discover, Connect, MarkDown, Take, TakeWaiting,
        TakeForSlave, TakeCancelled, TakeForMaster, Finish, AskMaster, AskSlave, Bytes, Complete,
        Claim, Auth, Add, Added, Enqueue, EnqueueResumed, Promote, MarkDone, Api, Deliver,
        Delivered, MarkSeen, Crash, Download, PutBack, HashEnds, GoDown, ComeUp, GraceEnds
  <2>2. Found
    BY <2>1 DEF FoundInv
  <2>3. CASE \E a \in Actors : Start(a) \/ Work(a) \/ Crash(a)
    BY <2>2, <2>3, ActorFound
  <2>4. CASE Download
    <3>1. Calm /\ Grows
      BY <2>2, <2>4 DEF Download, Found, CopiesFound, Grows
    <3> QED BY <2>2, <3>1, OutsideFound
  <2>5. CASE PutBack
    <3>1. Calm /\ Grows
      BY <2>2, <2>5, FromIInv DEF PutBack, Found, CopiesFound, Grows
    <3> QED BY <2>2, <3>1, OutsideFound
  <2>6. CASE HashEnds \/ (\E q \in Clients : GoDown(q) \/ ComeUp(q))
    <3>1. Calm /\ UNCHANGED <<master, slave, inApi, whole>>
      BY <2>6 DEF HashEnds, GoDown, ComeUp, hashOutside
    <3> QED BY <2>2, <3>1, SameGrows, OutsideFound DEF Found
  <2>7. CASE (\E r \in Rows : GraceEnds(r)) \/ UNCHANGED vars
    <3>1. UNCHANGED <<status, pc, loop, todo, recover, master, slave, inApi, whole>>
      BY <2>7 DEF GraceEnds, vars, rows, actorVars, lists, outside
    <3> QED BY <2>2, <3>1 DEF Found, CopiesFound, RowsFound, StageFound, PlacesFound, PlaceFound, Sweeping
  <2> QED BY <1>2, <2>3, <2>4, <2>5, <2>6, <2>7 DEF Next
<1> QED BY <1>1, <1>2

\* As long as nobody removes the torrent, no poll, reconcile, webhook or retry
\* cancels a row of it, whatever fails and whoever dies
\* (classify_master_torrent, classify_slave_torrent, torrent_still_in_api).
THEOREM NothingIsCancelled == Spec => []NoFalseCancel
<1>1. Init => FoundInv
  BY DEF Init, FoundInv, Found, CopiesFound, RowsFound, StageFound, PlacesFound, PlaceFound
<1>2. IInv /\ FoundInv /\ [Next]_vars => FoundInv'
  BY FoundStep
<1>3. FoundInv => NoFalseCancel
  BY DEF FoundInv, Found, RowsFound, StageFound, NoFalseCancel
<1> QED BY <1>1, <1>2, <1>3, PipelineInvariant, PTL DEF Spec

-----------------------------------------------------------------------------
(* No hash job is forgotten: what each step leaves of the promise to queue it. *)

\* Who is about to call a row done that some hash job belongs to.
AwaitsSlave(a) == pc[a] \in {"promote", "markDone"} \/ (pc[a] = "askSlave" /\ a # "resume")
Reached == \E r \in Rows : status[r] \in SlaveReached
Owed == Reached \/ \E a \in Actors : AwaitsSlave(a)
Undisturbed == crashes = 0 /\ errors = 0 /\ ~removed

HashInv ==
    /\ hashJob # "none" => hashed
    /\ Undisturbed => (Owed => HashPromised)

\* What most steps leave: no row reaches the slave, and nobody is about to say so.
Early == Status \ SlaveReached
Retreats(a) == Marks(Early) /\ pc'[a] \in PC /\ ~AwaitsSlave(a)'

Budgeted == BudgetOK /\ crashes' = 0 /\ errors' = 0 /\ inApi

LEMMA NoFault == ASSUME Budgeted PROVE ~Fault /\ \A a : ~Crash(a)
BY BoundsAssumption DEF Budgeted, BudgetOK, Fault, Crash

\* A step of an actor keeps the promise if it leaves the hash places only with
\* the job queued, and owes only what was owed, or is on its way to queue it.
Sound(a) ==
    \/ hashed'
    \/ pc'[a] \in HashPlaces
    \/ pc[a] \notin HashPlaces /\ (Owed \/ Retreats(a))

LEMMA PromiseKept ==
    ASSUME PlacesOK, NEW a \in Actors, \A b \in Actors \ {a} : pc'[b] = pc[b],
           hashed => hashed', Owed => HashPromised, Sound(a)
    PROVE  Owed' => HashPromised'
<1>1. CASE hashed' \/ pc'[a] \in HashPlaces
  BY <1>1 DEF HashPromised
<1>2. CASE pc[a] \notin HashPlaces /\ HashPromised
  BY <1>2 DEF HashPromised
<1>3. CASE pc[a] \notin HashPlaces /\ Retreats(a) /\ ~Owed
  <2>1. ~Reached'
    BY <1>3 DEF Owed, Reached, Retreats, Marks, Early
  <2>2. \A b \in Actors \ {a} : ~AwaitsSlave(b)'
    BY <1>3 DEF Owed, AwaitsSlave
  <2> QED BY <1>3, <2>1, <2>2 DEF Owed, Retreats
<1> QED BY <1>1, <1>2, <1>3 DEF Sound

LEMMA MoveRetreats ==
    ASSUME IInv, NEW a \in Actors, NEW p \in PC \ {"promote", "markDone", "askSlave"}, Goto(a, p),
           UNCHANGED status \/ \E s \in Early : Marks({s})
    PROVE  Retreats(a)
<1>1. pc'[a] = p
  BY FromIInv DEF PlacesOK, Goto
<1>2. Marks(Early)
  BY SomeMarks DEF Marks
<1> QED BY <1>1, <1>2 DEF Retreats, AwaitsSlave

LEMMA MarkRetreats ==
    ASSUME IInv, NEW a \in Actors, NEW p \in PC \ {"promote", "markDone", "askSlave"}, Goto(a, p),
           NEW r, NEW v, NEW s \in Early, NEW e, WriteOver(a, r, v, s, e)
    PROVE  Retreats(a)
BY WriteMarks, MoveRetreats, FromIInv

LEMMA WaitRetreats ==
    ASSUME IInv, NEW a \in Actors, OnWait(a) PROVE Retreats(a)
<1> USE DEF PC, Early, Status, SlaveReached
<1>1. CASE Mark(a, WaitingFor(a), "none") /\ Goto(a, "next")
  BY <1>1, MarkRetreats DEF Mark, WaitingFor
<1>2. CASE UNCHANGED rows /\ Goto(a, "next")
  BY <1>2, MoveRetreats DEF rows
<1> QED BY <1>1, <1>2 DEF OnWait, Leave

LEMMA ErrorRetreats ==
    ASSUME IInv, NEW a \in Actors, OnError(a) \/ \E v, e : OnErrorOver(a, v, e) PROVE Retreats(a)
<1> USE DEF PC, Early, Status, SlaveReached
<1>1. PICK v, e : OnErrorOver(a, v, e)
  BY DEF OnError
<1>2. CASE WriteOver(a, row[a], v, "failed", e) /\ Goto(a, "next")
  BY <1>2, MarkRetreats
<1>3. CASE UNCHANGED status /\ Goto(a, "next")
  BY <1>3, MoveRetreats
<1> QED BY <1>1, <1>2, <1>3 DEF OnErrorOver, Leave, rows

LEMMA LeaveRetreats ==
    ASSUME IInv, NEW a \in Actors, Leave(a) PROVE Retreats(a)
BY MoveRetreats DEF Leave, rows, PC

LEMMA SettleRetreats ==
    ASSUME IInv, NEW a \in Actors, NEW s \in Early, NEW e,
           NEW p \in PC \ {"promote", "markDone", "askSlave"}, Goto(a, p),
           Mark(a, s, e) \/ MarkResumed(a, s)
    PROVE  Retreats(a)
BY MarkRetreats DEF Mark, MarkResumed

LEMMA ConcludeRetreats ==
    ASSUME IInv, NEW a \in Actors, NEW s, Conclude(a, s) PROVE Retreats(a)
<1>1. CASE Goto(a, "next") /\ UNCHANGED rows
  BY <1>1, MoveRetreats DEF rows, PC
<1> QED BY <1>1, LeaveRetreats, ErrorRetreats DEF Conclude

LEMMA DispatchRetreats ==
    ASSUME IInv, NEW a \in Actors, NEW s, Dispatch(a, s) PROVE Retreats(a)
<1>1. CASE \E p \in {"hash", "auth"} : Goto(a, p) /\ UNCHANGED rows
  BY <1>1, MoveRetreats DEF rows, PC
<1> QED BY <1>1, ErrorRetreats DEF Dispatch

\* The answers of the master.
LEMMA AskMasterRetreats ==
    ASSUME IInv, NEW a \in Actors, AskMaster(a) PROVE Retreats(a)
<1> USE DEF PC, Early, Status, SlaveReached
<1>1. CASE \E p \in {"bytes", "next", "api"} : Goto(a, p) /\ UNCHANGED rows
  BY <1>1, MoveRetreats DEF rows
<1>2. CASE \E p \in {"bytes", "next"}, s \in {"master_added", "cancelled"} :
             Goto(a, p) /\ ((\E e : Mark(a, s, e)) \/ MarkResumed(a, s))
  BY <1>2, SettleRetreats
<1>3. CASE OnWait(a) \/ Leave(a) \/ OnError(a)
  BY <1>3, WaitRetreats, LeaveRetreats, ErrorRetreats
<1>4. MasterWhole(a) \/ MasterPartial(a) \/ MasterMissing(a) \/ OnWait(a) \/ Leave(a) \/ OnError(a)
  BY DEF AskMaster
<1> QED BY <1>1, <1>2, <1>3, <1>4 DEF MasterWhole, MasterPartial, MasterMissing, Settle

\* The way to the slave, up to the hash job.
LEMMA CompletionRetreats ==
    ASSUME IInv, Budgeted, NEW a \in Actors, Bytes(a) \/ Complete(a) \/ Claim(a) \/ Auth(a) \/ Add(a)
    PROVE  Retreats(a)
<1> USE DEF PC, Early, Status, SlaveReached
<1>1. CASE \E p \in {"complete", "claim", "add", "added", "hash"} : Goto(a, p) /\ UNCHANGED rows
  BY <1>1, MoveRetreats DEF rows
<1>2. CASE Goto(a, "hash") /\ Mark(a, "waiting_slave", "none")
  BY <1>2, SettleRetreats
<1>3. CASE status' = [status EXCEPT ![row[a]] = "master_complete"] /\ Goto(a, "auth")
  <2>1. Marks({"master_complete"})
    BY <1>3, FromIInv DEF Marks, RowsOK
  <2> QED BY <1>3, <2>1, MoveRetreats
<1>4. CASE Dispatch(a, status[row[a]]) \/ Leave(a)
  BY <1>4, DispatchRetreats, LeaveRetreats
<1> QED BY <1>1, <1>2, <1>3, <1>4, NoFault DEF Bytes, Complete, Claim, Auth, Add

\* The way to the master.
LEMMA DeliveryRetreats ==
    ASSUME IInv, Budgeted, NEW a \in Actors, Api(a) \/ Deliver(a) \/ Delivered(a) \/ MarkSeen(a)
    PROVE  Retreats(a)
<1> USE DEF PC, Early, Status, SlaveReached
<1>1. CASE \E p \in {"deliver", "askMaster", "delivered"} : Goto(a, p) /\ UNCHANGED rows
  BY <1>1, MoveRetreats DEF rows
<1>2. CASE \E p \in {"seen", "next"}, s \in {"master_added", "waiting_master", "cancelled"} :
             Goto(a, p) /\ \E e : Mark(a, s, e)
  BY <1>2, SettleRetreats
<1>3. CASE Leave(a)
  BY <1>3, LeaveRetreats
<1> QED BY <1>1, <1>2, <1>3, NoFault DEF Api, Deliver, Delivered, MarkSeen, MasterUnavailable, Settle

\* Who begins, goes through his lists or has come to their end.
LEMMA StartSound ==
    ASSUME IInv, NEW a \in Actors, Start(a)
    PROVE  Sound(a)
<1> USE DEF PC, Early, Status, SlaveReached
<1>1. pc[a] = "idle"
  BY DEF Start, HookBegins, SlaveHookBegins, Begin, Discover
<1>2. CASE SlaveHookBegins(a)
  BY <1>1, <1>2 DEF SlaveHookBegins, Sound, HashPlaces, Owed, Reached
<1>3. CASE \E p \in {"askMaster", "bytes", "connect", "next"} : Goto(a, p) /\ UNCHANGED rows
  BY <1>1, <1>3, MoveRetreats DEF rows, Sound, HashPlaces
<1>4. CASE Discover(a)
  <2>1. Marks({"discovered"})
    BY <1>4, FromIInv DEF Discover, Marks, RowsOK
  <2> QED BY <1>1, <1>4, <2>1, MoveRetreats DEF Discover, Sound, HashPlaces
<1> QED BY <1>2, <1>3, <1>4 DEF Start, HookBegins, Begin

LEMMA ListsSound ==
    ASSUME IInv, NEW a \in Actors, Connect(a) \/ MarkDown(a) \/ Takes(a) \/ Finish(a)
    PROVE  Sound(a)
<1> USE DEF PC, Early, Status, SlaveReached
<1>1. pc[a] \notin HashPlaces
  BY DEF Connect, MarkDown, Takes, TakeWaiting, TakeForSlave, TakeCancelled, TakeForMaster, Take,
     Finish, HashPlaces
<1>2. CASE \E p \in {"askMaster", "api", "down", "next", "idle"} : Goto(a, p) /\ UNCHANGED rows
  BY <1>1, <1>2, MoveRetreats DEF rows, Sound
<1>3. CASE MarkDown(a)
  <2>1. pc'[a] = "down" /\ Marks({WaitingFor(a)})
    BY <1>3, WriteMarks, FromIInv DEF MarkDown
  <2>2. Marks(Early)
    BY <2>1, SomeMarks DEF WaitingFor
  <2> QED BY <1>1, <2>1, <2>2 DEF Sound, Retreats, AwaitsSlave
<1>4. ASSUME NEW r \in Rows, TakeForSlave(a, r) PROVE Sound(a)
  <2>1. CASE status[r] = "slave_added"
    BY <1>1, <2>1 DEF Sound, Owed, Reached
  <2>2. CASE status[r] # "slave_added"
    BY <1>2, <1>4, <2>2 DEF TakeForSlave, Take
  <2> QED BY <2>1, <2>2
<1>5. ASSUME NEW r \in Rows, TakeCancelled(a, r) PROVE Sound(a)
  <2>1. pc'[a] \in {"askSlave", "next"} /\ a = "resume" /\ Marks(Early)
    BY <1>5, FromIInv DEF TakeCancelled, Take, Goto, PlacesOK, Marks, rows
  <2> QED BY <1>1, <2>1 DEF Sound, Retreats, AwaitsSlave
<1>6. CASE Connect(a) \/ Finish(a) \/ \E r \in Rows : TakeWaiting(a, r)
  BY <1>2, <1>6 DEF Connect, Finish, TakeWaiting, Take
<1>7. CASE \E r \in Rows, which \in {"todo", "recover"} : TakeForMaster(a, r, which)
  BY <1>2, <1>7 DEF TakeForMaster, Take
<1> QED BY <1>3, <1>4, <1>5, <1>6, <1>7 DEF Takes

\* What the slave answers: who is no resume has been owed it already.
LEMMA AskSlaveSound ==
    ASSUME IInv, NEW a \in Actors, AskSlave(a)
    PROVE  Sound(a)
<1>1. pc[a] = "askSlave"
  BY DEF AskSlave
<1>2. CASE a # "resume"
  BY <1>1, <1>2 DEF Sound, Owed, AwaitsSlave, HashPlaces
<1>3. CASE a = "resume"
  <2>1. PICK p \in {"hashDone", "hashResumed", "askMaster"} : Goto(a, p) /\ (p = "askMaster" => UNCHANGED rows)
    BY <1>3, HooksAssumption DEF AskSlave, SlaveWhole, SlavePartial, SlaveMissing, NoAnswer, WorkerNames
  <2>2. CASE p = "askMaster"
    BY <1>1, <2>1, <2>2, MoveRetreats DEF Sound, HashPlaces, rows, PC
  <2>3. CASE p # "askMaster"
    BY <2>1, <2>3, FromIInv DEF Sound, HashPlaces, Goto, PlacesOK
  <2> QED BY <2>2, <2>3
<1> QED BY <1>2, <1>3

\* The hash job is queued unless its creation fails.
LEMMA HashSound ==
    ASSUME IInv, Budgeted, hashJob # "none" => hashed, NEW a \in Actors,
           Added(a) \/ Enqueue(a) \/ EnqueueResumed(a) \/ Promote(a) \/ MarkDone(a)
    PROVE  Sound(a)
<1>1. CASE Added(a)
  BY <1>1, FromIInv DEF Added, Goto, PlacesOK, Sound, HashPlaces
<1>2. CASE Enqueue(a) \/ EnqueueResumed(a)
  <2>1. QueueHash
    BY <1>2 DEF Enqueue, EnqueueResumed
  <2> QED BY <2>1, NoFault DEF QueueHash, HashKnown, Budgeted, Sound
<1>3. CASE Promote(a) \/ MarkDone(a)
  BY <1>3 DEF Promote, MarkDone, Sound, Owed, AwaitsSlave, HashPlaces
<1> QED BY <1>1, <1>2, <1>3

LEMMA WorkIsSound ==
    ASSUME IInv, Budgeted, hashJob # "none" => hashed, NEW a \in Actors, Start(a) \/ Work(a)
    PROVE  Sound(a)
<1>1. CASE AskMaster(a) \/ Bytes(a) \/ Complete(a) \/ Claim(a) \/ Auth(a) \/ Add(a)
           \/ Api(a) \/ Deliver(a) \/ Delivered(a) \/ MarkSeen(a)
  <2>1. Retreats(a)
    BY <1>1, AskMasterRetreats, CompletionRetreats, DeliveryRetreats
  <2>2. pc[a] \notin HashPlaces
    BY <1>1 DEF AskMaster, Bytes, Complete, Claim, Auth, Add, Api, Deliver, Delivered, MarkSeen,
       HashPlaces
  <2> QED BY <2>1, <2>2 DEF Sound
<1> QED BY <1>1, StartSound, ListsSound, AskSlaveSound, HashSound DEF Work

\* Only its own steps move an actor.
LEMMA OthersStay ==
    ASSUME PlacesOK, NEW a \in Actors, Start(a) \/ Work(a)
    PROVE  \A b \in Actors \ {a} : pc'[b] = pc[b]
<1>1. CASE UNCHANGED pc \/ \E p : Goto(a, p)
  BY <1>1 DEF Goto, PlacesOK
<1>2. OnWait(a) \/ OnError(a) \/ Leave(a) \/ MasterUnavailable(a)
        \/ (\E v, e : OnErrorOver(a, v, e)) \/ (\E s : Conclude(a, s) \/ Dispatch(a, s))
        \/ MasterWhole(a) \/ MasterPartial(a) \/ MasterMissing(a)
        \/ SlaveWhole(a) \/ SlavePartial(a) \/ SlaveMissing(a) \/ NoAnswer(a)
        => \E p : Goto(a, p)
  BY DEF OnWait, OnError, OnErrorOver, Leave, MasterUnavailable, Conclude, Dispatch, Settle,
     MasterWhole, MasterPartial, MasterMissing, SlaveWhole, SlavePartial, SlaveMissing, NoAnswer
<1>3. CASE Start(a) \/ Connect(a) \/ MarkDown(a) \/ Takes(a) \/ Finish(a)
  BY <1>1, <1>3 DEF Start, HookBegins, SlaveHookBegins, Begin, Discover, Connect, MarkDown, Takes,
     TakeWaiting, TakeForSlave, TakeCancelled, TakeForMaster, Finish
<1>4. CASE AskMaster(a) \/ AskSlave(a) \/ Bytes(a) \/ Complete(a) \/ Claim(a)
  BY <1>1, <1>2, <1>4 DEF AskMaster, AskSlave, Bytes, Complete, Claim
<1>5. CASE Auth(a) \/ Add(a) \/ Added(a) \/ Enqueue(a) \/ Promote(a) \/ EnqueueResumed(a) \/ MarkDone(a)
  BY <1>1, <1>2, <1>5 DEF Auth, Add, Added, Enqueue, Promote, EnqueueResumed, MarkDone, Settle
<1>6. CASE Api(a) \/ Deliver(a) \/ Delivered(a) \/ MarkSeen(a)
  BY <1>1, <1>2, <1>6 DEF Api, Deliver, Delivered, MarkSeen, Settle
<1> QED BY <1>3, <1>4, <1>5, <1>6 DEF Work

LEMMA ActorKeepsPromise ==
    ASSUME IInv, HashInv, Budgeted, Undisturbed, NEW a \in Actors, Start(a) \/ Work(a),
           hashed => hashed'
    PROVE  Owed' => HashPromised'
BY WorkIsSound, OthersStay, PromiseKept, FromIInv DEF HashInv

\* What every step but a removal leaves of the disturbances and the job.
LEMMA JobFrame ==
    ASSUME IInv, [Next]_vars
    PROVE  /\ hashed => hashed'
           /\ hashJob' # hashJob => hashed' \/ hashJob # "none"
           /\ removed => removed'
           /\ errors' \in {errors, errors + 1} /\ crashes' \in {crashes, crashes + 1}
<1> DEFINE Framed == /\ hashed => hashed'
                     /\ hashJob' # hashJob => hashed' \/ hashJob # "none"
                     /\ removed => removed'
                     /\ errors' \in {errors, errors + 1} /\ crashes' \in {crashes, crashes + 1}
<1> USE DEF outside, hashOutside, besideMaster, budget, Fault, AnswerLost, Moved, Settle, Leave
<1>1. ASSUME NEW a \in Actors, Start(a) \/ Crash(a) PROVE Framed
  BY <1>1 DEF Start, HookBegins, SlaveHookBegins, Begin, Discover, Crash
<1>2. ASSUME NEW a \in Actors, Work(a) PROVE Framed
  <2>1. CASE Connect(a) \/ MarkDown(a) \/ Takes(a) \/ Finish(a)
    BY <2>1 DEF Connect, MarkDown, Takes, TakeWaiting, TakeForSlave, TakeCancelled, TakeForMaster,
       Take, Finish
  <2>2. CASE AskMaster(a) \/ AskSlave(a) \/ Bytes(a) \/ Complete(a) \/ Claim(a)
    BY <2>2 DEF AskMaster, AskSlave, Bytes, Complete, Claim
  <2>3. CASE Auth(a) \/ Add(a) \/ Added(a) \/ Promote(a) \/ MarkDone(a)
    BY <2>3 DEF Auth, Add, Added, Promote, MarkDone
  <2>4. CASE Enqueue(a) \/ EnqueueResumed(a)
    BY <2>4 DEF Enqueue, EnqueueResumed, QueueHash
  <2>5. CASE Api(a) \/ Deliver(a) \/ Delivered(a) \/ MarkSeen(a)
    BY <2>5 DEF Api, Deliver, Delivered, MarkSeen
  <2> QED BY <1>2, <2>1, <2>2, <2>3, <2>4, <2>5 DEF Work
<1>3. CASE Download \/ Remove \/ PutBack \/ HashEnds
  BY <1>3 DEF Download, Remove, PutBack, HashEnds
<1>4. CASE (\E q \in Clients : GoDown(q) \/ ComeUp(q)) \/ (\E r \in Rows : GraceEnds(r)) \/ UNCHANGED vars
  BY <1>4 DEF GoDown, ComeUp, GraceEnds, vars
<1> QED BY <1>1, <1>2, <1>3, <1>4 DEF Next

LEMMA HashInvStep ==
    ASSUME IInv, FoundInv, HashInv, [Next]_vars
    PROVE  HashInv'
<1>1. hashJob' # "none" => hashed'
  BY JobFrame DEF HashInv
<1>2. ASSUME Undisturbed' PROVE Owed' => HashPromised'
  <2>1. Undisturbed
    BY <1>2, JobFrame, FromIInv, BoundsAssumption DEF Undisturbed, BudgetOK
  <2>2. Budgeted
    BY <1>2, <2>1, FromIInv DEF Undisturbed, Budgeted, FoundInv, Found, CopiesFound
  <2>3. CASE \E a \in Actors : Start(a) \/ Work(a)
    BY <2>1, <2>2, <2>3, ActorKeepsPromise, JobFrame
  <2>4. CASE UNCHANGED <<status, pc>>
    BY <2>1, <2>4, JobFrame DEF HashInv, Owed, Reached, AwaitsSlave, HashPromised
  <2>5. ~\E a \in Actors : Crash(a)
    BY <2>2, NoFault
  <2> QED
    BY <2>3, <2>4, <2>5 DEF Next, Download, Remove, PutBack, HashEnds, GoDown, ComeUp, GraceEnds,
       Calm, rows, actorVars, vars
<1> QED BY <1>1, <1>2 DEF HashInv

\* Unless a call raises, an actor dies or the torrent is removed, no row gets to
\* the slave without its hash job: it was queued, or somebody is about to
\* (_after_slave_add, _enqueue_hash_torrent).
THEOREM NoHashIsForgotten == Spec => []HashIsPromised
<1>1. Init => FoundInv /\ HashInv
  BY DEF Init, FoundInv, Found, CopiesFound, RowsFound, StageFound, PlacesFound, PlaceFound, HashInv,
     Owed, Reached, AwaitsSlave, SlaveReached
<1>2. IInv /\ FoundInv /\ HashInv /\ [Next]_vars => (FoundInv /\ HashInv)'
  BY FoundStep, HashInvStep
<1>3. HashInv => HashIsPromised
  BY DEF HashInv, HashIsPromised, Undisturbed, Owed, Reached
<1> QED BY <1>1, <1>2, <1>3, PipelineInvariant, PTL DEF Spec
=============================================================================
