---------------------------- MODULE ServicesProofs ----------------------------
(***************************************************************************)
(* Proofs about the services of MCServices that have no proof module of their  *)
(* own: UiEvents (no baseline is older than its channel, no read outlives close, *)
(* nobody is left deaf and no change is lost), FileHashes (a hash that is       *)
(* believed is that of the content, and a backfill that is through has left      *)
(* nothing out), CatalogSweep (nothing that is listed is taken for absent) and    *)
(* ReleaseSync (its types; one pass works at a time, and nothing the pipeline      *)
(* lacks stays hidden from the next one); then that all seven keep their types    *)
(* side by side.                                                              *)
(***************************************************************************)
EXTENDS MCServices, EncoderSubmissionProofs, EncoderTrackingProofs, AutomaticEncoderProofs,
        FiniteSetTheorems, SequenceTheorems, TLAPS

-----------------------------------------------------------------------------
(* UiEvents.                                                                 *)

\* A read only counts for channels that were there all the time, and without
\* subscribers a channel has no baseline.
TokenInv ==
    /\ mine \subseteq Present
    /\ \A ch \in Channels :
          /\ born[ch] <= data[ch]
          /\ ch \notin Present => base[ch] = NoToken
          /\ base[ch] # NoToken => base[ch] >= born[ch]
    /\ \A ch \in mine : read[ch] # NoToken => read[ch] >= born[ch]
    /\ poll # "answered" => read = [ch \in Channels |-> NoToken]

UiInv == UiTypeOK /\ TokenInv /\ NoReadAfterClose

LEMMA UiInitHolds == UiInit => UiInv
BY TokenAssumption DEF UiInit, UiInv, UiTypeOK, TokenInv, NoReadAfterClose, Present

\* Every variable keeps its type.
LEMMA UiTypeStep == UiTypeOK /\ [UiNext]_uiVars => UiTypeOK'
<1> SUFFICES ASSUME UiTypeOK, [UiNext]_uiVars PROVE UiTypeOK' OBVIOUS
<1> USE TokenAssumption DEF channelVars, pageVars, wakeVars, pollVars, UiTypeOK, Present
<1>1. ASSUME NEW ch \in Channels, Change(ch) PROVE UiTypeOK'
  BY <1>1 DEF Change
<1>2. ASSUME NEW s \in Streams, Subscribe(s) PROVE UiTypeOK'
  BY <1>2 DEF Subscribe
<1>3. ASSUME NEW s \in Streams, LeavePage(s) PROVE UiTypeOK'
  BY <1>3 DEF LeavePage, Unregister, Forgotten
<1>4. ASSUME NEW s \in Streams, Reconnect(s) PROVE UiTypeOK'
  BY <1>4 DEF Reconnect
<1>5. ASSUME NEW s \in Streams, WakeUp(s) PROVE UiTypeOK'
  BY <1>5 DEF WakeUp
<1>6. ASSUME NEW s \in Streams, WaitAgain(s) PROVE UiTypeOK'
  BY <1>6 DEF WaitAgain
<1>7. ASSUME NEW s \in Streams, EndStream(s) PROVE UiTypeOK'
  BY <1>7 DEF EndStream, Unregister, Forgotten
<1>8. ASSUME NEW s \in Streams, NEW ch \in Channels, Announce(s, ch) PROVE UiTypeOK'
  BY <1>8 DEF Announce
<1>9. ASSUME PollTop PROVE UiTypeOK'
  BY <1>9 DEF PollTop, PollEnds
<1>10. ASSUME NEW lost \in SUBSET Channels, ReadTokens(lost) PROVE UiTypeOK'
  BY <1>10 DEF ReadTokens
<1>11. ASSUME ApplyTokens PROVE UiTypeOK'
  BY <1>11 DEF ApplyTokens, LoopEnds, PollEnds
<1>12. ASSUME Close PROVE UiTypeOK'
  BY <1>12 DEF Close
<1>13. ASSUME Down PROVE UiTypeOK'
  BY <1>13 DEF Down, Drained
<1>14. CASE UNCHANGED uiVars
  BY <1>14 DEF uiVars
<1> QED
  BY <1>1, <1>2, <1>3, <1>4, <1>5, <1>6, <1>7, <1>8, <1>9, <1>10, <1>11, <1>12, <1>13, <1>14
  DEF UiNext, StreamStep, PollStep

\* Tokens stay apart from channels that are gone.
LEMMA TokenStep == UiTypeOK /\ TokenInv /\ [UiNext]_uiVars => TokenInv'
<1> SUFFICES ASSUME UiTypeOK /\ TokenInv, [UiNext]_uiVars PROVE TokenInv' OBVIOUS
<1> USE TokenAssumption DEF channelVars, pageVars, wakeVars, pollVars, UiTypeOK, TokenInv, Present
<1>1. ASSUME NEW ch \in Channels, Change(ch) PROVE TokenInv'
  BY <1>1 DEF Change
<1>2. ASSUME NEW s \in Streams, Subscribe(s) PROVE TokenInv'
  BY <1>2 DEF Subscribe
<1>3. ASSUME NEW s \in Streams, LeavePage(s) PROVE TokenInv'
  BY <1>3 DEF LeavePage, Unregister, Forgotten
<1>4. ASSUME NEW s \in Streams, Reconnect(s) PROVE TokenInv'
  BY <1>4 DEF Reconnect
<1>5. ASSUME NEW s \in Streams, WakeUp(s) PROVE TokenInv'
  BY <1>5 DEF WakeUp
<1>6. ASSUME NEW s \in Streams, WaitAgain(s) PROVE TokenInv'
  BY <1>6 DEF WaitAgain
<1>7. ASSUME NEW s \in Streams, EndStream(s) PROVE TokenInv'
  BY <1>7 DEF EndStream, Unregister, Forgotten
<1>8. ASSUME NEW s \in Streams, NEW ch \in Channels, Announce(s, ch) PROVE TokenInv'
  BY <1>8 DEF Announce
<1>9. ASSUME PollTop PROVE TokenInv'
  BY <1>9 DEF PollTop, PollEnds
<1>10. ASSUME NEW lost \in SUBSET Channels, ReadTokens(lost) PROVE TokenInv'
  BY <1>10 DEF ReadTokens
<1>11. ASSUME ApplyTokens PROVE TokenInv'
  BY <1>11 DEF ApplyTokens, LoopEnds, PollEnds
<1>12. ASSUME Close PROVE TokenInv'
  BY <1>12 DEF Close
<1>13. ASSUME Down PROVE TokenInv'
  BY <1>13 DEF Down, Drained
<1>14. CASE UNCHANGED uiVars
  BY <1>14 DEF uiVars
<1> QED
  BY <1>1, <1>2, <1>3, <1>4, <1>5, <1>6, <1>7, <1>8, <1>9, <1>10, <1>11, <1>12, <1>13, <1>14
  DEF UiNext, StreamStep, PollStep

\* What close has waited for does not come back.
LEMMA CloseStep == UiTypeOK /\ NoReadAfterClose /\ [UiNext]_uiVars => NoReadAfterClose'
<1> SUFFICES ASSUME UiTypeOK /\ NoReadAfterClose, [UiNext]_uiVars PROVE NoReadAfterClose' OBVIOUS
<1> USE TokenAssumption DEF channelVars, pageVars, wakeVars, pollVars, UiTypeOK, NoReadAfterClose
<1>1. ASSUME NEW ch \in Channels, Change(ch) PROVE NoReadAfterClose'
  BY <1>1 DEF Change
<1>2. ASSUME NEW s \in Streams, Subscribe(s) PROVE NoReadAfterClose'
  BY <1>2 DEF Subscribe
<1>3. ASSUME NEW s \in Streams, LeavePage(s) PROVE NoReadAfterClose'
  BY <1>3 DEF LeavePage, Unregister, Forgotten
<1>4. ASSUME NEW s \in Streams, Reconnect(s) PROVE NoReadAfterClose'
  BY <1>4 DEF Reconnect
<1>5. ASSUME NEW s \in Streams, WakeUp(s) PROVE NoReadAfterClose'
  BY <1>5 DEF WakeUp
<1>6. ASSUME NEW s \in Streams, WaitAgain(s) PROVE NoReadAfterClose'
  BY <1>6 DEF WaitAgain
<1>7. ASSUME NEW s \in Streams, EndStream(s) PROVE NoReadAfterClose'
  BY <1>7 DEF EndStream, Unregister, Forgotten
<1>8. ASSUME NEW s \in Streams, NEW ch \in Channels, Announce(s, ch) PROVE NoReadAfterClose'
  BY <1>8 DEF Announce
<1>9. ASSUME PollTop PROVE NoReadAfterClose'
  BY <1>9 DEF PollTop, PollEnds
<1>10. ASSUME NEW lost \in SUBSET Channels, ReadTokens(lost) PROVE NoReadAfterClose'
  BY <1>10 DEF ReadTokens
<1>11. ASSUME ApplyTokens PROVE NoReadAfterClose'
  BY <1>11 DEF ApplyTokens, LoopEnds, PollEnds
<1>12. ASSUME Close PROVE NoReadAfterClose'
  BY <1>12 DEF Close
<1>13. ASSUME Down PROVE NoReadAfterClose'
  BY <1>13 DEF Down, Drained
<1>14. CASE UNCHANGED uiVars
  BY <1>14 DEF uiVars
<1> QED
  BY <1>1, <1>2, <1>3, <1>4, <1>5, <1>6, <1>7, <1>8, <1>9, <1>10, <1>11, <1>12, <1>13, <1>14
  DEF UiNext, StreamStep, PollStep

\* The inductive invariant holds.
LEMMA UiInvariant == UiSpec => []UiInv
<1>1. UiInv /\ [UiNext]_uiVars => UiInv'
  BY UiTypeStep, TokenStep, CloseStep DEF UiInv
<1> QED BY <1>1, UiInitHolds, PTL DEF UiSpec

\* No channel takes a baseline from a read that began before its first
\* subscriber came (UiEventBroadcaster._poll), so that no change is mistaken for known.
THEOREM BaselinesAreOwn == UiSpec => []BaselineIsOwn
<1>1. UiInv => BaselineIsOwn
  BY DEF UiInv, TokenInv, BaselineIsOwn, Present
<1> QED BY <1>1, UiInvariant, PTL

\* After close no read is under way and none begins (UiEventBroadcaster.close).
THEOREM NothingReadsAfterClose == UiSpec => []NoReadAfterClose
<1>1. UiInv => NoReadAfterClose
  BY DEF UiInv
<1> QED BY <1>1, UiInvariant, PTL

\* What is pending has its wake-up, what is outgoing somebody who sends it, and who
\* subscribes a stream and a task; close leaves nobody subscribed.
HearingInv ==
    /\ NobodyIsDeaf
    /\ closing # "no" => Present = {}
    /\ \A s \in Streams : stream[s] # "sending" => outgoing[s] = {}

\* Nobody becomes deaf.
LEMMA HearingStep ==
  UiTypeOK /\ HearingInv /\ [UiNext]_uiVars => HearingInv'
<1> SUFFICES ASSUME UiTypeOK /\ HearingInv, [UiNext]_uiVars PROVE HearingInv' OBVIOUS
<1> USE TokenAssumption DEF channelVars, pageVars, wakeVars, pollVars, UiTypeOK, HearingInv, NobodyIsDeaf, Present
<1>1. ASSUME NEW ch \in Channels, Change(ch) PROVE HearingInv'
  BY <1>1 DEF Change
<1>2. ASSUME NEW s \in Streams, Subscribe(s) PROVE HearingInv'
  BY <1>2 DEF Subscribe
<1>3. ASSUME NEW s \in Streams, LeavePage(s) PROVE HearingInv'
  BY <1>3 DEF LeavePage, Unregister, Forgotten
<1>4. ASSUME NEW s \in Streams, Reconnect(s) PROVE HearingInv'
  BY <1>4 DEF Reconnect
<1>5. ASSUME NEW s \in Streams, WakeUp(s) PROVE HearingInv'
  BY <1>5 DEF WakeUp
<1>6. ASSUME NEW s \in Streams, WaitAgain(s) PROVE HearingInv'
  BY <1>6 DEF WaitAgain
<1>7. ASSUME NEW s \in Streams, EndStream(s) PROVE HearingInv'
  BY <1>7 DEF EndStream, Unregister, Forgotten
<1>8. ASSUME NEW s \in Streams, NEW ch \in Channels, Announce(s, ch) PROVE HearingInv'
  BY <1>8 DEF Announce
<1>9. ASSUME PollTop PROVE HearingInv'
  BY <1>9 DEF PollTop, PollEnds
<1>10. ASSUME NEW lost \in SUBSET Channels, ReadTokens(lost) PROVE HearingInv'
  BY <1>10 DEF ReadTokens
<1>11. ASSUME ApplyTokens PROVE HearingInv'
  BY <1>11 DEF ApplyTokens, LoopEnds, PollEnds
<1>12. ASSUME Close PROVE HearingInv'
  BY <1>12 DEF Close
<1>13. ASSUME Down PROVE HearingInv'
  BY <1>13 DEF Down, Drained
<1>14. CASE UNCHANGED uiVars
  BY <1>14 DEF uiVars
<1> QED
  BY <1>1, <1>2, <1>3, <1>4, <1>5, <1>6, <1>7, <1>8, <1>9, <1>10, <1>11, <1>12, <1>13, <1>14
  DEF UiNext, StreamStep, PollStep

\* Each step keeps what is owed.
LEMMA OwedStep ==
  ASSUME NEW p \in Streams, NEW c \in Channels, UiInv /\ HearingInv, [UiNext]_uiVars
  PROVE  KeepsOwed(p, c)
<1> USE TokenAssumption DEF channelVars, pageVars, wakeVars, pollVars, UiInv, UiTypeOK, TokenInv, HearingInv, Present, KeepsOwed
<1>1. ASSUME NEW ch \in Channels, Change(ch) PROVE KeepsOwed(p, c)
  BY <1>1 DEF Change
<1>2. ASSUME NEW s \in Streams, Subscribe(s) PROVE KeepsOwed(p, c)
  BY <1>2 DEF Subscribe
<1>3. ASSUME NEW s \in Streams, LeavePage(s) PROVE KeepsOwed(p, c)
  BY <1>3 DEF LeavePage, Unregister, Forgotten
<1>4. ASSUME NEW s \in Streams, Reconnect(s) PROVE KeepsOwed(p, c)
  BY <1>4 DEF Reconnect
<1>5. ASSUME NEW s \in Streams, WakeUp(s) PROVE KeepsOwed(p, c)
  BY <1>5 DEF WakeUp
<1>6. ASSUME NEW s \in Streams, WaitAgain(s) PROVE KeepsOwed(p, c)
  BY <1>6 DEF WaitAgain
<1>7. ASSUME NEW s \in Streams, EndStream(s) PROVE KeepsOwed(p, c)
  BY <1>7 DEF EndStream, Unregister, Forgotten
<1>8. ASSUME NEW s \in Streams, NEW ch \in Channels, Announce(s, ch) PROVE KeepsOwed(p, c)
  BY <1>8 DEF Announce
<1>9. ASSUME PollTop PROVE KeepsOwed(p, c)
  BY <1>9 DEF PollTop, PollEnds
<1>10. ASSUME NEW lost \in SUBSET Channels, ReadTokens(lost) PROVE KeepsOwed(p, c)
  BY <1>10 DEF ReadTokens
<1>11. ASSUME ApplyTokens PROVE KeepsOwed(p, c)
  BY <1>11 DEF ApplyTokens, LoopEnds, PollEnds
<1>12. ASSUME Close PROVE KeepsOwed(p, c)
  BY <1>12 DEF Close
<1>13. ASSUME Down PROVE KeepsOwed(p, c)
  BY <1>13 DEF Down, Drained
<1>14. CASE UNCHANGED uiVars
  BY <1>14 DEF uiVars
<1> QED
  BY <1>1, <1>2, <1>3, <1>4, <1>5, <1>6, <1>7, <1>8, <1>9, <1>10, <1>11, <1>12, <1>13, <1>14
  DEF UiNext, StreamStep, PollStep

\* Both invariants hold together.
LEMMA HearingInvariant == UiSpec => [](UiInv /\ HearingInv)
<1>1. UiInit => HearingInv
  BY DEF UiInit, HearingInv, NobodyIsDeaf, Present
<1>2. UiInv /\ HearingInv /\ [UiNext]_uiVars => HearingInv'
  BY HearingStep DEF UiInv
<1> QED BY <1>1, <1>2, UiInvariant, PTL DEF UiSpec

\* Nobody who subscribes is left without a task, a stream or a wake-up, however
\* subscribers, reads and the end of the task interleave (UiEventBroadcaster._poll).
THEOREM SubscribersAreHeard == UiSpec => []NobodyIsDeaf
<1>1. HearingInv => NobodyIsDeaf
  BY DEF HearingInv
<1> QED BY <1>1, HearingInvariant, PTL

\* No step loses a change: every subscriber of a channel with a baseline is told of its
\* next token, and what was told to it stays owed until the page has fetched it.
THEOREM NoChangeIsLost == UiSpec => ChangesAreOwed
<1>1. UiInv /\ HearingInv /\ [UiNext]_uiVars
        => [\A s \in Streams, ch \in Channels : KeepsOwed(s, ch)]_uiVars
  BY OwedStep
<1> QED BY <1>1, HearingInvariant, PTL DEF UiSpec, ChangesAreOwed

-----------------------------------------------------------------------------
(* FileHashes.                                                               *)

\* A row and a hand are never ahead of the file, and right if they are level.
TrueInv ==
    /\ \A f \in HashFiles :
          /\ diskHash[f].stamp <= stamp[f]
          /\ diskHash[f].stamp = stamp[f] => diskHash[f].hash = stamp[f]
    /\ \A h \in Hashers : hashing[h] \in {"reading", "read"} =>
          /\ hand[h].stat <= stamp[hand[h].file]
          /\ \A g \in ahead[h] : hand[h].file <= g
          /\ hashing[h] = "read" /\ hand[h].stat = stamp[hand[h].file] =>
                hand[h].digest = hand[h].stat

\* What the backfill has left behind has its hash, unless it was spoilt.
BehindInv ==
    \A f \in HashFiles \ spoilt :
        /\ f <= folderDone => Believed(f)
        /\ hashing[FolderPass] # "idle" /\ f \notin ahead[FolderPass] => Believed(f)

HashInv == HashTypeOK /\ TrueInv /\ BehindInv

LEMMA HashInitHolds == HashInit => HashInv
BY HashersAssumption
DEF HashInit, HashInv, HashTypeOK, TrueInv, BehindInv, Hashers, HashFiles, Empty, Believed

LEMMA FileDomains ==
    /\ FolderPass \in Hashers
    /\ LastFile \in Nat /\ 1 \in HashFiles
    /\ \A f \in HashFiles : f \in Nat /\ 0 < f /\ f <= LastFile
BY HashersAssumption DEF Hashers, HashFiles

LEMMA LeastIsLess ==
    ASSUME NEW k \in Nat, NEW S, \A g \in S : k <= g /\ g \in Nat
    PROVE  \A g \in S \ {k} : k < g
OBVIOUS

\* Every variable keeps its type.
LEMMA HashTypeStep == HashTypeOK /\ TrueInv /\ [HashNext]_hashVars => HashTypeOK'
<1> SUFFICES ASSUME HashTypeOK /\ TrueInv, [HashNext]_hashVars PROVE HashTypeOK' OBVIOUS
<1> USE FileDomains DEF HashTypeOK, TrueInv, BehindInv, HashInv, Believed, HashAt, Put, Empty
<1>1. ASSUME NEW f \in HashFiles, Write(f) PROVE HashTypeOK'
  BY <1>1 DEF Write
<1>2. ASSUME NEW h \in Hashers, NEW f \in HashFiles, PassGate(h, f) PROVE HashTypeOK'
  <2>1. CASE h = FolderPass
    <3>1. f \in 0 .. LastFile
      BY <1>2 DEF PassGate, FileIsNext, CheckpointAt
    <3>2. \A g \in ahead[h] \ {f} : f < g
      BY <1>2, <3>1 DEF PassGate, FileIsNext, CheckpointAt
    <3> QED BY <1>2, <2>1, <3>1, <3>2 DEF PassGate, FileIsNext, CheckpointAt
  <2>2. CASE h # FolderPass
    BY <1>2, <2>2 DEF PassGate, FileIsNext, CheckpointAt
  <2> QED BY <2>1, <2>2
<1>3. ASSUME NEW h \in Hashers, NEW f \in HashFiles, OpenFile(h, f) PROVE HashTypeOK'
  BY <1>3 DEF OpenFile, FileIsNext
<1>4. ASSUME NEW h \in Hashers, StartHashing(h) PROVE HashTypeOK'
  <2>1. CASE h = FolderPass
    BY <1>4, <2>1 DEF StartHashing
  <2>2. CASE h # FolderPass
    <3>1. PICK f \in HashFiles : ahead' = [ahead EXCEPT ![h] = {f}]
      BY <1>4, <2>2 DEF StartHashing
    <3>2. ahead' \in [Hashers -> SUBSET HashFiles] /\ ahead'[FolderPass] = ahead[FolderPass]
      BY <2>2, <3>1
    <3> QED BY <1>4, <2>2, <3>2 DEF StartHashing
  <2> QED BY <2>1, <2>2
<1>5. ASSUME NEW h \in Hashers, ReadFile(h) PROVE HashTypeOK'
  BY <1>5 DEF ReadFile, Torn
<1>6. ASSUME NEW h \in Hashers, RecordHash(h) PROVE HashTypeOK'
  <2>1. CASE h = FolderPass
    <3>1. hand[h].file \in 0 .. LastFile
      BY <1>6 DEF RecordHash, StampStored, CheckpointAt
    <3>2. \A g \in ahead[h] \ {hand[h].file} : hand[h].file < g
      <4>1. \A g \in ahead[h] : hand[h].file <= g /\ g \in Nat
        BY <1>6 DEF RecordHash, StampStored, CheckpointAt
      <4>2. hand[h].file \in Nat
        BY FileDomains
      <4> HIDE DEF HashTypeOK, TrueInv
      <4> QED BY <4>1, <4>2, LeastIsLess
    <3> QED BY <1>6, <2>1, <3>1, <3>2 DEF RecordHash, StampStored, CheckpointAt
  <2>2. CASE h # FolderPass
    BY <1>6, <2>2 DEF RecordHash, StampStored, CheckpointAt
  <2> QED BY <2>1, <2>2
<1>7. ASSUME NEW h \in Hashers, MissFile(h) PROVE HashTypeOK'
  <2>1. CASE h = FolderPass
    <3>1. hand[h].file \in 0 .. LastFile
      BY <1>7 DEF MissFile, HashFault, CheckpointAt
    <3>2. \A g \in ahead[h] \ {hand[h].file} : hand[h].file < g
      <4>1. \A g \in ahead[h] : hand[h].file <= g /\ g \in Nat
        BY <1>7 DEF MissFile, HashFault, CheckpointAt
      <4>2. hand[h].file \in Nat
        BY FileDomains
      <4> HIDE DEF HashTypeOK, TrueInv
      <4> QED BY <4>1, <4>2, LeastIsLess
    <3> QED BY <1>7, <2>1, <3>1, <3>2 DEF MissFile, HashFault, CheckpointAt
  <2>2. CASE h # FolderPass
    BY <1>7, <2>2 DEF MissFile, HashFault, CheckpointAt
  <2> QED BY <2>1, <2>2
<1>8. ASSUME NEW h \in Hashers, BreakHashing(h) PROVE HashTypeOK'
  BY <1>8 DEF BreakHashing, HashFault, CheckpointLeft
<1>9. ASSUME NEW h \in Hashers, EndHashing(h) PROVE HashTypeOK'
  BY <1>9 DEF EndHashing
<1>10. CASE UNCHANGED hashVars
  BY <1>10 DEF hashVars
<1> QED BY <1>1, <1>2, <1>3, <1>4, <1>5, <1>6, <1>7, <1>8, <1>9, <1>10 DEF HashNext

\* Rows and hands stay true.
LEMMA TrueStep == HashTypeOK /\ TrueInv /\ [HashNext]_hashVars => TrueInv'
<1> SUFFICES ASSUME HashTypeOK /\ TrueInv, [HashNext]_hashVars PROVE TrueInv' OBVIOUS
<1> USE FileDomains DEF HashTypeOK, TrueInv, BehindInv, HashInv, Believed, HashAt, Put, Empty
<1>1. ASSUME NEW f \in HashFiles, Write(f) PROVE TrueInv'
  BY <1>1 DEF Write
<1>2. ASSUME NEW h \in Hashers, NEW f \in HashFiles, PassGate(h, f) PROVE TrueInv'
  BY <1>2 DEF PassGate, FileIsNext, CheckpointAt
<1>3. ASSUME NEW h \in Hashers, NEW f \in HashFiles, OpenFile(h, f) PROVE TrueInv'
  BY <1>3 DEF OpenFile, FileIsNext
<1>4. ASSUME NEW h \in Hashers, StartHashing(h) PROVE TrueInv'
  BY <1>4 DEF StartHashing
<1>5. ASSUME NEW h \in Hashers, ReadFile(h) PROVE TrueInv'
  BY <1>5 DEF ReadFile, Torn
<1>6. ASSUME NEW h \in Hashers, RecordHash(h) PROVE TrueInv'
  BY <1>6 DEF RecordHash, StampStored, CheckpointAt
<1>7. ASSUME NEW h \in Hashers, MissFile(h) PROVE TrueInv'
  BY <1>7 DEF MissFile, HashFault, CheckpointAt
<1>8. ASSUME NEW h \in Hashers, BreakHashing(h) PROVE TrueInv'
  BY <1>8 DEF BreakHashing, HashFault, CheckpointLeft
<1>9. ASSUME NEW h \in Hashers, EndHashing(h) PROVE TrueInv'
  BY <1>9 DEF EndHashing
<1>10. CASE UNCHANGED hashVars
  BY <1>10 DEF hashVars
<1> QED BY <1>1, <1>2, <1>3, <1>4, <1>5, <1>6, <1>7, <1>8, <1>9, <1>10 DEF HashNext

\* What lies behind the checkpoint stays done.
LEMMA BehindStep == HashInv /\ [HashNext]_hashVars => BehindInv'
<1> SUFFICES ASSUME HashInv, [HashNext]_hashVars PROVE BehindInv' OBVIOUS
<1> USE FileDomains DEF HashTypeOK, TrueInv, BehindInv, HashInv, Believed, HashAt, Put, Empty
<1>1. ASSUME NEW f \in HashFiles, Write(f) PROVE BehindInv'
  BY <1>1 DEF Write
<1>2. ASSUME NEW h \in Hashers, NEW f \in HashFiles, PassGate(h, f) PROVE BehindInv'
  <2>1. CASE h = FolderPass
    <3>1. f \in 0 .. LastFile
      BY <1>2 DEF PassGate, FileIsNext, CheckpointAt
    <3>2. \A g \in ahead[h] \ {f} : f < g
      BY <1>2, <3>1 DEF PassGate, FileIsNext, CheckpointAt
    <3> QED BY <1>2, <2>1, <3>1, <3>2 DEF PassGate, FileIsNext, CheckpointAt
  <2>2. CASE h # FolderPass
    BY <1>2, <2>2 DEF PassGate, FileIsNext, CheckpointAt
  <2> QED BY <2>1, <2>2
<1>3. ASSUME NEW h \in Hashers, NEW f \in HashFiles, OpenFile(h, f) PROVE BehindInv'
  BY <1>3 DEF OpenFile, FileIsNext
<1>4. ASSUME NEW h \in Hashers, StartHashing(h) PROVE BehindInv'
  BY <1>4 DEF StartHashing
<1>5. ASSUME NEW h \in Hashers, ReadFile(h) PROVE BehindInv'
  BY <1>5 DEF ReadFile, Torn
<1>6. ASSUME NEW h \in Hashers, RecordHash(h) PROVE BehindInv'
  BY <1>6 DEF RecordHash, StampStored, CheckpointAt
<1>7. ASSUME NEW h \in Hashers, MissFile(h) PROVE BehindInv'
  BY <1>7 DEF MissFile, HashFault, CheckpointAt
<1>8. ASSUME NEW h \in Hashers, BreakHashing(h) PROVE BehindInv'
  BY <1>8 DEF BreakHashing, HashFault, CheckpointLeft
<1>9. ASSUME NEW h \in Hashers, EndHashing(h) PROVE BehindInv'
  BY <1>9 DEF EndHashing
<1>10. CASE UNCHANGED hashVars
  BY <1>10 DEF hashVars
<1> QED BY <1>1, <1>2, <1>3, <1>4, <1>5, <1>6, <1>7, <1>8, <1>9, <1>10 DEF HashNext

LEMMA HashInvStep == HashInv /\ [HashNext]_hashVars => HashInv'
BY HashTypeStep, TrueStep, BehindStep DEF HashInv

\* The inductive invariant holds.
LEMMA HashInvariant == HashSpec => []HashInv
BY HashInitHolds, HashInvStep, PTL DEF HashSpec

\* A hash whose size and time are still those of the file is the hash of its
\* content (hash_paths_parallel), however passes and writes interleave.
THEOREM BelievedHashesAreTrue == HashSpec => []BelievedHashIsTrue
<1>1. HashInv => BelievedHashIsTrue
  BY DEF HashInv, TrueInv, BelievedHashIsTrue, Believed
<1> QED BY <1>1, HashInvariant, PTL

\* A backfill that ends has given every file its hash, but for what changed or
\* could not be read, however often it was broken off (hash_backfill).
THEOREM BackfillIsComplete == HashSpec => BackfillCovers
<1>1. HashInv /\ [HashNext]_hashVars
        => (EndHashing(FolderPass) => \A f \in HashFiles \ spoilt : Believed(f))
  BY DEF HashInv, BehindInv, EndHashing
<1> QED BY <1>1, HashInvariant, PTL DEF HashSpec, BackfillCovers

-----------------------------------------------------------------------------
(* CatalogSweep.                                                             *)

LEMMA ListsCount ==
    ASSUME NEW s \in Seq(Releases), IsInjective(s)
    PROVE  Cardinality(ListsOf(s)) = Len(s) /\ IsFiniteSet(ListsOf(s)) /\ ListsOf(s) \subseteq Releases
<1>1. s \in [1 .. Len(s) -> ListsOf(s)] /\ Len(s) \in Nat
  BY DEF ListsOf
<1>2. s \in Bijection(1 .. Len(s), ListsOf(s))
  BY <1>1 DEF Bijection, Injection, Surjection, ListsOf
<1>3. ExistsBijection(1 .. Len(s), ListsOf(s))
  BY <1>2 DEF ExistsBijection
<1> QED BY <1>1, <1>3, FS_CountingElements, FS_NatBijection DEF ListsOf

LEMMA FrontedLists ==
    ASSUME NEW s \in Seq(Releases), IsInjective(s), NEW r \in Releases \ ListsOf(s)
    PROVE  /\ <<r>> \o s \in Seq(Releases) /\ Len(<<r>> \o s) = Len(s) + 1
           /\ IsInjective(<<r>> \o s) /\ ListsOf(<<r>> \o s) = ListsOf(s) \cup {r}
<1> DEFINE t == <<r>> \o s
<1>1. /\ t \in Seq(Releases) /\ Len(t) = Len(s) + 1
      /\ \A i \in 1 .. Len(s) + 1 : t[i] = IF i = 1 THEN r ELSE s[i - 1]
  BY ConcatProperties, LenProperties
<1>2. DOMAIN t = 1 .. Len(s) + 1 /\ DOMAIN s = 1 .. Len(s) /\ Len(s) \in Nat
  BY <1>1, LenProperties
<1> HIDE DEF t
<1>3. IsInjective(t)
  <2> SUFFICES ASSUME NEW a \in 1 .. Len(s) + 1, NEW b \in 1 .. Len(s) + 1, t[a] = t[b] PROVE a = b
    BY <1>2 DEF IsInjective
  <2>1. \A i, j \in 1 .. Len(s) : s[i] # r /\ (s[i] = s[j] => i = j)
    BY <1>2 DEF IsInjective, ListsOf
  <2>2. \A i \in 1 .. Len(s) + 1 : i # 1 => i - 1 \in 1 .. Len(s) /\ t[i] = s[i - 1]
    BY <1>1, <1>2
  <2>3. t[1] = r
    BY <1>1, <1>2
  <2> QED BY <1>2, <2>1, <2>2, <2>3
<1>4. ListsOf(t) \subseteq ListsOf(s) \cup {r}
  BY <1>1, <1>2 DEF ListsOf
<1>5. ASSUME NEW j \in 1 .. Len(s) PROVE s[j] \in ListsOf(t)
  <2>1. j + 1 \in 1 .. Len(s) + 1 /\ t[j + 1] = s[j]
    BY <1>1, <1>2
  <2> QED BY <1>2, <2>1 DEF ListsOf
<1>6. r \in ListsOf(t)
  <2>1. 1 \in 1 .. Len(s) + 1 /\ t[1] = r
    BY <1>1, <1>2
  <2> QED BY <1>2, <2>1 DEF ListsOf
<1>7. ListsOf(t) = ListsOf(s) \cup {r}
  BY <1>2, <1>4, <1>5, <1>6 DEF ListsOf
<1> QED BY <1>1, <1>3, <1>7 DEF t

\* What a change of the catalogue makes of it.
Grows(r) ==
    /\ InCatalog' = InCatalog \cup {r} /\ Len(catalog') = Len(catalog) + 1
    /\ UNCHANGED withdrawn
    /\ arrived' = IF scan = "idle" THEN arrived ELSE arrived \cup {r}
Shrinks(r) ==
    /\ InCatalog' = InCatalog \ {r} /\ Len(catalog') = Len(catalog) - 1
    /\ UNCHANGED arrived
    /\ withdrawn' = IF scan = "idle" THEN withdrawn ELSE withdrawn \cup {r}

LEMMA ShiftSays ==
    ASSUME CatTypeOK, NEW r \in Releases, Shift(r)
    PROVE  /\ catalog' \in Seq(Releases) /\ IsInjective(catalog')
           /\ \/ InCatalog' = InCatalog /\ Len(catalog') = Len(catalog) /\ UNCHANGED <<arrived, withdrawn>>
              \/ Grows(r)
              \/ Shrinks(r)
<1>0. catalog \in Seq(Releases) /\ IsInjective(catalog)
  BY DEF CatTypeOK
<1>1. InCatalog = ListsOf(catalog) /\ InCatalog' = ListsOf(catalog') /\ DOMAIN catalog = 1 .. Len(catalog) /\ Len(catalog) \in Nat
  BY <1>0, LenProperties DEF InCatalog, ListsOf
<1>n. Len(catalog) \in Nat
  BY <1>1
<1>2. ASSUME r \in InCatalog
      PROVE  /\ Without(r) \in Seq(Releases) /\ Len(Without(r)) = Len(catalog) - 1
             /\ IsInjective(Without(r)) /\ ListsOf(Without(r)) = InCatalog \ {r}
  <2>1. PlaceOf(r) \in 1 .. Len(catalog) /\ catalog[PlaceOf(r)] = r
    BY <1>1, <1>2 DEF PlaceOf, ListsOf
  <2> QED BY <1>0, <1>1, <1>2, <2>1, RemovedLists DEF Without
<1>3. CASE Touch(r)
  <2>1. r \in InCatalog /\ catalog' = <<r>> \o Without(r) /\ UNCHANGED <<arrived, withdrawn>>
    BY <1>3 DEF Touch
  <2>2. /\ catalog' \in Seq(Releases) /\ Len(catalog') = Len(catalog) - 1 + 1
        /\ IsInjective(catalog') /\ InCatalog' = (InCatalog \ {r}) \cup {r}
    BY <1>1, <1>2, <2>1, FrontedLists
  <2>3. Len(catalog') = Len(catalog)
    BY <1>n, <2>2
  <2>4. InCatalog' = InCatalog
    BY <2>1, <2>2
  <2> QED BY <2>1, <2>2, <2>3, <2>4
<1>4. CASE Enlist(r)
  <2>1. /\ catalog' \in Seq(Releases) /\ Len(catalog') = Len(catalog) + 1
        /\ IsInjective(catalog') /\ InCatalog' = InCatalog \cup {r}
    BY <1>0, <1>1, <1>4, FrontedLists DEF Enlist
  <2>2. UNCHANGED withdrawn /\ arrived' = IF scan = "idle" THEN arrived ELSE arrived \cup {r}
    BY <1>4 DEF Enlist
  <2> QED BY <2>1, <2>2 DEF Grows
<1>5. CASE Delist(r)
  <2>1. /\ catalog' \in Seq(Releases) /\ Len(catalog') = Len(catalog) - 1
        /\ IsInjective(catalog') /\ InCatalog' = InCatalog \ {r}
    BY <1>1, <1>2, <1>5 DEF Delist
  <2>2. UNCHANGED arrived /\ withdrawn' = IF scan = "idle" THEN withdrawn ELSE withdrawn \cup {r}
    BY <1>5 DEF Delist
  <2> QED BY <2>1, <2>2 DEF Shrinks
<1> QED BY <1>3, <1>4, <1>5 DEF Shift

\* While nothing has failed and the catalogue only grows or only shrinks, what the
\* pass has met is listed and the catalogue as long as the pages say, or it has
\* become longer or shorter since.  Then no further page fits.  So a complete pass
\* has met all that was listed the whole time.
Fresh ==
    \/ total = {} /\ met = {}
    \/ total = {Len(catalog)} /\ met \subseteq InCatalog
Stale ==
    \E n \in Nat :
        /\ total = {n}
        /\ \/ arrived # {} /\ n < Len(catalog)
           \/ withdrawn # {} /\ Len(catalog) < n
Covered == complete => InCatalog \subseteq met \cup arrived
Processed == \A r \in met \ batch : r \in InCatalog => r \in swept \cup arrived
SweepInv ==
    /\ scan \in {"page", "end"} => batch = {}
    /\ scan # "idle" /\ ~failures /\ OneWay => (Fresh \/ Stale) /\ Covered /\ Processed

CatInv == CatTypeOK /\ SweepInv

LEMMA CatInitHolds == CatInit => CatInv
<1> SUFFICES ASSUME CatInit PROVE CatInv
  OBVIOUS
<1>1. PICK S \in SUBSET Releases : catalog = SetToSeq(S) /\ apiPresent = S
  BY DEF CatInit
<1>2. catalog \in [1 .. Cardinality(S) -> S] /\ IsInjective(catalog) /\ Cardinality(S) \in Nat
  <2>1. IsFiniteSet(S) /\ Cardinality(S) \in Nat
    BY PageAssumption, FS_Subset, FS_CardinalityType
  <2>2. PICK n \in Nat : ExistsBijection(1 .. n, S)
    BY <2>1, FS_NatBijection
  <2>3. PICK f \in [1 .. Cardinality(S) -> S] : IsInjective(f)
    BY <2>2, FS_CountingElements DEF ExistsBijection, Bijection, Injection
  <2> QED BY <1>1, <2>1, <2>3 DEF SetToSeq
<1>3. catalog \in Seq(Releases)
  BY <1>2
<1>5. /\ apiPresent \subseteq Releases /\ scan = "idle" /\ page = 1 /\ pages = 1
      /\ total = {} /\ met = {} /\ batch = {} /\ swept = {} /\ complete = FALSE /\ failures = FALSE
      /\ arrived = {} /\ withdrawn = {}
  BY <1>1 DEF CatInit
<1>b. complete \in BOOLEAN /\ failures \in BOOLEAN
  BY <1>5, Zenon
<1>6. CatTypeOK
  BY <1>2, <1>3, <1>5, <1>b DEF CatTypeOK
<1>7. SweepInv
  BY <1>5 DEF SweepInv
<1> QED BY <1>6, <1>7 DEF CatInv

LEMMA PageSays ==
    ASSUME CatTypeOK, ReadPage
    PROVE  /\ ItemsOf(page) \subseteq InCatalog /\ InCatalog \subseteq Releases
           /\ IsFiniteSet(InCatalog) /\ Cardinality(InCatalog) = Len(catalog) /\ Len(catalog) \in Nat
           /\ TotalPages \in Int
<1>1. catalog \in Seq(Releases) /\ IsInjective(catalog)
  BY DEF CatTypeOK
<1>2. ItemsOf(page) \subseteq InCatalog
  BY DEF ItemsOf, InCatalog
<1>3. Len(catalog) \in Nat
  BY <1>1, LenProperties
<1>4. TotalPages \in Int
  BY <1>3, PageAssumption DEF TotalPages
<1> QED BY <1>1, <1>2, <1>3, <1>4, ListsCount DEF ListsOf, InCatalog

\* Every variable keeps its type.
LEMMA CatTypeStep == CatTypeOK /\ [CatNext]_catVars => CatTypeOK'
<1> SUFFICES ASSUME CatTypeOK, [CatNext]_catVars PROVE CatTypeOK'
  OBVIOUS
<1> USE DEF scanVars, pastVars
<1>1. CASE BeginScan
  <2>1. /\ UNCHANGED <<catalog, apiPresent, arrived, withdrawn>> /\ scan' = "page" /\ page' = 1 /\ pages' = 1
        /\ total' = {} /\ met' = {} /\ batch' = {} /\ swept' = {} /\ complete' = FALSE /\ failures' = FALSE
    BY <1>1 DEF BeginScan
  <2>2. IsInjective(catalog)' /\ complete' \in BOOLEAN /\ failures' \in BOOLEAN
    BY <2>1, Zenon DEF CatTypeOK
  <2> QED BY <2>1, <2>2 DEF CatTypeOK
<1>2. CASE ReadPage
  <2> DEFINE ids == ItemsOf(page)
  <2>1. ids \subseteq Releases /\ TotalPages \in Int /\ Len(catalog) \in Nat
    BY <1>2, PageSays
  <2>2. /\ UNCHANGED <<catalog, apiPresent, swept, arrived, withdrawn>> /\ scan' = "work" /\ page' = page + 1
        /\ batch' = ids \ met /\ met' = met \cup ids
    BY <1>2 DEF ReadPage
  <2>3. /\ catalog' \in Seq(Releases) /\ IsInjective(catalog)' /\ apiPresent' \subseteq Releases
        /\ scan' \in {"idle", "page", "work", "end"}
        /\ met' \subseteq Releases /\ batch' \subseteq met' /\ swept' \subseteq met'
    BY <2>1, <2>2 DEF CatTypeOK, IsInjective
  <2>p. page \in Nat \ {0} /\ page' \in Nat \ {0}
    BY <2>2 DEF CatTypeOK
  <2>4. CASE FitsPages(ids)
    <3>1. /\ total' = {Len(catalog)} /\ pages' = TotalPages /\ page <= TotalPages
          /\ complete' = (page = TotalPages) /\ UNCHANGED failures
          /\ page = TotalPages => Cardinality(met') = Len(catalog)
      BY <1>2, <2>2, <2>4 DEF ReadPage, FitsPages
    <3>2. pages' \in Nat \ {0} /\ total' \subseteq Nat
      BY <2>1, <2>p, <3>1
    <3>3. complete' \in BOOLEAN /\ failures' \in BOOLEAN /\ (complete' => Cardinality(met') \in total')
      BY <3>1, Zenon DEF CatTypeOK
    <3> QED BY <2>2, <2>3, <2>p, <3>2, <3>3 DEF CatTypeOK
  <2>5. CASE ~FitsPages(ids)
    <3>1. complete' = FALSE /\ failures' = TRUE /\ pages' = page /\ UNCHANGED total
      BY <1>2, <2>5 DEF ReadPage
    <3> QED BY <2>2, <2>3, <2>p, <3>1 DEF CatTypeOK
  <2> QED BY <2>4, <2>5
<1>3. CASE ProcessNext
  <2>1. /\ UNCHANGED <<catalog, scan, page, pages, total, met, complete, arrived, withdrawn>>
        /\ apiPresent' \subseteq Releases /\ batch' \subseteq batch /\ swept' \subseteq met
    BY <1>3 DEF ProcessNext, CatTypeOK
  <2>2. failures' \in BOOLEAN
    BY <1>3, Zenon DEF ProcessNext, CatTypeOK
  <2> QED BY <2>1, <2>2 DEF CatTypeOK
<1>4. CASE NextPage
  BY <1>4 DEF NextPage, CatTypeOK
<1>m. CASE MissPage
  BY <1>m DEF MissPage, CatTypeOK
<1>b. CASE BreakOff
  BY <1>b DEF BreakOff, CatTypeOK
<1>s. CASE Sweep
  <2>1. apiPresent' \subseteq Releases
    BY <1>s DEF Sweep, CatTypeOK
  <2> QED BY <1>s, <2>1 DEF Sweep, CatTypeOK
<1>5. ASSUME NEW r \in Releases, Shift(r) PROVE CatTypeOK'
  <2>1. catalog' \in Seq(Releases) /\ IsInjective(catalog')
    BY <1>5, ShiftSays
  <2>2. UNCHANGED <<apiPresent, scan, scanVars>>
    BY <1>5 DEF Shift
  <2>3. arrived' \subseteq Releases /\ withdrawn' \subseteq Releases
    BY <1>5 DEF Shift, Touch, Enlist, Delist, CatTypeOK
  <2> QED BY <2>1, <2>2, <2>3 DEF CatTypeOK
<1>6. ASSUME NEW r \in Releases, ArchiveOther(r) PROVE CatTypeOK'
  BY <1>6 DEF ArchiveOther, CatTypeOK
<1>7. CASE UNCHANGED catVars
  BY <1>7 DEF catVars, CatTypeOK
<1> QED BY <1>1, <1>2, <1>3, <1>4, <1>m, <1>b, <1>s, <1>5, <1>6, <1>7 DEF CatNext, ScanStep

\* A page that fits completes the pass only if everything listed was met.
LEMMA PageKeepsSweep ==
    ASSUME CatInv, ReadPage
    PROVE  SweepInv'
<1> DEFINE ids == ItemsOf(page)
<1>1. /\ UNCHANGED <<catalog, swept, arrived, withdrawn>> /\ scan' = "work"
      /\ batch' = ids \ met /\ met' = met \cup ids /\ scan = "page"
  BY DEF ReadPage, pastVars
<1>2. InCatalog' = InCatalog
  BY <1>1 DEF InCatalog
<1>3. CASE ~FitsPages(ids)
  BY <1>1, <1>3 DEF ReadPage, SweepInv
<1>4. CASE FitsPages(ids) /\ (failures \/ ~OneWay)
  BY <1>1, <1>4 DEF ReadPage, SweepInv, OneWay
<1>5. CASE FitsPages(ids) /\ ~failures /\ OneWay
  <2>1. /\ total' = {Len(catalog)} /\ complete' = (page = TotalPages) /\ total \subseteq {Len(catalog)}
        /\ page = TotalPages => Cardinality(met') = Len(catalog)
    BY <1>1, <1>5 DEF ReadPage, FitsPages
  <2>2. Fresh /\ Processed /\ batch = {}
    BY <1>1, <1>5, <2>1, PageSays DEF CatInv, SweepInv, Stale
  <2>3. Fresh'
    BY <1>1, <1>2, <2>1, <2>2, PageSays DEF Fresh, CatInv
  <2>4. Covered'
    <3>1. CASE complete'
      <4>1. Cardinality(met') = Cardinality(InCatalog) /\ met' \subseteq InCatalog /\ IsFiniteSet(InCatalog)
        BY <1>1, <2>1, <2>2, <3>1, PageSays DEF Fresh, CatInv
      <4>2. InCatalog = met'
        BY <4>1, FS_Subset
      <4> QED BY <1>2, <4>2 DEF Covered
    <3> QED BY <3>1 DEF Covered
  <2>5. Processed'
    BY <1>1, <1>2, <2>2 DEF Processed
  <2> QED BY <1>1, <2>3, <2>4, <2>5 DEF SweepInv
<1> QED BY <1>3, <1>4, <1>5

LEMMA SweepStep == CatInv /\ [CatNext]_catVars => SweepInv'
<1> SUFFICES ASSUME CatInv, [CatNext]_catVars PROVE SweepInv'
  OBVIOUS
<1> USE DEF CatInv, SweepInv
<1>1. CASE BeginScan
  BY <1>1 DEF BeginScan, Fresh, Covered, Processed
<1>2. CASE ReadPage
  BY <1>2, PageKeepsSweep
<1>3. CASE ProcessNext
  <2>1. PICK r \in batch :
          /\ batch' = batch \ {r}
          /\ \/ apiPresent' = (IF r \in InCatalog THEN apiPresent \cup {r} ELSE apiPresent \ {r})
                /\ swept' = swept \cup ({r} \cap apiPresent') /\ UNCHANGED failures
             \/ failures' = TRUE
    BY <1>3 DEF ProcessNext
  <2>2. UNCHANGED <<catalog, scan, total, met, complete, arrived, withdrawn>> /\ scan = "work"
    BY <1>3 DEF ProcessNext
  <2>3. InCatalog' = InCatalog
    BY <2>2 DEF InCatalog
  <2>4. CASE failures' \/ ~OneWay
    BY <2>2, <2>4 DEF OneWay
  <2>5. CASE ~failures' /\ OneWay
    <3>1. ~failures /\ swept \subseteq swept' /\ (r \in InCatalog => r \in swept')
      BY <2>1, <2>5
    <3>2. Processed'
      BY <2>1, <2>2, <2>3, <2>5, <3>1 DEF Processed
    <3>3. Covered' /\ (Fresh' \/ Stale')
      BY <2>2, <2>3, <2>5, <3>1 DEF Covered, Fresh, Stale
    <3> QED BY <2>2, <3>2, <3>3
  <2> QED BY <2>4, <2>5
<1>4. CASE NextPage
  BY <1>4 DEF NextPage, scanVars, pastVars, OneWay, Fresh, Stale, Covered, Processed, InCatalog
<1>5. CASE MissPage
  BY <1>5 DEF MissPage
<1>6. CASE BreakOff \/ Sweep
  BY <1>6 DEF BreakOff, Sweep
<1>7. ASSUME NEW r \in Releases, Shift(r) PROVE SweepInv'
  <2>1. UNCHANGED <<scan, total, met, batch, swept, complete, failures>>
    BY <1>7 DEF Shift, scanVars
  <2> SUFFICES ASSUME scan # "idle", ~failures, OneWay' PROVE (Fresh' \/ Stale') /\ Covered' /\ Processed'
    BY <2>1
  <2>n. Len(catalog) \in Nat /\ Len(catalog') \in Nat
    BY <1>7, ShiftSays, LenProperties DEF CatTypeOK
  <2>2. CASE InCatalog' = InCatalog /\ Len(catalog') = Len(catalog) /\ UNCHANGED <<arrived, withdrawn>>
    BY <2>1, <2>2 DEF OneWay, Fresh, Stale, Covered, Processed
  <2>3. CASE Grows(r)
    <3>1. /\ InCatalog' = InCatalog \cup {r} /\ Len(catalog') = Len(catalog) + 1
          /\ arrived' = arrived \cup {r} /\ withdrawn = {} /\ withdrawn' = {} /\ OneWay
      BY <2>3 DEF Grows, OneWay
    <3>2. Covered' /\ Processed'
      BY <2>1, <3>1 DEF Covered, Processed
    <3>3. CASE total = {} /\ met = {}
      BY <2>1, <3>2, <3>3 DEF Fresh
    <3>4. CASE total = {Len(catalog)}
      <4>1. total' = {Len(catalog)} /\ arrived' # {} /\ Len(catalog) < Len(catalog')
        BY <2>1, <2>n, <3>1, <3>4
      <4> QED BY <2>n, <3>2, <4>1 DEF Stale
    <3>5. CASE Stale
      <4>1. PICK n \in Nat : total = {n} /\ arrived # {} /\ n < Len(catalog)
        BY <3>1, <3>5 DEF Stale
      <4>2. total' = {n} /\ arrived' # {} /\ n < Len(catalog')
        BY <2>1, <2>n, <3>1, <4>1
      <4> QED BY <3>2, <4>2 DEF Stale
    <3> QED BY <3>1, <3>2, <3>3, <3>4, <3>5 DEF Fresh
  <2>4. CASE Shrinks(r)
    <3>1. /\ InCatalog' = InCatalog \ {r} /\ Len(catalog') = Len(catalog) - 1
          /\ arrived' = {} /\ arrived = {} /\ withdrawn' # {} /\ OneWay
      BY <2>4 DEF Shrinks, OneWay
    <3>2. Covered' /\ Processed'
      BY <2>1, <3>1 DEF Covered, Processed
    <3>3. CASE total = {} /\ met = {}
      BY <2>1, <3>2, <3>3 DEF Fresh
    <3>4. CASE total = {Len(catalog)}
      <4>1. total' = {Len(catalog)} /\ withdrawn' # {} /\ Len(catalog') < Len(catalog)
        BY <2>1, <2>n, <3>1, <3>4
      <4> QED BY <2>n, <3>2, <4>1 DEF Stale
    <3>5. CASE Stale
      <4>1. PICK n \in Nat : total = {n} /\ withdrawn # {} /\ Len(catalog) < n
        BY <3>1, <3>5 DEF Stale
      <4>2. total' = {n} /\ withdrawn' # {} /\ Len(catalog') < n
        BY <2>1, <2>n, <3>1, <4>1
      <4> QED BY <3>2, <4>2 DEF Stale
    <3> QED BY <3>1, <3>2, <3>3, <3>4, <3>5 DEF Fresh
  <2> QED BY <1>7, <2>2, <2>3, <2>4, ShiftSays
<1>8. ASSUME NEW r \in Releases, ArchiveOther(r) PROVE SweepInv'
  BY <1>8 DEF ArchiveOther, scanVars, pastVars, OneWay, Fresh, Stale, Covered, Processed, InCatalog
<1>9. CASE UNCHANGED catVars
  BY <1>9 DEF catVars, scanVars, pastVars, OneWay, Fresh, Stale, Covered, Processed, InCatalog
<1> QED BY <1>1, <1>2, <1>3, <1>4, <1>5, <1>6, <1>7, <1>8, <1>9 DEF CatNext, ScanStep

LEMMA CatInvariant == CatSpec => []CatInv
<1>1. CatInv /\ [CatNext]_catVars => CatInv'
  BY CatTypeStep, SweepStep DEF CatInv
<1> QED BY <1>1, CatInitHolds, PTL DEF CatSpec

\* Nothing is marked as absent that the catalogue lists and that was not
\* published during the pass.
AbsenceStep == \A r \in apiPresent \ apiPresent' : OneWay => r \notin InCatalog \/ r \in arrived

LEMMA AbsenceHolds == CatInv /\ [CatNext]_catVars => AbsenceStep
<1> SUFFICES ASSUME CatInv, [CatNext]_catVars PROVE AbsenceStep
  OBVIOUS
<1>1. CASE Sweep
  <2> SUFFICES ASSUME NEW r \in InCatalog, r \in apiPresent \ apiPresent', OneWay PROVE r \in arrived
    BY DEF AbsenceStep
  <2>1. complete /\ ~failures /\ r \notin swept /\ scan = "end"
    BY <1>1 DEF Sweep, MaySweep
  <2>2. batch = {} /\ Covered /\ Processed
    BY <2>1 DEF CatInv, SweepInv
  <2> QED BY <2>1, <2>2 DEF Covered, Processed
<1>2. CASE ProcessNext
  BY <1>2 DEF ProcessNext, AbsenceStep
<1>3. CASE BeginScan \/ ReadPage \/ NextPage \/ MissPage \/ BreakOff \/ UNCHANGED catVars
  BY <1>3 DEF BeginScan, ReadPage, NextPage, MissPage, BreakOff, catVars, AbsenceStep
<1>4. ASSUME NEW r \in Releases, Shift(r) \/ ArchiveOther(r) PROVE AbsenceStep
  BY <1>4 DEF Shift, ArchiveOther, AbsenceStep
<1> QED BY <1>1, <1>2, <1>3, <1>4 DEF CatNext, ScanStep

\* A full pass during which the catalogue only grows or only shrinks takes nothing
\* for absent that is listed, however it is reordered under it, for any page size
\* and any number of releases and changes (CatalogScan).
THEOREM NoFalseAbsences == CatSpec => NoFalseAbsence
<1>1. CatInv /\ [CatNext]_catVars => [AbsenceStep]_catVars
  BY AbsenceHolds
<1>2. CatSpec => [][AbsenceStep]_catVars
  BY <1>1, CatInvariant, PTL DEF CatSpec
<1> QED BY <1>2 DEF NoFalseAbsence, AbsenceStep

-----------------------------------------------------------------------------
(* ReleaseSync.                                                              *)

\* A pass goes through what it was told is listed, and only once it is at work.
TodoInv ==
    \A p \in Passes :
        /\ todo[p] \subseteq Listed(list[p])
        /\ stage[p] \in {"idle", "locking", "locked"} => todo[p] = {}

SyncInv == SyncTypeOK /\ TodoInv

LEMMA SyncInitHolds == SyncInit => SyncInv
BY VersionAssumption DEF SyncInit, SyncInv, SyncTypeOK, TodoInv, VersionOf, NoList, UnderLock

LEMMA NoListTyped == NoList \in VersionOf /\ \A l \in VersionOf : Listed(l) \subseteq Torrents
BY VersionAssumption DEF NoList, VersionOf, Listed

\* A pass that is over has nothing left to do.
LEMMA OverKeeps ==
    ASSUME SyncInv, NEW p \in Passes, Over(p)
    PROVE  /\ stage' \in [Passes -> {"idle", "locking"} \cup UnderLock]
           /\ todo' \in [Passes -> SUBSET Torrents] /\ fetched' \in [Passes -> VersionOf] /\ ended' \subseteq Passes
           /\ list' = list => TodoInv'
<1> USE DEF SyncInv, SyncTypeOK
<1>1. /\ stage' = [stage EXCEPT ![p] = "idle"] /\ todo' = [todo EXCEPT ![p] = {}]
      /\ fetched' = [fetched EXCEPT ![p] = NoList] /\ ended' \subseteq ended \cup {p}
  BY DEF Over
<1>2. stage' \in [Passes -> {"idle", "locking"} \cup UnderLock] /\ ended' \subseteq Passes
  BY <1>1
<1>3. todo' \in [Passes -> SUBSET Torrents] /\ fetched' \in [Passes -> VersionOf]
  BY <1>1, NoListTyped
<1>4. list' = list => TodoInv'
  BY <1>1 DEF TodoInv
<1> QED BY <1>2, <1>3, <1>4

\* A step of a pass keeps the types and what it has to go through.
LEMMA PassKeeps ==
    ASSUME SyncInv, NEW p \in Passes, PassStep(p) \/ LoseAnswer(p) \/ KillPass(p)
    PROVE  SyncInv'
<1> USE NoListTyped, VersionAssumption DEF Goto, apiVars, archiveVars, passVars, retryVars
<1>t. SyncTypeOK /\ TodoInv
  BY DEF SyncInv
<1>s. CASE StartPass(p)
  <2>1. /\ stage' = [stage EXCEPT ![p] = "locking"] /\ erring' = erring \ {p}
        /\ retried' = [retried EXCEPT ![p] = IF p \in Retries THEN failed ELSE {}]
        /\ list' = [list EXCEPT ![p] = IF KindOf[p] = "ongoing" THEN api ELSE NoList]
        /\ stage[p] = "idle"
        /\ UNCHANGED <<api, arch, shown, seenIds, added, checkpoint, lock, todo, fetched, failed, ended, slipped>>
    BY <1>s DEF StartPass
  <2>2. list' \in [Passes -> VersionOf] /\ retried' \in [Passes -> SUBSET (Torrents \X (1 .. MaxVersion))]
    BY <1>t, <2>1 DEF SyncTypeOK
  <2>3. TodoInv'
    BY <1>t, <2>1 DEF TodoInv, SyncTypeOK
  <2>4. SyncTypeOK'
    BY <1>t, <2>1, <2>2 DEF SyncTypeOK
  <2> QED BY <2>3, <2>4 DEF SyncInv
<1>l. CASE TakeLock(p)
  <2>1. UNCHANGED <<api, arch, shown, seenIds, added, checkpoint, erring, failed, retried, slipped>> /\ stage[p] = "locking"
    BY <1>l DEF TakeLock
  <2>2. CASE LockFree
    <3> DEFINE told == CASE KindOf[p] = "ongoing" -> list[p]
                         [] KindOf[p] = "full" -> api
                         [] OTHER -> [t \in Torrents |-> IF <<t, api[t]>> \in retried[p] THEN api[t] ELSE 0]
    <3>1. /\ lock' = p /\ list' = [list EXCEPT ![p] = told]
          /\ stage' = [stage EXCEPT ![p] = "locked"] /\ UNCHANGED <<todo, fetched, ended>>
      BY <1>l, <2>2 DEF TakeLock
    <3>2. told \in VersionOf
      BY <1>t DEF SyncTypeOK, VersionOf
    <3> HIDE DEF told
    <3>3. list' \in [Passes -> VersionOf] /\ todo[p] = {}
      BY <1>t, <2>1, <3>1, <3>2 DEF SyncTypeOK, TodoInv
    <3>4. TodoInv'
      BY <1>t, <2>1, <3>1, <3>3 DEF TodoInv, SyncTypeOK
    <3>5. SyncTypeOK'
      BY <1>t, <2>1, <3>1, <3>3 DEF SyncTypeOK, UnderLock
    <3> QED BY <3>4, <3>5 DEF SyncInv
  <2>3. CASE ~LockFree
    <3>1. Over(p) /\ UNCHANGED <<lock, list>>
      BY <1>l, <2>3 DEF TakeLock
    <3> QED BY <1>t, <2>1, <3>1, OverKeeps DEF SyncInv, SyncTypeOK
  <2> QED BY <2>2, <2>3
<1>e. CASE Examine(p)
  <2>1. /\ UNCHANGED <<api, arch, seenIds, added, lock, list, fetched, failed, retried, ended, slipped>>
        /\ shown' = IF p \in Retries THEN shown ELSE {t \in Listed(list[p]) : arch[t] # 0}
        /\ erring' \subseteq erring \cup {p} /\ stage[p] = "locked"
        /\ checkpoint' \in {checkpoint, NoList, list[p]}
        /\ \/ stage' = [stage EXCEPT ![p] = "unlock"] /\ UNCHANGED todo
           \/ stage' = [stage EXCEPT ![p] = "work"] /\ todo' = [todo EXCEPT ![p] = Listed(list[p])]
    BY <1>e DEF Examine, Marked
  <2>2. list[p] \in VersionOf /\ Listed(list[p]) \subseteq Torrents
    BY <1>t DEF SyncTypeOK
  <2>3. TodoInv'
    BY <1>t, <2>1 DEF TodoInv, SyncTypeOK
  <2>4. shown' \subseteq Torrents /\ \A t \in shown' : arch[t] # 0
    BY <1>t, <2>1, <2>2 DEF SyncTypeOK
  <2>5. stage' \in [Passes -> {"idle", "locking"} \cup UnderLock] /\ todo' \in [Passes -> SUBSET Torrents]
    BY <1>t, <2>1, <2>2 DEF SyncTypeOK, UnderLock
  <2>6. SyncTypeOK'
    BY <1>t, <2>1, <2>2, <2>4, <2>5 DEF SyncTypeOK
  <2> QED BY <2>3, <2>6 DEF SyncInv
<1>f. CASE FinishPass(p)
  <2>1. /\ UNCHANGED <<api, arch, shown, seenIds, added, lock, list, todo, fetched, erring, failed, retried, ended, slipped>>
        /\ checkpoint' \in {checkpoint, NoList, list[p]}
        /\ stage' = [stage EXCEPT ![p] = "unlock"]
    BY <1>f DEF FinishPass, Marked
  <2>2. list[p] \in VersionOf
    BY <1>t DEF SyncTypeOK
  <2>3. TodoInv'
    BY <1>t, <2>1 DEF TodoInv, SyncTypeOK
  <2> QED BY <1>t, <2>1, <2>2, <2>3 DEF SyncInv, SyncTypeOK, UnderLock
<1>u. CASE Unlock(p)
  <2>1. /\ UNCHANGED <<api, arch, shown, seenIds, added, list, erring, failed, retried, slipped>>
        /\ lock' = Free /\ checkpoint' \in {checkpoint, NoList} /\ Over(p)
    BY <1>u DEF Unlock
  <2> QED BY <1>t, <2>1, OverKeeps DEF SyncInv, SyncTypeOK
<1>o. CASE LoseAnswer(p)
  <2>1. /\ UNCHANGED <<api, arch, shown, seenIds, added, checkpoint, list, erring, failed, retried, slipped>>
        /\ lock' = Free /\ Over(p)
    BY <1>o DEF LoseAnswer, LostLock
  <2> QED BY <1>t, <2>1, OverKeeps DEF SyncInv, SyncTypeOK
<1>k. CASE KillPass(p)
  <2>1. /\ UNCHANGED <<api, arch, shown, seenIds, added, checkpoint, list, erring, failed, retried>>
        /\ lock' \in {lock, Free} /\ slipped' \subseteq slipped \cup seenIds /\ Over(p)
    BY <1>k DEF KillPass, SlippedWith
  <2> QED BY <1>t, <2>1, OverKeeps DEF SyncInv, SyncTypeOK
<1>w. ASSUME NEW t \in Torrents, Skip(p, t) PROVE SyncInv'
  <2>1. /\ UNCHANGED <<api, arch, shown, seenIds, added, checkpoint, lock, stage, list, fetched, erring, failed, retried, ended, slipped>>
        /\ todo' = [todo EXCEPT ![p] = todo[p] \ {t}]
    BY <1>w DEF Skip
  <2>2. TodoInv'
    BY <1>t, <2>1 DEF TodoInv, SyncTypeOK
  <2> QED BY <1>t, <2>1, <2>2 DEF SyncInv, SyncTypeOK
<1>d. ASSUME NEW t \in Torrents, Download(p, t) PROVE SyncInv'
  <2>1. /\ UNCHANGED <<api, seenIds, added, checkpoint, lock, list, todo, erring, failed, retried, ended, slipped>>
        /\ fetched' = [fetched EXCEPT ![p] = [NoList EXCEPT ![t] = api[t]]]
        /\ stage' = [stage EXCEPT ![p] = "save"] /\ stage[p] = "work"
        /\ \/ UNCHANGED <<arch, shown>>
           \/ arch' = [arch EXCEPT ![t] = 0] /\ shown' = shown \ {t}
    BY <1>d DEF Download
  <2>2. [NoList EXCEPT ![t] = api[t]] \in VersionOf
    BY <1>t DEF SyncTypeOK, NoList, VersionOf
  <2>3. fetched' \in [Passes -> VersionOf]
    BY <1>t, <2>1, <2>2 DEF SyncTypeOK
  <2>4. arch' \in VersionOf /\ shown' \subseteq Torrents /\ \A u \in shown' : arch'[u] # 0
    BY <1>t, <2>1 DEF SyncTypeOK, VersionOf
  <2>5. TodoInv'
    BY <1>t, <2>1 DEF TodoInv, SyncTypeOK
  <2>6. stage' \in [Passes -> {"idle", "locking"} \cup UnderLock]
    BY <1>t, <2>1 DEF SyncTypeOK, UnderLock
  <2>7. SyncTypeOK'
    BY <1>t, <2>1, <2>3, <2>4, <2>6 DEF SyncTypeOK
  <2> QED BY <2>5, <2>7 DEF SyncInv
<1>a. ASSUME NEW t \in Torrents, SaveArchive(p, t) PROVE SyncInv'
  <2>1. /\ UNCHANGED <<api, seenIds, added, checkpoint, lock, list, todo, fetched, erring, failed, retried, ended, slipped>>
        /\ arch' = [arch EXCEPT ![t] = fetched[p][t]] /\ fetched[p][t] # 0 /\ shown' = shown \cup {t}
        /\ stage' = [stage EXCEPT ![p] = "add"]
    BY <1>a DEF SaveArchive
  <2>2. fetched[p] \in VersionOf
    BY <1>t DEF SyncTypeOK
  <2>3. arch' \in VersionOf /\ shown' \subseteq Torrents /\ \A u \in shown' : arch'[u] # 0
    BY <1>t, <2>1, <2>2 DEF SyncTypeOK, VersionOf
  <2>4. TodoInv'
    BY <1>t, <2>1 DEF TodoInv, SyncTypeOK
  <2>5. stage' \in [Passes -> {"idle", "locking"} \cup UnderLock]
    BY <1>t, <2>1 DEF SyncTypeOK, UnderLock
  <2>6. SyncTypeOK'
    BY <1>t, <2>1, <2>3, <2>5 DEF SyncTypeOK
  <2> QED BY <2>4, <2>6 DEF SyncInv
<1>n. ASSUME NEW t \in Torrents, AddTorrent(p, t) PROVE SyncInv'
  <2>1. /\ UNCHANGED <<api, arch, shown, checkpoint, lock, list, erring, failed, retried, ended>>
        /\ added' = [added EXCEPT ![t] = fetched[p][t]] /\ seenIds' = seenIds \cup {t} /\ slipped' = slipped \ {t}
        /\ todo' = [todo EXCEPT ![p] = todo[p] \ {t}] /\ fetched' = [fetched EXCEPT ![p] = NoList]
        /\ stage' = [stage EXCEPT ![p] = "work"]
    BY <1>n DEF AddTorrent
  <2>2. fetched[p] \in VersionOf
    BY <1>t DEF SyncTypeOK
  <2>3. added' \in VersionOf
    BY <1>t, <2>1, <2>2 DEF SyncTypeOK, VersionOf
  <2>4. todo' \in [Passes -> SUBSET Torrents] /\ fetched' \in [Passes -> VersionOf]
    BY <1>t, <2>1 DEF SyncTypeOK
  <2>5. TodoInv'
    BY <1>t, <2>1 DEF TodoInv, SyncTypeOK
  <2>6. stage' \in [Passes -> {"idle", "locking"} \cup UnderLock]
    BY <1>t, <2>1 DEF SyncTypeOK, UnderLock
  <2>7. SyncTypeOK'
    BY <1>t, <2>1, <2>3, <2>4, <2>6 DEF SyncTypeOK
  <2> QED BY <2>5, <2>7 DEF SyncInv
<1>i. ASSUME NEW t \in Torrents, FailTorrent(p, t) PROVE SyncInv'
  <2>1. /\ UNCHANGED <<api, arch, shown, seenIds, added, checkpoint, lock, list, retried, ended>>
        /\ erring' = erring \cup {p} /\ failed' = failed \cup {<<t, FailedVersion(p, t)>>}
        /\ slipped' = slipped \cup SlippedWith(p)
        /\ todo' = [todo EXCEPT ![p] = todo[p] \ {t}] /\ fetched' = [fetched EXCEPT ![p] = NoList]
        /\ stage' = [stage EXCEPT ![p] = "work"] /\ t \in todo[p]
    BY <1>i DEF FailTorrent
  <2>2. FailedVersion(p, t) \in 1 .. MaxVersion
    <3>1. list[p][t] \in 0 .. MaxVersion /\ fetched[p][t] \in 0 .. MaxVersion
      BY <1>t DEF SyncTypeOK, VersionOf
    <3>2. list[p][t] # 0
      BY <1>t, <2>1 DEF TodoInv, Listed
    <3> QED BY <3>1, <3>2 DEF FailedVersion
  <2>3. failed' \subseteq Torrents \X (1 .. MaxVersion) /\ slipped' \subseteq Torrents
    BY <1>t, <2>1, <2>2 DEF SyncTypeOK, SlippedWith
  <2>4. todo' \in [Passes -> SUBSET Torrents] /\ fetched' \in [Passes -> VersionOf]
    BY <1>t, <2>1 DEF SyncTypeOK
  <2>5. TodoInv'
    BY <1>t, <2>1 DEF TodoInv, SyncTypeOK
  <2>6. stage' \in [Passes -> {"idle", "locking"} \cup UnderLock]
    BY <1>t, <2>1 DEF SyncTypeOK, UnderLock
  <2>7. SyncTypeOK'
    BY <1>t, <2>1, <2>3, <2>4, <2>6 DEF SyncTypeOK
  <2> QED BY <2>5, <2>7 DEF SyncInv
<1> QED BY <1>s, <1>l, <1>e, <1>f, <1>u, <1>o, <1>k, <1>w, <1>d, <1>a, <1>n, <1>i DEF PassStep

LEMMA SyncInvStep == SyncInv /\ [SyncNext]_syncVars => SyncInv'
<1> SUFFICES ASSUME SyncInv, [SyncNext]_syncVars PROVE SyncInv'
  OBVIOUS
<1>1. ASSUME NEW t \in Torrents, NEW v \in 0 .. MaxVersion, Publish(t, v) PROVE SyncInv'
  <2>1. api' = [api EXCEPT ![t] = v] /\ UNCHANGED <<archiveVars, lock, passVars, retryVars, ended, slipped>>
    BY <1>1 DEF Publish
  <2>2. api' \in VersionOf
    BY <2>1 DEF SyncInv, SyncTypeOK, VersionOf
  <2> QED BY <2>1, <2>2 DEF SyncInv, SyncTypeOK, TodoInv, archiveVars, passVars, retryVars
<1>2. CASE UNCHANGED syncVars
  BY <1>2 DEF SyncInv, SyncTypeOK, TodoInv, syncVars, apiVars, archiveVars, passVars, retryVars
<1> QED BY <1>1, <1>2, PassKeeps DEF SyncNext

-----------------------------------------------------------------------------
(* One pass at a time gives the pipeline what AniLibria lists.                *)

\* The lock is held by the pass that works under it.
LockHeld == \A p \in Passes : stage[p] \in UnderLock <=> lock = p

\* A pass has one version in hand, of a torrent that it has still to do, and once
\* that is saved it is the active archive.
InHand ==
    \A p \in Passes, t \in Torrents : fetched[p][t] # 0 =>
        /\ stage[p] \in {"save", "add"} /\ t \in todo[p]
        /\ \A u \in Torrents : fetched[p][u] # 0 => u = t
        /\ stage[p] = "add" => arch[t] = fetched[p][t]

\* The pipeline was given the active archive of a torrent that was seen; or its
\* version slipped, or is in somebody's hand.
GivenInv ==
    \A t \in seenIds :
        /\ added[t] # 0
        /\ t \in slipped \/ arch[t] = added[t] \/ \E p \in Passes : fetched[p][t] # 0

\* What a pass without a failure is done with was seen, and so was what the
\* checkpoint lists.
ListedInv ==
    /\ \A t \in Torrents : checkpoint[t] # 0 => t \in seenIds
    /\ \A p \in Passes : stage[p] \in {"work", "save", "add"} /\ p \notin erring /\ p \notin Retries =>
          \A t \in Torrents : list[p][t] # 0 => t \in todo[p] \/ t \in seenIds

GivingInv == LockHeld /\ InHand /\ GivenInv /\ ListedInv

LEMMA GivingInit == SyncInit => GivingInv
BY FreeAssumption DEF SyncInit, GivingInv, LockHeld, InHand, GivenInv, ListedInv, NoList, UnderLock

\* What the other passes are at.
LEMMA PassFrame ==
    ASSUME SyncTypeOK, NEW p \in Passes, PassStep(p) \/ LoseAnswer(p) \/ KillPass(p), NEW q \in Passes, q # p
    PROVE  /\ stage'[q] = stage[q] /\ fetched'[q] = fetched[q] /\ todo'[q] = todo[q] /\ list'[q] = list[q]
           /\ (q \in erring' <=> q \in erring)
<1>0. DOMAIN stage = Passes /\ DOMAIN fetched = Passes /\ DOMAIN todo = Passes /\ DOMAIN list = Passes
  BY DEF SyncTypeOK
<1> QED
  BY <1>0 DEF PassStep, StartPass, TakeLock, LoseAnswer, Examine, Unlock, FinishPass, KillPass, Skip, Download,
              SaveArchive, AddTorrent, FailTorrent, Over, Goto, passVars

\* Who takes the lock, and who gives it up.
LEMMA LockStep ==
    ASSUME SyncTypeOK, LockHeld, NEW p \in Passes, PassStep(p) \/ LoseAnswer(p) \/ KillPass(p)
    PROVE  LockHeld'
<1>0. DOMAIN stage = Passes /\ stage[p] \in {"idle", "locking"} \cup UnderLock
  BY DEF SyncTypeOK
<1>1. \A q \in Passes : q # p => stage'[q] = stage[q]
  BY PassFrame
<1>2. \/ lock' = p /\ stage'[p] \in UnderLock /\ (lock = p \/ lock = Free)
      \/ lock' = Free /\ stage'[p] \notin UnderLock /\ (lock = p \/ lock = Free)
      \/ lock' = lock /\ stage'[p] \notin UnderLock /\ stage[p] \notin UnderLock
  <2>1. CASE StartPass(p)
    BY <1>0, <2>1 DEF StartPass, Goto, UnderLock
  <2>2. CASE TakeLock(p)
    BY <1>0, <2>2 DEF TakeLock, LockFree, Over, Goto, UnderLock
  <2>3. CASE LoseAnswer(p)
    BY <1>0, <2>3 DEF LoseAnswer, LostLock, Over, UnderLock
  <2>4. CASE Unlock(p)
    BY <1>0, <2>4 DEF Unlock, Over, UnderLock, LockHeld
  <2>5. CASE KillPass(p)
    BY <1>0, <2>5 DEF KillPass, Over, UnderLock, LockHeld
  <2>6. CASE Examine(p) \/ FinishPass(p)
    BY <1>0, <2>6 DEF Examine, FinishPass, Goto, UnderLock, LockHeld
  <2>7. ASSUME NEW t \in Torrents, Skip(p, t) \/ Download(p, t) \/ SaveArchive(p, t) \/ AddTorrent(p, t) \/ FailTorrent(p, t)
        PROVE  lock' = p /\ stage'[p] \in UnderLock /\ lock = p
    BY <1>0, <2>7 DEF Skip, Download, SaveArchive, AddTorrent, FailTorrent, Goto, UnderLock, LockHeld
  <2> QED BY <2>1, <2>2, <2>3, <2>4, <2>5, <2>6, <2>7 DEF PassStep
<1> QED BY <1>1, <1>2, FreeAssumption DEF LockHeld

\* Only a pass that holds the lock has a version in hand.
LEMMA HandOfHolder ==
    ASSUME LockHeld, InHand, NEW p \in Passes, lock = p, NEW q \in Passes, q # p
    PROVE  \A t \in Torrents : fetched[q][t] = 0
BY DEF LockHeld, InHand, UnderLock

\* The steps that give nothing to the pipeline and save nothing.
LEMMA PlainStep ==
    ASSUME SyncTypeOK, GivingInv, NEW p \in Passes,
           PassStep(p) \/ LoseAnswer(p) \/ KillPass(p),
           UNCHANGED <<arch, seenIds, added, slipped>>,
           \A t \in Torrents : fetched[p][t] # 0 => fetched'[p] = fetched[p] /\ stage'[p] = stage[p] /\ t \in todo'[p],
           fetched'[p] \in {fetched[p], NoList}
    PROVE  InHand' /\ GivenInv'
<1>1. \A q \in Passes : q # p => stage'[q] = stage[q] /\ fetched'[q] = fetched[q] /\ todo'[q] = todo[q]
  BY PassFrame
<1>2. ASSUME NEW q \in Passes, NEW t \in Torrents
      PROVE  /\ fetched'[q][t] = fetched[q][t]
             /\ fetched[q][t] # 0 => stage'[q] = stage[q] /\ (t \in todo[q] => t \in todo'[q])
  BY <1>1 DEF NoList
<1>3. InHand'
  BY <1>2 DEF GivingInv, InHand
<1>4. GivenInv'
  BY <1>2 DEF GivingInv, GivenInv, SyncTypeOK
<1> QED BY <1>3, <1>4

\* A pass breaks off, or a torrent fails: what it had in hand has slipped if it
\* was seen before.
LEMMA DropStep ==
    ASSUME SyncTypeOK, GivingInv, NEW p \in Passes, PassStep(p) \/ LoseAnswer(p) \/ KillPass(p),
           UNCHANGED <<arch, seenIds, added>>, fetched'[p] = NoList, slipped' = slipped \cup SlippedWith(p)
    PROVE  InHand' /\ GivenInv'
<1>1. \A q \in Passes : q # p => stage'[q] = stage[q] /\ fetched'[q] = fetched[q] /\ todo'[q] = todo[q]
  BY PassFrame
<1>2. \A t \in Torrents : fetched'[p][t] = 0
  BY DEF NoList
<1>3. InHand'
  BY <1>1, <1>2 DEF GivingInv, InHand
<1>4. ASSUME NEW t \in seenIds
      PROVE  added[t] # 0 /\ (t \in slipped' \/ arch[t] = added[t] \/ \E q \in Passes : fetched'[q][t] # 0)
  <2>1. t \in Torrents /\ added[t] # 0
    BY DEF SyncTypeOK, GivingInv, GivenInv
  <2>2. CASE fetched[p][t] # 0
    BY <2>1, <2>2 DEF SlippedWith
  <2>3. CASE fetched[p][t] = 0
    BY <1>1, <2>1, <2>3 DEF GivingInv, GivenInv
  <2> QED BY <2>2, <2>3
<1> QED BY <1>3, <1>4 DEF GivenInv

LEMMA GivingStep ==
    ASSUME SyncInv, GivingInv, NEW p \in Passes, PassStep(p) \/ LoseAnswer(p) \/ KillPass(p)
    PROVE  GivingInv'
<1>t. SyncTypeOK /\ TodoInv /\ LockHeld /\ InHand /\ GivenInv /\ ListedInv
  BY DEF SyncInv, GivingInv
<1>l. LockHeld'
  BY <1>t, LockStep
<1>q. \A q \in Passes : q # p =>
         /\ stage'[q] = stage[q] /\ fetched'[q] = fetched[q] /\ todo'[q] = todo[q] /\ list'[q] = list[q]
         /\ (q \in erring' <=> q \in erring)
  BY <1>t, PassFrame
<1>d. DOMAIN stage = Passes /\ DOMAIN fetched = Passes /\ DOMAIN todo = Passes /\ DOMAIN list = Passes
  BY <1>t DEF SyncTypeOK
<1>o. stage[p] \notin {"save", "add"} => \A t \in Torrents : fetched[p][t] = 0
  BY <1>t DEF InHand
\* The checkpoint, and what is done.
<1>i. ASSUME seenIds \subseteq seenIds',
             \A t \in Torrents : checkpoint'[t] # 0 => t \in seenIds',
             stage'[p] \in {"work", "save", "add"} /\ p \notin erring' /\ p \notin Retries =>
                \A t \in Torrents : list'[p][t] # 0 => t \in todo'[p] \/ t \in seenIds'
      PROVE  ListedInv'
  BY <1>t, <1>q, <1>i DEF ListedInv
<1>1. CASE StartPass(p) \/ TakeLock(p) \/ LoseAnswer(p)
  <2>1. /\ UNCHANGED <<arch, seenIds, added, slipped, checkpoint>> /\ stage[p] \notin {"save", "add"}
        /\ stage'[p] \notin {"work", "save", "add"} /\ fetched'[p] \in {fetched[p], NoList}
    BY <1>1, <1>d DEF StartPass, TakeLock, LoseAnswer, Over, Goto, archiveVars
  <2>2. InHand' /\ GivenInv'
    BY <1>t, <1>o, <2>1, PlainStep
  <2>3. ListedInv'
    BY <1>t, <1>i, <2>1 DEF ListedInv
  <2> QED BY <1>l, <2>2, <2>3 DEF GivingInv
<1>2. CASE Examine(p)
  <2>1. /\ UNCHANGED <<arch, seenIds, added, slipped, fetched, list>> /\ stage[p] = "locked"
    BY <1>2 DEF Examine
  <2>2. InHand' /\ GivenInv'
    BY <1>t, <1>o, <2>1, PlainStep
  <2>3. CASE \A t \in Listed(list[p]) : Done(p, t)
    <3>1. checkpoint' \in {checkpoint, NoList, list[p]} /\ stage'[p] = "unlock"
      BY <1>2, <1>d, <2>3 DEF Examine, Goto, Marked
    <3>2. \A t \in Torrents : list[p][t] # 0 => t \in seenIds
      BY <2>3 DEF Done, Listed
    <3>3. \A t \in Torrents : checkpoint'[t] # 0 => t \in seenIds
      BY <1>t, <3>1, <3>2 DEF ListedInv, NoList
    <3>4. ListedInv'
      BY <1>i, <2>1, <3>1, <3>3
    <3> QED BY <1>l, <2>2, <3>4 DEF GivingInv
  <2>4. CASE ~\A t \in Listed(list[p]) : Done(p, t)
    <3>1. checkpoint' = checkpoint /\ todo'[p] = Listed(list[p])
      BY <1>2, <1>d, <2>4 DEF Examine
    <3>2. ListedInv'
      BY <1>i, <1>t, <2>1, <3>1 DEF ListedInv, Listed
    <3> QED BY <1>l, <2>2, <3>2 DEF GivingInv
  <2> QED BY <2>3, <2>4
<1>3. CASE FinishPass(p)
  <2>1. /\ UNCHANGED <<arch, seenIds, added, slipped, fetched, list, erring>> /\ stage[p] = "work" /\ todo[p] = {}
        /\ stage'[p] = "unlock" /\ checkpoint' = Marked(p)
    BY <1>3, <1>d DEF FinishPass, Goto
  <2>2. InHand' /\ GivenInv'
    BY <1>t, <1>o, <2>1, PlainStep
  <2>3. \A t \in Torrents : checkpoint'[t] # 0 => t \in seenIds
    BY <1>t, <2>1 DEF Marked, NoList, ListedInv
  <2>4. ListedInv'
    BY <1>i, <2>1, <2>3
  <2> QED BY <1>l, <2>2, <2>4 DEF GivingInv
<1>4. CASE Unlock(p)
  <2>1. /\ UNCHANGED <<arch, seenIds, added, slipped>> /\ stage[p] = "unlock" /\ stage'[p] = "idle"
        /\ fetched'[p] = NoList /\ checkpoint' \in {checkpoint, NoList}
    BY <1>4, <1>d DEF Unlock, Over
  <2>2. InHand' /\ GivenInv'
    BY <1>t, <1>o, <2>1, PlainStep
  <2>3. ListedInv'
    BY <1>i, <1>t, <2>1 DEF ListedInv, NoList
  <2> QED BY <1>l, <2>2, <2>3 DEF GivingInv
<1>5. CASE KillPass(p)
  <2>1. /\ UNCHANGED <<arch, seenIds, added, checkpoint>> /\ stage'[p] = "idle"
        /\ fetched'[p] = NoList /\ slipped' = slipped \cup SlippedWith(p)
    BY <1>5, <1>d DEF KillPass, Over, archiveVars
  <2>2. InHand' /\ GivenInv'
    BY <1>t, <2>1, DropStep
  <2>3. ListedInv'
    BY <1>i, <1>t, <2>1 DEF ListedInv
  <2> QED BY <1>l, <2>2, <2>3 DEF GivingInv
<1>6. ASSUME NEW t \in Torrents, Skip(p, t) PROVE GivingInv'
  <2>1. /\ UNCHANGED <<arch, seenIds, added, slipped, checkpoint, fetched, list, stage, erring>> /\ stage[p] = "work"
        /\ todo'[p] = todo[p] \ {t} /\ t \in seenIds
    BY <1>6, <1>d DEF Skip, Done, archiveVars
  <2>2. InHand' /\ GivenInv'
    BY <1>t, <1>o, <2>1, PlainStep
  <2>3. ListedInv'
    BY <1>i, <1>t, <2>1 DEF ListedInv
  <2> QED BY <1>l, <2>2, <2>3 DEF GivingInv
<1>7. ASSUME NEW t \in Torrents, FailTorrent(p, t) PROVE GivingInv'
  <2>1. /\ UNCHANGED <<arch, seenIds, added, checkpoint>> /\ p \in erring'
        /\ fetched'[p] = NoList /\ slipped' = slipped \cup SlippedWith(p)
    BY <1>7, <1>d DEF FailTorrent, archiveVars
  <2>2. InHand' /\ GivenInv'
    BY <1>t, <2>1, DropStep
  <2>3. ListedInv'
    BY <1>i, <1>t, <2>1 DEF ListedInv
  <2> QED BY <1>l, <2>2, <2>3 DEF GivingInv
<1>8. ASSUME NEW t \in Torrents, Download(p, t) PROVE GivingInv'
  <2>1. /\ UNCHANGED <<seenIds, added, slipped, checkpoint, list, todo, erring>> /\ stage[p] = "work" /\ stage'[p] = "save"
        /\ t \in todo[p] /\ api[t] # 0 /\ fetched'[p] = [NoList EXCEPT ![t] = api[t]]
        /\ (arch' = arch \/ arch' = [arch EXCEPT ![t] = 0])
    BY <1>8, <1>d DEF Download, Goto
  <2>2. \A u \in Torrents : fetched'[p][u] = IF u = t THEN api[t] ELSE 0
    BY <2>1 DEF NoList
  <2>3. lock = p
    BY <1>t, <2>1 DEF LockHeld, UnderLock
  <2>4. \A q \in Passes : q # p => \A u \in Torrents : fetched[q][u] = 0
    BY <1>t, <2>3, HandOfHolder
  <2>5. InHand'
    <3>1. \A q \in Passes : q # p => \A u \in Torrents : fetched'[q][u] = 0
      BY <1>q, <2>4
    <3>2. \A u \in Torrents : fetched'[p][u] # 0 => u = t
      BY <2>2
    <3>3. t \in todo'[p]
      BY <2>1
    <3> QED BY <2>1, <3>1, <3>2, <3>3 DEF InHand
  <2>6. ASSUME NEW u \in seenIds
        PROVE  added[u] # 0 /\ (u \in slipped \/ arch'[u] = added[u] \/ \E q \in Passes : fetched'[q][u] # 0)
    <3>1. u \in Torrents /\ added[u] # 0
      BY <1>t DEF SyncTypeOK, GivenInv
    <3>2. CASE u = t
      BY <2>1, <2>2, <3>1, <3>2
    <3>3. CASE u # t
      <4>1. \A q \in Passes : fetched[q][u] = 0
        BY <1>o, <2>1, <2>4, <3>1
      <4>2. arch'[u] = arch[u]
        BY <1>t, <2>1, <3>1, <3>3 DEF SyncTypeOK, VersionOf
      <4> QED BY <1>t, <4>1, <4>2 DEF GivenInv
    <3> QED BY <3>2, <3>3
  <2>7. GivenInv'
    BY <2>1, <2>6 DEF GivenInv
  <2>8. ListedInv'
    BY <1>i, <1>t, <2>1 DEF ListedInv
  <2> QED BY <1>l, <2>5, <2>7, <2>8 DEF GivingInv
<1>9. ASSUME NEW t \in Torrents, SaveArchive(p, t) PROVE GivingInv'
  <2>1. /\ UNCHANGED <<seenIds, added, slipped, checkpoint, list, todo, erring, fetched>>
        /\ stage[p] = "save" /\ stage'[p] = "add" /\ fetched[p][t] # 0 /\ arch' = [arch EXCEPT ![t] = fetched[p][t]]
    BY <1>9, <1>d DEF SaveArchive, Goto
  <2>2. lock = p
    BY <1>t, <2>1 DEF LockHeld, UnderLock
  <2>3. \A q \in Passes : q # p => \A u \in Torrents : fetched[q][u] = 0
    BY <1>t, <2>2, HandOfHolder
  <2>4. arch'[t] = fetched[p][t] /\ \A u \in Torrents : u # t => arch'[u] = arch[u] /\ fetched[p][u] = 0
    BY <1>t, <2>1 DEF SyncTypeOK, VersionOf, InHand
  <2>5. InHand'
    BY <1>t, <1>q, <2>1, <2>3, <2>4 DEF InHand
  <2>6. GivenInv'
    BY <1>t, <2>1, <2>4 DEF GivenInv, SyncTypeOK
  <2>7. ListedInv'
    BY <1>i, <1>t, <2>1 DEF ListedInv
  <2> QED BY <1>l, <2>5, <2>6, <2>7 DEF GivingInv
<1>10. ASSUME NEW t \in Torrents, AddTorrent(p, t) PROVE GivingInv'
  <2>1. /\ UNCHANGED <<arch, checkpoint, list, erring>> /\ stage[p] = "add" /\ fetched[p][t] # 0
        /\ stage'[p] = "work" /\ added' = [added EXCEPT ![t] = fetched[p][t]]
        /\ seenIds' = seenIds \cup {t} /\ slipped' = slipped \ {t}
        /\ todo'[p] = todo[p] \ {t} /\ fetched'[p] = NoList
    BY <1>10, <1>d DEF AddTorrent, Goto
  <2>2. lock = p
    BY <1>t, <2>1 DEF LockHeld, UnderLock
  <2>3. \A q \in Passes, u \in Torrents : fetched'[q][u] = 0
    <3>1. \A q \in Passes : q # p => \A u \in Torrents : fetched[q][u] = 0
      BY <1>t, <2>2, HandOfHolder
    <3> QED BY <1>q, <2>1, <3>1 DEF NoList
  <2>4. InHand'
    BY <2>3 DEF InHand
  <2>5. arch[t] = fetched[p][t] /\ \A u \in Torrents : u # t => \A q \in Passes : fetched[q][u] = 0
    <3>1. arch[t] = fetched[p][t] /\ \A u \in Torrents : u # t => fetched[p][u] = 0
      BY <1>t, <2>1 DEF InHand
    <3> QED BY <1>t, <2>2, <3>1, HandOfHolder
  <2>6. ASSUME NEW u \in seenIds' PROVE added'[u] # 0 /\ (u \in slipped' \/ arch[u] = added'[u])
    <3>1. CASE u = t
      BY <1>t, <2>1, <2>5, <3>1 DEF SyncTypeOK, VersionOf
    <3>2. CASE u # t
      <4>1. u \in seenIds /\ u \in Torrents /\ added'[u] = added[u] /\ (u \in slipped <=> u \in slipped')
        BY <1>t, <2>1, <3>2 DEF SyncTypeOK, VersionOf
      <4> QED BY <1>t, <2>5, <3>2, <4>1 DEF GivenInv
    <3> QED BY <3>1, <3>2
  <2>7. GivenInv'
    BY <2>1, <2>6 DEF GivenInv
  <2>8. ListedInv'
    BY <1>i, <1>t, <2>1 DEF ListedInv
  <2> QED BY <1>l, <2>4, <2>7, <2>8 DEF GivingInv
<1> QED BY <1>1, <1>2, <1>3, <1>4, <1>5, <1>6, <1>7, <1>8, <1>9, <1>10 DEF PassStep

\* What AniLibria publishes or withdraws.
LEMMA NewsStep ==
    ASSUME GivingInv, UNCHANGED <<archiveVars, lock, passVars, slipped>>
    PROVE  GivingInv'
<1>1. UNCHANGED <<arch, seenIds, added, checkpoint, stage, list, todo, fetched, erring>>
  BY DEF archiveVars, passVars
<1> QED BY <1>1 DEF GivingInv, LockHeld, InHand, GivenInv, ListedInv

LEMMA GivingInvariant == SyncSpec => [](SyncInv /\ GivingInv)
<1>1. ASSUME SyncInv, GivingInv, [SyncNext]_syncVars PROVE GivingInv'
  <2>1. ASSUME NEW t \in Torrents, NEW v \in 0 .. MaxVersion, Publish(t, v) PROVE GivingInv'
    BY <1>1, <2>1, NewsStep DEF Publish
  <2>2. CASE UNCHANGED syncVars
    BY <1>1, <2>2, NewsStep DEF syncVars
  <2> QED BY <1>1, <2>1, <2>2, GivingStep DEF SyncNext
<1> QED BY <1>1, SyncInitHolds, SyncInvStep, GivingInit, PTL DEF SyncSpec

\* No two passes work on one release, however many there are, whatever answers
\* of the database are lost and whoever dies (release_lock).
THEOREM PassesAreAlone == SyncSpec => []PassIsAlone
<1>1. SyncInv /\ GivingInv => PassIsAlone
  BY DEF GivingInv, LockHeld, PassIsAlone
<1> QED BY <1>1, GivingInvariant, PTL

\* Whatever fails, dies or is replaced in the middle of a pass, a version that
\* is listed and that the pipeline does not have is taken up by the next pass;
\* but for what slipped (build_seen_exists_query, _archive_hash_mismatches).
THEOREM NothingIsHidden == SyncSpec => []NothingStaysHidden
<1>1. SyncInv /\ GivingInv => NothingStaysHidden
  BY DEF GivingInv, GivenInv, NothingStaysHidden, SyncInv, SyncTypeOK
<1> QED BY <1>1, GivingInvariant, PTL

\* A pass that has failed somewhere leaves no checkpoint that lists what the
\* pipeline was not given (save_release_checkpoint).
THEOREM CheckpointsAreTrue == SyncSpec => []CheckpointIsTrue
<1>1. SyncInv /\ GivingInv => CheckpointIsTrue
  BY DEF GivingInv, GivenInv, ListedInv, CheckpointIsTrue
<1> QED BY <1>1, GivingInvariant, PTL

-----------------------------------------------------------------------------
(* All seven.                                                                *)

\* The services do not touch each other, so that each goes its own way.
LEMMA ServicesAreApart ==
    [Next]_vars =>
        /\ [SubNext]_subVars /\ [AutoNext]_autoVars /\ [UiNext]_uiVars /\ [TrackNext]_trackVars
        /\ [SyncNext]_syncVars /\ [CatNext]_catVars /\ [HashNext]_hashVars
<1> SUFFICES ASSUME [Next]_vars
             PROVE  /\ [SubNext]_subVars /\ [AutoNext]_autoVars /\ [UiNext]_uiVars /\ [TrackNext]_trackVars
                    /\ [SyncNext]_syncVars /\ [CatNext]_catVars /\ [HashNext]_hashVars
  OBVIOUS
<1>1. CASE History(SubNext)
  BY <1>1 DEF History
<1>2. CASE Queue(AutoNext)
  BY <1>2 DEF Queue
<1>3. CASE Pages(UiNext)
  BY <1>3 DEF Pages
<1>4. CASE Jobs(TrackNext /\ Few')
  BY <1>4 DEF Jobs
<1>5. CASE Release(SyncNext)
  BY <1>5 DEF Release
<1>6. CASE Catalog(CatNext)
  BY <1>6 DEF Catalog
<1>7. CASE Hashes(HashNext)
  BY <1>7 DEF Hashes
<1>8. CASE UNCHANGED vars
  BY <1>8 DEF vars
<1> QED BY <1>1, <1>2, <1>3, <1>4, <1>5, <1>6, <1>7, <1>8 DEF Next

\* The services keep the types of their variables, for any sizes and bounds.
THEOREM ServicesKeepTypes == Spec => []TypesOK
<1> DEFINE Inv ==
      /\ SubTypeOK /\ AutoInv /\ UiTypeOK /\ TrackInv /\ TrackTypeOK /\ LineInv
      /\ SyncInv /\ CatTypeOK /\ HashTypeOK /\ TrueInv
<1>1. Init => Inv
  <2>1. Init => SubInit /\ AutoInit /\ UiInit /\ TrackInit /\ SyncInit /\ CatInit /\ HashInit
    BY DEF Init
  <2> QED BY <2>1, SubInitHolds, InitHolds, UiInitHolds, TrackInitHolds, TrackTypeInit, SyncInitHolds, CatInitHolds, HashInitHolds
          DEF SubInv, UiInv, CatInv, HashInv
<1>2. Inv /\ [Next]_vars => Inv'
  BY ServicesAreApart, SubTypeStep, AutoInvStep, UiTypeStep, TrackInvStep, TrackTypeStep, SyncInvStep, CatTypeStep,
     HashTypeStep, TrueStep
<1>3. Inv => TypesOK
  BY DEF TypesOK, AutoInv, SyncInv
<1> HIDE DEF Inv
<1> QED BY <1>1, <1>2, <1>3, PTL DEF Spec
=============================================================================
