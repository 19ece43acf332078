----------------------- MODULE EncoderSubmissionProofs -----------------------
(***************************************************************************)
(* Proofs about EncoderSubmission, for any calls, files, contents and         *)
(* presets, and for expiry at any moment.  What is said of the submissions     *)
(* leaves out those that had expired before their intent (late).             *)
(***************************************************************************)
EXTENDS EncoderSubmission, FiniteSetTheorems, WellFoundedInduction, TLAPS

\* How far a call has come decides what its entry may say.
CallInv ==
    \A c \in Calls :
        /\ pc[c] = "new" => \A f \in Files : item[c][f] = "none"
        /\ pc[c] \in {"new", "claimed", "preflight", "checked"} => c \notin started
        /\ c \notin started => \A f \in Files : item[c][f] \in {"none", "sending", "not_sent"}
        /\ pc[c] \in {"claimed", "preflight", "checked"} /\ c \notin open =>
              \A f \in Files : item[c][f] \in {"none", "not_sent"}
        /\ pc[c] = "checked" /\ c \in open => \A f \in paths[c] : item[c][f] = "sending"
        /\ pc[c] = "intended" =>
              c \in started \ sent /\ (c \in late \/ \A f \in paths[c] : item[c][f] \in {"sending", "unknown"})
        /\ pc[c] = "posting" => c \in sent
        /\ c \in late => c \in started /\ \A f \in Files : item[c][f] \in {"none", "not_sent"}

\* What is on the wire, what Kensetsu knows and what was read fit together.
WireInv ==
    /\ flight \subseteq sent /\ sent \subseteq started
    /\ open \subseteq {c \in Calls : pc[c] # "new"}
    /\ \A c \in Calls :
          /\ srv[c] # "none" => c \in sent \ flight
          /\ srv[c] \in {"none", "processing", "refused"} => took[c] = {}
          /\ took[c] \subseteq paths[c]
    /\ reading # NoCall => reading \in started
    /\ reading # NoCall /\ receipt \in {"processing", "final", "refused", "interrupted"} => srv[reading] # "none"
    /\ reading # NoCall /\ receipt \in {"final", "refused"} => srv[reading] = receipt

\* An entry says no more than is known.
TruthInv ==
    \A c \in Calls, f \in Files :
        /\ item[c][f] = "accepted" => f \in took[c]
        /\ item[c][f] = "rejected" => srv[c] \in {"final", "refused"} /\ f \notin took[c]
        /\ c \in sent \ late /\ f \in paths[c] => item[c][f] \notin {"none", "not_sent"}

\* Entries are ordered by age.
AgeInv ==
    \A c \in Calls :
        /\ c \notin before[c]
        /\ \A d \in before[c] : Exists(d) /\ before[d] \subseteq before[c]
        /\ Exists(c) => \A d \in Calls \ {c} : Exists(d) => d \in before[c] \/ c \in before[d]

\* Two live entries of one source have been confirmed by a person.
ClashInv ==
    \A c, d \in Calls, f, e \in Files :
        c # d /\ item[c][f] \in LiveItem /\ item[d][e] \in LiveItem /\ Clash(c, f, d, e)
            => c \in consent \/ d \in consent

SubInv == SubTypeOK /\ CallInv /\ WireInv /\ TruthInv /\ AgeInv /\ ClashInv /\ OneSubmissionPerRequest

LEMMA SubInitHolds == SubInit => SubInv
<1> SUFFICES ASSUME SubInit PROVE SubInv OBVIOUS
<1>1. \A c \in Calls : ~Exists(c)
  BY DEF SubInit, Exists
<1>2. SubTypeOK
  BY DEF SubInit, SubTypeOK, ItemStatus, Receipts
<1>3. CallInv /\ WireInv /\ TruthInv
  BY DEF SubInit, CallInv, WireInv, TruthInv
<1>4. AgeInv
  BY <1>1 DEF SubInit, AgeInv
<1>5. ClashInv /\ OneSubmissionPerRequest
  BY <1>1 DEF SubInit, ClashInv, OneSubmissionPerRequest, LiveItem
<1> QED BY <1>2, <1>3, <1>4, <1>5 DEF SubInv

-----------------------------------------------------------------------------
(* Every variable keeps its type.                                            *)

LEMMA SubTypeStep == SubTypeOK /\ [SubNext]_subVars => SubTypeOK'
<1> SUFFICES ASSUME SubTypeOK, [SubNext]_subVars PROVE SubTypeOK' OBVIOUS
<1> USE DEF SubTypeOK, ledgerRows, kensetsuVars, readerVars, ItemStatus, Receipts, Turn, In, MayExpire, AfterExpiry, ExpiredAs
<1>1. ASSUME NEW c \in Calls, TurnAway(c) PROVE SubTypeOK'
  BY <1>1 DEF TurnAway
<1>2. ASSUME NEW c \in Calls, NEW S \in SUBSET Calls, NEW repeat \in BOOLEAN, NEW ack \in BOOLEAN,
             Claim(c, S, repeat, ack)
      PROVE SubTypeOK'
  BY <1>2 DEF Claim
<1>3. ASSUME NEW c \in Calls, GiveUp(c) PROVE SubTypeOK'
  BY <1>3 DEF GiveUp
<1>4. ASSUME NEW c \in Calls, Intent(c) PROVE SubTypeOK'
  BY <1>4 DEF Intent
<1>5. ASSUME NEW c \in Calls, NEW bad \in SUBSET FilesOf[c], Prepare(c, bad) PROVE SubTypeOK'
  BY <1>5 DEF Prepare
<1>6. ASSUME NEW c \in Calls, NEW bad \in SUBSET FilesOf[c], Recheck(c, bad) PROVE SubTypeOK'
  BY <1>6 DEF Recheck
<1>7. ASSUME NEW c \in Calls, Post(c) PROVE SubTypeOK'
  BY <1>7 DEF Post
<1>8. ASSUME NEW c \in Calls, HearPending(c) PROVE SubTypeOK'
  BY <1>8 DEF HearPending
<1>9. ASSUME NEW c \in Calls, HearFinal(c) PROVE SubTypeOK'
  BY <1>9 DEF HearFinal, Settled, Verdict
<1>10. ASSUME NEW c \in Calls, HearRefused(c) PROVE SubTypeOK'
  BY <1>10 DEF HearRefused
<1>11. ASSUME NEW c \in Calls, HearUnsent(c) PROVE SubTypeOK'
  BY <1>11 DEF HearUnsent
<1>12. ASSUME NEW c \in Calls, HearNothing(c) PROVE SubTypeOK'
  BY <1>12 DEF HearNothing, LostAs
<1>13. ASSUME NEW c \in Calls, Kill(c) PROVE SubTypeOK'
  BY <1>13 DEF Kill
<1>14. ASSUME NEW c \in Calls, Arrive(c) PROVE SubTypeOK'
  BY <1>14 DEF Arrive
<1>15. ASSUME NEW c \in Calls, NEW r \in {"final", "refused", "interrupted"},
              NEW T \in SUBSET FilesOf[c], NEW C \in SUBSET FilesOf[c], Conclude(c, r, T, C)
       PROVE SubTypeOK'
  <2>1. T \subseteq Files /\ C \subseteq Files
    BY FilesAssumption
  <2> QED BY <1>15, <2>1 DEF Conclude
<1>16. ASSUME NEW c \in Calls, NEW r \in Receipts, Fetch(c, r) PROVE SubTypeOK'
  BY <1>16 DEF Fetch
<1>17. ASSUME NEW c \in Calls, Absorb(c) PROVE SubTypeOK'
  <2>1. CASE AbsorbProcessing(c)
    BY <1>17, <2>1 DEF Absorb, AbsorbProcessing
  <2>2. CASE AbsorbDoubt(c)
    BY <1>17, <2>2 DEF Absorb, AbsorbDoubt
  <2>3. CASE AbsorbReply(c)
    BY <1>17, <2>3 DEF Absorb, AbsorbReply, Settled, Verdict
  <2> QED BY <1>17, <2>1, <2>2, <2>3 DEF Absorb
<1>18. ASSUME StopReading PROVE SubTypeOK'
  BY <1>18 DEF StopReading
<1>19. ASSUME NEW S \in SUBSET Calls, RecoverExpired(S) PROVE SubTypeOK'
  BY <1>19 DEF RecoverExpired
<1>20. ASSUME UNCHANGED subVars PROVE SubTypeOK'
  BY <1>20 DEF subVars
<1> QED
  BY <1>1, <1>2, <1>3, <1>4, <1>5, <1>6, <1>7, <1>8, <1>9, <1>10, <1>11, <1>12, <1>13, <1>14,
     <1>15, <1>16, <1>17, <1>18, <1>19, <1>20
  DEF SubNext, SendStep, KensetsuStep

-----------------------------------------------------------------------------
(* All steps but Claim.                                                      *)

\* No entry is opened, and none comes to life.
Ageless ==
    /\ before' = before /\ consent' = consent
    /\ \A c \in Calls, f \in Files :
          /\ item'[c][f] = "none" <=> item[c][f] = "none"
          /\ item'[c][f] \in LiveItem => item[c][f] \in LiveItem

Kept == CallInv' /\ WireInv' /\ TruthInv' /\ Ageless

LEMMA SenderKeeps ==
    ASSUME SubInv, NEW c \in Calls,
           \/ TurnAway(c) \/ GiveUp(c) \/ Intent(c) \/ Kill(c)
           \/ \E bad \in SUBSET FilesOf[c] : Prepare(c, bad) \/ Recheck(c, bad)
    PROVE  Kept
<1> USE DEF SubInv, SubTypeOK, CallInv, WireInv, TruthInv, Kept, Ageless, ledgerRows, kensetsuVars, readerVars,
            ItemStatus, LiveItem, Turn, In
<1>1. CASE TurnAway(c)
  BY <1>1 DEF TurnAway
<1>2. CASE GiveUp(c)
  BY <1>2 DEF GiveUp
<1>3. CASE Intent(c)
  BY <1>3 DEF Intent
<1>4. CASE Kill(c)
  BY <1>4 DEF Kill
<1>5. ASSUME NEW bad \in SUBSET FilesOf[c], Prepare(c, bad) PROVE Kept
  BY <1>5 DEF Prepare
<1>6. ASSUME NEW bad \in SUBSET FilesOf[c], Recheck(c, bad) PROVE Kept
  BY <1>6 DEF Recheck
<1> QED BY <1>1, <1>2, <1>3, <1>4, <1>5, <1>6

LEMMA RequestKeeps ==
    ASSUME SubInv, NEW c \in Calls,
           \/ Post(c) \/ HearPending(c) \/ HearFinal(c) \/ HearRefused(c) \/ HearUnsent(c) \/ HearNothing(c)
    PROVE  Kept
<1> USE DEF SubInv, SubTypeOK, CallInv, WireInv, TruthInv, Kept, Ageless, ledgerRows, kensetsuVars, readerVars,
            ItemStatus, LiveItem, Turn
<1>1. CASE Post(c)
  <2>1. CallInv'
    BY <1>1 DEF Post
  <2>2. WireInv'
    BY <1>1 DEF Post
  <2>3. TruthInv' /\ Ageless
    BY <1>1 DEF Post
  <2> QED BY <2>1, <2>2, <2>3
<1>2. CASE HearPending(c)
  BY <1>2 DEF HearPending
<1>3. CASE HearFinal(c)
  BY <1>3 DEF HearFinal, Settled, Verdict
<1>4. CASE HearRefused(c)
  BY <1>4 DEF HearRefused
<1>5. CASE HearUnsent(c)
  BY <1>5 DEF HearUnsent
<1>6. CASE HearNothing(c)
  BY <1>6 DEF HearNothing, LostAs
<1> QED BY <1>1, <1>2, <1>3, <1>4, <1>5, <1>6

LEMMA KensetsuKeeps ==
    ASSUME SubInv, NEW c \in Calls, KensetsuStep(c)
    PROVE  Kept
<1> USE DEF SubInv, SubTypeOK, CallInv, WireInv, TruthInv, Kept, Ageless, ledgerRows, readerVars, ItemStatus, LiveItem
<1>1. CASE Arrive(c)
  BY <1>1 DEF Arrive
<1>2. ASSUME NEW r \in {"final", "refused", "interrupted"},
             NEW T \in SUBSET FilesOf[c], NEW C \in SUBSET FilesOf[c], Conclude(c, r, T, C)
      PROVE Kept
  BY <1>2 DEF Conclude
<1> QED BY <1>1, <1>2 DEF KensetsuStep

LEMMA RecoveryKeeps ==
    ASSUME SubInv, NEW c \in Calls,
           Absorb(c) \/ \E r \in Receipts : Fetch(c, r)
    PROVE  Kept
<1> USE DEF SubInv, SubTypeOK, CallInv, WireInv, TruthInv, Kept, Ageless, ledgerRows, kensetsuVars, readerVars,
            ItemStatus, LiveItem, Turn, Receipts
<1>1. CASE Absorb(c)
  <2> USE CallsAssumption DEF Absorb
  <2>1. CASE AbsorbProcessing(c)
    BY <1>1, <2>1 DEF AbsorbProcessing
  <2>2. CASE AbsorbDoubt(c)
    BY <1>1, <2>2 DEF AbsorbDoubt
  <2>3. CASE AbsorbReply(c) /\ receipt = "final"
    BY <1>1, <2>3 DEF AbsorbReply, Settled, Verdict
  <2>4. CASE AbsorbReply(c) /\ receipt = "refused"
    BY <1>1, <2>4 DEF AbsorbReply
  <2> QED BY <1>1, <2>1, <2>2, <2>3, <2>4 DEF AbsorbReply
<1>2. ASSUME NEW r \in Receipts, Fetch(c, r) PROVE Kept
  BY <1>2 DEF Fetch
<1> QED BY <1>1, <1>2

LEMMA ExpiryKeeps ==
    ASSUME SubInv, NEW S \in SUBSET Calls, RecoverExpired(S)
    PROVE  Kept
BY DEF SubInv, SubTypeOK, CallInv, WireInv, TruthInv, Kept, Ageless, kensetsuVars, readerVars,
       ItemStatus, LiveItem, RecoverExpired, AfterExpiry, ExpiredAs, MayExpire

\* What is only about which entries there are, and which live, stays true.
LEMMA AgelessKeeps ==
    ASSUME SubInv, Ageless
    PROVE  AgeInv' /\ ClashInv' /\ OneSubmissionPerRequest'
<1>1. \A c \in Calls : Exists(c)' <=> Exists(c)
  BY DEF Ageless, Exists
<1>2. AgeInv'
  BY <1>1 DEF SubInv, SubTypeOK, AgeInv, Ageless
<1>3. ClashInv'
  BY DEF SubInv, ClashInv, Ageless, Clash, SameContent, Proven
<1>4. OneSubmissionPerRequest'
  BY <1>1 DEF SubInv, OneSubmissionPerRequest
<1> QED BY <1>2, <1>3, <1>4

-----------------------------------------------------------------------------
(* Claim.                                                                    *)

\* Of some entries, one is the newest: none of the others has come after it.
LEMMA NewestIsThere ==
    ASSUME SubTypeOK, AgeInv, NEW T \in SUBSET Calls, T # {}
    PROVE  \E d \in T : \A e \in T : d \notin before[e]
<1> DEFINE later(d) == Cardinality(Calls \ before[d])
           ages == {later(d) : d \in T}
<1>1. \A d \in Calls : IsFiniteSet(Calls \ before[d]) /\ later(d) \in Nat
  BY CallsAssumption, FS_Difference, FS_CardinalityType
<1>2. ages \subseteq Nat /\ ages # {}
  BY <1>1
<1>3. PICK k \in ages : \A n \in ages : ~(<<n, k>> \in OpToRel(<, Nat))
  <2> HIDE DEF ages
  <2> QED BY <1>2, NatLessThanWellFounded, WFMin
<1>4. PICK d \in T : k = later(d)
  BY <1>3
<1>5. ASSUME NEW e \in T, d \in before[e] PROVE FALSE
  <2>1. later(e) \in Nat /\ later(d) \in Nat /\ ~(later(e) < later(d))
    BY <1>1, <1>2, <1>3, <1>4 DEF OpToRel
  <2>2. Calls \ before[e] \subseteq Calls \ before[d] /\ d \in (Calls \ before[d]) \ (Calls \ before[e])
    BY <1>5 DEF AgeInv
  <2>3. later(e) <= later(d) /\ later(e) # later(d)
    BY <1>1, <2>2, FS_Subset
  <2> QED BY <2>1, <2>3
<1> QED BY <1>5

\* A claim that nobody had to confirm meets no live entry of its sources: in
\* particular, that only the newest entry is asked lets none of them escape.
LEMMA UncontestedIsFirst ==
    ASSUME SubTypeOK, AgeInv, NEW c \in Calls, NEW old \in [Calls -> [Files -> ItemStatus]],
           ~Conflict(old, c, FALSE, FALSE),
           NEW f \in FilesOf[c], NEW d \in Calls, NEW e \in Files, Clash(c, f, d, e)
    PROVE  old[d][e] \notin LiveItem
<1> SUFFICES ASSUME old[d][e] \in LiveItem PROVE FALSE OBVIOUS
<1>1. f \in Files
  BY FilesAssumption
<1>2. CASE c \in Automatic \/ d \in Automatic
  <2>1. Related(old, c, f, d, e)
    BY <1>2 DEF Related, Clash
  <2> QED BY <2>1 DEF Conflict, Forbids, LiveItem
<1>3. CASE ~(c \in Automatic \/ d \in Automatic)
  <2> DEFINE T == {x \in Calls : PresetOf[x] = PresetOf[c] /\ old[x][f] \in LiveItem}
  <2>1. T # {}
    BY <1>3 DEF Clash
  <2>2. PICK x \in T : \A y \in T : x \notin before[y]
    BY <2>1, NewestIsThere
  <2>3. Latest(old, c, f, x)
    BY <2>2 DEF Latest
  <2> QED BY <2>2, <2>3 DEF Conflict, Forbids, LiveItem
<1> QED BY <1>2, <1>3

LEMMA ClaimKeeps ==
    ASSUME SubInv, NEW c \in Calls, NEW S \in SUBSET Calls,
           NEW repeat \in BOOLEAN, NEW ack \in BOOLEAN, Claim(c, S, repeat, ack)
    PROVE  CallInv' /\ WireInv' /\ TruthInv' /\ AgeInv' /\ ClashInv' /\ OneSubmissionPerRequest'
<1> DEFINE old == AfterExpiry(S)
<1>1. /\ old \in [Calls -> [Files -> ItemStatus]]
      /\ \A d \in Calls, f \in Files :
            /\ old[d][f] = "none" <=> item[d][f] = "none"
            /\ old[d][f] \in LiveItem => item[d][f] \in LiveItem
            /\ d # c => item'[d][f] = old[d][f]
            /\ item'[c][f] = IF f \in FilesOf[c] THEN "sending" ELSE "none"
            /\ item[c][f] = "none"
  BY DEF SubInv, SubTypeOK, CallInv, Claim, AfterExpiry, ExpiredAs, ItemStatus, LiveItem
<1>2. CallInv' /\ WireInv' /\ TruthInv'
  <2> USE DEF SubInv, SubTypeOK, CallInv, WireInv, TruthInv, Claim, AfterExpiry, ExpiredAs, MayExpire,
         kensetsuVars, readerVars, ItemStatus
  <2>1. CallInv'
    OBVIOUS
  <2>2. WireInv'
    OBVIOUS
  <2>3. TruthInv'
    <3>1. ASSUME NEW d \in Calls \ {c}, NEW f \in Files
          PROVE  /\ item'[d][f] = "accepted" => item[d][f] = "accepted"
                 /\ item'[d][f] = "rejected" => item[d][f] = "rejected"
                 /\ item'[d][f] \in {"none", "not_sent"} => item[d][f] \in {"none", "not_sent"} \/ d \notin started
      BY <1>1
    <3>2. \A f \in Files : item'[c][f] \in {"none", "sending"} /\ c \notin sent
      BY <1>1
    <3>3. UNCHANGED <<sent, late, paths, srv, took>>
      OBVIOUS
    <3> QED BY <3>1, <3>2, <3>3
  <2> QED BY <2>1, <2>2, <2>3
<1>3. ~Exists(c) /\ Exists(c)' /\ \A d \in Calls \ {c} : Exists(d)' <=> Exists(d)
  <2>1. \E f \in Files : f \in FilesOf[c]
    BY FilesAssumption
  <2> QED BY <1>1, <2>1 DEF Exists
<1>4. AgeInv'
  <2>1. /\ \A d \in Calls : before'[d] \subseteq Calls
        /\ \A e \in Calls : e \in before'[c] <=> Exists(e)
        /\ \A d \in Calls \ {c} : before'[d] = before[d]
    BY DEF Claim, SubInv, SubTypeOK
  <2>2. ASSUME NEW d \in Calls PROVE d \notin before'[d]
    BY <1>3, <2>1 DEF SubInv, AgeInv
  <2>3. ASSUME NEW d \in Calls, NEW e \in before'[d] PROVE Exists(e)' /\ before'[e] \subseteq before'[d]
    <3>1. e \in Calls /\ Exists(e)
      BY <2>1, <2>3 DEF SubInv, SubTypeOK, AgeInv
    <3>2. e # c /\ before'[e] = before[e]
      BY <1>3, <2>1, <3>1
    <3> QED BY <1>3, <2>1, <2>3, <3>1, <3>2 DEF SubInv, SubTypeOK, AgeInv
  <2>4. ASSUME NEW d \in Calls, Exists(d)', NEW e \in Calls \ {d}, Exists(e)'
        PROVE  e \in before'[d] \/ d \in before'[e]
    BY <1>3, <2>1, <2>4 DEF SubInv, AgeInv
  <2> QED BY <2>2, <2>3, <2>4 DEF AgeInv
<1>5. consent \subseteq consent' /\ (c \in consent' \/ ~Conflict(old, c, FALSE, FALSE))
  BY DEF Claim
<1>6. ASSUME NEW f \in Files, item'[c][f] \in LiveItem, NEW d \in Calls \ {c}, NEW e \in Files,
             item'[d][e] \in LiveItem, Clash(c, f, d, e)
      PROVE  c \in consent'
  <2>1. f \in FilesOf[c] /\ old[d][e] \in LiveItem
    BY <1>1, <1>6 DEF LiveItem
  <2> HIDE DEF old
  <2>2. CASE ~Conflict(old, c, FALSE, FALSE)
    <3>1. SubTypeOK /\ AgeInv
      BY DEF SubInv
    <3>2. old \in [Calls -> [Files -> ItemStatus]] /\ Clash(c, f, d, e)
      BY <1>1, <1>6
    <3>3. old[d][e] \notin LiveItem
      BY <2>1, <2>2, <3>1, <3>2, UncontestedIsFirst
    <3> QED BY <2>1, <3>3
  <2> QED BY <1>5, <2>2
<1>7. ClashInv'
  <2> SUFFICES ASSUME NEW x \in Calls, NEW d \in Calls, NEW f \in Files, NEW e \in Files,
                      x # d, item'[x][f] \in LiveItem, item'[d][e] \in LiveItem, Clash(x, f, d, e)
               PROVE  x \in consent' \/ d \in consent'
    BY DEF ClashInv, Clash, SameContent, Proven
  <2>1. Clash(d, e, x, f)
    BY DEF Clash, SameContent, Proven
  <2>2. CASE x = c
    BY <1>6, <2>2
  <2>3. CASE d = c
    BY <1>6, <2>1, <2>3
  <2>4. CASE x # c /\ d # c
    BY <1>1, <1>5, <2>4 DEF SubInv, ClashInv
  <2> QED BY <2>2, <2>3, <2>4
<1>8. OneSubmissionPerRequest'
  BY <1>3 DEF SubInv, OneSubmissionPerRequest, Claim, Replayed
<1> QED BY <1>2, <1>4, <1>7, <1>8

-----------------------------------------------------------------------------
LEMMA SubInvStep == SubInv /\ [SubNext]_subVars => SubInv'
<1> SUFFICES ASSUME SubInv, [SubNext]_subVars PROVE SubInv' OBVIOUS
<1>1. SubTypeOK'
  BY SubTypeStep DEF SubInv
<1>2. CASE Kept
  BY <1>1, <1>2, AgelessKeeps DEF Kept, SubInv
<1>3. ASSUME NEW c \in Calls, NEW S \in SUBSET Calls, NEW repeat \in BOOLEAN, NEW ack \in BOOLEAN,
             Claim(c, S, repeat, ack)
      PROVE  SubInv'
  BY <1>1, <1>3, ClaimKeeps DEF SubInv
<1>4. CASE UNCHANGED subVars
  <2>1. CallInv' /\ WireInv' /\ TruthInv'
    BY <1>4 DEF subVars, ledgerRows, kensetsuVars, readerVars, SubInv, CallInv, WireInv, TruthInv
  <2>2. Ageless
    BY <1>4 DEF subVars, ledgerRows, Ageless
  <2> QED BY <1>2, <2>1, <2>2 DEF Kept
<1>5. ASSUME NEW c \in Calls,
             \/ TurnAway(c) \/ GiveUp(c) \/ Intent(c) \/ Kill(c)
             \/ \E bad \in SUBSET FilesOf[c] : Prepare(c, bad) \/ Recheck(c, bad)
      PROVE  SubInv'
  BY <1>2, <1>5, SenderKeeps
<1>6. ASSUME NEW c \in Calls,
             \/ Post(c) \/ HearPending(c) \/ HearFinal(c) \/ HearRefused(c) \/ HearUnsent(c)
             \/ HearNothing(c)
      PROVE  SubInv'
  BY <1>2, <1>6, RequestKeeps
<1>7. ASSUME NEW c \in Calls, KensetsuStep(c) PROVE SubInv'
  BY <1>2, <1>7, KensetsuKeeps
<1>8. ASSUME NEW c \in Calls, Absorb(c) \/ \E r \in Receipts : Fetch(c, r) PROVE SubInv'
  BY <1>2, <1>8, RecoveryKeeps
<1>9. CASE StopReading
  <2>1. Kept
    BY <1>9 DEF StopReading, SubInv, SubTypeOK, CallInv, WireInv, TruthInv, Kept, Ageless, ledgerRows, kensetsuVars
  <2> QED BY <1>2, <2>1
<1>10. ASSUME NEW S \in SUBSET Calls, RecoverExpired(S) PROVE SubInv'
  BY <1>2, <1>10, ExpiryKeeps
<1> QED BY <1>3, <1>4, <1>5, <1>6, <1>7, <1>8, <1>9, <1>10 DEF SubNext, SendStep

\* The inductive invariant holds.
LEMMA SubInvariant == SubSpec => []SubInv
BY SubInitHolds, SubInvStep, PTL DEF SubSpec

\* What the history of submissions shows is true (encoder_history.py,
\* encoder_receipts.py): "accepted" has a job, "rejected" never will, and
\* "not_sent" is not among what Kensetsu was asked to encode, but for the
\* submissions that had expired before their intent.
THEOREM HistoryIsTrue == SubSpec => []HistoryTellsTruth
<1>1. SubInv => HistoryTellsTruth
  BY DEF SubInv, TruthInv, HistoryTellsTruth, MayEncode
<1> QED BY <1>1, SubInvariant, PTL

\* No source is encoded twice unless a person has confirmed it (claim), or one of
\* the two submissions had expired before its intent.
THEOREM NoRepeatUnasked == SubSpec => []NoSilentRepeat
<1>1. SubInv => NoSilentRepeat
  <2> SUFFICES ASSUME SubInv, NEW c \in Calls, NEW d \in Calls, NEW f \in Files, NEW e \in Files,
                      c # d, MayEncode(c, f), MayEncode(d, e), Clash(c, f, d, e), c \notin late, d \notin late
               PROVE  c \in consent \/ d \in consent
    BY DEF NoSilentRepeat
  <2>1. item[c][f] \in LiveItem /\ item[d][e] \in LiveItem
    BY DEF SubInv, SubTypeOK, TruthInv, MayEncode, LiveItem, ItemStatus
  <2> QED BY <2>1 DEF SubInv, ClashInv
<1> QED BY <1>1, SubInvariant, PTL

\* A request id stands for one submission (replay and the unique index).
THEOREM RequestIdIsUnique == SubSpec => []OneSubmissionPerRequest
<1>1. SubInv => OneSubmissionPerRequest
  BY DEF SubInv
<1> QED BY <1>1, SubInvariant, PTL

-----------------------------------------------------------------------------
(* Settled entries and the ledger.                                           *)

LEMMA PostedIs ==
    ASSUME SubTypeOK
    PROVE  /\ Posted \subseteq Calls \X Files
           /\ \A c \in Calls, f \in Files : <<c, f>> \in Posted <=> c \in sent \ late /\ f \in paths[c]
BY DEF SubTypeOK, Posted

LEMMA PostedIsNext ==
    ASSUME SubTypeOK'
    PROVE  /\ Posted' \subseteq Calls \X Files
           /\ \A c \in Calls, f \in Files : <<c, f>> \in Posted' <=> c \in sent' \ late' /\ f \in paths'[c]
BY DEF SubTypeOK, Posted

LEMMA JobsAre ==
    ASSUME SubTypeOK
    PROVE  /\ TakenUp \subseteq Calls \X Files
           /\ \A c \in Calls, f \in Files : <<c, f>> \in TakenUp <=> c \notin late /\ f \in took[c]
BY DEF SubTypeOK, TakenUp

LEMMA JobsAreNext ==
    ASSUME SubTypeOK'
    PROVE  /\ TakenUp' \subseteq Calls \X Files
           /\ \A c \in Calls, f \in Files : <<c, f>> \in TakenUp' <=> c \notin late' /\ f \in took'[c]
BY DEF SubTypeOK, TakenUp

LEMMA SamePairs ==
    ASSUME NEW A \in SUBSET (Calls \X Files), NEW B \in SUBSET (Calls \X Files),
           \A c \in Calls, f \in Files : <<c, f>> \in A <=> <<c, f>> \in B
    PROVE  A = B
OBVIOUS

\* What a step may write into an entry, in the words of this module.
Honest(c, f) ==
    \/ item'[c][f] = item[c][f]
    \/ item[c][f] \in {"sending", "unknown"} /\ item'[c][f] \in {"sending", "unknown"}
    \/ item[c][f] = "sending" /\ item'[c][f] = "not_sent" /\ ~(c \in sent' /\ f \in paths'[c])
    \/ item[c][f] \in {"sending", "unknown"} /\ item'[c][f] = "accepted" /\ f \in took[c]
    \/ item[c][f] \in {"sending", "unknown"} /\ item'[c][f] = "rejected" /\ f \notin took[c]

LEMMA HonestIsTruthful ==
    ASSUME SubInv, SubTypeOK', NEW c \in Calls, NEW f \in Files, Honest(c, f)
    PROVE  Ledger!Truthful(c, f, item'[c][f])
BY PostedIsNext, JobsAre DEF SubInv, CallInv, Honest, Ledger!Truthful, Ledger!Pending

\* A step that only writes honest entries, or forgets a request that never left.
LEMMA HonestIsLearn ==
    ASSUME SubInv, SubTypeOK', NEW S \in SUBSET Calls, sent' = sent \ S,
           \A c \in Calls : paths'[c] = paths[c] \/ c \notin sent,
           \A c \in sent : c \in late' <=> c \in late,
           took' = took, consent' = consent, \A c \in S : srv[c] = "none",
           \A c \in Calls, f \in Files : Honest(c, f)
    PROVE  Ledger!Learn(S)
<1>1. Posted' = Posted \ (S \X Files)
  BY PostedIs, PostedIsNext DEF SubInv
<1>2. TakenUp' = TakenUp
  <2>1. \A c \in Calls : c \notin sent => took[c] = {}
    BY DEF SubInv, WireInv
  <2>2. \A c \in Calls, f \in Files : <<c, f>> \in TakenUp' <=> <<c, f>> \in TakenUp
    BY <2>1, JobsAre, JobsAreNext DEF SubInv
  <2> QED BY <2>2, JobsAre, JobsAreNext DEF SubInv
<1>3. TakenUp \subseteq Posted'
  BY PostedIs, JobsAre, <1>1 DEF SubInv, SubTypeOK, WireInv
<1>4. \A c \in Calls, f \in Files : Ledger!Truthful(c, f, item'[c][f])
  BY HonestIsTruthful DEF SubInv
<1>5. item' \in [Calls -> [Files -> Ledger!Status]]
  BY DEF SubTypeOK, ItemStatus, Ledger!Status
<1> QED BY <1>1, <1>2, <1>3, <1>4, <1>5 DEF Ledger!Learn

LEMMA SenderLearns ==
    ASSUME SubInv, SubTypeOK', NEW c \in Calls,
           \/ TurnAway(c) \/ GiveUp(c) \/ Intent(c) \/ Kill(c)
           \/ \E bad \in SUBSET FilesOf[c] : Prepare(c, bad) \/ Recheck(c, bad)
    PROVE  Ledger!Learn({})
<1> DEFINE Learns ==
      /\ sent' = sent \ {} /\ took' = took /\ consent' = consent
      /\ \A d \in sent : d \in late' <=> d \in late
      /\ \A d \in Calls : paths'[d] = paths[d] \/ d \notin sent
      /\ \A d \in Calls, f \in Files : Honest(d, f)
<1> USE DEF SubInv, SubTypeOK, CallInv, WireInv, ledgerRows, kensetsuVars, readerVars, Turn, In, Honest
<1>1. ASSUME TurnAway(c) PROVE Learns
  BY <1>1 DEF TurnAway
<1>2. ASSUME GiveUp(c) PROVE Learns
  BY <1>2 DEF GiveUp
<1>3. ASSUME Intent(c) PROVE Learns
  BY <1>3 DEF Intent
<1>4. ASSUME Kill(c) PROVE Learns
  BY <1>4 DEF Kill
<1>5. ASSUME NEW bad \in SUBSET FilesOf[c], Prepare(c, bad) PROVE Learns
  BY <1>5 DEF Prepare
<1>6. ASSUME NEW bad \in SUBSET FilesOf[c], Recheck(c, bad) PROVE Learns
  BY <1>6 DEF Recheck
<1>7. Learns
  BY <1>1, <1>2, <1>3, <1>4, <1>5, <1>6
<1> QED BY <1>7, HonestIsLearn

LEMMA AnswerLearns ==
    ASSUME SubInv, SubTypeOK', NEW c \in Calls,
           HearPending(c) \/ HearFinal(c) \/ HearRefused(c) \/ HearNothing(c)
    PROVE  Ledger!Learn({})
<1> DEFINE Learns ==
      /\ sent' = sent \ {} /\ took' = took /\ consent' = consent /\ late' = late /\ paths' = paths
      /\ \A d \in Calls, f \in Files : Honest(d, f)
<1> USE DEF SubInv, SubTypeOK, WireInv, TruthInv, ledgerRows, kensetsuVars, readerVars, Turn, Honest
<1>1. ASSUME HearPending(c) PROVE Learns
  BY <1>1 DEF HearPending
<1>2. ASSUME HearFinal(c) PROVE Learns
  BY <1>2 DEF HearFinal, Settled, Verdict
<1>3. ASSUME HearRefused(c) PROVE Learns
  BY <1>3 DEF HearRefused
<1>4. ASSUME HearNothing(c) PROVE Learns
  BY <1>4 DEF HearNothing, LostAs
<1>5. Learns
  BY <1>1, <1>2, <1>3, <1>4
<1> QED BY <1>5, HonestIsLearn

\* The request never left: nothing was posted after all.
LEMMA UnsentLearns ==
    ASSUME SubInv, SubTypeOK', NEW c \in Calls, HearUnsent(c)
    PROVE  Ledger!Learn({c})
<1>1. /\ sent' = sent \ {c} /\ took' = took /\ consent' = consent /\ late' = late /\ paths' = paths
      /\ \A d \in {c} : srv[d] = "none"
  BY DEF HearUnsent, SubInv, WireInv
<1>2. \A d \in Calls, f \in Files : Honest(d, f)
  BY DEF SubInv, SubTypeOK, HearUnsent, Turn, Honest
<1> QED BY <1>1, <1>2, HonestIsLearn

LEMMA RecoveryLearns ==
    ASSUME SubInv, SubTypeOK',
           \/ StopReading \/ \E c \in Calls : Absorb(c) \/ \E r \in Receipts : Fetch(c, r)
    PROVE  Ledger!Learn({})
<1> DEFINE Learns ==
      /\ sent' = sent \ {} /\ took' = took /\ consent' = consent /\ late' = late /\ paths' = paths
      /\ \A d \in Calls, f \in Files : Honest(d, f)
<1> USE DEF SubInv, SubTypeOK, WireInv, TruthInv, ledgerRows, kensetsuVars, Turn, Honest
<1>1. ASSUME NEW c \in Calls, Absorb(c) PROVE Learns
  <2> USE CallsAssumption DEF Absorb
  <2>1. CASE AbsorbProcessing(c)
    BY <1>1, <2>1 DEF AbsorbProcessing
  <2>2. CASE AbsorbDoubt(c)
    BY <1>1, <2>2 DEF AbsorbDoubt
  <2>3. CASE AbsorbReply(c) /\ receipt = "final"
    BY <1>1, <2>3 DEF AbsorbReply, Settled, Verdict
  <2>4. CASE AbsorbReply(c) /\ receipt = "refused"
    BY <1>1, <2>4 DEF AbsorbReply
  <2> QED BY <1>1, <2>1, <2>2, <2>3, <2>4 DEF AbsorbReply
<1>2. ASSUME StopReading PROVE Learns
  BY <1>2 DEF StopReading
<1>3. ASSUME NEW c \in Calls, NEW r \in Receipts, Fetch(c, r) PROVE Learns
  BY <1>3 DEF Fetch
<1>4. Learns
  BY <1>1, <1>2, <1>3
<1> QED BY <1>4, HonestIsLearn

LEMMA ExpiryLearns ==
    ASSUME SubInv, SubTypeOK', NEW S \in SUBSET Calls, RecoverExpired(S)
    PROVE  Ledger!Learn({})
<1>1. sent' = sent \ {} /\ took' = took /\ consent' = consent /\ late' = late /\ paths' = paths
  BY DEF RecoverExpired, kensetsuVars
<1>2. \A d \in Calls, f \in Files : Honest(d, f)
  BY <1>1
  DEF SubInv, SubTypeOK, WireInv, RecoverExpired, AfterExpiry, ExpiredAs, Honest
<1> QED BY <1>1, <1>2, HonestIsLearn

LedgerRests == item' = item /\ Posted' = Posted /\ TakenUp' = TakenUp /\ consent' = consent

\* Nobody posts what the history has closed, but for a late submission, of which
\* the ledger does not hear.
LEMMA PostPosts ==
    ASSUME SubInv, SubTypeOK', NEW c \in Calls, Post(c)
    PROVE  Ledger!Post(c, paths[c]) \/ LedgerRests
<1>1. UNCHANGED <<item, TakenUp, consent, late>>
  BY DEF Post, TakenUp, ledgerRows
<1>2. CASE c \in late
  <2>1. \A d \in Calls, f \in Files : <<d, f>> \in Posted' <=> <<d, f>> \in Posted
    BY <1>1, <1>2, PostedIs, PostedIsNext DEF SubInv, Post
  <2>2. Posted' = Posted
    BY <2>1, PostedIs, PostedIsNext, SamePairs DEF SubInv
  <2> QED BY <1>1, <2>2 DEF LedgerRests
<1>3. CASE c \notin late
  <2>1. \A f \in paths[c] : item[c][f] \in Ledger!Pending
    BY <1>3 DEF Post, SubInv, CallInv, Ledger!Pending
  <2>2. \A d \in Calls, f \in Files : <<d, f>> \in Posted' <=> <<d, f>> \in Posted \/ (d = c /\ f \in paths[c])
    BY <1>1, <1>3, PostedIs, PostedIsNext DEF SubInv, Post
  <2>3. paths[c] \subseteq Files
    BY DEF SubInv, SubTypeOK
  <2>4. Posted' = Posted \cup ({c} \X paths[c])
    BY <2>2, <2>3, PostedIs, PostedIsNext DEF SubInv
  <2> QED BY <1>1, <2>1, <2>4 DEF Ledger!Post
<1> QED BY <1>2, <1>3

LEMMA KensetsuTakes ==
    ASSUME SubInv, SubTypeOK', NEW c \in Calls, KensetsuStep(c)
    PROVE  LedgerRests \/ \E T \in SUBSET Files : Ledger!Take(c, T)
<1>1. ASSUME Arrive(c) PROVE LedgerRests
  BY <1>1 DEF Arrive, ledgerRows, LedgerRests, Posted, TakenUp
<1>2. ASSUME NEW r \in {"final", "refused", "interrupted"},
             NEW T \in SUBSET FilesOf[c], NEW C \in SUBSET FilesOf[c], Conclude(c, r, T, C)
      PROVE  T \in SUBSET Files /\ (LedgerRests \/ Ledger!Take(c, T))
  <2>1. T \subseteq Files
    BY FilesAssumption
  <2>2. UNCHANGED <<item, Posted, consent, late>>
    BY <1>2 DEF Conclude, Posted, ledgerRows
  <2>3. took[c] = {} /\ \A d \in Calls : took'[d] = IF d = c THEN T ELSE took[d]
    BY <1>2 DEF Conclude, SubInv, SubTypeOK, WireInv
  <2>4. \A d \in Calls, f \in Files :
            /\ <<d, f>> \in TakenUp' <=> d \notin late /\ f \in took'[d]
            /\ <<d, f>> \in TakenUp <=> d \notin late /\ f \in took[d]
    BY <2>2, JobsAre, JobsAreNext DEF SubInv
  <2>5. CASE c \in late
    <3>1. \A d \in Calls, f \in Files : <<d, f>> \in TakenUp' <=> <<d, f>> \in TakenUp
      BY <2>3, <2>4, <2>5
    <3>2. TakenUp' = TakenUp
      BY <3>1, JobsAre, JobsAreNext, SamePairs DEF SubInv
    <3> QED BY <2>1, <2>2, <3>2 DEF LedgerRests
  <2>6. CASE c \notin late
    <3>1. \A f \in T : <<c, f>> \in Posted /\ item[c][f] # "rejected"
      BY <1>2, <2>1, <2>6, PostedIs DEF Conclude, SubInv, WireInv, TruthInv
    <3>2. \A d \in Calls, f \in Files : <<d, f>> \in TakenUp' <=> <<d, f>> \in TakenUp \/ (d = c /\ f \in T)
      BY <2>3, <2>4, <2>6
    <3>3. TakenUp' = TakenUp \cup ({c} \X T)
      BY <2>1, <3>2, JobsAre, JobsAreNext DEF SubInv
    <3> QED BY <2>1, <2>2, <3>1, <3>3 DEF Ledger!Take
  <2> QED BY <2>1, <2>5, <2>6
<1> QED BY <1>1, <1>2 DEF KensetsuStep

LEMMA ClaimOpens ==
    ASSUME SubInv, SubTypeOK', NEW c \in Calls, NEW S \in SUBSET Calls,
           NEW repeat \in BOOLEAN, NEW ack \in BOOLEAN, Claim(c, S, repeat, ack)
    PROVE  Ledger!Open(c)
<1> DEFINE old == AfterExpiry(S)
<1>1. UNCHANGED <<Posted, TakenUp>> /\ sent' = sent /\ paths' = paths
  BY DEF Claim, Posted, TakenUp, kensetsuVars
<1>2. /\ old \in [Calls -> [Files -> ItemStatus]]
      /\ \A d \in Calls, f \in Files :
            /\ d # c => item'[d][f] = old[d][f]
            /\ item'[c][f] = IF f \in FilesOf[c] THEN "sending" ELSE "none"
            /\ item[c][f] = "none"
  BY DEF SubInv, SubTypeOK, CallInv, Claim, AfterExpiry, ExpiredAs, ItemStatus
<1>3. \A d \in Calls \ {c}, f \in Files : Ledger!Truthful(d, f, item'[d][f])
  <2>1. \A d \in Calls \ {c}, f \in Files : Honest(d, f)
    BY <1>1, <1>2 DEF SubInv, SubTypeOK, WireInv, AfterExpiry, ExpiredAs, Honest
  <2> QED BY <2>1, HonestIsTruthful DEF SubInv
<1>4. consent' \in {consent, consent \cup {c}} /\ (c \in consent' \/ ~Conflict(old, c, FALSE, FALSE))
  BY DEF Claim
<1>5. ASSUME ~Conflict(old, c, FALSE, FALSE), NEW f \in Files, item'[c][f] = "sending"
      PROVE  Ledger!Unclaimed(c, f)
  <2> SUFFICES ASSUME NEW d \in Calls \ {c}, NEW e \in Files, Clash(c, f, d, e)
               PROVE  item'[d][e] \notin LiveItem
    BY DEF Ledger!Unclaimed, Clashing, Ledger!Live, Ledger!Pending, LiveItem
  <2>1. f \in FilesOf[c]
    BY <1>2, <1>5
  <2>2. SubTypeOK /\ AgeInv
    BY DEF SubInv
  <2> HIDE DEF old
  <2>3. old[d][e] \notin LiveItem
    BY <1>2, <1>5, <2>1, <2>2, UncontestedIsFirst
  <2> QED BY <1>2, <2>3
<1>6. item' \in [Calls -> [Files -> Ledger!Status]]
  BY DEF SubTypeOK, ItemStatus, Ledger!Status
<1> QED BY <1>1, <1>2, <1>3, <1>4, <1>5, <1>6 DEF Ledger!Open

LEMMA LedgerStep == SubInv /\ [SubNext]_subVars => [Ledger!LedgerNext]_Ledger!ledgerVars
<1> SUFFICES ASSUME SubInv, [SubNext]_subVars
             PROVE  [Ledger!LedgerNext]_Ledger!ledgerVars
  OBVIOUS
<1>1. SubTypeOK'
  BY SubTypeStep DEF SubInv
<1>2. ASSUME Ledger!Learn({}) PROVE Ledger!LedgerNext
  BY <1>2 DEF Ledger!LedgerNext
<1>3. ASSUME NEW c \in Calls, NEW S \in SUBSET Calls, NEW repeat \in BOOLEAN, NEW ack \in BOOLEAN,
             Claim(c, S, repeat, ack)
      PROVE  Ledger!LedgerNext
  BY <1>1, <1>3, ClaimOpens DEF Ledger!LedgerNext
<1>4. CASE UNCHANGED subVars
  BY <1>4 DEF subVars, ledgerRows, kensetsuVars, Ledger!ledgerVars, Posted, TakenUp
<1>5. ASSUME NEW c \in Calls,
             \/ TurnAway(c) \/ GiveUp(c) \/ Intent(c) \/ Kill(c)
             \/ \E bad \in SUBSET FilesOf[c] : Prepare(c, bad) \/ Recheck(c, bad)
      PROVE  Ledger!LedgerNext
  BY <1>1, <1>2, <1>5, SenderLearns
<1>6. ASSUME NEW c \in Calls, HearPending(c) \/ HearFinal(c) \/ HearRefused(c) \/ HearNothing(c)
      PROVE  Ledger!LedgerNext
  BY <1>1, <1>2, <1>6, AnswerLearns
<1>7. ASSUME NEW c \in Calls, HearUnsent(c) PROVE Ledger!LedgerNext
  BY <1>1, <1>7, UnsentLearns DEF Ledger!LedgerNext
<1>8. ASSUME NEW c \in Calls, Post(c) PROVE [Ledger!LedgerNext]_Ledger!ledgerVars
  <2>1. paths[c] \in SUBSET Files
    BY DEF SubInv, SubTypeOK
  <2> QED BY <1>1, <1>8, <2>1, PostPosts DEF LedgerRests, Ledger!LedgerNext, Ledger!ledgerVars
<1>9. ASSUME NEW c \in Calls, KensetsuStep(c) PROVE [Ledger!LedgerNext]_Ledger!ledgerVars
  BY <1>1, <1>9, KensetsuTakes DEF LedgerRests, Ledger!LedgerNext, Ledger!ledgerVars
<1>10. ASSUME \/ StopReading \/ \E c \in Calls : Absorb(c) \/ \E r \in Receipts : Fetch(c, r)
       PROVE  Ledger!LedgerNext
  BY <1>1, <1>2, <1>10, RecoveryLearns
<1>11. ASSUME NEW S \in SUBSET Calls, RecoverExpired(S) PROVE Ledger!LedgerNext
  BY <1>1, <1>2, <1>11, ExpiryLearns
<1> QED
  BY <1>3, <1>4, <1>5, <1>6, <1>7, <1>8, <1>9, <1>10, <1>11 DEF SubNext, SendStep

\* Senders and recovery keep what EncoderLedger promises (claim, settle_response,
\* recover_expired and recover_receipts), of every submission but those that had
\* expired before their intent.
THEOREM LedgerIsKept == SubSpec => KeepsLedger
<1>1. SubInit => Ledger!LedgerInit
  BY DEF SubInit, Ledger!LedgerInit, Posted, TakenUp
<1> QED BY <1>1, SubInvariant, LedgerStep, PTL DEF SubSpec, KeepsLedger, Ledger!LedgerSpec

\* A settled item never changes again, whichever of an answer and a receipt
\* comes last (settle_response, _save_receipt).
THEOREM SettledIsFinal == SubSpec => SettledStays
<1> DEFINE Stays == \A c \in Calls, f \in Files :
                        item[c][f] \in {"accepted", "rejected", "not_sent"} => item'[c][f] = item[c][f]
<1>1. SubInv /\ [SubNext]_subVars => Stays
  <2> SUFFICES ASSUME SubInv, [Ledger!LedgerNext]_Ledger!ledgerVars PROVE Stays
    BY LedgerStep
  <2> QED
    BY DEF Ledger!LedgerNext, Ledger!ledgerVars, Ledger!Learn, Ledger!Open, Ledger!Post, Ledger!Take,
           Ledger!Truthful, Ledger!Pending
<1> QED BY <1>1, SubInvariant, PTL DEF SubSpec, SettledStays
=============================================================================
