----------------------- MODULE AutomaticEncoderProofs -----------------------
(***************************************************************************)
(* Proofs about AutomaticEncoder, for any ticks, manual submissions, versions *)
(* and bounds: its types, that an intent is permitted when it is committed,    *)
(* that the queue repeats nothing, and that its candidates tell the truth.     *)
(***************************************************************************)
EXTENDS AutomaticEncoder, FiniteSetTheorems, WellFoundedInduction, TLAPS

SubStatus == {"none", "sending", "accepted", "not_sent", "rejected", "unknown"}
\* What a candidate may say while its submission stands.
SentState == {"claimed", "receipt_pending", "accepted", "unknown", "attention"}

\* Only what appeared since tracking began, or what a person has queued since,
\* becomes a candidate of the generation.
KnownInv ==
    /\ participating => gen > 0
    /\ \A i \in Keys : cand[i] # "none" =>
          /\ Gen(i) <= gen
          /\ Gen(i) = gen => seen[File(i)] = "observed" \/ i \in wanted

\* What is ready is nobody's; parameters are not newer than the newest.
ReadyInv ==
    /\ \A i \in Keys : crev[i] <= rev /\ (cand[i] = "ready" => token[i] = Nobody)
    /\ \A c \in Ticks : params[c] <= rev

LinkInv == \A i \in Keys : link[i] # Nobody => link[i] \in Opened /\ source[link[i]] = File(i)

\* How far a tick has come, its submission and its candidate fit together.
Asked == {"new", "claimed", "options", "clashed"}
TickOf(c) ==
    /\ at[c] \in Asked => sub[c] = "none"
    /\ at[c] \in Asked \cup {"opened"} => c \notin begun
    /\ at[c] \notin {"new", "over"} => cand[key[c]] # "none"
    /\ at[c] = "opened" => c \in Opened /\ source[c] = File(key[c])
    /\ at[c] = "opened" /\ token[key[c]] = c => link[key[c]] = c
    /\ at[c] \in {"options", "opened"} /\ token[key[c]] = c => crev[key[c]] <= params[c]
    /\ at[c] = "clashed" => prior[c] \in Opened /\ source[prior[c]] = File(key[c])
TickInv == \A c \in Ticks : TickOf(c)

\* Submissions are ordered by age.
OrderInv ==
    /\ IsFiniteSet(Opened) /\ begun \subseteq Opened
    /\ \A c \in Sends : log[c] \subseteq Opened /\ c \notin log[c]
    /\ \A c \in Opened : \A d \in log[c] : log[d] \subseteq log[c]
    /\ \A c, d \in Opened : c # d => c \in log[d] \/ d \in log[c]

\* The candidate of a begun submission whose fate matters points to it, and
\* nobody else has it in hands.
Fated == Standing \cup {"rejected"}
Holds(c) == link[key[c]] = c /\ token[key[c]] \in {c, Nobody} /\ cand[key[c]] \in SentState
SentInv == \A c \in Ticks : c \in begun /\ sub[c] \in Fated => Holds(c)

AcceptedInv ==
    \A i \in Keys : cand[i] = "accepted" => \E c \in Opened : sub[c] = "accepted" /\ source[c] = File(i)

AutoInv ==
    AutoTypeOK /\ KnownInv /\ ReadyInv /\ LinkInv /\ TickInv /\ OrderInv /\ SentInv /\ AcceptedInv

-----------------------------------------------------------------------------
(* The operators.                                                            *)

LEMMA KeyParts ==
    /\ \A i \in Keys : Gen(i) \in 1 .. MaxGen /\ File(i) \in Versions /\ i = <<Gen(i), File(i)>>
    /\ \A g \in 1 .. MaxGen, f \in Versions :
          <<g, f>> \in Keys /\ Gen(<<g, f>>) = g /\ File(<<g, f>>) = f
BY DEF Keys, Gen, File

LEMMA TrackedKey ==
    ASSUME AutoTypeOK, KnownInv, participating, NEW f \in Versions
    PROVE  <<gen, f>> \in Keys /\ Gen(<<gen, f>>) = gen /\ File(<<gen, f>>) = f
BY KeyParts, QueueAssumption DEF AutoTypeOK, KnownInv

\* Of some submissions, one is the newest.
LEMMA NewestExists ==
    ASSUME OrderInv, NEW S \in SUBSET Opened, S # {}
    PROVE  Newest(S) \in S
<1> DEFINE later(d) == Cardinality(Opened \ log[d])
           ages == {later(d) : d \in S}
<1>1. \A d \in S : IsFiniteSet(Opened \ log[d]) /\ later(d) \in Nat
  BY FS_Difference, FS_CardinalityType DEF OrderInv
<1>2. ages \subseteq Nat /\ ages # {}
  BY <1>1
<1>3. PICK k \in ages : \A n \in ages : ~(<<n, k>> \in OpToRel(<, Nat))
  <2> HIDE DEF ages
  <2> QED BY <1>2, NatLessThanWellFounded, WFMin
<1>4. PICK d \in S : k = later(d)
  BY <1>3
<1>5. ASSUME NEW e \in S \ {d}, e \notin log[d] PROVE FALSE
  <2>1. later(e) \in Nat /\ later(d) \in Nat /\ ~(later(e) < later(d))
    BY <1>1, <1>2, <1>3, <1>4, <1>5 DEF OpToRel
  <2>2. e \in Opened /\ d \in Opened /\ d \in log[e]
    BY <1>5 DEF OrderInv
  <2>3. log[d] \subseteq log[e] /\ d \notin log[d]
    BY <2>2 DEF OrderInv, Opened
  <2>4. Opened \ log[e] \subseteq Opened \ log[d] /\ d \in (Opened \ log[d]) \ (Opened \ log[e])
    BY <2>2, <2>3
  <2>5. later(e) <= later(d) /\ later(e) # later(d)
    BY <1>1, <2>4, FS_Subset
  <2> QED BY <2>1, <2>5
<1> QED BY <1>5 DEF Newest

\* An assessment never says more than a receipt of the version's own bytes.
LEMMA AssessSays ==
    ASSUME AutoTypeOK, OrderInv, NEW i \in Keys, NEW facts
    PROVE  /\ Assess(i, facts) \in {"waiting", "cancelled", "ready", "accepted", "receipt_pending", "unknown"}
           /\ Assess(i, facts) = "ready" => on /\ participating /\ Gen(i) = gen /\ PriorOf(i) = {}
           /\ Assess(i, facts) = "accepted" => \E c \in Opened : sub[c] = "accepted" /\ source[c] = File(i)
           /\ LinkAfter(i, facts) = link[i] \/ (LinkAfter(i, facts) \in Opened /\ source[LinkAfter(i, facts)] = File(i))
<1>1. PriorOf(i) \subseteq {c \in Opened : sub[c] \in Standing /\ source[c] = File(i)}
  BY DEF PriorOf, Previous
<1>2. PriorOf(i) # {} => Newest(PriorOf(i)) \in PriorOf(i)
  BY <1>1, NewestExists
<1>3. PriorOf(i) # {} =>
        LET c == Newest(PriorOf(i)) IN c \in Opened /\ sub[c] \in Standing /\ source[c] = File(i)
  BY <1>1, <1>2
<1> QED BY <1>3 DEF Assess, LinkAfter, FromReceipt, Standing

LEMMA SettledSays ==
    ASSUME AutoTypeOK, NEW i \in Keys, NEW c \in Sends, NEW st \in [Sends -> SubStatus]
    PROVE  /\ SettledAs(i, c, st) \in {"accepted", "receipt_pending", "unknown", "attention", "waiting",
                                       "cancelled", "preset_changed"}
           /\ SettledAs(i, c, st) = "accepted" => st[c] = "accepted"
           /\ cand[i] \in SentState /\ st[c] \in Standing \cup {"rejected"} => SettledAs(i, c, st) \in SentState
BY DEF SettledAs, FromReceipt, SubStatus, SentState, Standing

LEMMA SubTyped ==
    ASSUME AutoTypeOK
    PROVE  sub \in [Sends -> SubStatus] /\ Opened \subseteq Sends /\ Ticks \subseteq Sends /\ Manual \subseteq Sends
BY DEF AutoTypeOK, SubStatus, Opened, Sends

\* The receipt of a link that stands.
LEMMA LinkTyped ==
    ASSUME AutoTypeOK, NEW i \in Keys, link[i] # Nobody
    PROVE  link[i] \in Sends
BY DEF AutoTypeOK

\* What a step makes of a candidate by settling it with c, or by assessing it.
StandsBy(i, c) ==
    /\ cand'[i] \in {"accepted", "receipt_pending", "unknown", "attention", "waiting", "cancelled", "preset_changed"}
    /\ cand'[i] = "accepted" => sub'[c] = "accepted"
    /\ cand[i] \in SentState /\ sub'[c] \in Standing \cup {"rejected"} => cand'[i] \in SentState
Assessed(i) ==
    /\ cand'[i] \in {"waiting", "cancelled", "ready", "accepted", "receipt_pending", "unknown"}
    /\ cand'[i] = "accepted" => \E c \in Opened : sub[c] = "accepted" /\ source[c] = File(i)
LinkAssessed(i) == link'[i] = link[i] \/ (link'[i] \in Opened /\ source[link'[i]] = File(i))
Left(i) == cand'[i] = cand[i] /\ link'[i] = link[i] /\ token'[i] = token[i] /\ crev'[i] = crev[i]

LEMMA ReconcileSays ==
    ASSUME AutoInv, NEW K \in SUBSET Keys, NEW R \in SUBSET Versions, NEW facts \in SourceFacts, Reconcile(K, R, facts),
           NEW i \in Keys
    PROVE  /\ crev'[i] = crev[i]
           /\ i \notin K => /\ link'[i] = link[i] /\ token'[i] = token[i]
                            /\ \/ cand'[i] = cand[i]
                               \/ /\ cand[i] = "none" /\ cand'[i] = "waiting" /\ participating
                                  /\ Gen(i) = gen /\ seen[File(i)] = "observed"
           /\ i \in K => cand[i] \notin {"none", "accepted", "attention"} /\ token'[i] = Nobody /\ LinkAssessed(i)
           /\ i \in K /\ BySettling(i) => link[i] # Nobody /\ link'[i] = link[i] /\ StandsBy(i, link[i])
           /\ i \in K /\ ~BySettling(i) => Assessed(i)
<1> USE DEF AutoInv
<1>1. i \notin K => /\ link'[i] = link[i] /\ token'[i] = token[i]
                    /\ \/ cand'[i] = cand[i]
                       \/ /\ cand[i] = "none" /\ cand'[i] = "waiting" /\ participating
                          /\ Gen(i) = gen /\ seen[File(i)] = "observed"
  BY KeyParts DEF Reconcile, Registrable
<1>2. CASE i \in K /\ BySettling(i)
  <2>1. link[i] \in Sends /\ link[i] # Nobody
    BY <1>2, LinkTyped DEF BySettling
  <2>2. cand'[i] = SettledAs(i, link[i], sub) /\ sub' = sub /\ link'[i] = link[i]
    BY <1>2 DEF Reconcile, sendVars
  <2>3. StandsBy(i, link[i])
    BY <2>1, <2>2, SettledSays, SubTyped DEF StandsBy
  <2> QED BY <1>1, <1>2, <2>1, <2>2, <2>3 DEF Reconcile, Due, Active, LinkAssessed
<1>3. CASE i \in K /\ ~BySettling(i)
  <2>1. cand'[i] = Assess(i, facts) /\ link'[i] = LinkAfter(i, facts)
    BY <1>3 DEF Reconcile
  <2> QED BY <1>1, <1>3, <2>1, AssessSays DEF Reconcile, Due, Active, LinkAssessed, Assessed
<1> QED BY <1>1, <1>2, <1>3 DEF Reconcile

LEMMA ClaimSays ==
    ASSUME AutoInv, NEW c \in Ticks, NEW i \in Keys, NEW facts \in SourceFacts, ClaimNext(c, i, facts)
    PROVE  /\ cand[i] = "ready" /\ token[i] = Nobody /\ at[c] = "new" /\ LinkAssessed(i) /\ UNCHANGED sendVars
           /\ \A j \in Keys \ {i} : Left(j)
           /\ \A d \in Ticks \ {c} : at'[d] = at[d] /\ key'[d] = key[d]
           /\ \/ /\ cand'[i] = "claimed" /\ token'[i] = c /\ crev'[i] = rev
                 /\ at'[c] = "claimed" /\ key'[c] = i
              \/ /\ cand'[i] # "ready" /\ Assessed(i) /\ token'[i] = token[i] /\ crev'[i] = crev[i]
                 /\ at'[c] = "over" /\ key'[c] = key[c]
<1>1. LinkAssessed(i)
  BY AssessSays DEF AutoInv, AutoTypeOK, ClaimNext, LinkAssessed
<1>2. CASE Assess(i, facts) = "ready"
  BY <1>1, <1>2 DEF ClaimNext, AutoInv, AutoTypeOK, ReadyInv, Left
<1>3. CASE Assess(i, facts) # "ready"
  BY <1>1, <1>3, AssessSays DEF ClaimNext, AutoInv, AutoTypeOK, ReadyInv, Assessed, Left
<1> QED BY <1>2, <1>3

LEMMA ClashSays ==
    ASSUME AutoInv, NEW c \in Ticks, NoteClash(c)
    PROVE  /\ cand[key[c]] # "none" /\ prior[c] \in Opened /\ source[prior[c]] = File(key[c])
           /\ \A i \in Keys : ~(i = key[c] /\ token[i] = c) => Left(i)
           /\ token[key[c]] = c => /\ token'[key[c]] = Nobody /\ link'[key[c]] = prior[c]
                                   /\ crev'[key[c]] = crev[key[c]] /\ StandsBy(key[c], prior[c])
<1> USE DEF AutoInv
<1>1. cand[key[c]] # "none" /\ prior[c] \in Opened /\ source[prior[c]] = File(key[c])
  BY DEF NoteClash, TickInv, TickOf
<1>2. CASE token[key[c]] = c
  <2>1. /\ cand' = [cand EXCEPT ![key[c]] = SettledAs(key[c], prior[c], sub)]
        /\ token' = [token EXCEPT ![key[c]] = Nobody] /\ link' = [link EXCEPT ![key[c]] = prior[c]]
        /\ UNCHANGED <<crev, sub>> /\ prior[c] \in Sends /\ key[c] \in Keys
    BY <1>1, <1>2, SubTyped DEF NoteClash, Apply, sendVars, AutoTypeOK
  <2>2. StandsBy(key[c], prior[c])
    BY <2>1, SettledSays, SubTyped DEF StandsBy, AutoTypeOK
  <2> QED BY <1>1, <1>2, <2>1, <2>2 DEF Left, AutoTypeOK
<1>3. CASE token[key[c]] # c
  BY <1>1, <1>3 DEF NoteClash, Left
<1> QED BY <1>2, <1>3

LEMMA FinishSays ==
    ASSUME AutoInv, NEW c \in Ticks, Finish(c)
    PROVE  /\ cand[key[c]] # "none" /\ link' = link
           /\ \A i \in Keys : ~(i = key[c] /\ token[i] = c) => Left(i)
           /\ token[key[c]] = c => /\ token'[key[c]] = Nobody /\ crev'[key[c]] = crev[key[c]]
                                   /\ \/ link[key[c]] # Nobody /\ StandsBy(key[c], link[key[c]])
                                      \/ link[key[c]] = Nobody /\ cand'[key[c]] \in {"cancelled", "waiting"}
<1> USE DEF AutoInv
<1>1. cand[key[c]] # "none" /\ key[c] \in Keys /\ UNCHANGED <<link, crev, sub>>
  BY DEF Finish, TickInv, TickOf, AutoTypeOK, sendVars
<1>2. CASE token[key[c]] = c /\ link[key[c]] # Nobody
  <2>1. /\ cand' = [cand EXCEPT ![key[c]] = SettledAs(key[c], link[key[c]], sub)]
        /\ token' = [token EXCEPT ![key[c]] = Nobody]
    BY <1>2 DEF Finish, Apply
  <2>2. StandsBy(key[c], link[key[c]])
    BY <1>1, <1>2, <2>1, SettledSays, SubTyped, LinkTyped DEF StandsBy, AutoTypeOK
  <2> QED BY <1>1, <1>2, <2>1, <2>2 DEF Left, AutoTypeOK
<1>3. CASE token[key[c]] = c /\ link[key[c]] = Nobody
  BY <1>1, <1>3 DEF Finish, Left, AutoTypeOK
<1>4. CASE token[key[c]] # c
  BY <1>1, <1>4 DEF Finish, Left
<1> QED BY <1>2, <1>3, <1>4

LEMMA ReceiptSays ==
    ASSUME AutoInv, NEW c \in Sends, NEW s \in {"sending", "accepted", "rejected", "unknown"}, Receipt(c, s)
    PROVE  /\ c \in begun /\ c \in Opened /\ link' = link /\ crev' = crev
           /\ \A d \in Sends \ {c} : sub'[d] = sub[d]
           /\ sub[c] \in {"sending", "unknown"} /\ sub'[c] = s
           /\ \A i \in Keys : ~(c \in Ticks /\ i = key[c]) => Left(i)
           /\ c \in Ticks => /\ token'[key[c]] = Nobody /\ cand[key[c]] # "none"
                             /\ IF link[key[c]] = c THEN StandsBy(key[c], c) ELSE cand'[key[c]] = "unknown"
<1> USE DEF AutoInv
<1>1. sub' \in [Sends -> SubStatus] /\ sub'[c] = s /\ \A d \in Sends \ {c} : sub'[d] = sub[d]
  BY SubTyped DEF Receipt, SubStatus, AutoTypeOK
<1>2. CASE c \in Ticks
  <2>1. key[c] \in Keys /\ cand[key[c]] # "none"
    BY <1>2 DEF AutoTypeOK, SentInv, Holds, Fated, SentState, Receipt, Standing
  <2>2. cand' = [cand EXCEPT ![key[c]] = IF link[key[c]] = c THEN SettledAs(key[c], c, sub') ELSE "unknown"]
    BY <1>2 DEF Receipt
  <2>3. ASSUME link[key[c]] = c PROVE StandsBy(key[c], c)
    <3>1. cand'[key[c]] = SettledAs(key[c], c, sub')
      BY <2>1, <2>2, <2>3 DEF AutoTypeOK
    <3> QED BY <1>1, <2>1, <3>1, SettledSays DEF StandsBy
  <2> QED BY <1>1, <1>2, <2>1, <2>2, <2>3 DEF Receipt, Left, AutoTypeOK, Opened
<1>3. CASE c \notin Ticks
  BY <1>1, <1>3 DEF Receipt, Left, Opened
<1> QED BY <1>2, <1>3

LEMMA RefuseSays ==
    ASSUME AutoInv, NEW c \in Ticks, NEW facts \in SourceFacts, NEW s \in CandState, Refuse(c, facts, s)
    PROVE  /\ at[c] = "opened" /\ at'[c] = "ended" /\ token' = token /\ crev' = crev /\ key' = key
           /\ c \in Opened /\ c \notin begun /\ source[c] = File(key[c])
           /\ \A d \in Ticks \ {c} : at'[d] = at[d]
           /\ \A d \in Sends \ {c} : sub'[d] = sub[d]
           /\ sub'[c] = sub[c] \/ (sub[c] = "sending" /\ sub'[c] = "not_sent")
           /\ \A i \in Keys \ {key[c]} : Left(i)
           /\ cand[key[c]] # "none" /\ LinkAssessed(key[c])
           /\ \/ Left(key[c])
              \/ /\ cand[key[c]] = "claimed" /\ token[key[c]] = c /\ cand'[key[c]] # "ready"
                 /\ Assessed(key[c]) \/ cand'[key[c]] = "preset_changed"
<1> USE DEF AutoInv
<1>1. /\ at[c] = "opened" /\ at' = [at EXCEPT ![c] = "ended"] /\ token' = token /\ crev' = crev /\ key' = key
      /\ c \in Opened /\ c \notin begun /\ source[c] = File(key[c]) /\ cand[key[c]] # "none"
      /\ c \in Sends /\ key[c] \in Keys
  BY SubTyped DEF Refuse, TickInv, TickOf, AutoTypeOK
<1>2. sub' = sub \/ (sub' = [sub EXCEPT ![c] = "not_sent"] /\ sub[c] = "sending")
  BY DEF Refuse
<1>3. cand' = [cand EXCEPT ![key[c]] = s]
  BY DEF Refuse
<1>4. CASE s = cand[key[c]] /\ UNCHANGED link
  BY <1>1, <1>2, <1>3, <1>4 DEF Left, LinkAssessed, AutoTypeOK
<1>5. CASE /\ Owns(c) /\ key[c] \in live /\ ~MayStart(c, facts)
           /\ s = IF Assess(key[c], facts) = "ready" THEN "waiting" ELSE Assess(key[c], facts)
           /\ link' = [link EXCEPT ![key[c]] = LinkAfter(key[c], facts)]
  BY <1>1, <1>2, <1>3, <1>5, AssessSays DEF Left, LinkAssessed, Assessed, Owns, AutoTypeOK
<1>6. CASE MayStart(c, facts) /\ s = "preset_changed" /\ UNCHANGED link
  BY <1>1, <1>2, <1>3, <1>6 DEF MayStart, Left, LinkAssessed, Owns, AutoTypeOK
<1> QED BY <1>4, <1>5, <1>6 DEF Refuse

-----------------------------------------------------------------------------
(* Each part of the invariant, step by step.                                 *)

\* Every variable keeps its type.
LEMMA AutoTypeStep == AutoInv /\ [AutoNext]_autoVars => AutoTypeOK'
<1> SUFFICES ASSUME AutoInv, [AutoNext]_autoVars PROVE AutoTypeOK'
  OBVIOUS
<1> USE DEF AutoInv, AutoTypeOK, CandState, Active, policyVars, candVars, tickVars, sendVars
<1>1. CASE Pause
  BY <1>1 DEF Pause
<1>2. CASE Resume
  BY <1>2 DEF Resume
<1>3. ASSUME NEW known \in SUBSET Versions, Track(known) PROVE AutoTypeOK'
  BY <1>3, QueueAssumption DEF Track
<1>4. CASE Untrack
  BY <1>4 DEF Untrack, Active, NotBegun
<1>5. CASE SavePolicy
  BY <1>5, QueueAssumption DEF SavePolicy
<1>6. ASSUME NEW f \in Versions, Observe(f) PROVE AutoTypeOK'
  BY <1>6 DEF Observe
<1>7. ASSUME NEW f \in Versions, Register(f) PROVE AutoTypeOK'
  BY <1>7, TrackedKey DEF Register, Registrable
<1>8. ASSUME NEW f \in Versions, Backfill(f) PROVE AutoTypeOK'
  BY <1>8, TrackedKey DEF Backfill
<1>9. ASSUME NEW K \in SUBSET Keys, NEW R \in SUBSET Versions, NEW facts \in SourceFacts, Reconcile(K, R, facts)
      PROVE AutoTypeOK'
  BY <1>9, KeyParts, AssessSays, SettledSays, SubTyped, LinkTyped DEF Reconcile, Due, BySettling,
     Active, Registrable
<1>10. ASSUME NEW c \in Ticks, NEW i \in Keys, NEW facts \in SourceFacts, ClaimNext(c, i, facts)
      PROVE AutoTypeOK'
  <2>1. Assess(i, facts) \in CandState /\ link' \in [Keys -> Sends \cup {Nobody}]
    <3>1. LinkAfter(i, facts) \in Sends \cup {Nobody}
      BY AssessSays, SubTyped
    <3>2. Assess(i, facts) \in CandState
      BY AssessSays
    <3> QED BY <1>10, <3>1, <3>2 DEF ClaimNext
  <2>2. CASE Assess(i, facts) = "ready"
    BY <1>10, <2>1, <2>2 DEF ClaimNext
  <2>3. CASE Assess(i, facts) # "ready"
    BY <1>10, <2>1, <2>3 DEF ClaimNext
  <2> QED BY <2>2, <2>3
<1>11. ASSUME NEW c \in Ticks, Options(c) PROVE AutoTypeOK'
  BY <1>11 DEF Options
<1>12. ASSUME NEW c \in Ticks, Open(c) PROVE AutoTypeOK'
  BY <1>12, KeyParts, SubTyped DEF Open, Owns, Enter, Opened
<1>13. ASSUME NEW c \in Ticks, NEW d \in Sends, Conflicted(c, d) PROVE AutoTypeOK'
  BY <1>13 DEF Conflicted, Previous
<1>14. ASSUME NEW c \in Ticks, NoteClash(c) PROVE AutoTypeOK'
  <2>1. CASE token[key[c]] = c
    <3>1. prior[c] \in Sends /\ SettledAs(key[c], prior[c], sub) \in CandState
      BY <1>14, SettledSays, SubTyped DEF NoteClash, TickInv, TickOf
    <3>2. CooldownAfter(key[c], prior[c], sub) \in BOOLEAN
      BY DEF CooldownAfter
    <3> QED BY <1>14, <2>1, <3>1, <3>2 DEF NoteClash, Apply
  <2> QED BY <1>14, <2>1 DEF NoteClash
<1>15. ASSUME NEW c \in Ticks, GiveUpClaim(c) PROVE AutoTypeOK'
  BY <1>15 DEF GiveUpClaim
<1>16. ASSUME NEW c \in Ticks, NEW facts \in SourceFacts, Start(c, facts) PROVE AutoTypeOK'
  BY <1>16, SubTyped DEF Start, MayStart, Owns
<1>17. ASSUME NEW c \in Ticks, NEW facts \in SourceFacts, NEW s \in CandState, Refuse(c, facts, s)
      PROVE AutoTypeOK'
  BY <1>17, AssessSays, SubTyped DEF Refuse, MayStart, Owns
<1>18. ASSUME NEW c \in Ticks, NEW s \in Answers \cup {"sending"}, Hear(c, s) PROVE AutoTypeOK'
  BY <1>18, SubTyped DEF Hear, Answers
<1>19. ASSUME NEW c \in Ticks, Finish(c) PROVE AutoTypeOK'
  <2>1. at' \in [Ticks -> {"new", "claimed", "options", "opened", "clashed", "posting", "ended", "over"}]
        /\ prior' \in [Ticks -> Sends \cup {Nobody}] /\ params' \in [Ticks -> 0 .. MaxRev]
    BY <1>19, QueueAssumption DEF Finish, End
  <2>2. /\ cand' \in [Keys -> CandState] /\ token' \in [Keys -> Ticks \cup {Nobody}]
        /\ live' \subseteq Keys /\ cooldown' \in BOOLEAN
    <3>1. CASE token[key[c]] = c /\ link[key[c]] # Nobody
      <4>1. SettledAs(key[c], link[key[c]], sub) \in CandState
        BY <3>1, SettledSays, SubTyped, LinkTyped
      <4>2. CooldownAfter(key[c], link[key[c]], sub) \in BOOLEAN
        BY DEF CooldownAfter
      <4>3. /\ cand' = [cand EXCEPT ![key[c]] = SettledAs(key[c], link[key[c]], sub)]
            /\ token' = [token EXCEPT ![key[c]] = Nobody] /\ live' = live \ {key[c]}
            /\ cooldown' = CooldownAfter(key[c], link[key[c]], sub)
        BY <1>19, <3>1 DEF Finish, Apply
      <4> QED BY <4>1, <4>2, <4>3
    <3> QED BY <1>19, <3>1 DEF Finish
  <2> QED BY <1>19, <2>1, <2>2 DEF Finish
<1>20. ASSUME NEW c \in Ticks, KillTick(c) PROVE AutoTypeOK'
  BY <1>20, QueueAssumption DEF KillTick, End
<1>21. ASSUME NEW c \in Manual, NEW f \in Versions, ManualOpen(c, f) PROVE AutoTypeOK'
  BY <1>21, SubTyped DEF ManualOpen, Enter, Opened
<1>22. ASSUME NEW c \in Manual, ManualStart(c) PROVE AutoTypeOK'
  BY <1>22, SubTyped DEF ManualStart
<1>23. ASSUME NEW c \in Manual, NEW s \in Answers, ManualEnd(c, s) PROVE AutoTypeOK'
  BY <1>23, SubTyped DEF ManualEnd, Answers
<1>24. ASSUME NEW c \in Sends, Expire(c) PROVE AutoTypeOK'
  BY <1>24 DEF Expire
<1>25. ASSUME NEW c \in Sends, NEW s \in {"sending", "accepted", "rejected", "unknown"}, Receipt(c, s)
      PROVE AutoTypeOK'
  <2>1. sub' \in [Sends -> SubStatus]
    BY <1>25 DEF Receipt, SubStatus
  <2>2. /\ cand' \in [Keys -> CandState] /\ token' \in [Keys -> Ticks \cup {Nobody}]
        /\ live' \subseteq Keys /\ cooldown' \in BOOLEAN
    <3>1. CASE c \in Ticks
      <4>1. SettledAs(key[c], c, sub') \in CandState
        <5>1. c \in Sends /\ key[c] \in Keys
          BY <3>1, SubTyped
        <5> QED BY <2>1, <5>1, SettledSays
      <4>2. CooldownAfter(key[c], c, sub') \in BOOLEAN
        BY DEF CooldownAfter
      <4> QED BY <1>25, <3>1, <4>1, <4>2 DEF Receipt
    <3> QED BY <1>25, <3>1 DEF Receipt
  <2> QED BY <1>25, <2>1, <2>2 DEF Receipt, SubStatus
<1>26. ASSUME NEW i \in Keys, LeaseEnds(i) PROVE AutoTypeOK'
  BY <1>26 DEF LeaseEnds
<1>27. CASE CooldownEnds
  BY <1>27 DEF CooldownEnds
<1>28. CASE UNCHANGED autoVars
  BY <1>28 DEF autoVars
<1> QED BY <1>1, <1>2, <1>3, <1>4, <1>5, <1>6, <1>7, <1>8, <1>9, <1>10, <1>11, <1>12, <1>13, <1>14,
         <1>15, <1>16, <1>17, <1>18, <1>19, <1>20, <1>21, <1>22, <1>23, <1>24, <1>25, <1>26, <1>27,
         <1>28 DEF AutoNext, TickStep, ReconcileSome

\* A candidate stays one; a new one is of a version that the generation may send.
CandidatesKept ==
    \A i \in Keys :
        /\ cand[i] # "none" => cand'[i] # "none"
        /\ cand[i] = "none" /\ cand'[i] # "none" =>
              participating /\ Gen(i) = gen /\ (seen[File(i)] = "observed" \/ i \in wanted')

\* What was opened stays so with its source, and what was accepted stays accepted.
OpenedKept ==
    \A c \in Opened :
        /\ c \in Opened' /\ source'[c] = source[c] /\ log'[c] = log[c]
        /\ sub[c] = "accepted" => sub'[c] = "accepted"

-----------------------------------------------------------------------------
(* Which steps touch what.                                                   *)

ReconcileStep == \E K \in SUBSET Keys, R \in SUBSET Versions, facts \in SourceFacts : Reconcile(K, R, facts)
ClaimStep == \E c \in Ticks, i \in Keys, facts \in SourceFacts : ClaimNext(c, i, facts)
RefuseStep == \E c \in Ticks, facts \in SourceFacts, s \in CandState : Refuse(c, facts, s)
ReceiptStep == \E c \in Sends, s \in {"sending", "accepted", "rejected", "unknown"} : Receipt(c, s)
CandidateStep ==
    \/ ReconcileStep \/ ClaimStep \/ RefuseStep \/ ReceiptStep
    \/ \E c \in Ticks : NoteClash(c) \/ Finish(c)

\* The candidates, their tokens and links.
LEMMA CandidateSteps == [AutoNext]_autoVars =>
    \/ CandidateStep
    \/ Untrack \/ SavePolicy \/ (\E f \in Versions : Register(f) \/ Backfill(f)) \/ (\E c \in Ticks : Open(c))
    \/ UNCHANGED <<cand, token, link, crev>>
BY DEF AutoNext, autoVars, candVars, Pause, Resume, Track, Observe, ReconcileSome,
   TickStep, Options, Conflicted, GiveUpClaim, Start, Hear,
   KillTick, ManualOpen, ManualStart, ManualEnd, Expire, LeaseEnds, CooldownEnds,
   CandidateStep, ReconcileStep, ClaimStep, RefuseStep, ReceiptStep

\* The generation and what it knows.
LEMMA PolicySteps == [AutoNext]_autoVars =>
    \/ UNCHANGED <<participating, gen, seen>> /\ wanted \subseteq wanted'
    \/ Untrack
    \/ \E known \in SUBSET Versions : Track(known)
    \/ \E f \in Versions : Observe(f)
<1> SUFFICES ASSUME AutoNext
             PROVE  \/ UNCHANGED <<policyVars, wanted>>
                    \/ Pause \/ Resume \/ Untrack \/ SavePolicy
                    \/ \E known \in SUBSET Versions : Track(known)
                    \/ \E f \in Versions : Observe(f) \/ Backfill(f)
  BY DEF autoVars, policyVars, candVars, Pause, Resume, SavePolicy, Backfill
<1> USE DEF policyVars, candVars
<1>1. CASE ReconcileSome \/ \E c \in Ticks, i \in Keys, facts \in SourceFacts : ClaimNext(c, i, facts)
  BY <1>1 DEF ReconcileSome, Reconcile, ClaimNext
<1>2. CASE \E c \in Ticks : TickStep(c)
  BY <1>2 DEF TickStep, Options, Open, Conflicted, NoteClash, GiveUpClaim, Start, Refuse, Hear, Finish, KillTick
<1>3. CASE \/ \E c \in Manual : (\E f \in Versions : ManualOpen(c, f)) \/ ManualStart(c) \/ (\E s \in Answers : ManualEnd(c, s))
           \/ \E c \in Sends : Expire(c) \/ (\E s \in {"sending", "accepted", "rejected", "unknown"} : Receipt(c, s))
  BY <1>3 DEF ManualOpen, ManualStart, ManualEnd, Expire, Receipt
<1>4. CASE (\E i \in Keys : LeaseEnds(i)) \/ CooldownEnds \/ \E f \in Versions : Register(f)
  BY <1>4 DEF LeaseEnds, CooldownEnds, Register
<1> QED BY <1>1, <1>2, <1>3, <1>4 DEF AutoNext

\* The parameters that are saved, and those that ticks have read.
LEMMA ParameterSteps == [AutoNext]_autoVars =>
    UNCHANGED <<params, rev>> \/ SavePolicy \/ \E c \in Ticks : Options(c) \/ (End(c) /\ UNCHANGED rev)
<1> SUFFICES ASSUME AutoNext
             PROVE  UNCHANGED <<params, rev>> \/ SavePolicy \/ \E c \in Ticks : Options(c) \/ (End(c) /\ UNCHANGED rev)
  BY DEF autoVars, tickVars, policyVars
<1> USE DEF tickVars, policyVars
<1>1. CASE ReconcileSome \/ \E c \in Ticks, i \in Keys, facts \in SourceFacts : ClaimNext(c, i, facts)
  BY <1>1 DEF ReconcileSome, Reconcile, ClaimNext
<1>2. CASE \E c \in Ticks : TickStep(c)
  BY <1>2 DEF TickStep, Open, Conflicted, NoteClash, GiveUpClaim, Start, Refuse, Hear, Finish, KillTick
<1>3. CASE \/ \E c \in Manual : (\E f \in Versions : ManualOpen(c, f)) \/ ManualStart(c) \/ (\E s \in Answers : ManualEnd(c, s))
           \/ \E c \in Sends : Expire(c) \/ (\E s \in {"sending", "accepted", "rejected", "unknown"} : Receipt(c, s))
  BY <1>3 DEF ManualOpen, ManualStart, ManualEnd, Expire, Receipt
<1>4. CASE \/ Pause \/ Resume \/ (\E known \in SUBSET Versions : Track(known)) \/ Untrack
           \/ (\E f \in Versions : Observe(f) \/ Register(f) \/ Backfill(f))
           \/ (\E i \in Keys : LeaseEnds(i)) \/ CooldownEnds
  BY <1>4 DEF Pause, Resume, Track, Untrack, Observe, Register, Backfill, LeaseEnds, CooldownEnds
<1> QED BY <1>1, <1>2, <1>3, <1>4 DEF AutoNext

\* Only the intent itself begins a tick's submission.
LEMMA StartSteps ==
    ASSUME [AutoNext]_autoVars, NEW c \in Ticks, c \in begun' \ begun
    PROVE  \E facts \in SourceFacts : Start(c, facts)
<1> USE QueueAssumption DEF sendVars
<1>1. CASE ReconcileSome \/ \E d \in Ticks, i \in Keys, facts \in SourceFacts : ClaimNext(d, i, facts)
  BY <1>1 DEF ReconcileSome, Reconcile, ClaimNext
<1>2. CASE \E d \in Ticks : TickStep(d)
  BY <1>2 DEF TickStep, Options, Open, Conflicted, NoteClash, GiveUpClaim, Start, Refuse, Hear, Finish, KillTick
<1>3. CASE \/ \E d \in Manual : (\E f \in Versions : ManualOpen(d, f)) \/ ManualStart(d) \/ (\E s \in Answers : ManualEnd(d, s))
           \/ \E d \in Sends : Expire(d) \/ (\E s \in {"sending", "accepted", "rejected", "unknown"} : Receipt(d, s))
  BY <1>3 DEF ManualOpen, ManualStart, ManualEnd, Expire, Receipt
<1>4. CASE \/ Pause \/ Resume \/ (\E known \in SUBSET Versions : Track(known)) \/ Untrack \/ SavePolicy
           \/ (\E f \in Versions : Observe(f) \/ Register(f) \/ Backfill(f))
           \/ (\E i \in Keys : LeaseEnds(i)) \/ CooldownEnds
  BY <1>4 DEF Pause, Resume, Track, Untrack, SavePolicy, Observe, Register, Backfill, LeaseEnds, CooldownEnds
<1>5. CASE UNCHANGED autoVars
  BY <1>5 DEF autoVars
<1> QED BY <1>1, <1>2, <1>3, <1>4, <1>5 DEF AutoNext

\* A submission is entered, begun, or its fate is told.
Entered(c) ==
    /\ c \in Manual \/ (c \in Ticks /\ at[c] = "options" /\ at'[c] = "opened")
    /\ sub[c] = "none" /\ UNCHANGED begun
    /\ \E f \in Versions : Enter(c, f)
Begun(c) ==
    /\ c \in Manual \/ (c \in Ticks /\ at[c] = "opened" /\ at'[c] = "posting")
    /\ c \in Opened /\ begun' = begun \cup {c}
    /\ UNCHANGED <<sub, source, log>>
Told(c) ==
    /\ sub[c] \in {"sending", "unknown"}
    /\ \E s \in SubStatus \ {"none"} : sub' = [sub EXCEPT ![c] = s]
    /\ UNCHANGED <<source, log, begun>>

LEMMA SendSteps == AutoInv /\ [AutoNext]_autoVars =>
    UNCHANGED sendVars \/ \E c \in Sends : Entered(c) \/ Begun(c) \/ Told(c)
<1> SUFFICES ASSUME AutoInv, AutoNext
             PROVE  UNCHANGED sendVars \/ \E c \in Sends : Entered(c) \/ Begun(c) \/ Told(c)
  BY DEF autoVars
<1> USE SubTyped DEF AutoInv
<1>1. CASE ReconcileSome \/ \E c \in Ticks, i \in Keys, facts \in SourceFacts : ClaimNext(c, i, facts)
  BY <1>1 DEF ReconcileSome, Reconcile, ClaimNext
<1>2. ASSUME NEW c \in Ticks, TickStep(c)
      PROVE  UNCHANGED sendVars \/ Entered(c) \/ Begun(c) \/ Told(c)
  <2>1. CASE Open(c)
    <3>1. File(key[c]) \in Versions /\ Enter(c, File(key[c]))
      BY <2>1, KeyParts DEF Open, AutoTypeOK
    <3> QED BY <2>1, <3>1 DEF Open, Entered, AutoTypeOK, TickInv, TickOf, Asked
  <2>2. ASSUME NEW facts \in SourceFacts, Start(c, facts) PROVE Begun(c)
    BY <2>2 DEF Start, Begun, AutoTypeOK, TickInv, TickOf, Asked
  <2>3. ASSUME NEW facts \in SourceFacts, NEW s \in CandState, Refuse(c, facts, s) PROVE Told(c) \/ UNCHANGED sendVars
    BY <2>3 DEF Refuse, Told, SubStatus, sendVars
  <2>4. ASSUME NEW s \in Answers \cup {"sending"}, Hear(c, s) PROVE Told(c) \/ UNCHANGED sendVars
    BY <2>4 DEF Hear, Answers, Told, SubStatus, sendVars
  <2>5. CASE Options(c) \/ (\E d \in Sends : Conflicted(c, d)) \/ NoteClash(c) \/ GiveUpClaim(c) \/ Finish(c) \/ KillTick(c)
    BY <2>5 DEF Options, Conflicted, NoteClash, GiveUpClaim, Finish, KillTick
  <2> QED BY <1>2, <2>1, <2>2, <2>3, <2>4, <2>5 DEF TickStep
<1>3. ASSUME NEW c \in Manual,
             (\E f \in Versions : ManualOpen(c, f)) \/ ManualStart(c) \/ (\E s \in Answers : ManualEnd(c, s))
      PROVE  Entered(c) \/ Begun(c) \/ Told(c)
  BY <1>3 DEF ManualOpen, ManualStart, ManualEnd, Answers, SubStatus, Entered, Begun, Told, Opened
<1>4. ASSUME NEW c \in Sends,
             Expire(c) \/ (\E s \in {"sending", "accepted", "rejected", "unknown"} : Receipt(c, s))
      PROVE  Told(c)
  <2>1. CASE Expire(c)
    BY <2>1 DEF Expire, SubStatus, Told
  <2>2. CASE \E s \in {"sending", "accepted", "rejected", "unknown"} : Receipt(c, s)
    BY <2>2 DEF Receipt, SubStatus, Told
  <2> QED BY <1>4, <2>1, <2>2
<1>5. CASE \/ Pause \/ Resume \/ (\E known \in SUBSET Versions : Track(known)) \/ Untrack \/ SavePolicy
           \/ (\E f \in Versions : Observe(f) \/ Register(f) \/ Backfill(f))
           \/ (\E i \in Keys : LeaseEnds(i)) \/ CooldownEnds
  BY <1>5 DEF Pause, Resume, Track, Untrack, SavePolicy, Observe, Register, Backfill, LeaseEnds, CooldownEnds
<1> QED BY <1>1, <1>2, <1>3, <1>4, <1>5 DEF AutoNext

\* What was opened stays so with its source, and what was accepted stays accepted.
LEMMA OpenedStay == AutoInv /\ [AutoNext]_autoVars => OpenedKept
<1> SUFFICES ASSUME AutoInv, [AutoNext]_autoVars PROVE OpenedKept
  OBVIOUS
<1> USE DEF AutoInv, AutoTypeOK, OpenedKept, Opened
<1>1. CASE UNCHANGED sendVars
  BY <1>1 DEF sendVars
<1>2. ASSUME NEW c \in Sends, Entered(c) PROVE OpenedKept
  BY <1>2 DEF Entered, Enter
<1>3. ASSUME NEW c \in Sends, Begun(c) PROVE OpenedKept
  BY <1>3 DEF Begun
<1>4. ASSUME NEW c \in Sends, Told(c) PROVE OpenedKept
  BY <1>4 DEF Told, SubStatus
<1> QED BY <1>1, <1>2, <1>3, <1>4, SendSteps

LEMMA CandidatesStay == AutoInv /\ [AutoNext]_autoVars => CandidatesKept
<1> SUFFICES ASSUME AutoInv, [AutoNext]_autoVars PROVE CandidatesKept
  OBVIOUS
<1>1. ASSUME NEW K \in SUBSET Keys, NEW R \in SUBSET Versions, NEW facts \in SourceFacts, Reconcile(K, R, facts)
      PROVE  CandidatesKept
  BY <1>1, ReconcileSays DEF CandidatesKept, StandsBy, Assessed
<1>2. ASSUME NEW c \in Ticks, NEW i \in Keys, NEW facts \in SourceFacts, ClaimNext(c, i, facts)
      PROVE  CandidatesKept
  BY <1>2, ClaimSays DEF CandidatesKept, Left, Assessed
<1>3. ASSUME NEW c \in Ticks, NEW facts \in SourceFacts, NEW s \in CandState, Refuse(c, facts, s)
      PROVE  CandidatesKept
  BY <1>3, RefuseSays DEF CandidatesKept, Left, Assessed
<1>4. ASSUME NEW c \in Sends, NEW s \in {"sending", "accepted", "rejected", "unknown"}, Receipt(c, s)
      PROVE  CandidatesKept
  BY <1>4, ReceiptSays DEF CandidatesKept, Left, StandsBy
<1>5. ASSUME NEW c \in Ticks, NoteClash(c) PROVE CandidatesKept
  BY <1>5, ClashSays DEF CandidatesKept, Left, StandsBy
<1>6. ASSUME NEW c \in Ticks, Finish(c) PROVE CandidatesKept
  BY <1>6, FinishSays DEF CandidatesKept, Left, StandsBy
<1>7. ASSUME NEW f \in Versions, Register(f) \/ Backfill(f) PROVE CandidatesKept
  <2>1. /\ participating /\ cand[<<gen, f>>] = "none" /\ (seen[f] = "observed" \/ <<gen, f>> \in wanted')
        /\ cand' = [cand EXCEPT ![<<gen, f>>] = "waiting"]
    BY <1>7 DEF Register, Registrable, Backfill
  <2>2. <<gen, f>> \in Keys /\ Gen(<<gen, f>>) = gen /\ File(<<gen, f>>) = f
    BY <2>1, TrackedKey DEF AutoInv
  <2>3. \A i \in Keys : cand'[i] = IF i = <<gen, f>> THEN "waiting" ELSE cand[i]
    BY <2>1, <2>2 DEF AutoInv, AutoTypeOK
  <2> QED BY <2>1, <2>2, <2>3 DEF CandidatesKept
<1>8. CASE Untrack \/ SavePolicy
  BY <1>8 DEF CandidatesKept, Untrack, SavePolicy, Active
<1>9. CASE (\E c \in Ticks : Open(c)) \/ UNCHANGED <<cand, token, link, crev>>
  BY <1>9 DEF CandidatesKept, Open
<1> QED BY <1>1, <1>2, <1>3, <1>4, <1>5, <1>6, <1>7, <1>8, <1>9, CandidateSteps
           DEF CandidateStep, ReconcileStep, ClaimStep, RefuseStep, ReceiptStep

-----------------------------------------------------------------------------
(* The invariant, part by part.                                              *)

LEMMA KnownStep == AutoInv /\ [AutoNext]_autoVars => KnownInv'
<1> SUFFICES ASSUME AutoInv, [AutoNext]_autoVars PROVE KnownInv'
  OBVIOUS
<1> USE CandidatesStay, KeyParts, QueueAssumption DEF AutoInv, AutoTypeOK, KnownInv, CandidatesKept, Gen, File
<1>1. CASE UNCHANGED <<participating, gen, seen>> /\ wanted \subseteq wanted'
  BY <1>1
<1>2. CASE Untrack
  BY <1>2 DEF Untrack
<1>3. ASSUME NEW known \in SUBSET Versions, Track(known) PROVE KnownInv'
  BY <1>3 DEF Track, candVars
<1>4. ASSUME NEW f \in Versions, Observe(f) PROVE KnownInv'
  BY <1>4 DEF Observe, candVars
<1> QED BY <1>1, <1>2, <1>3, <1>4, PolicySteps

LEMMA OrderStep == AutoInv /\ [AutoNext]_autoVars => OrderInv'
<1> SUFFICES ASSUME AutoInv, [AutoNext]_autoVars PROVE OrderInv'
  OBVIOUS
<1> USE DEF AutoInv, AutoTypeOK, OrderInv
<1>1. CASE UNCHANGED sendVars
  BY <1>1 DEF sendVars, Opened
<1>2. ASSUME NEW c \in Sends, Entered(c) PROVE OrderInv'
  <2>1. /\ Opened' = Opened \cup {c} /\ c \notin Opened /\ log' = [log EXCEPT ![c] = Opened]
        /\ Opened \subseteq Sends /\ begun' = begun
    BY <1>2 DEF Entered, Enter, Opened
  <2>2. IsFiniteSet(Opened')
    BY <2>1, FS_AddElement
  <2>3. \A d \in Sends \ {c} : log'[d] = log[d]
    BY <2>1
  <2>4. log'[c] = Opened
    BY <2>1
  <2> HIDE DEF Opened
  <2> QED BY <2>1, <2>2, <2>3, <2>4
<1>3. ASSUME NEW c \in Sends, Begun(c) PROVE OrderInv'
  BY <1>3 DEF Begun, Opened
<1>4. ASSUME NEW c \in Sends, Told(c) PROVE OrderInv'
  <2>1. Opened' = Opened /\ UNCHANGED <<log, begun>>
    BY <1>4 DEF Told, Opened, SubStatus
  <2> QED BY <2>1
<1> QED BY <1>1, <1>2, <1>3, <1>4, SendSteps

LEMMA LinkStep == AutoInv /\ [AutoNext]_autoVars => LinkInv'
<1> SUFFICES ASSUME AutoInv, [AutoNext]_autoVars,
                    NEW i \in Keys, link'[i] # Nobody
             PROVE  link'[i] \in Opened' /\ source'[link'[i]] = File(i)
  BY DEF LinkInv
<1> DEFINE Fits(c) == c \in Opened /\ source[c] = File(i)
           Fresh == \E c \in Ticks : Open(c) /\ i = key[c] /\ link'[i] = c
<1>1. Fits(link'[i]) \/ Fresh
  <2> USE DEF AutoInv, LinkInv
  <2>1. ASSUME NEW K \in SUBSET Keys, NEW R \in SUBSET Versions, NEW facts \in SourceFacts, Reconcile(K, R, facts)
        PROVE  Fits(link'[i])
    <3>1. link'[i] = link[i] \/ LinkAssessed(i)
      BY <2>1, ReconcileSays
    <3> QED BY <3>1 DEF LinkAssessed
  <2>2. ASSUME NEW c \in Ticks, NEW j \in Keys, NEW facts \in SourceFacts, ClaimNext(c, j, facts)
        PROVE  Fits(link'[i])
    BY <2>2, ClaimSays DEF LinkAssessed, Left
  <2>3. ASSUME NEW c \in Ticks, NEW facts \in SourceFacts, NEW s \in CandState, Refuse(c, facts, s)
        PROVE  Fits(link'[i])
    BY <2>3, RefuseSays DEF LinkAssessed, Left
  <2>4. CASE ReceiptStep
    BY <2>4, ReceiptSays DEF ReceiptStep
  <2>5. ASSUME NEW c \in Ticks, NoteClash(c) PROVE Fits(link'[i])
    BY <2>5, ClashSays DEF Left
  <2>6. ASSUME NEW c \in Ticks, Finish(c) PROVE Fits(link'[i])
    BY <2>6, FinishSays
  <2>7. CASE Untrack \/ SavePolicy \/ (\E f \in Versions : Register(f) \/ Backfill(f)) \/ UNCHANGED <<cand, token, link, crev>>
    BY <2>7 DEF Untrack, SavePolicy, Register, Backfill
  <2>8. ASSUME NEW c \in Ticks, Open(c) PROVE Fits(link'[i]) \/ Fresh
    BY <2>8 DEF Open, AutoTypeOK
  <2> HIDE DEF Fits, Fresh
  <2> QED BY <2>1, <2>2, <2>3, <2>4, <2>5, <2>6, <2>7, <2>8, CandidateSteps
         DEF CandidateStep, ReconcileStep, ClaimStep, RefuseStep
<1>2. CASE Fits(link'[i])
  BY <1>2, OpenedStay DEF OpenedKept
<1>3. ASSUME NEW c \in Ticks, Open(c), i = key[c], link'[i] = c PROVE link'[i] \in Opened' /\ source'[link'[i]] = File(i)
  BY <1>3, SubTyped DEF Open, Enter, Opened, AutoInv, AutoTypeOK
<1> QED BY <1>1, <1>2, <1>3

LEMMA ReadyStep == AutoInv /\ [AutoNext]_autoVars => ReadyInv'
<1> SUFFICES ASSUME AutoInv, [AutoNext]_autoVars PROVE ReadyInv'
  OBVIOUS
<1>1. rev <= rev' /\ \A c \in Ticks : params'[c] <= rev'
  <2> USE DEF AutoInv, AutoTypeOK, ReadyInv, tickVars
  <2>1. CASE UNCHANGED <<params, rev>>
    BY <2>1
  <2>2. CASE SavePolicy
    BY <2>2 DEF SavePolicy
  <2>3. ASSUME NEW c \in Ticks, Options(c) PROVE rev <= rev' /\ \A d \in Ticks : params'[d] <= rev'
    BY <2>3 DEF Options, policyVars
  <2>4. ASSUME NEW c \in Ticks, End(c), UNCHANGED rev PROVE rev <= rev' /\ \A d \in Ticks : params'[d] <= rev'
    BY <2>4 DEF End
  <2> QED BY <2>1, <2>2, <2>3, <2>4, ParameterSteps
<1>2. \A i \in Keys : /\ crev'[i] = crev[i] \/ crev'[i] = rev
                      /\ cand'[i] = "ready" => token'[i] = Nobody
  <2> SUFFICES ASSUME NEW i \in Keys
               PROVE  (crev'[i] = crev[i] \/ crev'[i] = rev) /\ (cand'[i] = "ready" => token'[i] = Nobody)
    OBVIOUS
  <2> USE DEF AutoInv, ReadyInv
  <2>1. CASE ReconcileStep
    BY <2>1, ReconcileSays DEF ReconcileStep
  <2>2. ASSUME NEW c \in Ticks, NEW j \in Keys, NEW facts \in SourceFacts, ClaimNext(c, j, facts)
        PROVE  (crev'[i] = crev[i] \/ crev'[i] = rev) /\ (cand'[i] = "ready" => token'[i] = Nobody)
    BY <2>2, ClaimSays DEF Left
  <2>3. ASSUME NEW c \in Ticks, NEW facts \in SourceFacts, NEW s \in CandState, Refuse(c, facts, s)
        PROVE  (crev'[i] = crev[i] \/ crev'[i] = rev) /\ (cand'[i] = "ready" => token'[i] = Nobody)
    BY <2>3, RefuseSays DEF Left
  <2>4. CASE ReceiptStep
    BY <2>4, ReceiptSays DEF ReceiptStep, Left, StandsBy
  <2>5. ASSUME NEW c \in Ticks, NoteClash(c)
        PROVE  (crev'[i] = crev[i] \/ crev'[i] = rev) /\ (cand'[i] = "ready" => token'[i] = Nobody)
    BY <2>5, ClashSays DEF Left, StandsBy
  <2>6. ASSUME NEW c \in Ticks, Finish(c)
        PROVE  (crev'[i] = crev[i] \/ crev'[i] = rev) /\ (cand'[i] = "ready" => token'[i] = Nobody)
    BY <2>6, FinishSays DEF Left, StandsBy
  <2>7. CASE Untrack \/ SavePolicy \/ (\E f \in Versions : Register(f) \/ Backfill(f))
    BY <2>7 DEF Untrack, SavePolicy, Register, Backfill, AutoTypeOK
  <2>8. CASE (\E c \in Ticks : Open(c)) \/ UNCHANGED <<cand, token, link, crev>>
    BY <2>8 DEF Open
  <2> QED BY <2>1, <2>2, <2>3, <2>4, <2>5, <2>6, <2>7, <2>8, CandidateSteps
         DEF CandidateStep, ClaimStep, RefuseStep
<1>3. \A i \in Keys : crev'[i] \in Int /\ crev[i] \in Int /\ crev[i] <= rev /\ rev \in Int /\ rev' \in Int
  BY AutoTypeStep, QueueAssumption DEF AutoInv, AutoTypeOK, ReadyInv
<1> QED BY <1>1, <1>2, <1>3 DEF ReadyInv

LEMMA AcceptedStep == AutoInv /\ [AutoNext]_autoVars => AcceptedInv'
<1> SUFFICES ASSUME AutoInv, [AutoNext]_autoVars, NEW i \in Keys, cand'[i] = "accepted"
             PROVE  \E c \in Opened' : sub'[c] = "accepted" /\ source'[c] = File(i)
  BY DEF AcceptedInv
<1> DEFINE Shown == \E c \in Opened : (sub[c] = "accepted" \/ sub'[c] = "accepted") /\ source[c] = File(i)
<1> USE DEF AutoInv, AcceptedInv, LinkInv
<1>1. ASSUME NEW K \in SUBSET Keys, NEW R \in SUBSET Versions, NEW facts \in SourceFacts, Reconcile(K, R, facts)
      PROVE  Shown
  <2>1. CASE i \notin K
    BY <1>1, <2>1, ReconcileSays
  <2>2. CASE i \in K /\ BySettling(i)
    <3>1. link[i] # Nobody /\ StandsBy(i, link[i])
      BY <1>1, <2>2, ReconcileSays
    <3> QED BY <3>1 DEF StandsBy
  <2>3. CASE i \in K /\ ~BySettling(i)
    <3>1. Assessed(i)
      BY <1>1, <2>3, ReconcileSays
    <3> QED BY <3>1 DEF Assessed
  <2> QED BY <2>1, <2>2, <2>3
<1>2. ASSUME NEW c \in Ticks, NEW j \in Keys, NEW facts \in SourceFacts, ClaimNext(c, j, facts)
      PROVE  Shown
  BY <1>2, ClaimSays DEF Left, Assessed
<1>3. ASSUME NEW c \in Ticks, NEW facts \in SourceFacts, NEW s \in CandState, Refuse(c, facts, s)
      PROVE  Shown
  BY <1>3, RefuseSays DEF Left, Assessed
<1>4. ASSUME NEW c \in Sends, NEW s \in {"sending", "accepted", "rejected", "unknown"}, Receipt(c, s)
      PROVE  Shown
  <2>1. CASE c \in Ticks /\ i = key[c]
    <3>1. c \in Opened /\ link[i] = c /\ StandsBy(i, c) /\ c # Nobody
      BY <1>4, <2>1, ReceiptSays, QueueAssumption
    <3> QED BY <3>1 DEF StandsBy
  <2>2. CASE ~(c \in Ticks /\ i = key[c])
    BY <1>4, <2>2, ReceiptSays DEF Left
  <2> QED BY <2>1, <2>2
<1>5. ASSUME NEW c \in Ticks, NoteClash(c) PROVE Shown
  BY <1>5, ClashSays DEF Left, StandsBy
<1>6. ASSUME NEW c \in Ticks, Finish(c) PROVE Shown
  BY <1>6, FinishSays DEF Left, StandsBy
<1>7. ASSUME Untrack \/ SavePolicy \/ (\E f \in Versions : Register(f) \/ Backfill(f)) PROVE Shown
  BY <1>7 DEF Untrack, SavePolicy, Register, Backfill, AutoTypeOK
<1>8. ASSUME (\E c \in Ticks : Open(c)) \/ UNCHANGED <<cand, token, link, crev>> PROVE Shown
  BY <1>8 DEF Open
<1>9. Shown
  BY <1>1, <1>2, <1>3, <1>4, <1>5, <1>6, <1>7, <1>8, CandidateSteps
     DEF CandidateStep, ReconcileStep, ClaimStep, RefuseStep, ReceiptStep
<1> QED BY <1>9, OpenedStay DEF OpenedKept

-----------------------------------------------------------------------------
(* Ticks.                                                                    *)

\* A tick that does not move loses nothing but its token.
LEMMA TickRests ==
    ASSUME AutoInv, [AutoNext]_autoVars, NEW d \in Ticks, at'[d] = at[d]
    PROVE  /\ sub[d] = "none" => sub'[d] = "none"
           /\ d \in begun' => d \in begun
           /\ \A i \in Keys : token'[i] = d => /\ token[i] = d /\ crev'[i] = crev[i]
                                               /\ link[i] = d => link'[i] = d
<1> USE DEF AutoInv
<1>1. (sub[d] = "none" => sub'[d] = "none") /\ (d \in begun' => d \in begun)
  <2>1. CASE UNCHANGED sendVars
    BY <2>1 DEF sendVars
  <2>2. ASSUME NEW c \in Sends, Entered(c) \/ Begun(c) \/ Told(c)
        PROVE  (sub[d] = "none" => sub'[d] = "none") /\ (d \in begun' => d \in begun)
    BY <2>2, SubTyped, QueueAssumption DEF Entered, Enter, Begun, Told, AutoTypeOK
  <2> QED BY <2>1, <2>2, SendSteps
<1>2. ASSUME NEW i \in Keys, token'[i] = d
      PROVE  token[i] = d /\ crev'[i] = crev[i] /\ (link[i] = d => link'[i] = d)
  <2>0. d # Nobody
    BY QueueAssumption DEF Sends
  <2>1. ASSUME NEW K \in SUBSET Keys, NEW R \in SUBSET Versions, NEW facts \in SourceFacts, Reconcile(K, R, facts)
        PROVE  token[i] = d /\ crev'[i] = crev[i] /\ (link[i] = d => link'[i] = d)
    BY <1>2, <2>0, <2>1, ReconcileSays
  <2>2. ASSUME NEW c \in Ticks, NEW j \in Keys, NEW facts \in SourceFacts, ClaimNext(c, j, facts)
        PROVE  token[i] = d /\ crev'[i] = crev[i] /\ (link[i] = d => link'[i] = d)
    <3>1. i # j
      BY <1>2, <2>0, <2>2, ClaimSays
    <3> QED BY <1>2, <2>2, <3>1, ClaimSays DEF Left
  <2>3. ASSUME NEW c \in Ticks, NEW facts \in SourceFacts, NEW s \in CandState, Refuse(c, facts, s)
        PROVE  token[i] = d /\ crev'[i] = crev[i] /\ (link[i] = d => link'[i] = d)
    <3>1. c # d /\ token[i] = d /\ crev'[i] = crev[i]
      BY <1>2, <2>3, RefuseSays
    <3> QED BY <2>3, <3>1, RefuseSays DEF Left
  <2>4. CASE ReceiptStep
    BY <1>2, <2>0, <2>4, ReceiptSays DEF ReceiptStep, Left
  <2>5. ASSUME NEW c \in Ticks, NoteClash(c)
        PROVE  token[i] = d /\ crev'[i] = crev[i] /\ (link[i] = d => link'[i] = d)
    BY <1>2, <2>0, <2>5, ClashSays DEF Left
  <2>6. ASSUME NEW c \in Ticks, Finish(c)
        PROVE  token[i] = d /\ crev'[i] = crev[i] /\ (link[i] = d => link'[i] = d)
    BY <1>2, <2>0, <2>6, FinishSays DEF Left
  <2>7. CASE Untrack \/ SavePolicy \/ (\E f \in Versions : Register(f) \/ Backfill(f)) \/ UNCHANGED <<cand, token, link, crev>>
    BY <1>2, <2>7 DEF Untrack, SavePolicy, Register, Backfill
  <2>8. ASSUME NEW c \in Ticks, Open(c)
        PROVE  token[i] = d /\ crev'[i] = crev[i] /\ (link[i] = d => link'[i] = d)
    BY <1>2, <2>8 DEF Open, Owns, AutoTypeOK
  <2> QED BY <2>1, <2>2, <2>3, <2>4, <2>5, <2>6, <2>7, <2>8, CandidateSteps
         DEF CandidateStep, ReconcileStep, ClaimStep, RefuseStep
<1> QED BY <1>1, <1>2

\* How a tick moves.
TickClaims(d) == \E i \in Keys, facts \in SourceFacts : ClaimNext(d, i, facts)
TickClashes(d) == \E e \in Sends : Conflicted(d, e)
TickRetires(d) == at[d] \notin {"new", "over"} /\ at'[d] \in {"posting", "ended", "over"} /\ key'[d] = key[d]
TickStays(d) == at'[d] = at[d] /\ key'[d] = key[d] /\ prior'[d] = prior[d] /\ params'[d] = params[d]

LEMMA TickMoves ==
    ASSUME AutoInv, [AutoNext]_autoVars, NEW d \in Ticks
    PROVE  TickStays(d) \/ TickClaims(d) \/ Options(d) \/ Open(d) \/ TickClashes(d) \/ TickRetires(d)
<1> USE DEF AutoInv, AutoTypeOK, tickVars
<1>1. CASE UNCHANGED tickVars
  BY <1>1 DEF TickStays
<1>2. ASSUME NEW c \in Ticks, NEW i \in Keys, NEW facts \in SourceFacts, ClaimNext(c, i, facts)
      PROVE  TickStays(d) \/ TickClaims(d)
  <2>1. CASE c = d
    BY <1>2, <2>1 DEF TickClaims
  <2>2. CASE c # d
    <3>1. UNCHANGED <<prior, params>>
      BY <1>2 DEF ClaimNext
    <3> QED BY <1>2, <2>2, <3>1, ClaimSays DEF TickStays
  <2> QED BY <2>1, <2>2
<1>3. ASSUME NEW c \in Ticks, TickStep(c)
      PROVE  TickStays(d) \/ Options(d) \/ Open(d) \/ TickClashes(d) \/ TickRetires(d)
  <2>1. CASE c = d
    BY <1>3, <2>1 DEF TickStep, TickClashes, TickRetires, NoteClash, GiveUpClaim, Start, Refuse, Hear, Finish, KillTick, End
  <2>2. CASE c # d
    BY <1>3, <2>2 DEF TickStep, TickStays, Options, Open, Conflicted, NoteClash, GiveUpClaim, Start, Refuse, Hear,
                      Finish, KillTick, End
  <2> QED BY <2>1, <2>2
<1>4. CASE \/ Pause \/ Resume \/ (\E known \in SUBSET Versions : Track(known)) \/ Untrack \/ SavePolicy
           \/ (\E f \in Versions : Observe(f) \/ Register(f) \/ Backfill(f)) \/ ReconcileSome
  BY <1>1, <1>4 DEF Pause, Resume, Track, Untrack, SavePolicy, Observe, Register, Backfill, ReconcileSome, Reconcile
<1>5. CASE \/ \E c \in Manual : (\E f \in Versions : ManualOpen(c, f)) \/ ManualStart(c) \/ (\E s \in Answers : ManualEnd(c, s))
           \/ \E c \in Sends : Expire(c) \/ (\E s \in {"sending", "accepted", "rejected", "unknown"} : Receipt(c, s))
           \/ (\E i \in Keys : LeaseEnds(i)) \/ CooldownEnds
  BY <1>1, <1>5 DEF ManualOpen, ManualStart, ManualEnd, Expire, Receipt, LeaseEnds, CooldownEnds
<1>6. CASE UNCHANGED autoVars
  BY <1>1, <1>6 DEF autoVars
<1> QED BY <1>2, <1>3, <1>4, <1>5, <1>6 DEF AutoNext

LEMMA TickInvStep == AutoInv /\ [AutoNext]_autoVars => TickInv'
<1> SUFFICES ASSUME AutoInv, [AutoNext]_autoVars, NEW d \in Ticks PROVE TickOf(d)'
  BY DEF TickInv
<1> DEFINE i == key[d]
<1>0. TickOf(d) /\ i \in Keys /\ d \in Sends /\ d # Nobody
  BY SubTyped, QueueAssumption DEF AutoInv, AutoTypeOK, TickInv
<1>1. CASE TickStays(d)
  <2>1. /\ at'[d] = at[d] /\ key'[d] = i /\ prior'[d] = prior[d] /\ params'[d] = params[d]
        /\ sub[d] = "none" => sub'[d] = "none"
        /\ d \in begun' => d \in begun
        /\ token'[i] = d => token[i] = d /\ crev'[i] = crev[i] /\ (link[i] = d => link'[i] = d)
    BY <1>0, <1>1, TickRests DEF TickStays
  <2>2. cand[i] # "none" => cand'[i] # "none"
    BY <1>0, CandidatesStay DEF CandidatesKept
  <2>3. \A c \in Opened : c \in Opened' /\ source'[c] = source[c]
    BY OpenedStay DEF OpenedKept
  <2> QED BY <1>0, <2>1, <2>2, <2>3 DEF TickOf
<1>2. CASE TickClaims(d)
  <2>1. PICK j \in Keys, facts \in SourceFacts : ClaimNext(d, j, facts)
    BY <1>2 DEF TickClaims
  <2>2. /\ at[d] = "new" /\ UNCHANGED sendVars
        /\ (at'[d] = "claimed" /\ cand'[key'[d]] = "claimed") \/ at'[d] = "over"
    BY <2>1, ClaimSays
  <2>3. sub'[d] = "none" /\ d \notin begun'
    BY <1>0, <2>2 DEF TickOf, Asked, sendVars
  <2>4. CASE at'[d] = "over"
    BY <2>3, <2>4 DEF TickOf, Asked
  <2>5. CASE at'[d] = "claimed" /\ cand'[key'[d]] = "claimed"
    BY <2>3, <2>5 DEF TickOf, Asked
  <2> QED BY <2>2, <2>4, <2>5
<1>3. CASE Options(d)
  <2>1. /\ at[d] = "claimed" /\ at'[d] = "options" /\ params'[d] = rev
        /\ UNCHANGED <<cand, token, crev, key, sub, begun>> /\ crev[i] <= rev
    BY <1>0, <1>3 DEF Options, candVars, sendVars, AutoInv, AutoTypeOK, ReadyInv
  <2> QED BY <1>0, <2>1 DEF TickOf, Asked
<1>4. CASE Open(d)
  <2>1. /\ at[d] = "options" /\ at'[d] = "opened" /\ UNCHANGED <<cand, token, crev, key, params, begun>>
        /\ sub' = [sub EXCEPT ![d] = "sending"] /\ source' = [source EXCEPT ![d] = File(i)]
        /\ link' = [link EXCEPT ![i] = d]
    BY <1>4 DEF Open, Enter, AutoInv, AutoTypeOK
  <2>2. d \in Opened' /\ source'[d] = File(i) /\ link'[i] = d
    BY <1>0, <2>1 DEF Opened, AutoInv, AutoTypeOK
  <2> QED BY <1>0, <2>1, <2>2 DEF TickOf, Asked
<1>5. CASE TickClashes(d)
  <2>1. PICK e \in Sends : Conflicted(d, e)
    BY <1>5 DEF TickClashes
  <2>2. /\ at[d] = "options" /\ at'[d] = "clashed" /\ prior'[d] = e /\ e \in Opened /\ source[e] = File(i)
        /\ UNCHANGED <<cand, key, sub, source, begun>>
    BY <2>1 DEF Conflicted, Previous, candVars, sendVars, AutoInv, AutoTypeOK
  <2> QED BY <1>0, <2>2 DEF TickOf, Asked, Opened
<1>6. CASE TickRetires(d)
  BY <1>0, <1>6, CandidatesStay DEF TickRetires, TickOf, CandidatesKept, Asked
<1> QED BY <1>1, <1>2, <1>3, <1>4, <1>5, <1>6, TickMoves

-----------------------------------------------------------------------------
(* Submissions whose fate matters.                                           *)

\* What an intent finds when it is committed: the tick's own candidate, ready by
\* a new assessment and by the same parameters.
LEMMA StartFinds ==
    ASSUME AutoInv, NEW c \in Ticks, NEW facts \in SourceFacts, Start(c, facts)
    PROVE  /\ at[c] = "opened" /\ cand[key[c]] = "claimed" /\ token[key[c]] = c /\ link[key[c]] = c
           /\ on /\ participating /\ Gen(key[c]) = gen /\ PriorOf(key[c]) = {}
           /\ rev = crev[key[c]] /\ crev[key[c]] <= params[c]
           /\ c \in Opened /\ source[c] = File(key[c]) /\ begun' = begun \cup {c}
           /\ key[c] \in Keys /\ UNCHANGED <<key, candVars, sub, source, policyVars, params>>
<1>1. /\ at[c] = "opened" /\ cand[key[c]] = "claimed" /\ token[key[c]] = c
      /\ Assess(key[c], facts) = "ready" /\ rev = crev[key[c]] /\ begun' = begun \cup {c}
      /\ UNCHANGED <<key, candVars, sub, source, policyVars, params>> /\ key[c] \in Keys
  BY DEF Start, MayStart, Owns, AutoInv, AutoTypeOK
<1>2. on /\ participating /\ Gen(key[c]) = gen /\ PriorOf(key[c]) = {}
  BY <1>1, AssessSays DEF AutoInv
<1> QED BY <1>1, <1>2 DEF AutoInv, TickInv, TickOf

\* A tick's submission is fated only if it was, or is begun by this very step.
LEMMA FatedSteps ==
    ASSUME AutoInv, [AutoNext]_autoVars, NEW c \in Ticks, c \in begun', sub'[c] \in Fated
    PROVE  (c \in begun /\ sub[c] \in Fated) \/ (c \notin begun /\ \E facts \in SourceFacts : Start(c, facts))
<1> USE DEF AutoInv
<1>1. CASE UNCHANGED sendVars
  BY <1>1, StartSteps DEF sendVars
<1>2. ASSUME NEW d \in Sends, Entered(d)
      PROVE  c \in begun /\ sub[c] \in Fated
  BY <1>2, SubTyped DEF Entered, Enter, OrderInv, Opened, AutoTypeOK
<1>3. ASSUME NEW d \in Sends, Begun(d), c \in begun
      PROVE  sub[c] \in Fated
  BY <1>3 DEF Begun
<1>4. ASSUME NEW d \in Sends, Told(d)
      PROVE  c \in begun /\ sub[c] \in Fated
  BY <1>4, SubTyped DEF Told, Fated, Standing, AutoTypeOK
<1> QED BY <1>1, <1>2, <1>3, <1>4, SendSteps, StartSteps

\* A candidate stays in the hands of its submission.

LEMMA HoldsStep ==
    ASSUME AutoInv, [AutoNext]_autoVars, NEW c \in Ticks, c \in begun, c \in begun', Holds(c), sub'[c] \in Fated
    PROVE  Holds(c)'
<1> DEFINE i == key[c]
           Kept == link'[i] = c /\ token'[i] \in {c, Nobody} /\ cand'[i] \in SentState
<1>0. /\ i \in Keys /\ c \in Sends /\ c # Nobody /\ link[i] = c /\ token[i] \in {c, Nobody} /\ cand[i] \in SentState
      /\ sub[c] \in Fated
  BY SubTyped, QueueAssumption, FatedSteps DEF AutoInv, AutoTypeOK, Holds
<1>a. Nobody \notin Ticks
  BY SubTyped, QueueAssumption DEF AutoInv
<1>1. ASSUME NEW K \in SUBSET Keys, NEW R \in SUBSET Versions, NEW facts \in SourceFacts, Reconcile(K, R, facts)
      PROVE  Kept
  <2>1. BySettling(i)
    BY <1>0 DEF BySettling, Fated
  <2>2. CASE i \in K
    <3>1. link'[i] = c /\ token'[i] = Nobody /\ StandsBy(i, c)
      BY <1>0, <1>1, <2>1, <2>2, ReconcileSays
    <3> QED BY <1>0, <3>1 DEF StandsBy, Fated
  <2>3. CASE i \notin K
    <3>1. link'[i] = link[i] /\ token'[i] = token[i] /\ (cand'[i] = cand[i] \/ cand[i] = "none")
      BY <1>0, <1>1, <2>3, ReconcileSays
    <3> QED BY <1>0, <3>1 DEF SentState
  <2> QED BY <2>2, <2>3
<1>2. ASSUME NEW d \in Ticks, NEW j \in Keys, NEW facts \in SourceFacts, ClaimNext(d, j, facts)
      PROVE  Kept
  BY <1>0, <1>2, ClaimSays DEF Left, SentState
<1>3. ASSUME NEW d \in Ticks, NEW facts \in SourceFacts, NEW s \in CandState, Refuse(d, facts, s)
      PROVE  Kept
  <2>1. i # key[d] \/ Left(i) \/ (token[i] = d /\ d \notin begun)
    BY <1>0, <1>3, RefuseSays
  <2>2. Left(i)
    BY <1>0, <1>a, <1>3, <2>1, RefuseSays
  <2> QED BY <1>0, <2>2 DEF Left
<1>4. ASSUME NEW d \in Sends, NEW s \in {"sending", "accepted", "rejected", "unknown"}, Receipt(d, s)
      PROVE  Kept
  <2>1. CASE d \in Ticks /\ key[d] = i
    <3>1. /\ link'[i] = c /\ token'[i] = Nobody
          /\ IF link[i] = d THEN StandsBy(i, d) ELSE cand'[i] = "unknown"
      BY <1>0, <1>4, <2>1, ReceiptSays
    <3> QED BY <1>0, <3>1 DEF StandsBy, Fated, SentState
  <2>2. CASE ~(d \in Ticks /\ i = key[d])
    BY <1>0, <1>4, <2>2, ReceiptSays DEF Left
  <2> QED BY <2>1, <2>2
<1>5. ASSUME NEW d \in Ticks, NoteClash(d) PROVE Kept
  <2>1. d # c \/ at[c] = "clashed"
    BY <1>5 DEF NoteClash
  <2>2. at[c] # "clashed"
    BY DEF AutoInv, TickInv, TickOf, Asked
  <2>3. ~(i = key[d] /\ token[i] = d)
    BY <1>0, <1>a, <2>1, <2>2
  <2>4. Left(i)
    BY <1>0, <1>5, <2>3, ClashSays
  <2> QED BY <1>0, <2>4 DEF Left
<1>6. ASSUME NEW d \in Ticks, Finish(d) PROVE Kept
  <2>1. CASE i = key[d] /\ token[i] = d
    <3>1. /\ link' = link /\ token'[i] = Nobody
          /\ \/ link[i] # Nobody /\ StandsBy(i, link[i])
             \/ link[i] = Nobody /\ cand'[i] \in {"cancelled", "waiting"}
      BY <1>6, <2>1, FinishSays
    <3> QED BY <1>0, <3>1 DEF StandsBy, Fated
  <2>2. CASE ~(i = key[d] /\ token[i] = d)
    BY <1>0, <1>6, <2>2, FinishSays DEF Left
  <2> QED BY <2>1, <2>2
<1>7. ASSUME Untrack \/ SavePolicy \/ (\E f \in Versions : Register(f) \/ Backfill(f)) PROVE Kept
  <2>1. UNCHANGED <<token, link>>
    BY <1>7 DEF Untrack, SavePolicy, Register, Backfill
  <2>2. ~NotBegun(i) /\ cand[i] \notin {"none", "preset_changed"}
    BY <1>0 DEF NotBegun, SentState
  <2>3. cand'[i] = cand[i]
    BY <1>0, <1>7, <2>2 DEF Untrack, SavePolicy, Register, Registrable, Backfill, AutoInv, AutoTypeOK
  <2> QED BY <1>0, <2>1, <2>3
<1>8. ASSUME NEW d \in Ticks, Open(d) PROVE Kept
  <2>1. d \notin begun /\ token[key[d]] = d /\ UNCHANGED <<cand, token>> /\ link' = [link EXCEPT ![key[d]] = d]
    BY <1>8 DEF Open, Owns, AutoInv, TickInv, TickOf, Asked
  <2>2. key[d] # i /\ link'[i] = link[i]
    BY <1>0, <2>1, SubTyped, QueueAssumption DEF AutoInv, AutoTypeOK
  <2> QED BY <1>0, <2>1, <2>2
<1>9. ASSUME UNCHANGED <<cand, token, link, crev>> PROVE Kept
  BY <1>0, <1>9
<1>10. Kept
  <2> HIDE DEF Kept
  <2> QED BY <1>1, <1>2, <1>3, <1>4, <1>5, <1>6, <1>7, <1>8, <1>9, CandidateSteps
             DEF CandidateStep, ReconcileStep, ClaimStep, RefuseStep, ReceiptStep
<1>11. key'[c] = key[c]
  BY TickMoves DEF TickStays, TickRetires, TickClaims, ClaimNext, Options, Open, TickClashes, Conflicted,
                   AutoInv, TickInv, TickOf, Asked
<1> QED BY <1>10, <1>11 DEF Holds

LEMMA SentStep == AutoInv /\ [AutoNext]_autoVars => SentInv'
<1> SUFFICES ASSUME AutoInv, [AutoNext]_autoVars, NEW c \in Ticks, c \in begun', sub'[c] \in Fated PROVE Holds(c)'
  BY DEF SentInv
<1>1. CASE c \in begun /\ sub[c] \in Fated
  BY <1>1, HoldsStep DEF AutoInv, SentInv
<1>2. ASSUME NEW facts \in SourceFacts, Start(c, facts) PROVE Holds(c)'
  BY <1>2, StartFinds DEF Holds, SentState, candVars
<1> QED BY <1>1, <1>2, FatedSteps

LEMMA InitHolds == AutoInit => AutoInv
<1> SUFFICES ASSUME AutoInit PROVE AutoInv
  OBVIOUS
<1> USE QueueAssumption DEF AutoInit
<1>1. PICK v : v \in Versions
  OBVIOUS
<1>2. (CHOOSE i \in Keys : TRUE) \in Keys /\ (CHOOSE f \in Versions : TRUE) \in Versions
  <2>1. <<1, v>> \in Keys
    BY <1>1 DEF Keys
  <2> QED BY <1>1, <2>1
<1>3. Opened = {} /\ Ticks \subseteq Sends
  BY DEF Opened, Sends
<1>4. AutoTypeOK
  <2>1. 0 \in 0 .. MaxGen /\ 0 \in 0 .. MaxRev
    OBVIOUS
  <2>2. cooldown \in BOOLEAN /\ on \in BOOLEAN /\ participating \in BOOLEAN
    BY Zenon
  <2> QED BY <1>2, <2>1, <2>2 DEF AutoTypeOK, CandState, Active
<1>5. OrderInv
  BY <1>3, FS_EmptySet DEF OrderInv
<1>6. KnownInv /\ ReadyInv /\ LinkInv /\ TickInv /\ SentInv /\ AcceptedInv
  BY <1>3 DEF KnownInv, ReadyInv, LinkInv, TickInv, TickOf, Asked, SentInv, AcceptedInv
<1> QED BY <1>4, <1>5, <1>6 DEF AutoInv

LEMMA AutoInvStep == AutoInv /\ [AutoNext]_autoVars => AutoInv'
BY AutoTypeStep, KnownStep, ReadyStep, LinkStep, TickInvStep, OrderStep, SentStep, AcceptedStep DEF AutoInv

\* The invariant of the queue.
THEOREM AutoInvariant == AutoSpec => []AutoInv
BY InitHolds, AutoInvStep, PTL DEF AutoSpec

-----------------------------------------------------------------------------
(* The properties.                                                           *)

\* Every variable keeps its type.
THEOREM AutoTypes == AutoSpec => []AutoTypeOK
<1>1. AutoInv => AutoTypeOK
  BY DEF AutoInv
<1> QED BY <1>1, AutoInvariant, PTL

\* What candidates say of their submissions is true: what is not sent was never
\* begun by the queue or was refused before the encoder saw it, what is open is
\* found by its receipt, and what says "accepted" was accepted (settle_item).
THEOREM CandidatesAreTrue == AutoSpec => []CandidatesTellTruth
<1>1. AutoInv => CandidatesTellTruth
  BY DEF AutoInv, SentInv, Holds, Fated, SentState, Standing, AcceptedInv, CandidatesTellTruth
<1> QED BY <1>1, AutoInvariant, PTL

\* An intent that is committed is permitted then, by every permission there is
\* (validate_intent): what the tick read earlier does not count.
IntentStep ==
    \A c \in Ticks : c \in begun' \ begun =>
        /\ on /\ participating /\ Gen(key[c]) = gen
        /\ seen[source[c]] = "observed" \/ key[c] \in wanted
        /\ params[c] = rev

LEMMA IntentHolds == AutoInv /\ [AutoNext]_autoVars => IntentStep
<1> SUFFICES ASSUME AutoInv, [AutoNext]_autoVars, NEW c \in Ticks, c \in begun' \ begun
             PROVE  /\ on /\ participating /\ Gen(key[c]) = gen
                    /\ seen[source[c]] = "observed" \/ key[c] \in wanted
                    /\ params[c] = rev
  BY DEF IntentStep
<1>1. PICK facts \in SourceFacts : Start(c, facts)
  BY StartSteps
<1>2. /\ cand[key[c]] = "claimed" /\ on /\ participating /\ Gen(key[c]) = gen /\ key[c] \in Keys
      /\ rev = crev[key[c]] /\ crev[key[c]] <= params[c] /\ source[c] = File(key[c])
  BY <1>1, StartFinds
<1>3. seen[source[c]] = "observed" \/ key[c] \in wanted
  BY <1>2 DEF AutoInv, KnownInv
<1>4. params[c] <= rev /\ params[c] \in Int /\ rev \in Int
  BY QueueAssumption DEF AutoInv, ReadyInv, AutoTypeOK
<1> QED BY <1>2, <1>3, <1>4

\* An automatic POST is only begun with every permission, as validate_intent
\* reads them in the transaction of the intent, whatever changed since the claim.
THEOREM IntentsArePermitted == AutoSpec => IntentIsPermitted
<1>1. AutoInv /\ [AutoNext]_autoVars => [IntentStep]_autoVars
  BY IntentHolds
<1>2. AutoSpec => [][IntentStep]_autoVars
  BY <1>1, AutoInvariant, PTL DEF AutoSpec
<1> QED BY <1>2 DEF IntentIsPermitted, IntentStep

\* No bytes are begun by the queue while an earlier submission of them may have
\* reached the encoder, in whatever generation and by whomever it was made.
RepeatStep ==
    \A c \in Ticks : c \in begun' \ begun =>
        \A d \in begun : source[d] = source[c] => sub[d] \notin Standing

LEMMA NothingRepeated == AutoInv /\ [AutoNext]_autoVars => RepeatStep
<1> SUFFICES ASSUME AutoInv, [AutoNext]_autoVars, NEW c \in Ticks, c \in begun' \ begun,
                    NEW d \in begun, source[d] = source[c], sub[d] \in Standing
             PROVE  FALSE
  BY DEF RepeatStep
<1>1. PICK facts \in SourceFacts : Start(c, facts)
  BY StartSteps
<1>2. /\ cand[key[c]] = "claimed" /\ link[key[c]] = c /\ PriorOf(key[c]) = {}
      /\ source[c] = File(key[c])
  BY <1>1, StartFinds
<1>3. d \in Opened \ {c} /\ source[d] = File(key[c])
  BY <1>2 DEF AutoInv, OrderInv
<1>4. d \in PriorOf(key[c])
  BY <1>2, <1>3 DEF PriorOf, Previous
<1> QED BY <1>2, <1>4

\* The queue begins no POST of bytes of which an earlier one may have reached
\* Kensetsu (validate_intent against the history).
THEOREM TheQueueNeverRepeats == AutoSpec => QueueNeverRepeats
<1>1. AutoInv /\ [AutoNext]_autoVars => [RepeatStep]_autoVars
  BY NothingRepeated
<1>2. AutoSpec => [][RepeatStep]_autoVars
  BY <1>1, AutoInvariant, PTL DEF AutoSpec
<1> QED BY <1>2 DEF QueueNeverRepeats, RepeatStep
=============================================================================
