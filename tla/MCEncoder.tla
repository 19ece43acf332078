----------------------------- MODULE MCEncoder -----------------------------
(***************************************************************************)
(* Two questions in one run; the first state chooses one of them.            *)
(*                                                                         *)
(* "history": three calls for a release that was published again, whose       *)
(* torrents f1 and f2 hold the same proven bytes.  m1 is a manual batch of     *)
(* both, m2 the same request sent a second time, a1 the automatic submission   *)
(* of f2.                                                                   *)
(*                                                                         *)
(* "queue": two ticks of the worker and a manual submission for the version    *)
(* f1 of a release that is tracked at most twice.                            *)
(***************************************************************************)
EXTENDS EncoderSubmission, AutomaticEncoder

CONSTANTS m1, m2, a1, t1, t2, f1, f2, path, bytes, presets

VARIABLE part

MCReqOf == [c \in Calls |-> IF c = m2 THEN m1 ELSE c]
MCPresetOf == [c \in Calls |-> presets]
MCFilesOf == [c \in Calls |-> IF c \in Automatic THEN {f2} ELSE Files]
MCPathOf == [f \in Files |-> path]
MCContentOf == [f \in Files |-> bytes]

MCInit == part \in {"history", "queue"} /\ SubInit /\ AutoInit

MCNext ==
    \/ part = "history" /\ SubNext /\ UNCHANGED <<autoVars, part>>
    \/ part = "queue" /\ AutoNext /\ UNCHANGED <<subVars, part>>

MCSpec == MCInit /\ [][MCNext]_<<part, subVars, autoVars>>

\* Bounds.  Of equal calls or ticks the first comes first; m2 and a1 do not
\* both come, nor t2 in the queue but while t1 thinks that m1, not sent, stands
\* in its way; new parameters and the manual
\* submission of the queue fall into the first generation.
InOrder ==
    /\ pc[m1] = "new" => pc[m2] = "new"
    /\ at[t1] = "new" => at[t2] = "new"
TwoAreEnough ==
    /\ pc[a1] # "new" => pc[m2] = "new"
    /\ at[t2] # "new" => sub[m1] = "none" \/ (sub[m1] = "not_sent" /\ prior[t1] = m1)
    /\ gen > 1 => rev = 0 /\ sub[m1] = "none"

=============================================================================
