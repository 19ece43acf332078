------------------------------ MODULE Handover ------------------------------
(***************************************************************************)
(* What the torrent pipeline promises about one torrent, whoever moves its  *)
(* rows: the slave gets it only once the master has had it whole, its files  *)
(* are hashed only then (or once somebody put it on the slave by hand), and  *)
(* nobody reports it done before the slave has had it whole.  Pipeline       *)
(* implements this.                                                          *)
(***************************************************************************)
EXTENDS Naturals

VARIABLES
    whole,      \* the clients that have ever held the complete torrent
    byHand,     \* somebody has put it on the slave in qBittorrent itself
    offered,    \* the pipeline has added it to the slave
    hashed,     \* a job that hashes its files has been created
    reported    \* some row of it has been done

handoverVars == <<whole, byHand, offered, hashed, reported>>

HandoverInit ==
    /\ whole = {} /\ ~byHand
    /\ ~offered /\ ~hashed /\ ~reported

Download(q) == whole' = whole \cup {q} /\ UNCHANGED <<byHand, offered, hashed, reported>>

PutOnSlave == byHand' = TRUE /\ UNCHANGED <<whole, offered, hashed, reported>>

Offer ==
    /\ "master" \in whole
    /\ offered' = TRUE
    /\ UNCHANGED <<whole, byHand, hashed, reported>>

Hash ==
    /\ "master" \in whole \/ byHand
    /\ hashed' = TRUE
    /\ UNCHANGED <<whole, byHand, offered, reported>>

Report ==
    /\ "slave" \in whole
    /\ reported' = TRUE
    /\ UNCHANGED <<whole, byHand, offered, hashed>>

HandoverNext ==
    \/ \E q \in {"master", "slave"} : Download(q)
    \/ PutOnSlave \/ Offer \/ Hash \/ Report

HandoverSpec == HandoverInit /\ [][HandoverNext]_handoverVars
=============================================================================
