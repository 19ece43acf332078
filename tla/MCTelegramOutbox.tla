-------------------------- MODULE MCTelegramOutbox --------------------------
(* Small instances of TelegramOutbox.  Two primary bots over two rows of one  *)
(* pipeline; a bot of the profile "hevc" over an event and a greeting of one  *)
(* chat.                                                                      *)
EXTENDS TelegramOutbox, TLC

CONSTANTS m1, m2, b1, b2, c1, q1, none

OneChat == [m \in Msgs |-> c1]
OnePipeline == [m \in Msgs |-> q1]
\* The greeting m2 belongs to no pipeline.
EventPipeline == [m \in Msgs |-> IF m = m2 THEN none ELSE q1]
SymRows == Permutations({m1, m2})
SymBots == Permutations({b1, b2})
Symmetry == SymRows \cup SymBots
=============================================================================
