----------------------------- MODULE MCAnswering -----------------------------
(* Small instances of Answering for TLC.                                   *)
EXTENDS Answering, TLC

CONSTANTS g1, g2, c1, c2, ana, ben

Symmetric == Permutations(Page) \cup Permutations(Click)
=============================================================================
