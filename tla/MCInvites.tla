----------------------------- MODULE MCInvites -----------------------------
(* Instances of Invites: the participants, and the runs, are alike.        *)
EXTENDS Invites, TLC

CONSTANTS ana, ben, run1, run2, s1, s2

Symmetric == Permutations(Address) \cup Permutations(Run) \cup Permutations(Survey)

=============================================================================
