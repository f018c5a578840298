----------------------------- MODULE MCAIMeter -----------------------------
(* Instances of AIMeter.  The calls are alike.  One run takes them in turn: *)
(* every way of calling a model but speech beside each other; forms and    *)
(* loops while the operator, the clock and the process intervene; forms of *)
(* two workspaces; takes, with what intervenes.                            *)
EXTENDS AIMeter, TLC

CONSTANTS c1, c2, s1, s2, w1, w2, x1, none

OneEach == s1 :> w1 @@ s2 :> w2

Symmetric == Permutations(Call)

VARIABLE instance

Of(ks, others) == s1 :> ks @@ s2 :> others
All == Of(Kind, Kind)

Alone == INSTANCE AIMeter WITH Kinds <- Of(Kind \ {"speech"}, {}), MaxChanges <- 0
Disturbed == INSTANCE AIMeter WITH Kinds <- Of({"collect", "batch"}, {}), Attachment <- 0
Shared == INSTANCE AIMeter WITH Kinds <- Of({"collect"}, {"collect"}), MaxChanges <- 0
Spoken == INSTANCE AIMeter WITH Kinds <- Of({"speech"}, {})

MCInit == Init /\ instance \in {"alone", "disturbed", "shared", "spoken"}

MCNext ==
    /\ \/ instance = "alone" /\ Alone!Next
       \/ instance = "disturbed" /\ Disturbed!Next /\ UNCHANGED <<tier[w2], suspended[w2]>>
       \/ instance = "shared" /\ Shared!Next
       \/ instance = "spoken" /\ Spoken!Next /\ UNCHANGED <<tier, suspended>>
    /\ UNCHANGED instance

MCSpec == MCInit /\ [][MCNext]_<<vars, instance>>

=============================================================================
