--------------------------- MODULE MCLocalization ---------------------------
(***************************************************************************)
(* Localization in turns over one large instance: one question whose       *)
(* options change in number and order, then one question that is reworded, *)
(* then two questions with the same options.                               *)
(***************************************************************************)
EXTENDS Localization, TLC

CONSTANTS q1, q2, yes, no, later, r1, r2, Turns

VARIABLE turn

Requests == Permutations(Request)

Choices == {<<yes, no>>, <<no, yes>>, <<yes, no, later>>}

InTurn ==
    CASE turn = "options"   -> /\ taken \subseteq {q1}
                               /\ \A u \in Asked(draft) : draft.asked[u].text = "asked"
      [] turn = "rewording" -> /\ taken \subseteq {q1}
                               /\ \A u \in Asked(draft) : draft.asked[u].options = <<yes, no>>
      [] turn = "questions" -> \A u \in Asked(draft) : draft.asked[u] = [text |-> "asked", options |-> <<yes, no>>]

MCInit == Init /\ turn \in Turns
MCNext == UNCHANGED turn /\ Next /\ InTurn'
MCSpec == MCInit /\ [][MCNext]_<<vars, turn>>
=============================================================================
