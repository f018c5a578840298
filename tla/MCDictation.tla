---------------------------- MODULE MCDictation ----------------------------
(***************************************************************************)
(* Dictation for TLC, in turns: one take on a connection that may be lost, *)
(* with words spoken and a respondent who types; two takes, which may      *)
(* overlap, silent ones on connections that hold once they are open; or    *)
(* two silent takes one after the other, on connections that may be lost,  *)
(* with the card in view and consent given.                                *)
(***************************************************************************)
EXTENDS Dictation

VARIABLE turn

MCVars == <<vars, turn>>

MCInit == Init /\ turn \in {"one", "beside", "after"} /\ (turn = "after" => engine = "server")

\* What a turn leaves to the other one: steps of the respondent, or a fault.
InTurn ==
    \/ /\ turn = "one"
       /\ \A t \in Takes \ {1} : take'[t].phase = "unused"
    \/ /\ turn \in {"beside", "after"}
       /\ turn = "beside" => lost' = 0
       /\ turn = "after" => ~overlapped' /\ ~card'.collapsed /\ card'.dialogs = 0
       /\ Typed(answer') = <<>>
       /\ \A t \in Takes : take'[t].words = 0

MCNext == Next /\ InTurn /\ UNCHANGED turn

MCSpec == MCInit /\ [][MCNext]_MCVars /\ Fairness
=============================================================================
