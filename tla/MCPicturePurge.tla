--------------------------- MODULE MCPicturePurge ---------------------------
(* Small instances of PicturePurge, in turn: the purge beside one request  *)
(* at a time; and two requests, on nights without one.                     *)
EXTENDS PicturePurge, TLC

CONSTANTS s1, s2, r1, r2, p1, pic1, pic2, empty, b1, Turns

Looks1 == {{}, {pic1}}
Looks2 == {{}, {pic1}, {pic2}}

VARIABLE instance

Nightly == INSTANCE PicturePurge WITH Request <- {r1}, MaxStamp <- 1

MCInit == PurgeInit /\ instance \in Turns

MCNext ==
    /\ \/ instance = "nightly" /\ Nightly!PurgeNext
       \/ instance = "requests" /\ Next /\ UNCHANGED purging
    /\ UNCHANGED instance

MCSpec == MCInit /\ [][MCNext]_<<allVars, instance>>

(* PurgeFairness, where there is a purge.                                  *)
FairMCSpec ==
    /\ MCSpec
    /\ Fairness
    /\ WF_allVars(instance = "nightly" /\ PurgeStep)
    /\ <>[][PurgeRollsBack => PurgeCommits]_allVars

=============================================================================
