-------------------------- MODULE MCPublishingTurns --------------------------
(* Instances of Publishing that a run takes in turn: publications and       *)
(* evictions; the account's style saved over and over; refreshes beside     *)
(* three wordings; and one request at a time beside the account's           *)
(* translators.  None of them tells one request from another.               *)
EXTENDS MCPublishing

CONSTANT Turns

VARIABLE instance

Pictures == INSTANCE Publishing WITH
    Body <- {EmptyBody, b1}, Lang <- {}, Optional <- {}, MaxStamp <- 1
AccountPictures == INSTANCE Publishing WITH
    Body <- {EmptyBody}, Lang <- {}, Optional <- {}, MaxVersions <- 0
Refreshes == INSTANCE Publishing WITH
    Picture <- {pic1}, Look <- Looks1, Body <- {EmptyBody, b1}, Lang <- {},
    Optional <- {}, MaxStamp <- 2
Languages == INSTANCE Publishing WITH
    Picture <- {pic1}, Look <- Looks1, Body <- {EmptyBody, b1}, MaxStamp <- 2

OneAtATime == Cardinality({r \in Request : req'[r] # Idle}) <= 1

MCInit == Init /\ instance \in Turns

MCNext ==
    /\ \/ instance = "pictures" /\ Pictures!Next
       \/ instance = "account" /\ AccountPictures!Next
       \/ instance = "refreshes" /\ Refreshes!Next
       \/ instance = "languages" /\ Languages!Next /\ OneAtATime
    /\ UNCHANGED instance

MCSpec == MCInit /\ [][MCNext]_<<vars, instance>>

=============================================================================
