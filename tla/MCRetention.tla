---------------------------- MODULE MCRetention ----------------------------
(* Instances of Accounts and of Retention, in turn: anyone may sign up, by *)
(* link or by Google; the beta, by code and password; and one person, whose *)
(* account is made and closed beside the purge.  Nothing tells ids, or     *)
(* requests, from each other.                                              *)
EXTENDS Retention, TLC

CONSTANTS u1, u2, w1, w2, ann, ben, x1, l1, k1, k2, r1, r2, Turns

Symmetric ==
    Permutations(Request) \cup Permutations(Account) \cup Permutations(Space)
        \cup Permutations(Address) \cup Permutations(Code)

VARIABLE instance

Public == INSTANCE Accounts WITH BetaMode <- FALSE, Code <- {}, MaxPassword <- 1
Beta == INSTANCE Accounts WITH BetaMode <- TRUE
Closing == INSTANCE Retention WITH
    Account <- {u1}, Address <- {ann}, Link <- {}, Code <- {}, BetaMode <- FALSE,
    MaxPassword <- 0

\* One request at a time beside a purge.
OneBesideJob == job'.pc # "idle" => Cardinality({r \in Request : req'[r] # Idle}) <= 1

(***************************************************************************)
(* InvitedOnly, of the beta (SignupWithCode, RevokeBetaCode).              *)
(***************************************************************************)
BetaInvitedOnly == instance = "beta" => Beta!InvitedOnly

MCInit == RetentionInit /\ instance \in Turns

MCNext ==
    /\ \/ instance = "open" /\ Public!Next /\ UNCHANGED <<retained, writer, job>>
       \/ instance = "beta" /\ Beta!Next /\ UNCHANGED <<retained, writer, job>>
       \/ instance = "closing" /\ Closing!RetentionNext /\ OneBesideJob
    /\ UNCHANGED instance

MCSpec == MCInit /\ [][MCNext]_<<allVars, instance>>

=============================================================================
