---------------------------- MODULE PicturePurge ----------------------------
(***************************************************************************)
(* The nightly purge (internal/purge) beside the requests of Publishing:   *)
(* the part of its transaction that removes the old pictures of styles     *)
(* that nothing shows any more, a survey's and then the account's.         *)
(*                                                                         *)
(* Each of its two statements sees the rows as they were committed when    *)
(* the statement began, and asks for the hold of a survey, or of the       *)
(* account's style, one old picture at a time as it goes.  It waits for    *)
(* nobody: what a request holds is left for the next run.                  *)
(***************************************************************************)
EXTENDS Publishing

VARIABLES
    aged,        \* each survey's pictures stored for longer than UnusedImageWindow
    agedGallery, \* the account's
    purge        \* where the purge is, and what its statement saw

purging == <<aged, agedGallery, purge>>
allVars == <<vars, purging>>

\* todo, unused: the old pictures still to be looked at, and those that
\* nothing showed when the statement began.  doomed: the survey's pictures
\* it deletes; discarded: the account's.
Off == [pc |-> "off", todo |-> {}, unused |-> {}, doomed |-> {}, discarded |-> {}]

Owned == Survey \X Picture

PurgeTypeOK ==
    /\ TypeOK
    /\ aged \in [Survey -> SUBSET Picture]
    /\ agedGallery \in SUBSET Picture
    /\ purge \in {Off}
          \cup [pc : {"surveys"}, todo : SUBSET Owned, unused : SUBSET Owned,
                doomed : SUBSET Owned, discarded : {{}}]
          \cup [pc : {"account"}, todo : SUBSET Picture, unused : SUBSET Picture,
                doomed : SUBSET Owned, discarded : SUBSET Picture]

PurgeInit ==
    /\ Init
    /\ aged = [s \in Survey |-> {}]
    /\ agedGallery = {}
    /\ purge = Off

\* A picture that is removed and stored again is a new row, with an age of
\* its own.
Forget ==
    /\ aged' = [s \in Survey |-> aged[s] \cap pictures'[s]]
    /\ agedGallery' = agedGallery \cap gallery'

\* A week goes by, which no transaction takes.
Age ==
    /\ purge.pc = "off"
    /\ \A r \in Request : req[r].pc \in {"idle", "asked"}
    /\ aged' = pictures
    /\ agedGallery' = gallery
    /\ UNCHANGED <<vars, purge>>

-----------------------------------------------------------------------------

\* Fault: a survey's copy of one of the account's pictures is taken to be
\* in use.
UnusedByAccountEither(s) ==
    aged[s] \ (ShownBy(s) \cup OwnPictures(draft[s]) \cup gallery)

\* What unused_style_images finds no version and no draft to show.
OldAndUnused(s) == aged[s] \ (ShownBy(s) \cup OwnPictures(draft[s]))

\* The statement on the surveys' pictures begins.
PurgeSurveys ==
    /\ purge.pc = "off"
    /\ purge' = [pc |-> "surveys",
                 todo |-> UNION {{s} \X aged[s] : s \in Survey},
                 unused |-> UNION {{s} \X OldAndUnused(s) : s \in Survey},
                 doomed |-> {}, discarded |-> {}]
    /\ UNCHANGED <<vars, aged, agedGallery>>

\* Fault: whoever holds the survey is not asked about.
FreeForPurgeAnyway(h) == TRUE

\* FOR NO KEY UPDATE SKIP LOCKED: a row somebody holds is passed by.
FreeForPurge(h) == h \in {NoOne, Job}

\* One old picture of a survey.  Where the survey is free it is held until
\* the purge ends; the database may ask for the hold of a picture that is
\* in use as well.  A picture gone since is passed by.
PurgeSurveyPicture(s, p) ==
    /\ purge.pc = "surveys"
    /\ <<s, p>> \in purge.todo
    /\ \/ /\ FreeForPurge(holder[s])
          /\ holder' = [holder EXCEPT ![s] = Job]
          /\ purge' = [purge EXCEPT
                         !.todo = @ \ {<<s, p>>},
                         !.doomed = @ \cup (purge.unused \cap {<<s, p>>}
                                              \cap ({s} \X aged[s]))]
       \/ /\ ~FreeForPurge(holder[s]) \/ <<s, p>> \notin purge.unused
          /\ purge' = [purge EXCEPT !.todo = @ \ {<<s, p>>}]
          /\ UNCHANGED holder
    /\ UNCHANGED <<rows, sharers, keeper, req, aged, agedGallery>>

\* The statement on the account's pictures begins.
PurgeAccount ==
    /\ purge.pc = "surveys" /\ purge.todo = {}
    /\ purge' = [pc |-> "account", todo |-> agedGallery,
                 unused |-> agedGallery \ Shows(account.look),
                 doomed |-> purge.doomed, discarded |-> {}]
    /\ UNCHANGED <<vars, aged, agedGallery>>

PurgeAccountPicture(p) ==
    /\ purge.pc = "account"
    /\ p \in purge.todo
    /\ \/ /\ account.row /\ FreeForPurge(keeper) /\ sharers = {}
          /\ keeper' = Job
          /\ purge' = [purge EXCEPT
                         !.todo = @ \ {p},
                         !.discarded = @ \cup (purge.unused \cap {p} \cap agedGallery)]
       \/ /\ \/ ~(account.row /\ FreeForPurge(keeper) /\ sharers = {})
             \/ p \notin purge.unused
          /\ purge' = [purge EXCEPT !.todo = @ \ {p}]
          /\ UNCHANGED keeper
    /\ UNCHANGED <<rows, holder, sharers, req, aged, agedGallery>>

\* Fault: the account's style stays held.
PurgeReleasesSurveys ==
    /\ holder' = [s \in Survey |-> IF holder[s] = Job THEN NoOne ELSE holder[s]]
    /\ purge' = Off
    /\ UNCHANGED <<sharers, keeper>>

PurgeReleases ==
    /\ holder' = [s \in Survey |-> IF holder[s] = Job THEN NoOne ELSE holder[s]]
    /\ keeper' = IF keeper = Job THEN NoOne ELSE keeper
    /\ purge' = Off
    /\ UNCHANGED sharers

PurgeCommits ==
    /\ purge.pc = "account" /\ purge.todo = {}
    /\ pictures' = [s \in Survey |-> {p \in pictures[s] : <<s, p>> \notin purge.doomed}]
    /\ gallery' = gallery \ purge.discarded
    /\ PurgeReleases
    /\ Forget
    /\ UNCHANGED <<draft, versions, status, account, req>>

\* A dry run ends this way once it has gone through every step; a run that
\* fails, or whose process dies, does so anywhere.
PurgeRollsBack ==
    /\ purge.pc # "off"
    /\ PurgeReleases
    /\ UNCHANGED <<rows, req, aged, agedGallery>>

-----------------------------------------------------------------------------

PurgeStep ==
    \/ PurgeSurveys \/ PurgeAccount \/ PurgeCommits
    \/ \E s \in Survey, p \in Picture : PurgeSurveyPicture(s, p)
    \/ \E p \in Picture : PurgeAccountPicture(p)

PurgeNext ==
    \/ Next /\ Forget /\ UNCHANGED purge
    \/ PurgeStep
    \/ PurgeRollsBack
    \/ Age

PurgeSpec == PurgeInit /\ [][PurgeNext]_allVars

\* The purge runs every night and goes on while nothing interrupts it, and
\* from some night on nothing does.
PurgeFairness ==
    /\ WF_allVars(PurgeStep)
    /\ <>[][PurgeRollsBack => PurgeCommits]_allVars

FairPurgeSpec == PurgeSpec /\ Fairness /\ PurgeFairness

-----------------------------------------------------------------------------

\* The pictures a version is about to show are stored for its survey when
\* it appears, though the purge may be half-way through them: it takes
\* none away from a survey that is being published ("A survey whose style
\* is being saved or published at this moment is held and is skipped").
PublishesWhatIsStored ==
    \A r \in Request :
        req[r].pc = "publishing" => Shows(req[r].version.look) \subseteq StoredBy(r)

\* "short enough that replaced uploads do not pile up": a picture old
\* enough that nothing shows, of a survey nobody keeps busy, is removed by
\* some night's run (UnusedImageWindow, ADR-0018).
UnusedPicturesGo ==
    \A s \in Survey, p \in Picture :
        ~<>[](/\ p \in aged[s] \ (ShownBy(s) \cup OwnPictures(draft[s]))
              /\ holder[s] \notin Request)

\* Whom a request waits for: who holds its survey; who holds the account's
\* style, which it is about to share; or who shares it, which it is about to
\* hold.
WaitsFor(r) ==
    (CASE req[r].pc = "waiting" -> {holder[req[r].job.at]}
       [] req[r].pc = "held"    -> {keeper}
       [] req[r].pc = "account" -> {keeper} \cup sharers
       [] OTHER                 -> {}) \ {NoOne}

HasRows(r) == req[r].pc \in {"held", "saving", "publishing", "keeping"}

\* Whoever is waited for is in a transaction that goes on to an end, and no
\* requests wait for each other in a ring, through whatever row and beside
\* the purge, which waits for nobody: a survey is held before the account's
\* style, and who holds the account's style asks for no survey
\* (LockSurveyForStyle, LockWorkspaceStyle, "SKIP LOCKED").
NoDeadlock ==
    /\ \A r \in Request : \A q \in WaitsFor(r) :
          IF q = Job THEN purge.pc # "off" ELSE HasRows(q)
    /\ \A R \in (SUBSET Request) \ {{}} : \E r \in R : WaitsFor(r) \cap R = {}

=============================================================================
