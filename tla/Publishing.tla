----------------------------- MODULE Publishing -----------------------------
(***************************************************************************)
(* Drafts, published versions and the pictures of their style: what        *)
(* internal/store keeps of a workspace's surveys (surveys.go, style.go),   *)
(* of its account style (workspace_style.go) and of the offer to apply     *)
(* that style to the open surveys (account_refresh.go), with the handlers  *)
(* of internal/http that load a draft, change it and save it.              *)
(*                                                                         *)
(* Every request is a process.  A transaction takes effect when it         *)
(* commits; what it computed from the rows it read is kept in the request  *)
(* until then, so that another request, or another commit, may fall in     *)
(* between wherever no row lock prevents it.                               *)
(***************************************************************************)
EXTENDS Naturals, Sequences, FiniteSets

CONSTANTS
    Survey,              \* the surveys of one workspace
    Request,             \* the requests in flight at once
    Picture,             \* pictures, by the hash of their bytes
    Part,                \* the parts of a style that carry pictures and words
    Optional,            \* the parts a survey may turn off (header, footer)
    Look,                \* what a part may be: the set of pictures it shows
    Body,                \* questions and thank you page, as written
    EmptyBody,           \* a draft without a question
    Lang,                \* languages a survey is translated into
    MaxSurveyImages,     \* pictures stored for one survey
    MaxWorkspaceImages,  \* pictures stored for the account
    Follow,              \* an own part that is left to the account
    NoOne,               \* the holder of a row nobody holds
    Job,                 \* the nightly purge, which may hold rows too
    MaxVersions,         \* bound: versions of one survey
    MaxStamp             \* bound: changes of the account's style

ASSUME PartsAssumption == Optional \subseteq Part
ASSUME LooksAssumption == /\ IsFiniteSet(Picture)
                          /\ Look \subseteq SUBSET Picture
                          /\ {} \in Look
                          /\ Follow \notin Look
ASSUME BodyAssumption == EmptyBody \in Body
ASSUME LimitsAssumption == /\ MaxSurveyImages \in Nat
                           /\ MaxWorkspaceImages \in Nat
                           /\ MaxVersions \in Nat
                           /\ MaxStamp \in Nat
ASSUME HoldersAssumption == /\ NoOne \notin Request
                            /\ Job \notin Request
                            /\ NoOne # Job

VARIABLES
    draft,      \* survey_drafts: each survey's working copy
    versions,   \* survey_versions: each survey's published versions, in order
    pictures,   \* survey_images: the pictures stored for each survey
    status,     \* whether each survey is open, closed or soft-deleted
    account,    \* workspace_styles: the account's style and its translations
    gallery,    \* workspace_images: the pictures stored for the account
    holder,     \* who holds each survey's row (LockSurveyForStyle)
    sharers,    \* who shares the account style's row (ShareWorkspaceStyle)
    keeper,     \* who holds the account style's row (LockWorkspaceStyle)
    req         \* each request: where its handler is and what it has read

rows == <<draft, versions, pictures, status, account, gallery>>
locks == <<holder, sharers, keeper>>
vars == <<draft, versions, pictures, status, account, gallery,
          holder, sharers, keeper, req>>

-----------------------------------------------------------------------------
(* Styles.                                                                 *)

Style == [Part -> Look]
NoStyle == [p \in Part |-> {}]

\* A part that the survey made its own holds its look; a part it follows
\* holds Follow.  off names the parts it shows nothing of.  langs are the
\* languages it is translated into, read those whose translation of the
\* survey's own words the creator has read against the current wording.
Draft == [body : Body, own : [Part -> Look \cup {Follow}], off : SUBSET Optional,
          langs : SUBSET Lang, read : SUBSET Lang]

Version == [number : Nat \ {0}, body : Body, look : Style,
            follows : SUBSET Part, langs : SUBSET Lang]

\* read[l][p] is the look of part p whose words were translated into l and
\* read.  An empty part has no words, so {} also says "never translated".
Account == [row : BOOLEAN, look : Style, read : [Lang -> Style], stamp : Nat]

Shows(style) == UNION {style[p] : p \in Part}

OwnPictures(d) == UNION {d.own[p] : p \in {q \in Part : d.own[q] # Follow}}

FollowedParts(d) == {p \in Part : d.own[p] = Follow /\ p \notin d.off}

FormStyle(d, style) ==
    [p \in Part |-> IF d.own[p] = Follow THEN style[p] ELSE d.own[p]]

ResolvedStyle(d, style) ==
    [p \in Part |-> IF p \in d.off THEN {} ELSE FormStyle(d, style)[p]]

\* The words of these parts still need translating, or reading, in l.
PendingFor(acct, l, parts) ==
    \E p \in parts : acct.look[p] # {} /\ acct.read[l][p] # acct.look[p]

BlockedIn(d, acct) == {l \in d.langs : PendingFor(acct, l, FollowedParts(d))}

ReadyToPublish(d, acct) == d.langs \subseteq d.read /\ BlockedIn(d, acct) = {}

\* The draft a version would be published again from: its own parts kept,
\* the parts it took from the account left to the account.
DraftOf(v) ==
    LET off == {p \in Optional \ v.follows : v.look[p] = {}}
    IN  [body |-> v.body,
         own |-> [p \in Part |-> IF p \in v.follows \cup off THEN Follow ELSE v.look[p]],
         off |-> off, langs |-> v.langs, read |-> v.langs]

Freeze(d, acct, n) ==
    [number |-> n, body |-> d.body, look |-> ResolvedStyle(d, acct.look),
     follows |-> FollowedParts(d), langs |-> d.langs]

Live(s) == versions[s][Len(versions[s])]

UnpublishedChanges(s, d, acct) ==
    versions[s] # <<>> => \/ Live(s).body # d.body
                          \/ Live(s).look # ResolvedStyle(d, acct.look)

-----------------------------------------------------------------------------
(* The pictures stored for a survey.                                       *)

ShownBy(s) == UNION {Shows(versions[s][i].look) : i \in DOMAIN versions[s]}

\* Fault: only the draft is asked which pictures it shows.
UnusedByDraft(s, stored, keep) == stored \ (keep \cup OwnPictures(draft[s]))

Unused(s, stored, keep) ==
    stored \ (keep \cup ShownBy(s) \cup OwnPictures(draft[s]))

\* What a survey that stores `stored` stores once it is given `new`: at its
\* limit it first loses what nothing shows, never a picture in keep.
WithRoom(s, stored, keep, new) ==
    IF Cardinality(stored \cup new) > MaxSurveyImages
    THEN (stored \ Unused(s, stored, keep)) \cup new
    ELSE stored \cup new

\* The survey's pictures once it has copies of the account's among keep.
WithCopies(s, stored, keep) ==
    WithRoom(s, stored, keep, (gallery \cap keep) \ stored)

\* Fault: what made no room is stored all the same.
FitsAnyway(stored) == TRUE

Fits(stored) == Cardinality(stored) <= MaxSurveyImages

\* The account's own, by the same rules (saveWorkspaceImage).
GalleryWith(keep, new) ==
    IF Cardinality(gallery \cup new) > MaxWorkspaceImages
    THEN (gallery \cap (keep \cup Shows(account.look))) \cup new
    ELSE gallery \cup new

-----------------------------------------------------------------------------
(* Requests.                                                               *)

Idle == [pc |-> "idle"]

StyleJob == [op : {"style"}, at : Survey, draft : Draft, uploads : SUBSET Picture]
PublishJob == [op : {"publish"}, at : Survey]
RefreshJob == [op : {"refresh"}, at : Survey, asked : Nat, todo : SUBSET Survey]
SurveyJob == StyleJob \cup PublishJob \cup RefreshJob

Editing == [pc : {"editing"}, at : Survey, draft : Draft]
Asked == [pc : {"asked"}, stamp : Nat]
Waiting == [pc : {"waiting", "held"}, job : SurveyJob]
Saving == [pc : {"saving"}, job : StyleJob, add : SUBSET Picture, drop : SUBSET Picture]
Appearing == [pc : {"publishing"}, job : PublishJob \cup RefreshJob, version : Version,
              shared : BOOLEAN, add : SUBSET Picture, drop : SUBSET Picture]
Submitted == [pc : {"account"}, look : Style, uploads : SUBSET Picture]
Keeping == [pc : {"keeping"}, look : Style, add : SUBSET Picture, drop : SUBSET Picture]

Req ==
         {Idle}
    \cup Editing \cup Asked \cup Waiting \cup Saving \cup Appearing
    \cup Submitted \cup Keeping

TypeOK ==
    /\ draft \in [Survey -> Draft]
    /\ versions \in [Survey -> Seq(Version)]
    /\ pictures \in [Survey -> SUBSET Picture]
    /\ status \in [Survey -> {"open", "closed", "deleted"}]
    /\ account \in Account
    /\ gallery \in SUBSET Picture
    /\ holder \in [Survey -> Request \cup {NoOne, Job}]
    /\ sharers \in SUBSET Request
    /\ keeper \in Request \cup {NoOne, Job}
    /\ req \in [Request -> Req]

NewDraft == [body |-> EmptyBody, own |-> [p \in Part |-> Follow], off |-> {},
             langs |-> {}, read |-> {}]

\* Surveys just created, in a workspace with no account style.
Init ==
    /\ draft = [s \in Survey |-> NewDraft]
    /\ versions = [s \in Survey |-> <<>>]
    /\ pictures = [s \in Survey |-> {}]
    /\ status = [s \in Survey |-> "open"]
    /\ account = [row |-> FALSE, look |-> NoStyle,
                  read |-> [l \in Lang |-> NoStyle], stamp |-> 0]
    /\ gallery = {}
    /\ holder = [s \in Survey |-> NoOne]
    /\ sharers = {}
    /\ keeper = NoOne
    /\ req = [r \in Request |-> Idle]

Goes(r, to) == req' = [req EXCEPT ![r] = to]

\* Fault: the account style's row is kept until somebody ends the session.
ReleaseSurveyOnly(r, s) ==
    /\ holder' = [holder EXCEPT ![s] = NoOne]
    /\ UNCHANGED <<sharers, keeper>>

\* The end of a transaction on a survey: its row, and the account style's,
\* are let go.
Release(r, s) ==
    /\ holder' = [holder EXCEPT ![s] = NoOne]
    /\ sharers' = sharers \ {r}
    /\ UNCHANGED keeper

-----------------------------------------------------------------------------
(* The draft: load, change, save (no row is held in between).              *)

LoadForEdit(r, s) ==
    /\ req[r].pc = "idle"
    /\ status[s] # "deleted"
    /\ Goes(r, [pc |-> "editing", at |-> s, draft |-> draft[s]])
    /\ UNCHANGED <<rows, locks>>

\* SaveDraft writes the whole structure back, the style it loaded included.
SaveDraft(r) ==
    /\ req[r].pc = "editing"
    /\ \E b \in Body, langs \in SUBSET Lang : \E read \in SUBSET langs :
          draft' = [draft EXCEPT ![req[r].at] =
                      [req[r].draft EXCEPT !.body = b, !.langs = langs, !.read = read]]
    /\ Goes(r, Idle)
    /\ UNCHANGED <<versions, pictures, status, account, gallery, locks>>

\* Fault: a person may send a second Style form while one is handled.
StyleFormsAtWill == TRUE

\* styleSavers: a person has one Style form handled at a time, the
\* survey's or the account's, and a workspace has one person.
StyleFormFree ==
    \A r \in Request :
        /\ req[r].pc \notin {"account", "keeping"}
        /\ req[r].pc \in {"waiting", "held", "saving"} => req[r].job.op # "style"

\* The Style tab.  A part of the submitted style that is the account's as
\* it was read is followed; any other becomes the survey's own.  A picture
\* of the style that was not there before comes with the form; one that
\* was may be kept by its hash alone, or come again.
SubmitStyle(r, s) ==
    /\ req[r].pc = "idle"
    /\ StyleFormFree
    /\ status[s] # "deleted"
    /\ \E submitted \in Style, off \in SUBSET Optional, uploads \in SUBSET Picture :
          LET d == [draft[s] EXCEPT
                      !.own = [p \in Part |-> IF submitted[p] = account.look[p]
                                              THEN Follow ELSE submitted[p]],
                      !.off = off]
          IN  /\ Shows(submitted) \ Shows(FormStyle(draft[s], account.look)) \subseteq uploads
              /\ uploads \subseteq OwnPictures(d)
              /\ \E read \in SUBSET d.langs :
                   Goes(r, [pc |-> "waiting",
                            job |-> [op |-> "style", at |-> s, uploads |-> uploads,
                                     draft |-> [d EXCEPT !.read = read]]])
    /\ UNCHANGED <<rows, locks>>

\* "Reset to account style" reads no field of the form.
SubmitReset(r, s) ==
    /\ req[r].pc = "idle"
    /\ StyleFormFree
    /\ status[s] # "deleted"
    /\ Goes(r, [pc |-> "waiting",
                job |-> [op |-> "style", at |-> s, uploads |-> {},
                         draft |-> [draft[s] EXCEPT !.own = NewDraft.own, !.off = {}]]])
    /\ UNCHANGED <<rows, locks>>

SubmitPublish(r, s) ==
    /\ req[r].pc = "idle"
    /\ status[s] # "deleted"
    /\ Goes(r, [pc |-> "waiting", job |-> [op |-> "publish", at |-> s]])
    /\ UNCHANGED <<rows, locks>>

-----------------------------------------------------------------------------
(* A transaction on a survey: hold the survey, then share the account's    *)
(* style and work out the change, then commit.                             *)

\* Fault: the survey is read, not held.
HoldWithoutWaiting(r) ==
    /\ req[r].pc = "waiting"
    /\ holder' = [holder EXCEPT ![req[r].job.at] = r]
    /\ Goes(r, [pc |-> "held", job |-> req[r].job])
    /\ UNCHANGED <<rows, sharers, keeper>>

Hold(r) ==
    /\ req[r].pc = "waiting"
    /\ holder[req[r].job.at] = NoOne
    /\ holder' = [holder EXCEPT ![req[r].job.at] = r]
    /\ Goes(r, [pc |-> "held", job |-> req[r].job])
    /\ UNCHANGED <<rows, sharers, keeper>>

\* Fault: the account's style is read with no hold on it.
ReadOnly(r) == UNCHANGED sharers

\* The account style's row is shared, if there is one to share.
Share(r) == sharers' = IF account.row THEN sharers \cup {r} ELSE sharers

\* SaveStyle: the pictures the form brought, then copies of the account's.
SaveStyle(r) ==
    LET s == req[r].job.at
        keep == OwnPictures(req[r].job.draft)
        brought == WithRoom(s, pictures[s], keep, req[r].job.uploads \ pictures[s])
        stored == WithCopies(s, brought, keep)
    IN  /\ req[r].pc = "held" /\ req[r].job.op = "style"
        /\ keeper = NoOne
        /\ \/ /\ Fits(brought) /\ Fits(stored)
              /\ Share(r)
              /\ Goes(r, [pc |-> "saving", job |-> req[r].job,
                          add |-> stored \ pictures[s], drop |-> pictures[s] \ stored])
              /\ UNCHANGED <<holder, keeper>>
           \/ /\ ~(Fits(brought) /\ Fits(stored))
              /\ Goes(r, Idle)
              /\ Release(r, s)
        /\ UNCHANGED rows

CommitStyle(r) ==
    LET s == req[r].job.at
    IN  /\ req[r].pc = "saving"
        /\ pictures' = [pictures EXCEPT ![s] = (@ \ req[r].drop) \cup req[r].add]
        /\ draft' = [draft EXCEPT ![s] = req[r].job.draft]
        /\ Goes(r, Idle)
        /\ Release(r, s)
        /\ UNCHANGED <<versions, status, account, gallery>>

\* publishResolved, up to its commit: the pictures the resolved style
\* shows are copied from the account, and all of them must be stored.
PublishResolved(r, d) ==
    LET s == req[r].job.at
        shown == Shows(ResolvedStyle(d, account.look))
        stored == WithCopies(s, pictures[s], shown)
    IN  /\ Fits(stored)
        /\ shown \subseteq stored
        /\ Share(r)
        /\ Goes(r, [pc |-> "publishing", job |-> req[r].job,
                    version |-> Freeze(d, account, Len(versions[s]) + 1),
                    shared |-> account.row,
                    add |-> stored \ pictures[s], drop |-> pictures[s] \ stored])
        /\ UNCHANGED <<holder, keeper>>

PicturesRefused(s, d) ==
    LET shown == Shows(ResolvedStyle(d, account.look))
        stored == WithCopies(s, pictures[s], shown)
    IN  ~Fits(stored) \/ ~(shown \subseteq stored)

\* The bound on versions; beyond it a publication fails like any other write.
Numbered(s) == Len(versions[s]) < MaxVersions

Publishable(d) == d.body # EmptyBody /\ ReadyToPublish(d, account)

Publish(r) ==
    LET s == req[r].job.at
    IN  /\ req[r].pc = "held" /\ req[r].job.op = "publish"
        /\ keeper = NoOne
        /\ Numbered(s)
        /\ Publishable(draft[s])
        /\ UnpublishedChanges(s, draft[s], account)
        /\ PublishResolved(r, draft[s])
        /\ UNCHANGED rows

\* The draft may not go out: no question, an unread translation, a picture
\* missing or without room.
PublishRefused(r) ==
    LET s == req[r].job.at
    IN  /\ req[r].pc = "held" /\ req[r].job.op = "publish"
        /\ keeper = NoOne
        /\ \/ ~Publishable(draft[s])
           \/ /\ UnpublishedChanges(s, draft[s], account)
              /\ PicturesRefused(s, draft[s]) \/ ~Numbered(s)
        /\ Goes(r, Idle)
        /\ Release(r, s)
        /\ UNCHANGED rows

\* ErrNothingToPublish: "The draft matches the live version."
NothingToPublish(r) ==
    LET s == req[r].job.at
    IN  /\ req[r].pc = "held" /\ req[r].job.op = "publish"
        /\ keeper = NoOne
        /\ Publishable(draft[s])
        /\ ~UnpublishedChanges(s, draft[s], account)
        /\ Goes(r, Idle)
        /\ Release(r, s)
        /\ UNCHANGED rows

-----------------------------------------------------------------------------
(* Applying the account's style to the open surveys.                       *)

\* The page that asks carries which account style it asked about.
AskToApply(r) ==
    /\ req[r].pc = "idle"
    /\ account.row
    /\ Goes(r, [pc |-> "asked", stamp |-> account.stamp])
    /\ UNCHANGED <<rows, locks>>

\* On to the next survey of the request, or to its end.
NextRefresh(r, asked, todo) ==
    \/ todo = {} /\ Goes(r, Idle)
    \/ \E s \in todo : Goes(r, [pc |-> "waiting",
                                job |-> [op |-> "refresh", at |-> s, asked |-> asked,
                                         todo |-> todo \ {s}]])

RefreshFromAccount(r) ==
    /\ req[r].pc = "asked"
    /\ \/ /\ account.stamp = req[r].stamp
          /\ \E todo \in SUBSET Survey : NextRefresh(r, req[r].stamp, todo)
       \/ account.stamp # req[r].stamp /\ Goes(r, Idle)
    /\ UNCHANGED <<rows, locks>>

\* Fault: the survey's working copy goes out with the account's style.
RedrawnDraft(s) == draft[s]

\* What a refresh publishes again: the live version, not the draft.
Redrawn(s) == DraftOf(Live(s))

\* Fault: the account style asked about is checked only when the request
\* starts.
RefreshableStill(s, asked) ==
    /\ status[s] = "open"
    /\ versions[s] # <<>>
    /\ Live(s).follows # {}
    /\ Live(s).look # ResolvedStyle(Redrawn(s), account.look)

\* The survey can be drawn in the account's style as the creator was shown
\* it: it is still open, and its live version would change.
Refreshable(s, asked) ==
    /\ account.stamp = asked
    /\ status[s] = "open"
    /\ versions[s] # <<>>
    /\ Live(s).follows # {}
    /\ Live(s).look # ResolvedStyle(Redrawn(s), account.look)

RefreshOne(r) ==
    LET s == req[r].job.at
        d == Redrawn(s)
    IN  /\ req[r].pc = "held" /\ req[r].job.op = "refresh"
        /\ keeper = NoOne
        /\ Numbered(s)
        /\ Refreshable(s, req[r].job.asked)
        /\ ReadyToPublish(d, account)
        /\ PublishResolved(r, d)
        /\ UNCHANGED rows

\* Left alone, or held back by a language or its pictures: the next survey
\* of the request, unless the account's style has changed under it.
RefreshSkipped(r) ==
    LET s == req[r].job.at
        d == Redrawn(s)
    IN  /\ req[r].pc = "held" /\ req[r].job.op = "refresh"
        /\ keeper = NoOne
        /\ ~(/\ Refreshable(s, req[r].job.asked)
             /\ ReadyToPublish(d, account)
             /\ ~PicturesRefused(s, d)
             /\ Numbered(s))
        /\ IF account.stamp # req[r].job.asked
           THEN Goes(r, Idle)
           ELSE NextRefresh(r, req[r].job.asked, req[r].job.todo)
        /\ Release(r, s)
        /\ UNCHANGED rows

CommitVersion(r) ==
    LET s == req[r].job.at
    IN  /\ req[r].pc = "publishing"
        /\ versions' = [versions EXCEPT ![s] = Append(@, req[r].version)]
        /\ pictures' = [pictures EXCEPT ![s] = (@ \ req[r].drop) \cup req[r].add]
        /\ IF req[r].job.op = "refresh"
           THEN NextRefresh(r, req[r].job.asked, req[r].job.todo)
           ELSE Goes(r, Idle)
        /\ Release(r, s)
        /\ UNCHANGED <<draft, status, account, gallery>>

-----------------------------------------------------------------------------
(* The account's style.                                                    *)

SubmitAccountStyle(r) ==
    /\ req[r].pc = "idle"
    /\ StyleFormFree
    /\ account.stamp < MaxStamp
    /\ \E style \in Style, uploads \in SUBSET Picture :
          /\ Shows(style) \ Shows(account.look) \subseteq uploads
          /\ uploads \subseteq Shows(style)
          /\ Goes(r, [pc |-> "account", look |-> style, uploads |-> uploads])
    /\ UNCHANGED <<rows, locks>>

\* The row is made if there is none, and held while pictures and style
\* change together.
HoldAccountStyle(r) ==
    LET stored == GalleryWith(Shows(req[r].look), req[r].uploads \ gallery)
    IN  /\ req[r].pc = "account"
        /\ keeper = NoOne /\ sharers = {}
        /\ \/ /\ Cardinality(stored) <= MaxWorkspaceImages
              /\ account.stamp < MaxStamp
              /\ keeper' = r
              /\ Goes(r, [pc |-> "keeping", look |-> req[r].look,
                          add |-> stored \ gallery, drop |-> gallery \ stored])
           \/ /\ \/ Cardinality(stored) > MaxWorkspaceImages
                 \/ account.stamp >= MaxStamp
              /\ Goes(r, Idle)
              /\ UNCHANGED keeper
        /\ UNCHANGED <<rows, holder, sharers>>

CommitAccountStyle(r) ==
    /\ req[r].pc = "keeping"
    /\ gallery' = (gallery \ req[r].drop) \cup req[r].add
    /\ account' = [row |-> TRUE, look |-> req[r].look, read |-> account.read,
                   stamp |-> account.stamp + 1]
    /\ keeper' = NoOne
    /\ Goes(r, Idle)
    /\ UNCHANGED <<draft, versions, pictures, status, holder, sharers>>

\* The account's words in a language, read afresh under the row's hold:
\* saved as read, drafted unread, or removed.
SaveWorkspaceStyleTranslation(l) ==
    /\ account.row
    /\ keeper = NoOne /\ sharers = {}
    /\ account.stamp < MaxStamp
    /\ \E words \in {account.look, NoStyle} :
          account' = [row |-> account.row, look |-> account.look,
                      read |-> [account.read EXCEPT ![l] = words],
                      stamp |-> account.stamp + 1]
    /\ UNCHANGED <<draft, versions, pictures, status, gallery, locks, req>>

-----------------------------------------------------------------------------
(* The survey's life, and requests that end early.                         *)

\* Closing, reopening and deleting update the survey's row, so they wait
\* for whoever holds it.
SetStatus(s) ==
    /\ holder[s] = NoOne
    /\ status[s] # "deleted"
    /\ \E new \in {"open", "closed", "deleted"} \ {status[s]} :
          status' = [status EXCEPT ![s] = new]
    /\ UNCHANGED <<draft, versions, pictures, account, gallery, locks, req>>

\* The client goes away, the database refuses, the process dies: the
\* transaction is rolled back and its rows are let go.
Abort(r) ==
    /\ req[r].pc # "idle"
    /\ Goes(r, Idle)
    /\ holder' = [s \in Survey |-> IF holder[s] = r THEN NoOne ELSE holder[s]]
    /\ sharers' = sharers \ {r}
    /\ keeper' = IF keeper = r THEN NoOne ELSE keeper
    /\ UNCHANGED rows

-----------------------------------------------------------------------------

Transaction(r) ==
    \/ Hold(r)
    \/ SaveStyle(r) \/ CommitStyle(r)
    \/ Publish(r) \/ PublishRefused(r) \/ NothingToPublish(r)
    \/ RefreshOne(r) \/ RefreshSkipped(r) \/ CommitVersion(r)
    \/ HoldAccountStyle(r) \/ CommitAccountStyle(r)

Handler(r) ==
    \/ \E s \in Survey : \/ LoadForEdit(r, s) \/ SubmitStyle(r, s)
                         \/ SubmitReset(r, s) \/ SubmitPublish(r, s)
    \/ SaveDraft(r)
    \/ AskToApply(r) \/ RefreshFromAccount(r) \/ SubmitAccountStyle(r)

Next ==
    \/ \E r \in Request : Transaction(r) \/ Handler(r) \/ Abort(r)
    \/ \E l \in Lang : SaveWorkspaceStyleTranslation(l)
    \/ \E s \in Survey : SetStatus(s)

Spec == Init /\ [][Next]_vars

\* Postgres queues those who wait for a row, and a transaction that waits
\* for none goes on; nobody is made to start a request or to save an edit.
Fairness == \A r \in Request : SF_vars(Transaction(r))

FairSpec == Spec /\ Fairness

-----------------------------------------------------------------------------
(* Invariants.                                                             *)

\* Every picture a published version shows is stored for its survey, for
\* good: no later save, eviction or publication takes it away
\* (checkStyleImages, DeleteUnusedSurveyImages; ADR-0018).
VersionPicturesStored == \A s \in Survey : ShownBy(s) \subseteq pictures[s]

\* A survey, and the account, never store more pictures than their limit,
\* though each save counts them before it adds its own (ensureSurveyImages,
\* saveImage, saveWorkspaceImage).
PicturesWithinLimit ==
    /\ \A s \in Survey : Cardinality(pictures[s]) <= MaxSurveyImages
    /\ Cardinality(gallery) <= MaxWorkspaceImages

\* The account's style refers only to pictures the account stores, though
\* the form that keeps a picture by its hash is read before the account's
\* row is held (SaveWorkspaceStyle: "the style never refers to a picture
\* that is not stored").
AccountPicturesStored == Shows(account.look) \subseteq gallery

\* A draft refers only to pictures its survey stores (SaveStyle: "so a
\* draft never refers to a picture that is not stored").
DraftPicturesStored == \A s \in Survey : OwnPictures(draft[s]) \subseteq pictures[s]

-----------------------------------------------------------------------------
(* Why they hold: what a transaction worked out before its commit is still *)
(* right when it commits, since it holds the rows it was worked out from.  *)

StoredBy(r) == (pictures[req[r].job.at] \ req[r].drop) \cup req[r].add

\* One transaction at a time has a survey's row.
RowsHeld ==
    \A r \in Request :
        req[r].pc \in {"held", "saving", "publishing"} => holder[req[r].job.at] = r

SavesSafely ==
    \A r \in Request :
        req[r].pc \in {"saving", "publishing"} =>
            /\ ShownBy(req[r].job.at) \subseteq StoredBy(r)
            /\ Cardinality(StoredBy(r)) <= MaxSurveyImages

PublishesSafely ==
    \A r \in Request :
        req[r].pc = "publishing" =>
            /\ Shows(req[r].version.look) \subseteq StoredBy(r)
            /\ req[r].version.number = Len(versions[req[r].job.at]) + 1
            /\ versions[req[r].job.at] # <<>> =>
                  \/ req[r].version.body # Live(req[r].job.at).body
                  \/ req[r].version.look # Live(req[r].job.at).look

KeepsSafely ==
    \A r \in Request :
        req[r].pc = "keeping" =>
            /\ keeper = r
            /\ Cardinality((gallery \ req[r].drop) \cup req[r].add) <= MaxWorkspaceImages

\* No commit of another transaction comes between what a transaction on a
\* survey, or on the account's style, read and its own commit
\* (LockSurveyForStyle, LockWorkspaceStyle).
PlansStaySound == RowsHeld /\ SavesSafely /\ PublishesSafely /\ KeepsSafely

-----------------------------------------------------------------------------
(* What a step may never do.                                               *)

Appended(s) == versions'[s] # versions[s]
Last(s) == versions'[s][Len(versions'[s])]
Committing(r, s, op) == /\ req[r].pc = "publishing"
                        /\ req[r].job.op = op /\ req[r].job.at = s
                        /\ req'[r].pc # "publishing"

\* Applying the account's style publishes what the survey already says:
\* the live version's questions, languages and own parts, whatever the
\* draft holds by then (PublishedVersion.Draft, refreshOne).
RefreshChangesOnlyFollowedParts ==
    [][\A s \in Survey, r \in Request :
          Appended(s) /\ Committing(r, s, "refresh") =>
             /\ Last(s).body = Live(s).body
             /\ Last(s).langs = Live(s).langs
             /\ Last(s).follows = Live(s).follows
             /\ \A p \in Part \ Live(s).follows : Last(s).look[p] = Live(s).look[p]]_vars

\* A survey is drawn in no account style but the one its creator was asked
\* about, and only while it is open (RefreshFromAccount's accountUpdatedAt,
\* checked again under the hold of each survey).
RefreshAppliesWhatWasAsked ==
    [][\A s \in Survey, r \in Request :
          Appended(s) /\ Committing(r, s, "refresh") =>
             /\ account.stamp = req[r].job.asked
             /\ status[s] = "open"]_vars

\* Where the account had a style when a publication read it, the version
\* shows that style as it is when the version appears, so nothing is left
\* to apply to it; and every language it goes out in has the words of that
\* style read ("the account's style cannot change between the checks that
\* pass it and the version that freezes it").
AsWhenAppearing(s) ==
    /\ \A p \in Last(s).follows : Last(s).look[p] = account.look[p]
    /\ \A l \in Last(s).langs : ~PendingFor(account, l, Last(s).follows)

FrozenAsItStands ==
    [][\A s \in Survey, r \in Request :
          (/\ Appended(s) /\ req[r].pc = "publishing" /\ req[r].job.at = s
           /\ req[r].shared)
             => AsWhenAppearing(s)]_vars

\* The same, of a workspace whose first account style is being saved.
FrozenAsItStandsAlways == [][\A s \in Survey : Appended(s) => AsWhenAppearing(s)]_vars

\* Adding a language to a survey is publishing it again: once a draft that
\* may go out has a language its live version lacks, a publication of it
\* does not end with nothing to publish (SPEC.md, PLAN.md).
LanguageGoesOut ==
    [][\A s \in Survey, r \in Request :
          (/\ NothingToPublish(r) /\ req[r].job.at = s)
             => draft[s].langs = Live(s).langs]_vars

-----------------------------------------------------------------------------
(* What publishing promises.                                               *)

Content == [body : Body, look : Style]

PicturesOf(c) == Shows(c.look)

Entry(v) == [number |-> v.number, content |-> [body |-> v.body, look |-> v.look]]

\* What respondents were told, version by version.
Told == [s \in Survey |-> [i \in DOMAIN versions[s] |-> Entry(versions[s][i])]]

History == INSTANCE PublishedHistory WITH history <- Told, stored <- pictures

\* Publishing, saving and refreshing, however they interleave, keep an
\* append-only history: nothing is published twice over by two windows or
\* a retry, numbers follow one another, and no version loses a picture
\* (unpublishedChanges, NextVersionNumber and checkStyleImages under
\* LockSurveyForStyle).
ImplementsPublishedHistory == History!Spec

-----------------------------------------------------------------------------
(* What must happen.                                                       *)

InTransaction(r) == req[r].pc \notin {"idle", "editing", "asked"}

\* Whatever rows they wait for, transactions end: no two of them hold what
\* the other needs ("the survey is always held before the account's
\* style, never the other way round").
RequestsEnd ==
    \A r \in Request : InTransaction(r) ~> ~InTransaction(r)

=============================================================================
