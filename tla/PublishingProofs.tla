-------------------------- MODULE PublishingProofs --------------------------
(***************************************************************************)
(* Proofs about Publishing and PicturePurge, for every workspace, every    *)
(* limit and any number of requests: first the rows, their pictures and    *)
(* their versions; then what a publication and a refresh take from the     *)
(* account's style; last, what remains true beside the nightly purge.      *)
(***************************************************************************)
EXTENDS PicturePurge, FiniteSetTheorems, TLAPS

LEMMA ResolvedIsStyle ==
    ASSUME NEW d \in Draft, NEW style \in Style
    PROVE  /\ FormStyle(d, style) \in Style
           /\ ResolvedStyle(d, style) \in Style
<1>1. FormStyle(d, style) \in Style
  BY DEF FormStyle, Style, Draft
<1>2. QED
  BY <1>1, LooksAssumption DEF ResolvedStyle, Style

LEMMA DraftOfIsDraft ==
    ASSUME NEW v \in Version
    PROVE  DraftOf(v) \in Draft
BY DEF DraftOf, Draft, Version, Style

LEMMA FreezeIsVersion ==
    ASSUME NEW d \in Draft, NEW acct \in Account, NEW n \in Nat
    PROVE  Freeze(d, acct, n + 1) \in Version
<1>1. acct.look \in Style
  BY DEF Account
<1>2. ResolvedStyle(d, acct.look) \in Style
  BY <1>1, ResolvedIsStyle
<1>3. FollowedParts(d) \in SUBSET Part
  BY DEF FollowedParts
<1>4. n + 1 \in Nat \ {0}
  OBVIOUS
<1>5. d.body \in Body /\ d.langs \in SUBSET Lang
  BY DEF Draft
<1>6. QED
  BY <1>2, <1>3, <1>4, <1>5 DEF Freeze, Version

-----------------------------------------------------------------------------
(* Types.                                                                  *)

\* What a request holds, by where it is.
LEMMA RequestForms ==
    ASSUME TypeOK, NEW r \in Request
    PROVE  /\ req[r].pc = "editing" => req[r] \in Editing
           /\ req[r].pc = "asked" => req[r] \in Asked
           /\ req[r].pc \in {"waiting", "held"} => req[r] \in Waiting
           /\ req[r].pc = "saving" => req[r] \in Saving
           /\ req[r].pc = "publishing" => req[r] \in Appearing
           /\ req[r].pc = "account" => req[r] \in Submitted
           /\ req[r].pc = "keeping" => req[r] \in Keeping
<1>1. req[r] \in Req
  BY DEF TypeOK
<1>2. QED
  BY <1>1 DEF Req, Idle, Editing, Asked, Waiting, Saving, Appearing, Submitted, Keeping

LEMMA JobForms ==
    ASSUME NEW j \in SurveyJob
    PROVE  /\ j.at \in Survey
           /\ j.op = "style" => j \in StyleJob
           /\ j.op = "publish" => j \in PublishJob
           /\ j.op = "refresh" => j \in RefreshJob
BY DEF SurveyJob, StyleJob, PublishJob, RefreshJob

LEMMA IdleIsRequest == Idle \in Req
BY DEF Req

LEMMA GoesTyped ==
    ASSUME TypeOK, NEW r \in Request, NEW to \in Req, Goes(r, to)
    PROVE  req' \in [Request -> Req]
BY DEF TypeOK, Goes

LEMMA ReleaseTyped ==
    ASSUME TypeOK, NEW r \in Request, NEW s \in Survey, Release(r, s)
    PROVE  /\ holder' \in [Survey -> Request \cup {NoOne, Job}]
           /\ sharers' \in SUBSET Request
           /\ keeper' \in Request \cup {NoOne, Job}
BY DEF TypeOK, Release

LEMMA NextRefreshTyped ==
    ASSUME TypeOK, NEW r \in Request, NEW asked \in Nat, NEW todo \in SUBSET Survey,
           NextRefresh(r, asked, todo)
    PROVE  req' \in [Request -> Req]
<1>1. CASE todo = {} /\ Goes(r, Idle)
  BY <1>1, IdleIsRequest, GoesTyped
<1>2. ASSUME NEW s \in todo,
             Goes(r, [pc |-> "waiting",
                      job |-> [op |-> "refresh", at |-> s, asked |-> asked,
                               todo |-> todo \ {s}]])
      PROVE  req' \in [Request -> Req]
  <2>1. [op |-> "refresh", at |-> s, asked |-> asked, todo |-> todo \ {s}] \in SurveyJob
    BY DEF SurveyJob, RefreshJob
  <2>2. [pc |-> "waiting",
         job |-> [op |-> "refresh", at |-> s, asked |-> asked, todo |-> todo \ {s}]] \in Req
    BY <2>1 DEF Req, Waiting
  <2>3. QED
    BY <1>2, <2>2, GoesTyped
<1>3. QED
  BY <1>1, <1>2 DEF NextRefresh

LEMMA AccountTyped ==
    ASSUME TypeOK
    PROVE  /\ account \in Account
           /\ account.look \in Style
           /\ account.stamp \in Nat
           /\ account.row \in BOOLEAN
           /\ account.read \in [Lang -> Style]
BY DEF TypeOK, Account

LEMMA NoStyleIsStyle == NoStyle \in Style
BY LooksAssumption DEF NoStyle, Style

LEMMA NewDraftIsDraft == NewDraft \in Draft
BY BodyAssumption DEF NewDraft, Draft

LEMMA TypeInit == Init => TypeOK
<1> SUFFICES ASSUME Init PROVE TypeOK
  OBVIOUS
<1>1. draft \in [Survey -> Draft]
  BY NewDraftIsDraft DEF Init
<1>2. account \in Account
  BY NoStyleIsStyle DEF Init, Account
<1>3. versions \in [Survey -> Seq(Version)]
  BY DEF Init
<1>4. req \in [Request -> Req]
  BY IdleIsRequest DEF Init
<1>5. QED
  BY <1>1, <1>2, <1>3, <1>4 DEF Init, TypeOK

-----------------------------------------------------------------------------
(* Types are kept by every action.                                         *)

LEMMA HandlersTyped ==
    ASSUME TypeOK, NEW r \in Request, Handler(r)
    PROVE  TypeOK'
<1>1. ASSUME NEW s \in Survey, LoadForEdit(r, s)
      PROVE  TypeOK'
  <2>1. [pc |-> "editing", at |-> s, draft |-> draft[s]] \in Req
    BY DEF TypeOK, Req, Editing
  <2>2. QED
    BY <1>1, <2>1, GoesTyped DEF LoadForEdit, TypeOK, rows, locks
<1>2. ASSUME NEW s \in Survey, SubmitStyle(r, s)
      PROVE  TypeOK'
  <2>1. PICK submitted \in Style, off \in SUBSET Optional, uploads \in SUBSET Picture :
          LET d == [draft[s] EXCEPT
                      !.own = [p \in Part |-> IF submitted[p] = account.look[p]
                                              THEN Follow ELSE submitted[p]],
                      !.off = off]
          IN  \E read \in SUBSET d.langs :
                Goes(r, [pc |-> "waiting",
                         job |-> [op |-> "style", at |-> s, uploads |-> uploads,
                                  draft |-> [d EXCEPT !.read = read]]])
    BY <1>2 DEF SubmitStyle
  <2> DEFINE d == [draft[s] EXCEPT
                      !.own = [p \in Part |-> IF submitted[p] = account.look[p]
                                              THEN Follow ELSE submitted[p]],
                      !.off = off]
  <2>2. PICK read \in SUBSET d.langs :
          Goes(r, [pc |-> "waiting",
                   job |-> [op |-> "style", at |-> s, uploads |-> uploads,
                            draft |-> [d EXCEPT !.read = read]]])
    BY <2>1
  <2>3. draft[s] \in Draft
    BY DEF TypeOK
  <2>4. [d EXCEPT !.read = read] \in Draft
    BY <2>3 DEF Draft, Style
  <2> HIDE DEF d
  <2>5. [op |-> "style", at |-> s, uploads |-> uploads,
         draft |-> [d EXCEPT !.read = read]] \in SurveyJob
    BY <2>4 DEF SurveyJob, StyleJob
  <2>6. req' \in [Request -> Req]
    BY <2>2, <2>5, GoesTyped DEF Req, Waiting
  <2>7. QED
    BY <1>2, <2>6 DEF SubmitStyle, TypeOK, rows, locks
<1>3. ASSUME NEW s \in Survey, SubmitReset(r, s)
      PROVE  TypeOK'
  <2>1. [draft[s] EXCEPT !.own = NewDraft.own, !.off = {}] \in Draft
    BY NewDraftIsDraft DEF TypeOK, Draft
  <2>2. [op |-> "style", at |-> s, uploads |-> {},
         draft |-> [draft[s] EXCEPT !.own = NewDraft.own, !.off = {}]] \in SurveyJob
    BY <2>1 DEF SurveyJob, StyleJob
  <2>3. req' \in [Request -> Req]
    BY <1>3, <2>2, GoesTyped DEF SubmitReset, Req, Waiting
  <2>4. QED
    BY <1>3, <2>3 DEF SubmitReset, TypeOK, rows, locks
<1>4. ASSUME NEW s \in Survey, SubmitPublish(r, s)
      PROVE  TypeOK'
  <2>1. [op |-> "publish", at |-> s] \in SurveyJob
    BY DEF SurveyJob, PublishJob
  <2>2. req' \in [Request -> Req]
    BY <1>4, <2>1, GoesTyped DEF SubmitPublish, Req, Waiting
  <2>3. QED
    BY <1>4, <2>2 DEF SubmitPublish, TypeOK, rows, locks
<1>5. CASE SaveDraft(r)
  <2>1. req[r] \in Editing
    BY <1>5, RequestForms DEF SaveDraft
  <2>2. PICK b \in Body, langs \in SUBSET Lang : \E read \in SUBSET langs :
          draft' = [draft EXCEPT ![req[r].at] =
                      [req[r].draft EXCEPT !.body = b, !.langs = langs, !.read = read]]
    BY <1>5 DEF SaveDraft
  <2>3. PICK read \in SUBSET langs :
          draft' = [draft EXCEPT ![req[r].at] =
                      [req[r].draft EXCEPT !.body = b, !.langs = langs, !.read = read]]
    BY <2>2
  <2>4. [req[r].draft EXCEPT !.body = b, !.langs = langs, !.read = read] \in Draft
    BY <2>1 DEF Editing, Draft
  <2>5. draft' \in [Survey -> Draft]
    BY <2>3, <2>4 DEF TypeOK
  <2>6. req' \in [Request -> Req]
    BY <1>5, IdleIsRequest, GoesTyped DEF SaveDraft
  <2>7. QED
    BY <1>5, <2>5, <2>6 DEF SaveDraft, TypeOK, locks
<1>6. CASE AskToApply(r)
  <2>1. [pc |-> "asked", stamp |-> account.stamp] \in Req
    BY AccountTyped DEF Req, Asked
  <2>2. QED
    BY <1>6, <2>1, GoesTyped DEF AskToApply, TypeOK, rows, locks
<1>7. CASE RefreshFromAccount(r)
  <2>1. req[r].stamp \in Nat
    BY <1>7, RequestForms DEF RefreshFromAccount, Asked
  <2>2. req' \in [Request -> Req]
    BY <1>7, <2>1, NextRefreshTyped, IdleIsRequest, GoesTyped DEF RefreshFromAccount
  <2>3. QED
    BY <1>7, <2>2 DEF RefreshFromAccount, TypeOK, rows, locks
<1>8. CASE SubmitAccountStyle(r)
  <2>1. PICK style \in Style, uploads \in SUBSET Picture :
          Goes(r, [pc |-> "account", look |-> style, uploads |-> uploads])
    BY <1>8 DEF SubmitAccountStyle
  <2>2. req' \in [Request -> Req]
    BY <2>1, GoesTyped DEF Req, Submitted
  <2>3. QED
    BY <1>8, <2>2 DEF SubmitAccountStyle, TypeOK, rows, locks
<1>9. QED
  BY <1>1, <1>2, <1>3, <1>4, <1>5, <1>6, <1>7, <1>8 DEF Handler

LEMMA PublicationTyped ==
    ASSUME TypeOK, NEW r \in Request, NEW d \in Draft,
           req[r].pc = "held", req[r].job.op \in {"publish", "refresh"},
           PublishResolved(r, d), UNCHANGED rows
    PROVE  TypeOK'
<1> DEFINE s == req[r].job.at
           stored == WithCopies(s, pictures[s], Shows(ResolvedStyle(d, account.look)))
<1>1. req[r] \in Waiting /\ req[r].job \in PublishJob \cup RefreshJob /\ s \in Survey
  BY RequestForms, JobForms DEF Waiting
<1>2. Len(versions[s]) \in Nat
  BY <1>1 DEF TypeOK
<1>3. Freeze(d, account, Len(versions[s]) + 1) \in Version
  BY <1>2, AccountTyped, FreezeIsVersion
<1>4. gallery \subseteq Picture /\ pictures[s] \subseteq Picture
  BY <1>1 DEF TypeOK
<1>5. stored \subseteq Picture
  BY <1>4 DEF WithCopies, WithRoom
<1>6. req' \in [Request -> Req]
  <2>1. Goes(r, [pc |-> "publishing", job |-> req[r].job,
                 version |-> Freeze(d, account, Len(versions[s]) + 1),
                 shared |-> account.row,
                 add |-> stored \ pictures[s], drop |-> pictures[s] \ stored])
    BY DEF PublishResolved
  <2> HIDE DEF stored
  <2>2. [pc |-> "publishing", job |-> req[r].job,
         version |-> Freeze(d, account, Len(versions[s]) + 1),
         shared |-> account.row,
         add |-> stored \ pictures[s], drop |-> pictures[s] \ stored] \in Appearing
    BY <1>1, <1>3, <1>4, <1>5, AccountTyped DEF Appearing
  <2>3. QED
    BY <2>1, <2>2, GoesTyped DEF Req
<1>7. sharers' \in SUBSET Request /\ UNCHANGED <<holder, keeper>>
  BY DEF PublishResolved, Share, TypeOK
<1>8. QED
  BY <1>6, <1>7 DEF TypeOK, rows

LEMMA TransactionsTyped ==
    ASSUME TypeOK, NEW r \in Request, Transaction(r)
    PROVE  TypeOK'
<1> DEFINE s == req[r].job.at
<1>1. ASSUME UNCHANGED rows, Goes(r, Idle), s \in Survey, Release(r, s)
      PROVE  TypeOK'
  BY <1>1, IdleIsRequest, GoesTyped, ReleaseTyped DEF TypeOK, rows
<1>2. ASSUME req[r].pc = "held"
      PROVE  req[r] \in Waiting /\ s \in Survey /\ req[r].job \in SurveyJob
  BY <1>2, RequestForms, JobForms DEF Waiting
<1>3. CASE Hold(r)
  <2>1. req[r] \in Waiting
    BY <1>3, RequestForms DEF Hold
  <2>2. [pc |-> "held", job |-> req[r].job] \in Req
    BY <2>1 DEF Req, Waiting
  <2>3. req' \in [Request -> Req]
    BY <1>3, <2>2, GoesTyped DEF Hold
  <2>4. QED
    BY <1>3, <2>3 DEF Hold, TypeOK, rows
<1>4. CASE SaveStyle(r)
  <2> DEFINE keep == OwnPictures(req[r].job.draft)
             brought == WithRoom(s, pictures[s], keep, req[r].job.uploads \ pictures[s])
             stored == WithCopies(s, brought, keep)
  <2>1. req[r].pc = "held" /\ req[r].job.op = "style" /\ UNCHANGED rows
    BY <1>4 DEF SaveStyle
  <2>2. req[r].job \in StyleJob /\ s \in Survey
    BY <2>1, <1>2, JobForms
  <2>3. CASE Goes(r, Idle) /\ Release(r, s)
    BY <2>1, <2>2, <2>3, <1>1
  <2>4. CASE /\ Share(r)
             /\ Goes(r, [pc |-> "saving", job |-> req[r].job,
                         add |-> stored \ pictures[s], drop |-> pictures[s] \ stored])
             /\ UNCHANGED <<holder, keeper>>
    <3>1. pictures[s] \subseteq Picture /\ gallery \subseteq Picture
          /\ req[r].job.uploads \subseteq Picture
      BY <2>2 DEF TypeOK, StyleJob
    <3>2. brought \subseteq Picture
      BY <3>1 DEF WithRoom
    <3> HIDE DEF brought, keep
    <3>3. stored \subseteq Picture
      BY <3>1, <3>2 DEF WithCopies, WithRoom
    <3> HIDE DEF stored
    <3>4. [pc |-> "saving", job |-> req[r].job,
           add |-> stored \ pictures[s], drop |-> pictures[s] \ stored] \in Saving
      BY <2>2, <3>1, <3>3 DEF Saving
    <3>5. req' \in [Request -> Req]
      BY <2>4, <3>4, GoesTyped DEF Req
    <3>6. QED
      BY <2>1, <2>4, <3>5 DEF Share, TypeOK, rows
  <2>5. QED
    BY <1>4, <2>3, <2>4 DEF SaveStyle
<1>5. CASE CommitStyle(r)
  <2>1. req[r] \in Saving
    BY <1>5, RequestForms DEF CommitStyle
  <2>2. /\ s \in Survey /\ req[r].job.draft \in Draft
        /\ req[r].add \subseteq Picture
    BY <2>1 DEF Saving, StyleJob
  <2>3. pictures' \in [Survey -> SUBSET Picture]
    BY <1>5, <2>2 DEF CommitStyle, TypeOK
  <2>4. draft' \in [Survey -> Draft]
    BY <1>5, <2>2 DEF CommitStyle, TypeOK
  <2>5. QED
    BY <1>5, <2>2, <2>3, <2>4, IdleIsRequest, GoesTyped, ReleaseTyped
    DEF CommitStyle, TypeOK
<1>6. CASE Publish(r)
  <2>1. draft[s] \in Draft
    BY <1>6, <1>2 DEF Publish, TypeOK
  <2>2. QED
    BY <1>6, <2>1, PublicationTyped DEF Publish
<1>7. CASE PublishRefused(r)
  BY <1>7, <1>1, <1>2 DEF PublishRefused
<1>8. CASE NothingToPublish(r)
  BY <1>8, <1>1, <1>2 DEF NothingToPublish
<1>9. CASE RefreshOne(r)
  <2>1. versions[s] \in Seq(Version) /\ versions[s] # <<>>
    BY <1>9, <1>2 DEF RefreshOne, Refreshable, TypeOK
  <2>2. Live(s) \in Version
    BY <2>1 DEF Live
  <2>3. Redrawn(s) \in Draft
    BY <2>2, DraftOfIsDraft DEF Redrawn
  <2>4. QED
    BY <1>9, <2>3, PublicationTyped DEF RefreshOne
<1>10. CASE RefreshSkipped(r)
  <2>1. req[r].job \in RefreshJob /\ s \in Survey
    BY <1>10, <1>2, JobForms DEF RefreshSkipped
  <2>2. req[r].job.asked \in Nat /\ req[r].job.todo \in SUBSET Survey
    BY <2>1 DEF RefreshJob
  <2>3. \/ Goes(r, Idle)
        \/ NextRefresh(r, req[r].job.asked, req[r].job.todo)
    BY <1>10 DEF RefreshSkipped
  <2>4. req' \in [Request -> Req]
    BY <2>2, <2>3, IdleIsRequest, GoesTyped, NextRefreshTyped
  <2>5. QED
    BY <1>10, <2>1, <2>4, ReleaseTyped DEF RefreshSkipped, TypeOK, rows
<1>11. CASE CommitVersion(r)
  <2>1. req[r] \in Appearing
    BY <1>11, RequestForms DEF CommitVersion
  <2>2. /\ s \in Survey /\ req[r].version \in Version
        /\ req[r].add \subseteq Picture
    BY <2>1 DEF Appearing, PublishJob, RefreshJob
  <2>3. versions' \in [Survey -> Seq(Version)]
    BY <1>11, <2>2 DEF CommitVersion, TypeOK
  <2>4. pictures' \in [Survey -> SUBSET Picture]
    BY <1>11, <2>2 DEF CommitVersion, TypeOK
  <2>5. CASE req[r].job.op = "refresh"
    <3>1. req[r].job.asked \in Nat /\ req[r].job.todo \in SUBSET Survey
      BY <2>1, <2>5 DEF Appearing, PublishJob, RefreshJob
    <3>2. req' \in [Request -> Req]
      BY <1>11, <2>5, <3>1, NextRefreshTyped DEF CommitVersion
    <3>3. QED
      BY <1>11, <2>2, <2>3, <2>4, <3>2, ReleaseTyped DEF CommitVersion, TypeOK
  <2>6. CASE req[r].job.op # "refresh"
    <3>1. req' \in [Request -> Req]
      BY <1>11, <2>6, IdleIsRequest, GoesTyped DEF CommitVersion
    <3>2. QED
      BY <1>11, <2>2, <2>3, <2>4, <3>1, ReleaseTyped DEF CommitVersion, TypeOK
  <2>7. QED
    BY <2>5, <2>6
<1>12. CASE HoldAccountStyle(r)
  <2> DEFINE stored == GalleryWith(Shows(req[r].look), req[r].uploads \ gallery)
  <2>1. req[r] \in Submitted
    BY <1>12, RequestForms DEF HoldAccountStyle
  <2>2. req[r].look \in Style /\ req[r].uploads \subseteq Picture
    BY <2>1 DEF Submitted
  <2>3. stored \subseteq Picture
    BY <2>2 DEF TypeOK, GalleryWith
  <2>4. CASE /\ keeper' = r
             /\ Goes(r, [pc |-> "keeping", look |-> req[r].look,
                         add |-> stored \ gallery, drop |-> gallery \ stored])
    <3> HIDE DEF stored
    <3>1. [pc |-> "keeping", look |-> req[r].look,
           add |-> stored \ gallery, drop |-> gallery \ stored] \in Keeping
      BY <2>2, <2>3 DEF Keeping, TypeOK
    <3>2. req' \in [Request -> Req]
      BY <2>4, <3>1, GoesTyped DEF Req
    <3>3. QED
      BY <1>12, <2>4, <3>2 DEF HoldAccountStyle, TypeOK, rows
  <2>5. CASE Goes(r, Idle) /\ UNCHANGED keeper
    BY <1>12, <2>5, IdleIsRequest, GoesTyped DEF HoldAccountStyle, TypeOK, rows
  <2>6. QED
    BY <1>12, <2>4, <2>5 DEF HoldAccountStyle
<1>13. CASE CommitAccountStyle(r)
  <2>1. req[r] \in Keeping
    BY <1>13, RequestForms DEF CommitAccountStyle
  <2>2. req[r].look \in Style /\ req[r].add \subseteq Picture
    BY <2>1 DEF Keeping
  <2>3. account' \in Account
    BY <1>13, <2>2, AccountTyped DEF CommitAccountStyle, Account
  <2>4. gallery' \in SUBSET Picture
    BY <1>13, <2>2 DEF CommitAccountStyle, TypeOK
  <2>5. QED
    BY <1>13, <2>3, <2>4, IdleIsRequest, GoesTyped DEF CommitAccountStyle, TypeOK
<1>14. QED
  BY <1>3, <1>4, <1>5, <1>6, <1>7, <1>8, <1>9, <1>10, <1>11, <1>12, <1>13 DEF Transaction

LEMMA TypeStep == TypeOK /\ [Next]_vars => TypeOK'
<1> SUFFICES ASSUME TypeOK, [Next]_vars PROVE TypeOK'
  OBVIOUS
<1>1. ASSUME NEW r \in Request, Transaction(r) PROVE TypeOK'
  BY <1>1, TransactionsTyped
<1>2. ASSUME NEW r \in Request, Handler(r) PROVE TypeOK'
  BY <1>2, HandlersTyped
<1>3. ASSUME NEW r \in Request, Abort(r) PROVE TypeOK'
  BY <1>3, IdleIsRequest, GoesTyped DEF Abort, TypeOK, rows
<1>4. ASSUME NEW l \in Lang, SaveWorkspaceStyleTranslation(l) PROVE TypeOK'
  <2>1. PICK words \in {account.look, NoStyle} :
          account' = [row |-> account.row, look |-> account.look,
                      read |-> [account.read EXCEPT ![l] = words],
                      stamp |-> account.stamp + 1]
    BY <1>4 DEF SaveWorkspaceStyleTranslation
  <2>2. words \in Style
    BY <2>1, AccountTyped, NoStyleIsStyle
  <2>3. account' \in Account
    <3>1. [account.read EXCEPT ![l] = words] \in [Lang -> Style]
      BY <2>2, AccountTyped
    <3>2. QED
      BY <2>1, <3>1, AccountTyped DEF Account
  <2>4. QED
    BY <1>4, <2>3 DEF SaveWorkspaceStyleTranslation, TypeOK, locks
<1>5. ASSUME NEW s \in Survey, SetStatus(s) PROVE TypeOK'
  BY <1>5 DEF SetStatus, TypeOK, locks
<1>6. CASE UNCHANGED vars
  BY <1>6 DEF vars, TypeOK
<1>7. QED
  BY <1>1, <1>2, <1>3, <1>4, <1>5, <1>6 DEF Next

\* Every reachable state is of the declared types.
THEOREM Types == Spec => []TypeOK
BY TypeInit, TypeStep, PTL DEF Spec

-----------------------------------------------------------------------------
(* A step of one request disturbs no row that another request holds.       *)

InRow(q) == req[q].pc \in {"held", "saving", "publishing"}

Local(r) ==
    /\ \A q \in Request \ {r} : req'[q] = req[q]
    /\ \A s \in Survey : holder[s] \in Request \ {r} =>
          /\ holder'[s] = holder[s]
          /\ versions'[s] = versions[s]
          /\ pictures'[s] = pictures[s]
    /\ keeper \in Request \ {r} => keeper' = keeper /\ gallery' = gallery

LEMMA GoesLocal ==
    ASSUME TypeOK, NEW r \in Request, NEW to, Goes(r, to)
    PROVE  /\ \A q \in Request \ {r} : req'[q] = req[q]
           /\ req'[r] = to
BY DEF TypeOK, Goes

LEMMA NextRefreshLocal ==
    ASSUME TypeOK, NEW r \in Request, NEW asked, NEW todo, NextRefresh(r, asked, todo)
    PROVE  /\ \A q \in Request \ {r} : req'[q] = req[q]
           /\ req'[r].pc \in {"idle", "waiting"}
<1>1. CASE Goes(r, Idle)
  BY <1>1, GoesLocal DEF Idle
<1>2. ASSUME NEW job, Goes(r, [pc |-> "waiting", job |-> job])
      PROVE  /\ \A q \in Request \ {r} : req'[q] = req[q]
             /\ req'[r].pc = "waiting"
  <2>1. req'[r] = [pc |-> "waiting", job |-> job]
    BY <1>2, GoesLocal
  <2>2. QED
    BY <1>2, <2>1, GoesLocal
<1>3. QED
  BY <1>1, <1>2 DEF NextRefresh

LEMMA RowOf ==
    ASSUME TypeOK, RowsHeld, NEW r \in Request, InRow(r)
    PROVE  req[r].job.at \in Survey /\ holder[req[r].job.at] = r
<1>1. req[r].job.at \in Survey
  BY RequestForms, JobForms DEF InRow, Waiting, Saving, Appearing, SurveyJob
<1>2. QED
  BY <1>1 DEF InRow, RowsHeld

LEMMA ReleaseLocal ==
    ASSUME TypeOK, RowsHeld, NEW r \in Request, InRow(r), Release(r, req[r].job.at)
    PROVE  /\ \A s \in Survey : holder[s] \in Request \ {r} => holder'[s] = holder[s]
           /\ keeper' = keeper
BY RowOf DEF Release, TypeOK

KeeperHeld == \A r \in Request : req[r].pc = "keeping" => keeper = r

LEMMA TransactionsLocal ==
    ASSUME TypeOK, RowsHeld, KeeperHeld, NEW r \in Request, Transaction(r)
    PROVE  Local(r)
<1> DEFINE s == req[r].job.at
<1>1. RowsHeld
  OBVIOUS
<1>2. ASSUME UNCHANGED rows, Goes(r, Idle), InRow(r), Release(r, s)
      PROVE  Local(r)
  BY <1>1, <1>2, GoesLocal, ReleaseLocal DEF Local, rows
<1>3. CASE Hold(r)
  <2>1. \A t \in Survey : holder[t] \in Request => holder'[t] = holder[t]
    BY <1>3, HoldersAssumption DEF Hold, TypeOK
  <2>2. QED
    BY <1>3, <2>1, GoesLocal DEF Hold, Local, rows
<1>4. CASE SaveStyle(r)
  <2>1. InRow(r)
    BY <1>4 DEF SaveStyle, InRow
  <2>2. UNCHANGED rows
    BY <1>4 DEF SaveStyle
  <2>3. CASE Goes(r, Idle) /\ Release(r, s)
    BY <2>1, <2>2, <2>3, <1>2
  <2>4. ASSUME NEW to, Goes(r, to), UNCHANGED <<holder, keeper>>
        PROVE  Local(r)
    BY <2>2, <2>4, GoesLocal DEF Local, rows
  <2>5. QED
    BY <1>4, <2>3, <2>4 DEF SaveStyle
<1>5. CASE CommitStyle(r)
  <2>1. InRow(r)
    BY <1>5 DEF CommitStyle, InRow
  <2>2. s \in Survey /\ holder[s] = r
    BY <2>1, <1>1, RowOf
  <2>3. \A t \in Survey : holder[t] \in Request \ {r} => pictures'[t] = pictures[t]
    BY <1>5, <2>2 DEF CommitStyle, TypeOK
  <2>4. QED
    BY <1>5, <1>1, <2>1, <2>3, GoesLocal, ReleaseLocal DEF CommitStyle, Local
<1>6. ASSUME NEW d, req[r].pc = "held", PublishResolved(r, d), UNCHANGED rows
      PROVE  Local(r)
  BY <1>6, GoesLocal DEF PublishResolved, Local, rows
<1>7. CASE Publish(r)
  BY <1>6, <1>7 DEF Publish
<1>8. CASE PublishRefused(r)
  BY <1>8, <1>2 DEF PublishRefused, InRow
<1>9. CASE NothingToPublish(r)
  BY <1>9, <1>2 DEF NothingToPublish, InRow
<1>10. CASE RefreshOne(r)
  BY <1>6, <1>10 DEF RefreshOne
<1>11. CASE RefreshSkipped(r)
  <2>1. InRow(r) /\ Release(r, s) /\ UNCHANGED rows
    BY <1>11 DEF RefreshSkipped, InRow
  <2>2. \/ Goes(r, Idle)
        \/ NextRefresh(r, req[r].job.asked, req[r].job.todo)
    BY <1>11 DEF RefreshSkipped
  <2>3. \A q \in Request \ {r} : req'[q] = req[q]
    BY <2>2, GoesLocal, NextRefreshLocal
  <2>4. QED
    BY <1>1, <2>1, <2>3, ReleaseLocal DEF Local, rows
<1>12. CASE CommitVersion(r)
  <2>1. InRow(r) /\ Release(r, s) /\ UNCHANGED gallery
    BY <1>12 DEF CommitVersion, InRow
  <2>2. s \in Survey /\ holder[s] = r
    BY <2>1, <1>1, RowOf
  <2>3. \A t \in Survey : holder[t] \in Request \ {r} =>
           pictures'[t] = pictures[t] /\ versions'[t] = versions[t]
    BY <1>12, <2>2 DEF CommitVersion, TypeOK
  <2>4. \/ Goes(r, Idle)
        \/ NextRefresh(r, req[r].job.asked, req[r].job.todo)
    BY <1>12 DEF CommitVersion
  <2>5. \A q \in Request \ {r} : req'[q] = req[q]
    BY <2>4, GoesLocal, NextRefreshLocal
  <2>6. QED
    BY <1>1, <2>1, <2>3, <2>5, ReleaseLocal DEF Local
<1>13. CASE HoldAccountStyle(r)
  <2>1. keeper \notin Request
    BY <1>13, HoldersAssumption DEF HoldAccountStyle
  <2>2. PICK to : Goes(r, to)
    BY <1>13 DEF HoldAccountStyle
  <2>3. QED
    BY <1>13, <2>1, <2>2, GoesLocal DEF HoldAccountStyle, Local, rows
<1>14. CASE CommitAccountStyle(r)
  <2>1. keeper = r
    BY <1>14 DEF CommitAccountStyle, KeeperHeld
  <2>2. QED
    BY <1>14, <2>1, GoesLocal DEF CommitAccountStyle, Local
<1>15. QED
  BY <1>3, <1>4, <1>5, <1>7, <1>8, <1>9, <1>10, <1>11, <1>12, <1>13, <1>14 DEF Transaction

\* Handlers read rows and change none but a draft, and none is held.
LEMMA HandlersLocal ==
    ASSUME TypeOK, NEW r \in Request, Handler(r)
    PROVE  /\ Local(r)
           /\ req'[r].pc \in {"idle", "editing", "asked", "waiting", "account"}
           /\ UNCHANGED <<versions, pictures, gallery>>
<1>1. ASSUME NEW s \in Survey, LoadForEdit(r, s)
      PROVE  /\ req'[r].pc = "editing" /\ \A q \in Request \ {r} : req'[q] = req[q]
             /\ UNCHANGED <<rows, locks>>
  BY <1>1, GoesLocal DEF LoadForEdit
<1>2. ASSUME NEW s \in Survey, SubmitStyle(r, s)
      PROVE  /\ req'[r].pc = "waiting" /\ \A q \in Request \ {r} : req'[q] = req[q]
             /\ UNCHANGED <<rows, locks>>
  <2>1. PICK job : Goes(r, [pc |-> "waiting", job |-> job])
    BY <1>2 DEF SubmitStyle
  <2>2. req'[r] = [pc |-> "waiting", job |-> job]
    BY <2>1, GoesLocal
  <2>3. UNCHANGED <<rows, locks>>
    BY <1>2 DEF SubmitStyle
  <2>4. QED
    BY <2>1, <2>2, <2>3, GoesLocal
<1>3. ASSUME NEW s \in Survey, SubmitReset(r, s)
      PROVE  /\ req'[r].pc = "waiting" /\ \A q \in Request \ {r} : req'[q] = req[q]
             /\ UNCHANGED <<rows, locks>>
  BY <1>3, GoesLocal DEF SubmitReset
<1>4. ASSUME NEW s \in Survey, SubmitPublish(r, s)
      PROVE  /\ req'[r].pc = "waiting" /\ \A q \in Request \ {r} : req'[q] = req[q]
             /\ UNCHANGED <<rows, locks>>
  BY <1>4, GoesLocal DEF SubmitPublish
<1>5. ASSUME SaveDraft(r)
      PROVE  /\ req'[r].pc = "idle" /\ \A q \in Request \ {r} : req'[q] = req[q]
             /\ UNCHANGED <<versions, pictures, gallery, locks>>
  BY <1>5, GoesLocal DEF SaveDraft, Idle
<1>6. ASSUME AskToApply(r)
      PROVE  /\ req'[r].pc = "asked" /\ \A q \in Request \ {r} : req'[q] = req[q]
             /\ UNCHANGED <<rows, locks>>
  BY <1>6, GoesLocal DEF AskToApply
<1>7. ASSUME RefreshFromAccount(r)
      PROVE  /\ req'[r].pc \in {"idle", "waiting"}
             /\ \A q \in Request \ {r} : req'[q] = req[q]
             /\ UNCHANGED <<rows, locks>>
  BY <1>7, GoesLocal, NextRefreshLocal DEF RefreshFromAccount, Idle
<1>8. ASSUME SubmitAccountStyle(r)
      PROVE  /\ req'[r].pc = "account" /\ \A q \in Request \ {r} : req'[q] = req[q]
             /\ UNCHANGED <<rows, locks>>
  BY <1>8, GoesLocal DEF SubmitAccountStyle
<1>9. QED
  BY <1>1, <1>2, <1>3, <1>4, <1>5, <1>6, <1>7, <1>8 DEF Handler, Local, rows, locks

LEMMA AbortLocal ==
    ASSUME TypeOK, NEW r \in Request, Abort(r)
    PROVE  Local(r) /\ req'[r].pc = "idle" /\ UNCHANGED <<versions, pictures, gallery>>
BY GoesLocal DEF Abort, Local, rows, TypeOK, Idle

-----------------------------------------------------------------------------
(* The plan of one request is sound, and stays so.                         *)

Sound(r) ==
    /\ InRow(r) => holder[req[r].job.at] = r
    /\ req[r].pc \in {"saving", "publishing"} =>
          /\ ShownBy(req[r].job.at) \subseteq StoredBy(r)
          /\ Cardinality(StoredBy(r)) <= MaxSurveyImages
    /\ req[r].pc = "publishing" =>
          /\ Shows(req[r].version.look) \subseteq StoredBy(r)
          /\ req[r].version.number = Len(versions[req[r].job.at]) + 1
          /\ versions[req[r].job.at] # <<>> =>
                \/ req[r].version.body # Live(req[r].job.at).body
                \/ req[r].version.look # Live(req[r].job.at).look
    /\ req[r].pc = "keeping" =>
          /\ keeper = r
          /\ Cardinality((gallery \ req[r].drop) \cup req[r].add) <= MaxWorkspaceImages

LEMMA SoundEverywhere == PlansStaySound <=> \A r \in Request : Sound(r)
BY DEF PlansStaySound, RowsHeld, SavesSafely, PublishesSafely, KeepsSafely, Sound, InRow

LEMMA SoundNext ==
    ASSUME \A r \in Request : Sound(r)'
    PROVE  PlansStaySound'
BY DEF PlansStaySound, RowsHeld, SavesSafely, PublishesSafely, KeepsSafely, Sound, InRow

LEMMA UntouchedStaysSound ==
    ASSUME PlansStaySound, UNCHANGED <<versions, pictures, gallery, locks, req>>
    PROVE  PlansStaySound'
<1> SUFFICES ASSUME NEW r \in Request PROVE Sound(r)'
  BY SoundNext
<1>1. Sound(r)
  BY SoundEverywhere
<1>2. ShownBy(req[r].job.at)' = ShownBy(req[r].job.at)
  BY DEF ShownBy
<1>3. StoredBy(r)' = StoredBy(r) /\ Live(req[r].job.at)' = Live(req[r].job.at)
  BY DEF StoredBy, Live
<1>4. QED
  BY <1>1, <1>2, <1>3 DEF Sound, InRow, locks

LEMMA OthersStaySound ==
    ASSUME TypeOK, NEW r \in Request, NEW q \in Request \ {r}, Sound(q), Local(r)
    PROVE  Sound(q)'
<1>1. req'[q] = req[q]
  BY DEF Local
<1>2. CASE InRow(q)
  <2>1. req[q].job.at \in Survey /\ holder[req[q].job.at] = q
    BY <1>2, RequestForms, JobForms DEF Sound, InRow, Waiting, Saving, Appearing, SurveyJob
  <2>2. /\ holder'[req[q].job.at] = q
        /\ versions'[req[q].job.at] = versions[req[q].job.at]
        /\ pictures'[req[q].job.at] = pictures[req[q].job.at]
    BY <2>1 DEF Local
  <2>3. ShownBy(req[q].job.at)' = ShownBy(req[q].job.at)
    BY <1>1, <2>2 DEF ShownBy
  <2>4. StoredBy(q)' = StoredBy(q)
    BY <1>1, <2>2 DEF StoredBy
  <2>5. Live(req[q].job.at)' = Live(req[q].job.at)
    BY <1>1, <2>2 DEF Live
  <2>6. req[q].pc # "keeping"
    BY <1>2 DEF InRow
  <2>7. QED
    BY <1>1, <1>2, <2>2, <2>3, <2>4, <2>5, <2>6 DEF Sound, InRow
<1>3. CASE req[q].pc = "keeping"
  <2>1. keeper' = keeper /\ gallery' = gallery
    BY <1>3 DEF Sound, Local
  <2>2. QED
    BY <1>1, <1>3, <2>1 DEF Sound, InRow
<1>4. CASE ~InRow(q) /\ req[q].pc # "keeping"
  BY <1>1, <1>4 DEF Sound, InRow
<1>5. QED
  BY <1>2, <1>3, <1>4

\* Room is made without a picture that some version shows.
LEMMA RoomKeepsShown ==
    ASSUME NEW s, NEW stored, NEW keep, NEW new, ShownBy(s) \subseteq stored
    PROVE  ShownBy(s) \subseteq WithRoom(s, stored, keep, new)
BY DEF WithRoom, Unused

LEMMA Rearranged ==
    ASSUME NEW before, NEW after
    PROVE  (before \ (before \ after)) \cup (after \ before) = after
OBVIOUS

LEMMA IdleIsSound ==
    ASSUME NEW r \in Request, req'[r].pc \in {"idle", "editing", "asked", "waiting", "account"}
    PROVE  Sound(r)'
BY DEF Sound, InRow

LEMMA PublicationSound ==
    ASSUME TypeOK, PlansStaySound, VersionPicturesStored, NEW r \in Request, NEW d,
           req[r].pc = "held", PublishResolved(r, d), UNCHANGED rows,
           UnpublishedChanges(req[r].job.at, d, account)
    PROVE  Sound(r)'
<1> DEFINE s == req[r].job.at
           shown == Shows(ResolvedStyle(d, account.look))
           stored == WithCopies(s, pictures[s], shown)
           to == [pc |-> "publishing", job |-> req[r].job,
                  version |-> Freeze(d, account, Len(versions[s]) + 1),
                  shared |-> account.row,
                  add |-> stored \ pictures[s], drop |-> pictures[s] \ stored]
<1>1. s \in Survey /\ holder[s] = r
  BY RowOf DEF PlansStaySound, InRow
<1>2. ShownBy(s) \subseteq stored
  BY <1>1, RoomKeepsShown DEF WithCopies, VersionPicturesStored
<1>3. Fits(stored) /\ shown \subseteq stored /\ Goes(r, to) /\ UNCHANGED holder
  BY DEF PublishResolved
<1> HIDE DEF stored
<1>4. req'[r] = to
  BY <1>3, GoesLocal
<1>5. /\ req'[r].pc = "publishing" /\ req'[r].job.at = s
      /\ req'[r].add = stored \ pictures[s] /\ req'[r].drop = pictures[s] \ stored
      /\ req'[r].version = Freeze(d, account, Len(versions[s]) + 1)
  BY <1>4
<1>6. StoredBy(r)' = stored
  <2>1. pictures' = pictures
    BY DEF rows
  <2>2. StoredBy(r)' = (pictures[s] \ (pictures[s] \ stored)) \cup (stored \ pictures[s])
    BY <1>5, <2>1 DEF StoredBy
  <2>3. QED
    BY <2>2, Rearranged
<1>7. versions' = versions
  BY DEF rows
<1>8. /\ req'[r].version.number = Len(versions[s]) + 1
      /\ req'[r].version.body = d.body
      /\ req'[r].version.look = ResolvedStyle(d, account.look)
  BY <1>5 DEF Freeze
<1>9. ShownBy(req[r].job.at)' = ShownBy(s) /\ Live(req[r].job.at)' = Live(s)
  BY <1>5, <1>7 DEF ShownBy, Live
<1>10. QED
  BY <1>1, <1>2, <1>3, <1>5, <1>6, <1>7, <1>8, <1>9
  DEF Sound, InRow, Fits, UnpublishedChanges

LEMMA OwnPlanSound ==
    ASSUME TypeOK, PlansStaySound, VersionPicturesStored, NEW r \in Request, Transaction(r)
    PROVE  Sound(r)'
<1> DEFINE s == req[r].job.at
<1>1. ASSUME Goes(r, Idle) PROVE Sound(r)'
  BY <1>1, GoesLocal, IdleIsSound DEF Idle
<1>2. CASE Hold(r)
  <2>1. s \in Survey
    BY <1>2, RequestForms, JobForms DEF Hold, Waiting
  <2>2. holder'[s] = r
    BY <1>2, <2>1 DEF Hold, TypeOK
  <2>3. req'[r] = [pc |-> "held", job |-> req[r].job]
    BY <1>2, GoesLocal DEF Hold
  <2>4. QED
    BY <2>2, <2>3 DEF Sound, InRow
<1>3. CASE SaveStyle(r)
  <2> DEFINE keep == OwnPictures(req[r].job.draft)
             brought == WithRoom(s, pictures[s], keep, req[r].job.uploads \ pictures[s])
             stored == WithCopies(s, brought, keep)
             to == [pc |-> "saving", job |-> req[r].job,
                    add |-> stored \ pictures[s], drop |-> pictures[s] \ stored]
  <2>1. s \in Survey /\ holder[s] = r
    BY <1>3, RowOf DEF PlansStaySound, InRow, SaveStyle
  <2>2. ShownBy(s) \subseteq brought
    BY <2>1, RoomKeepsShown DEF VersionPicturesStored
  <2> HIDE DEF brought, keep
  <2>3. ShownBy(s) \subseteq stored
    BY <2>2, RoomKeepsShown DEF WithCopies
  <2>4. pictures' = pictures /\ versions' = versions
    BY <1>3 DEF SaveStyle, rows
  <2>5. CASE Fits(stored) /\ Goes(r, to) /\ UNCHANGED holder
    <3> HIDE DEF stored
    <3>1. req'[r] = to
      BY <2>5, GoesLocal
    <3>2. /\ req'[r].pc = "saving" /\ req'[r].job.at = s
          /\ req'[r].add = stored \ pictures[s] /\ req'[r].drop = pictures[s] \ stored
      BY <3>1
    <3>3. StoredBy(r)' = (pictures[s] \ (pictures[s] \ stored)) \cup (stored \ pictures[s])
      BY <2>4, <3>2 DEF StoredBy
    <3>4. StoredBy(r)' = stored
      BY <3>3, Rearranged
    <3>5. ShownBy(req[r].job.at)' = ShownBy(s)
      BY <2>4, <3>2 DEF ShownBy
    <3>6. QED
      BY <2>1, <2>3, <2>5, <3>2, <3>4, <3>5 DEF Sound, InRow, Fits
  <2>6. CASE Goes(r, Idle)
    BY <2>6, <1>1
  <2>7. QED
    BY <1>3, <2>5, <2>6 DEF SaveStyle, brought, keep
<1>4. CASE CommitStyle(r)
  BY <1>1, <1>4 DEF CommitStyle
<1>5. CASE Publish(r)
  BY <1>5, PublicationSound DEF Publish
<1>6. CASE PublishRefused(r)
  BY <1>1, <1>6 DEF PublishRefused
<1>7. CASE NothingToPublish(r)
  BY <1>1, <1>7 DEF NothingToPublish
<1>8. CASE RefreshOne(r)
  <2>1. UnpublishedChanges(s, Redrawn(s), account)
    BY <1>8 DEF RefreshOne, Refreshable, UnpublishedChanges
  <2>2. QED
    BY <1>8, <2>1, PublicationSound DEF RefreshOne
<1>9. CASE RefreshSkipped(r)
  BY <1>1, <1>9, NextRefreshLocal, IdleIsSound DEF RefreshSkipped
<1>10. CASE CommitVersion(r)
  BY <1>1, <1>10, NextRefreshLocal, IdleIsSound DEF CommitVersion
<1>11. CASE HoldAccountStyle(r)
  <2> DEFINE stored == GalleryWith(Shows(req[r].look), req[r].uploads \ gallery)
             to == [pc |-> "keeping", look |-> req[r].look,
                    add |-> stored \ gallery, drop |-> gallery \ stored]
  <2>1. CASE /\ Cardinality(stored) <= MaxWorkspaceImages
             /\ keeper' = r
             /\ Goes(r, to)
    <3>1. gallery' = gallery
      BY <1>11 DEF HoldAccountStyle, rows
    <3> HIDE DEF stored
    <3>2. req'[r] = to
      BY <2>1, GoesLocal
    <3>3. /\ req'[r].pc = "keeping"
          /\ req'[r].add = stored \ gallery /\ req'[r].drop = gallery \ stored
      BY <3>2
    <3>4. (gallery' \ req'[r].drop) \cup req'[r].add = stored
      BY <3>1, <3>3, Rearranged
    <3>5. QED
      BY <2>1, <3>3, <3>4 DEF Sound, InRow
  <2>2. CASE Goes(r, Idle)
    BY <1>1, <2>2
  <2>3. QED
    BY <1>11, <2>1, <2>2 DEF HoldAccountStyle
<1>12. CASE CommitAccountStyle(r)
  BY <1>1, <1>12 DEF CommitAccountStyle
<1>13. QED
  BY <1>2, <1>3, <1>4, <1>5, <1>6, <1>7, <1>8, <1>9, <1>10, <1>11, <1>12 DEF Transaction

-----------------------------------------------------------------------------
(* The inductive invariant.                                                *)

IInv ==
    /\ TypeOK
    /\ VersionPicturesStored
    /\ PicturesWithinLimit
    /\ PlansStaySound

LEMMA IInvInit == Init => IInv
<1> SUFFICES ASSUME Init PROVE IInv
  OBVIOUS
<1>1. VersionPicturesStored
  BY DEF Init, VersionPicturesStored, ShownBy
<1>2. PicturesWithinLimit
  BY FS_EmptySet, LimitsAssumption DEF Init, PicturesWithinLimit
<1>3. PlansStaySound
  BY DEF Init, Idle, PlansStaySound, RowsHeld, SavesSafely, PublishesSafely, KeepsSafely
<1>4. QED
  BY <1>1, <1>2, <1>3, TypeInit DEF IInv

\* What is shown once a version is appended was shown before, or is shown
\* by that version.
LEMMA AppendShows ==
    ASSUME NEW h \in Seq(Version), NEW v \in Version
    PROVE  UNION {Shows(Append(h, v)[i].look) : i \in DOMAIN Append(h, v)}
             \subseteq (UNION {Shows(h[i].look) : i \in DOMAIN h}) \cup Shows(v.look)
<1> SUFFICES ASSUME NEW i \in DOMAIN Append(h, v)
             PROVE  Shows(Append(h, v)[i].look)
                      \subseteq (UNION {Shows(h[j].look) : j \in DOMAIN h}) \cup Shows(v.look)
  OBVIOUS
<1>1. Len(h) \in Nat /\ i \in 1..(Len(h) + 1) /\ DOMAIN h = 1..Len(h)
  OBVIOUS
<1>2. CASE i \in 1..Len(h)
  <2>1. Append(h, v)[i] = h[i]
    BY <1>2
  <2>2. QED
    BY <1>1, <1>2, <2>1
<1>3. CASE i = Len(h) + 1
  BY <1>3
<1>4. QED
  BY <1>1, <1>2, <1>3

LEMMA CommitsKeepPictures ==
    ASSUME IInv, NEW r \in Request, CommitStyle(r) \/ CommitVersion(r)
    PROVE  VersionPicturesStored' /\ PicturesWithinLimit'
<1> DEFINE s == req[r].job.at
<1>1. s \in Survey
  BY RowOf DEF IInv, PlansStaySound, InRow, CommitStyle, CommitVersion
<1>2. req[r].pc \in {"saving", "publishing"}
  BY DEF CommitStyle, CommitVersion
<1>3. ShownBy(s) \subseteq StoredBy(r) /\ Cardinality(StoredBy(r)) <= MaxSurveyImages
  BY <1>2 DEF IInv, PlansStaySound, SavesSafely
<1>4. pictures' = [pictures EXCEPT ![s] = StoredBy(r)] /\ gallery' = gallery
  BY DEF CommitStyle, CommitVersion, StoredBy
<1>5. PicturesWithinLimit'
  BY <1>1, <1>3, <1>4 DEF IInv, TypeOK, PicturesWithinLimit
<1>6. VersionPicturesStored'
  <2>1. CASE CommitStyle(r)
    <3>1. versions' = versions
      BY <2>1 DEF CommitStyle
    <3>2. QED
      BY <1>1, <1>3, <1>4, <3>1 DEF IInv, TypeOK, VersionPicturesStored, ShownBy
  <2>2. CASE CommitVersion(r)
    <3>1. req[r].version \in Version
      BY <2>2, RequestForms DEF IInv, CommitVersion, Appearing
    <3>2. versions[s] \in Seq(Version)
      BY <1>1 DEF IInv, TypeOK
    <3>3. versions' = [versions EXCEPT ![s] = Append(versions[s], req[r].version)]
      BY <2>2 DEF CommitVersion
    <3>4. Shows(req[r].version.look) \subseteq StoredBy(r)
      BY <2>2 DEF IInv, PlansStaySound, PublishesSafely, CommitVersion
    <3> SUFFICES ASSUME NEW t \in Survey PROVE ShownBy(t)' \subseteq pictures'[t]
      BY DEF VersionPicturesStored
    <3>5. CASE t = s
      <4>1. versions'[t] = Append(versions[s], req[r].version) /\ pictures'[t] = StoredBy(r)
        BY <1>1, <1>4, <3>3, <3>5 DEF IInv, TypeOK
      <4>2. ShownBy(t)' \subseteq ShownBy(s) \cup Shows(req[r].version.look)
        BY <3>1, <3>2, <4>1, AppendShows DEF ShownBy
      <4>3. QED
        BY <1>3, <3>4, <4>1, <4>2
    <3>6. CASE t # s
      <4>1. versions'[t] = versions[t] /\ pictures'[t] = pictures[t]
        BY <1>4, <3>3, <3>6 DEF IInv, TypeOK
      <4>2. QED
        BY <4>1 DEF IInv, VersionPicturesStored, ShownBy
    <3>7. QED
      BY <3>5, <3>6
  <2>3. QED
    BY <2>1, <2>2
<1>7. QED
  BY <1>5, <1>6

LEMMA TransactionsKeepIInv ==
    ASSUME IInv, NEW r \in Request, Transaction(r)
    PROVE  IInv'
<1>1. TypeOK /\ TypeOK' /\ PlansStaySound /\ VersionPicturesStored
  BY TransactionsTyped DEF IInv
<1>2. PlansStaySound'
  <2>1. Local(r) /\ Sound(r)'
    <3>1. RowsHeld /\ KeeperHeld
      BY <1>1 DEF PlansStaySound, KeepsSafely, KeeperHeld
    <3>2. QED
      BY <1>1, <3>1, TransactionsLocal, OwnPlanSound
  <2>2. \A q \in Request : Sound(q)
    BY <1>1, SoundEverywhere
  <2>3. \A q \in Request \ {r} : Sound(q)'
    BY <1>1, <2>1, <2>2, OthersStaySound
  <2>4. \A q \in Request : Sound(q)'
    BY <2>1, <2>3
  <2>5. QED
    BY <2>4, SoundNext
<1>3. VersionPicturesStored' /\ PicturesWithinLimit'
  <2>1. CASE CommitStyle(r) \/ CommitVersion(r)
    BY <2>1, CommitsKeepPictures
  <2>2. CASE CommitAccountStyle(r)
    <3>1. Cardinality(gallery') <= MaxWorkspaceImages
      BY <2>2, <1>1 DEF CommitAccountStyle, PlansStaySound, KeepsSafely
    <3>2. QED
      BY <2>2, <3>1 DEF CommitAccountStyle, IInv, VersionPicturesStored,
                        PicturesWithinLimit, ShownBy
  <2>3. CASE UNCHANGED rows
    BY <2>3 DEF IInv, VersionPicturesStored, PicturesWithinLimit, ShownBy, rows
  <2>4. UNCHANGED rows \/ CommitStyle(r) \/ CommitVersion(r) \/ CommitAccountStyle(r)
    BY DEF Transaction, Hold, SaveStyle, Publish, PublishRefused, NothingToPublish,
           RefreshOne, RefreshSkipped, HoldAccountStyle
  <2>5. QED
    BY <2>1, <2>2, <2>3, <2>4
<1>4. QED
  BY <1>1, <1>2, <1>3 DEF IInv

LEMMA QuietStepsKeepIInv ==
    ASSUME IInv, TypeOK', UNCHANGED <<versions, pictures, gallery>>, PlansStaySound'
    PROVE  IInv'
BY DEF IInv, VersionPicturesStored, PicturesWithinLimit, ShownBy

LEMMA OtherRequestStepsKeepIInv ==
    ASSUME IInv, TypeOK', NEW r \in Request, Handler(r) \/ Abort(r)
    PROVE  IInv'
<1>1. /\ Local(r) /\ UNCHANGED <<versions, pictures, gallery>>
      /\ req'[r].pc \in {"idle", "editing", "asked", "waiting", "account"}
  BY HandlersLocal, AbortLocal DEF IInv
<1>2. \A q \in Request : Sound(q)
  BY SoundEverywhere DEF IInv
<1>3. \A q \in Request \ {r} : Sound(q)'
  BY <1>1, <1>2, OthersStaySound DEF IInv
<1>4. Sound(r)'
  BY <1>1, IdleIsSound
<1>5. \A q \in Request : Sound(q)'
  BY <1>3, <1>4
<1>6. PlansStaySound'
  BY <1>5, SoundNext
<1>7. QED
  BY <1>1, <1>6, QuietStepsKeepIInv

LEMMA IInvStep == IInv /\ [Next]_vars => IInv'
<1> SUFFICES ASSUME IInv, [Next]_vars PROVE IInv'
  OBVIOUS
<1>1. TypeOK'
  BY TypeStep DEF IInv
<1>2. ASSUME NEW r \in Request, Transaction(r) PROVE IInv'
  BY <1>2, TransactionsKeepIInv
<1>3. ASSUME NEW r \in Request, Handler(r) \/ Abort(r) PROVE IInv'
  BY <1>1, <1>3, OtherRequestStepsKeepIInv
<1>4. ASSUME NEW l \in Lang, SaveWorkspaceStyleTranslation(l) PROVE IInv'
  <2>1. UNCHANGED <<versions, pictures, gallery, locks, req>>
    BY <1>4 DEF SaveWorkspaceStyleTranslation
  <2>2. PlansStaySound'
    BY <2>1, UntouchedStaysSound DEF IInv
  <2>3. QED
    BY <1>1, <2>1, <2>2, QuietStepsKeepIInv
<1>5. ASSUME NEW s \in Survey, SetStatus(s) PROVE IInv'
  <2>1. UNCHANGED <<versions, pictures, gallery, locks, req>>
    BY <1>5 DEF SetStatus
  <2>2. PlansStaySound'
    BY <2>1, UntouchedStaysSound DEF IInv
  <2>3. QED
    BY <1>1, <2>1, <2>2, QuietStepsKeepIInv
<1>6. CASE UNCHANGED vars
  <2>1. UNCHANGED <<versions, pictures, gallery, locks, req>>
    BY <1>6 DEF vars, locks
  <2>2. PlansStaySound'
    BY <2>1, UntouchedStaysSound DEF IInv
  <2>3. QED
    BY <1>1, <2>1, <2>2, QuietStepsKeepIInv
<1>7. QED
  BY <1>2, <1>3, <1>4, <1>5, <1>6 DEF Next

\* The inductive invariant holds of every reachable state.
THEOREM Invariance == Spec => []IInv
BY IInvInit, IInvStep, PTL DEF Spec

\* No picture that a published version shows is ever taken away.
THEOREM PublishedPicturesStay == Spec => []VersionPicturesStored
BY Invariance, PTL DEF IInv

\* No survey, and no account, stores more pictures than it may.
THEOREM LimitsHold == Spec => []PicturesWithinLimit
BY Invariance, PTL DEF IInv

\* What a transaction worked out is still right when it commits.
THEOREM PlansHold == Spec => []PlansStaySound
BY Invariance, PTL DEF IInv

-----------------------------------------------------------------------------
(* Publishing implements PublishedHistory.                                 *)

LEMMA ToldInit == Init => History!Init
BY DEF Init, History!Init, Told

\* The tale of a survey whose history grows by v grows by the entry of v.
LEMMA ToldGrows ==
    ASSUME NEW h \in Seq(Version), NEW v \in Version
    PROVE  [i \in DOMAIN Append(h, v) |-> Entry(Append(h, v)[i])]
             = Append([i \in DOMAIN h |-> Entry(h[i])], Entry(v))
<1> DEFINE t == [i \in DOMAIN h |-> Entry(h[i])]
<1>1. Len(h) \in Nat /\ DOMAIN h = 1..Len(h)
  OBVIOUS
<1>2. t \in Seq({Entry(w) : w \in Version}) /\ Len(t) = Len(h)
  BY <1>1
<1>3. DOMAIN Append(h, v) = 1..(Len(h) + 1) /\ DOMAIN Append(t, Entry(v)) = 1..(Len(h) + 1)
  BY <1>2
<1>4. ASSUME NEW i \in 1..(Len(h) + 1)
      PROVE  Entry(Append(h, v)[i]) = Append(t, Entry(v))[i]
  <2>1. CASE i \in 1..Len(h)
    <3>1. Append(h, v)[i] = h[i] /\ Append(t, Entry(v))[i] = t[i]
      BY <1>2, <2>1
    <3>2. QED
      BY <1>1, <2>1, <3>1
  <2>2. CASE i = Len(h) + 1
    <3>1. Append(h, v)[i] = v /\ Append(t, Entry(v))[i] = Entry(v)
      BY <1>2, <2>2
    <3>2. QED
      BY <3>1
  <2>3. QED
    BY <1>1, <2>1, <2>2
<1>5. QED
  BY <1>3, <1>4

LEMMA StyleArranges ==
    ASSUME IInv, IInv', NEW r \in Request, CommitStyle(r)
    PROVE  History!Next
<1> DEFINE s == req[r].job.at
<1>1. s \in Survey
  BY RowOf DEF IInv, PlansStaySound, InRow, CommitStyle
<1>2. versions' = versions /\ pictures' = [pictures EXCEPT ![s] = StoredBy(r)]
  BY DEF CommitStyle, StoredBy
<1>3. Told' = Told
  BY <1>2 DEF Told
<1>4. StoredBy(r) \in SUBSET Picture
  BY <1>1, <1>2 DEF IInv, TypeOK
<1>5. ShownBy(s) \subseteq StoredBy(r)
  BY DEF IInv, PlansStaySound, SavesSafely, CommitStyle
<1>6. History!ShownIn(Told[s]) = ShownBy(s)
  BY <1>1 DEF History!ShownIn, PicturesOf, Told, Entry, ShownBy
<1>7. History!Arrange(s)
  BY <1>2, <1>3, <1>4, <1>5, <1>6 DEF History!Arrange
<1>8. QED
  BY <1>1, <1>7 DEF History!Next

LEMMA VersionPublishes ==
    ASSUME IInv, IInv', NEW r \in Request, CommitVersion(r)
    PROVE  History!Next
<1> DEFINE s == req[r].job.at
           v == req[r].version
           c == [body |-> v.body, look |-> v.look]
<1>1. s \in Survey /\ req[r].pc = "publishing"
  BY RowOf DEF IInv, PlansStaySound, InRow, CommitVersion
<1>2. v \in Version /\ versions[s] \in Seq(Version)
  BY <1>1, RequestForms DEF IInv, Appearing, TypeOK
<1>3. /\ versions' = [versions EXCEPT ![s] = Append(versions[s], v)]
      /\ pictures' = [pictures EXCEPT ![s] = StoredBy(r)]
  BY DEF CommitVersion, StoredBy
<1>4. /\ Shows(v.look) \subseteq StoredBy(r)
      /\ v.number = Len(versions[s]) + 1
      /\ versions[s] # <<>> => v.body # Live(s).body \/ v.look # Live(s).look
      /\ ShownBy(s) \subseteq StoredBy(r)
  BY <1>1 DEF IInv, PlansStaySound, PublishesSafely, SavesSafely
<1>5. StoredBy(r) \in SUBSET Picture
  <2>1. pictures'[s] = StoredBy(r)
    BY <1>1, <1>3 DEF IInv, TypeOK
  <2>2. QED
    BY <1>1, <2>1 DEF IInv, TypeOK
<1>6. c \in Content
  BY <1>2 DEF Content, Version
<1>7. History!ShownIn(Told[s]) = ShownBy(s)
  BY <1>1 DEF History!ShownIn, PicturesOf, Told, Entry, ShownBy
<1>8. Told' = [Told EXCEPT ![s] = Append(Told[s], Entry(v))]
  <2>1. \A t \in Survey : Told'[t] = [Told EXCEPT ![s] = Append(Told[s], Entry(v))][t]
    <3> SUFFICES ASSUME NEW t \in Survey
                 PROVE  Told'[t] = [Told EXCEPT ![s] = Append(Told[s], Entry(v))][t]
      OBVIOUS
    <3>1. CASE t = s
      <4>1. versions'[t] = Append(versions[s], v)
        BY <1>1, <1>3, <3>1 DEF IInv, TypeOK
      <4>2. Told'[t] = [i \in DOMAIN Append(versions[s], v) |-> Entry(Append(versions[s], v)[i])]
        BY <4>1 DEF Told
      <4>3. Told'[t] = Append([i \in DOMAIN versions[s] |-> Entry(versions[s][i])], Entry(v))
        BY <1>2, <4>2, ToldGrows
      <4>4. Told[s] = [i \in DOMAIN versions[s] |-> Entry(versions[s][i])]
        BY <1>1 DEF Told
      <4>5. QED
        BY <1>1, <3>1, <4>3, <4>4 DEF Told
    <3>2. CASE t # s
      BY <1>1, <1>3, <3>2 DEF Told, IInv, TypeOK
    <3>3. QED
      BY <3>1, <3>2
  <2>2. QED
    BY <2>1 DEF Told
<1>9. /\ Len(Told[s]) = Len(versions[s])
      /\ (Told[s] # <<>>) = (versions[s] # <<>>)
      /\ versions[s] # <<>> => Told[s][Len(Told[s])] = Entry(Live(s))
  BY <1>1, <1>2 DEF Told, Live
<1>10. Entry(v) = [number |-> Len(Told[s]) + 1, content |-> c]
  BY <1>4, <1>9 DEF Entry
<1>11. Told[s] # <<>> => c # Told[s][Len(Told[s])].content
  BY <1>4, <1>9 DEF Entry
<1>12. PicturesOf(c) = Shows(v.look)
  BY DEF PicturesOf
<1> HIDE DEF c, v
<1>13. History!Publish(s)
  BY <1>3, <1>4, <1>5, <1>6, <1>7, <1>8, <1>10, <1>11, <1>12 DEF History!Publish
<1>14. QED
  BY <1>1, <1>13 DEF History!Next

LEMMA ToldStep ==
    IInv /\ IInv' /\ [Next]_vars => [History!Next]_<<Told, pictures>>
<1> SUFFICES ASSUME IInv, IInv', [Next]_vars
             PROVE  [History!Next]_<<Told, pictures>>
  OBVIOUS
<1>1. ASSUME UNCHANGED <<versions, pictures>> PROVE [History!Next]_<<Told, pictures>>
  BY <1>1 DEF Told
<1>2. ASSUME NEW r \in Request, Transaction(r) PROVE [History!Next]_<<Told, pictures>>
  <2>1. CASE CommitStyle(r)
    BY <2>1, StyleArranges
  <2>2. CASE CommitVersion(r)
    BY <2>2, VersionPublishes
  <2>3. CASE UNCHANGED <<versions, pictures>>
    BY <1>1, <2>3
  <2>4. QED
    BY <1>2, <2>1, <2>2, <2>3
    DEF Transaction, Hold, SaveStyle, Publish, PublishRefused, NothingToPublish, rows,
        RefreshOne, RefreshSkipped, HoldAccountStyle, CommitAccountStyle
<1>3. ASSUME NEW r \in Request, Handler(r) \/ Abort(r)
      PROVE  UNCHANGED <<versions, pictures>>
  BY <1>3, HandlersLocal, AbortLocal DEF IInv
<1>4. ASSUME NEW l \in Lang, SaveWorkspaceStyleTranslation(l)
      PROVE  UNCHANGED <<versions, pictures>>
  BY <1>4 DEF SaveWorkspaceStyleTranslation
<1>5. ASSUME NEW s \in Survey, SetStatus(s)
      PROVE  UNCHANGED <<versions, pictures>>
  BY <1>5 DEF SetStatus
<1>6. QED
  BY <1>1, <1>2, <1>3, <1>4, <1>5 DEF Next, vars

\* Publishing keeps an append-only history, each version new and every
\* picture it shows within reach.
THEOREM HistoryIsKept == Spec => ImplementsPublishedHistory
BY ToldInit, ToldStep, Invariance, PTL DEF Spec, ImplementsPublishedHistory, History!Spec

-----------------------------------------------------------------------------
(***************************************************************************)
(* What a publication took from the account's style is still so when the   *)
(* version appears, a refresh does what was asked and no more, and the     *)
(* account's style never lacks a picture.                                  *)
(***************************************************************************)

RequestStep(r) == Transaction(r) \/ Handler(r) \/ Abort(r)

-----------------------------------------------------------------------------
(* What a request's step leaves alone.                                     *)

LEMMA RequestStepLocal ==
    ASSUME IInv, NEW r \in Request, RequestStep(r)
    PROVE  Local(r)
<1>1. RowsHeld /\ KeeperHeld
  BY DEF IInv, PlansStaySound, KeepsSafely, KeeperHeld
<1>2. QED
  BY <1>1, TransactionsLocal, HandlersLocal, AbortLocal DEF RequestStep, IInv

LEMMA HandlersHoldNothing ==
    ASSUME NEW r \in Request, Handler(r)
    PROVE  UNCHANGED <<status, account, gallery, locks>>
BY DEF Handler, LoadForEdit, SubmitStyle, SubmitReset, SubmitPublish, SaveDraft, AskToApply,
       RefreshFromAccount, SubmitAccountStyle, rows, locks

LEMMA StatusAndAccount ==
    ASSUME NEW r \in Request, RequestStep(r)
    PROVE  /\ UNCHANGED status
           /\ UNCHANGED <<account, gallery>> \/ CommitAccountStyle(r)
<1>1. CASE Transaction(r)
  BY <1>1 DEF Transaction, Hold, SaveStyle, CommitStyle, Publish, PublishRefused,
              NothingToPublish, RefreshOne, RefreshSkipped, CommitVersion,
              HoldAccountStyle, CommitAccountStyle, rows
<1>2. CASE Handler(r)
  BY <1>2, HandlersHoldNothing
<1>3. CASE Abort(r)
  BY <1>3 DEF Abort, rows
<1>4. QED
  BY <1>1, <1>2, <1>3 DEF RequestStep

\* A step of r shares the account style's row for nobody else, and takes
\* nobody else's share.
LEMMA SharesOfOthers ==
    ASSUME NEW r \in Request, RequestStep(r)
    PROVE  sharers \ {r} \subseteq sharers' /\ sharers' \subseteq sharers \cup {r}
<1>1. CASE Transaction(r)
  BY <1>1 DEF Transaction, Hold, SaveStyle, CommitStyle, Publish, PublishRefused,
              NothingToPublish, RefreshOne, RefreshSkipped, CommitVersion, PublishResolved,
              HoldAccountStyle, CommitAccountStyle, Release, Share
<1>2. CASE Handler(r)
  BY <1>2, HandlersHoldNothing DEF locks
<1>3. CASE Abort(r)
  BY <1>3 DEF Abort
<1>4. QED
  BY <1>1, <1>2, <1>3 DEF RequestStep

-----------------------------------------------------------------------------
(* The account style's row is held by one, or shared.                      *)

Exclusive == keeper # NoOne => sharers = {}

LEMMA ExclusiveStep ==
    ASSUME TypeOK, Exclusive, [Next]_vars
    PROVE  Exclusive'
<1>1. ASSUME NEW r \in Request, Transaction(r) PROVE Exclusive'
  <2>1. CASE Hold(r) \/ CommitStyle(r) \/ PublishRefused(r) \/ NothingToPublish(r)
             \/ RefreshSkipped(r) \/ CommitVersion(r)
    BY <2>1 DEF Exclusive, Hold, CommitStyle, PublishRefused, NothingToPublish,
                RefreshSkipped, CommitVersion, Release
  <2>2. CASE SaveStyle(r) \/ Publish(r) \/ RefreshOne(r)
    BY <2>2 DEF Exclusive, SaveStyle, Publish, RefreshOne, PublishResolved, Release
  <2>3. CASE HoldAccountStyle(r) \/ CommitAccountStyle(r)
    BY <2>3 DEF Exclusive, HoldAccountStyle, CommitAccountStyle
  <2>4. QED
    BY <1>1, <2>1, <2>2, <2>3 DEF Transaction
<1>2. ASSUME NEW r \in Request, Handler(r) PROVE Exclusive'
  BY <1>2, HandlersHoldNothing DEF Exclusive, locks
<1>3. ASSUME NEW r \in Request, Abort(r) PROVE Exclusive'
  BY <1>3 DEF Exclusive, Abort
<1>4. ASSUME UNCHANGED locks PROVE Exclusive'
  BY <1>4 DEF Exclusive, locks
<1>5. QED
  BY <1>1, <1>2, <1>3, <1>4
  DEF Next, SaveWorkspaceStyleTranslation, SetStatus, vars, locks

-----------------------------------------------------------------------------
(* What a publication took from the account's style, and a refresh from    *)
(* the live version.                                                       *)

Refreshing(r) == /\ req[r].pc \in {"waiting", "held", "publishing"}
                 /\ req[r].job.op = "refresh"

\* Who asks to apply the account's style has one to apply.
AskedOf(r) == req[r].pc = "asked" \/ Refreshing(r) => account.row

SharedPlan(r) ==
    req[r].pc = "publishing" /\ req[r].shared =>
        /\ r \in sharers
        /\ \A p \in req[r].version.follows : req[r].version.look[p] = account.look[p]
        /\ \A l \in req[r].version.langs :
              ~PendingFor(account, l, req[r].version.follows)

\* v says what the version w says, in parts of its own.
SaysThe(v, w) ==
    /\ v.body = w.body /\ v.langs = w.langs /\ v.follows = w.follows
    /\ \A p \in Part \ w.follows : v.look[p] = w.look[p]

RefreshPlan(r) ==
    req[r].pc = "publishing" /\ req[r].job.op = "refresh" =>
        /\ req[r].shared
        /\ account.stamp = req[r].job.asked
        /\ status[req[r].job.at] = "open"
        /\ SaysThe(req[r].version, Live(req[r].job.at))

AppearsRight(r) == AskedOf(r) /\ SharedPlan(r) /\ RefreshPlan(r)

AInv == Exclusive /\ \A r \in Request : AppearsRight(r)

LEMMA AInvInit == Init => AInv
BY DEF Init, AInv, Exclusive, AppearsRight, AskedOf, Refreshing, SharedPlan, RefreshPlan, Idle


-----------------------------------------------------------------------------
(* The others' plans outlast a step of r.                                  *)

LEMMA RowStays ==
    ASSUME NEW r \in Request, RequestStep(r), account.row
    PROVE  account'.row
BY StatusAndAccount DEF CommitAccountStyle

\* While somebody shares the account style's row, nobody changes it.
LEMMA SharedStays ==
    ASSUME IInv, Exclusive, NEW r \in Request, RequestStep(r), sharers # {}
    PROVE  account' = account
<1>1. keeper = NoOne
  BY DEF Exclusive
<1>2. ~CommitAccountStyle(r)
  BY <1>1, HoldersAssumption DEF IInv, PlansStaySound, KeepsSafely, CommitAccountStyle
<1>3. QED
  BY <1>2, StatusAndAccount

LEMMA OthersAppearRight ==
    ASSUME IInv, AInv, NEW r \in Request, RequestStep(r), NEW q \in Request \ {r}
    PROVE  AppearsRight(q)'
<1>1. req'[q] = req[q] /\ AppearsRight(q)
  BY RequestStepLocal DEF Local, AInv
<1>2. AskedOf(q)'
  BY <1>1, RowStays DEF AppearsRight, AskedOf, Refreshing
<1>3. ASSUME req[q].pc = "publishing", req[q].shared
      PROVE  q \in sharers' /\ account' = account
  <2>1. q \in sharers
    BY <1>1, <1>3 DEF AppearsRight, SharedPlan
  <2>2. QED
    BY <2>1, SharesOfOthers, SharedStays DEF AInv
<1>4. SharedPlan(q)'
  BY <1>1, <1>3 DEF AppearsRight, SharedPlan, PendingFor
<1>5. RefreshPlan(q)'
  <2> SUFFICES ASSUME req[q].pc = "publishing", req[q].job.op = "refresh"
               PROVE  /\ req[q].shared
                      /\ account'.stamp = req[q].job.asked
                      /\ status'[req[q].job.at] = "open"
                      /\ SaysThe(req[q].version, Live(req[q].job.at)')
    BY <1>1 DEF RefreshPlan
  <2>1. /\ req[q].shared
        /\ account.stamp = req[q].job.asked
        /\ status[req[q].job.at] = "open"
        /\ SaysThe(req[q].version, Live(req[q].job.at))
    BY <1>1 DEF AppearsRight, RefreshPlan
  <2>2. req[q].job.at \in Survey /\ holder[req[q].job.at] = q
    BY RowOf DEF IInv, PlansStaySound, InRow
  <2>3. versions'[req[q].job.at] = versions[req[q].job.at]
    BY <2>2, RequestStepLocal DEF Local
  <2>4. Live(req[q].job.at)' = Live(req[q].job.at)
    BY <1>1, <2>3 DEF Live
  <2>5. QED
    BY <1>3, <2>1, <2>4, StatusAndAccount
<1>6. QED
  BY <1>2, <1>4, <1>5 DEF AppearsRight

-----------------------------------------------------------------------------
(* A refresh's own plan: the draft of a version freezes to what that       *)
(* version says.                                                           *)

LEMMA DraftOfFollows ==
    ASSUME NEW v \in Version
    PROVE  FollowedParts(DraftOf(v)) = v.follows
<1> DEFINE off == {p \in Optional \ v.follows : v.look[p] = {}}
<1>1. \A p \in Part : v.look[p] # Follow
  BY LooksAssumption DEF Version, Style
<1>2. /\ DraftOf(v).off = off
      /\ \A p \in Part : DraftOf(v).own[p] = IF p \in v.follows \cup off
                                              THEN Follow ELSE v.look[p]
  BY DEF DraftOf
<1>3. v.follows \subseteq Part
  BY DEF Version
<1>4. QED
  BY <1>1, <1>2, <1>3 DEF FollowedParts

LEMMA DraftOfLooks ==
    ASSUME NEW v \in Version, NEW style, NEW p \in Part \ v.follows
    PROVE  ResolvedStyle(DraftOf(v), style)[p] = v.look[p]
<1> DEFINE off == {o \in Optional \ v.follows : v.look[o] = {}}
<1>1. v.look[p] # Follow
  BY LooksAssumption DEF Version, Style
<1>2. /\ DraftOf(v).off = off
      /\ DraftOf(v).own[p] = IF p \in v.follows \cup off THEN Follow ELSE v.look[p]
  BY DEF DraftOf
<1>3. ResolvedStyle(DraftOf(v), style)[p] = IF p \in off THEN {} ELSE v.look[p]
  BY <1>1, <1>2 DEF ResolvedStyle, FormStyle
<1>4. QED
  BY <1>3

LEMMA RedrawnSaysTheSame ==
    ASSUME NEW v \in Version, NEW acct, NEW n
    PROVE  SaysThe(Freeze(DraftOf(v), acct, n), v)
<1>1. /\ Freeze(DraftOf(v), acct, n).body = v.body
      /\ Freeze(DraftOf(v), acct, n).langs = v.langs
      /\ Freeze(DraftOf(v), acct, n).follows = FollowedParts(DraftOf(v))
      /\ Freeze(DraftOf(v), acct, n).look = ResolvedStyle(DraftOf(v), acct.look)
  BY DEF Freeze, DraftOf
<1>2. QED
  BY <1>1, DraftOfFollows, DraftOfLooks DEF SaysThe

\* What a version follows, it shows as the account has it.
LEMMA FrozenFollows ==
    ASSUME NEW d, NEW acct, NEW n, NEW p \in Freeze(d, acct, n).follows
    PROVE  Freeze(d, acct, n).look[p] = acct.look[p]
BY DEF Freeze, FollowedParts, ResolvedStyle, FormStyle

LEMMA ReadyInEveryLanguage ==
    ASSUME NEW d, NEW acct, NEW n, ReadyToPublish(d, acct),
           NEW l \in Freeze(d, acct, n).langs
    PROVE  ~PendingFor(acct, l, Freeze(d, acct, n).follows)
BY DEF Freeze, ReadyToPublish, BlockedIn

-----------------------------------------------------------------------------
(* r's own plan.                                                           *)

\* Where r goes tells what must hold of it.
LEMMA QuietAppearsRight ==
    ASSUME NEW r \in Request,
           req'[r].pc \in {"idle", "editing", "saving", "account", "keeping"}
    PROVE  AppearsRight(r)'
BY DEF AppearsRight, AskedOf, Refreshing, SharedPlan, RefreshPlan

LEMMA WaitingAppearsRight ==
    ASSUME NEW r \in Request, NEW job, req'[r].pc \in {"waiting", "held"},
           req'[r].job = job, job.op = "refresh" => account'.row
    PROVE  AppearsRight(r)'
BY DEF AppearsRight, AskedOf, Refreshing, SharedPlan, RefreshPlan

LEMMA NextAppearsRight ==
    ASSUME TypeOK, NEW r \in Request, NEW asked, NEW todo, NextRefresh(r, asked, todo),
           account'.row
    PROVE  AppearsRight(r)'
<1>1. CASE Goes(r, Idle)
  BY <1>1, GoesLocal, QuietAppearsRight DEF Idle
<1>2. ASSUME NEW job, Goes(r, [pc |-> "waiting", job |-> job])
      PROVE  AppearsRight(r)'
  <2>1. req'[r] = [pc |-> "waiting", job |-> job]
    BY <1>2, GoesLocal
  <2>2. QED
    BY <2>1, WaitingAppearsRight
<1>3. QED
  BY <1>1, <1>2 DEF NextRefresh

LEMMA HandlersAppearRight ==
    ASSUME TypeOK, AInv, NEW r \in Request, Handler(r)
    PROVE  AppearsRight(r)'
<1>1. account' = account
  BY HandlersHoldNothing
<1>2. ASSUME NEW s \in Survey, LoadForEdit(r, s) PROVE AppearsRight(r)'
  BY <1>2, GoesLocal, QuietAppearsRight DEF LoadForEdit
<1>3. ASSUME NEW s \in Survey, SubmitStyle(r, s) PROVE AppearsRight(r)'
  <2>1. PICK uploads, d :
           Goes(r, [pc |-> "waiting",
                    job |-> [op |-> "style", at |-> s, uploads |-> uploads, draft |-> d]])
    BY <1>3 DEF SubmitStyle
  <2>2. req'[r] = [pc |-> "waiting",
                   job |-> [op |-> "style", at |-> s, uploads |-> uploads, draft |-> d]]
    BY <2>1, GoesLocal
  <2>3. QED
    BY <2>2, WaitingAppearsRight
<1>4. ASSUME NEW s \in Survey, SubmitReset(r, s) PROVE AppearsRight(r)'
  <2>1. PICK job : Goes(r, [pc |-> "waiting", job |-> job]) /\ job.op = "style"
    BY <1>4 DEF SubmitReset
  <2>2. req'[r] = [pc |-> "waiting", job |-> job]
    BY <2>1, GoesLocal
  <2>3. QED
    BY <2>1, <2>2, WaitingAppearsRight
<1>5. ASSUME NEW s \in Survey, SubmitPublish(r, s) PROVE AppearsRight(r)'
  <2>1. req'[r] = [pc |-> "waiting", job |-> [op |-> "publish", at |-> s]]
    BY <1>5, GoesLocal DEF SubmitPublish
  <2>2. QED
    BY <2>1, WaitingAppearsRight
<1>6. CASE SaveDraft(r)
  BY <1>6, GoesLocal, QuietAppearsRight DEF SaveDraft, Idle
<1>7. CASE AskToApply(r)
  <2>1. req'[r].pc = "asked" /\ account.row
    BY <1>7, GoesLocal DEF AskToApply
  <2>2. QED
    BY <1>1, <2>1 DEF AppearsRight, AskedOf, SharedPlan, RefreshPlan
<1>8. CASE RefreshFromAccount(r)
  <2>1. account.row
    BY <1>8 DEF AInv, AppearsRight, AskedOf, RefreshFromAccount
  <2>2. CASE Goes(r, Idle)
    BY <2>2, GoesLocal, QuietAppearsRight DEF Idle
  <2>3. ASSUME NEW todo, NextRefresh(r, req[r].stamp, todo) PROVE AppearsRight(r)'
    BY <1>1, <2>1, <2>3, NextAppearsRight
  <2>4. QED
    BY <1>8, <2>2, <2>3 DEF RefreshFromAccount
<1>9. CASE SubmitAccountStyle(r)
  BY <1>9, GoesLocal, QuietAppearsRight DEF SubmitAccountStyle
<1>10. QED
  BY <1>2, <1>3, <1>4, <1>5, <1>6, <1>7, <1>8, <1>9 DEF Handler

\* A publication worked out under the share of the account style's row.
LEMMA PublicationAppearsRight ==
    ASSUME TypeOK, AInv, NEW r \in Request, NEW d,
           req[r].pc = "held", PublishResolved(r, d), UNCHANGED rows,
           ReadyToPublish(d, account),
           req[r].job.op = "refresh" =>
               /\ Refreshable(req[r].job.at, req[r].job.asked)
               /\ Live(req[r].job.at) \in Version
               /\ d = DraftOf(Live(req[r].job.at))
    PROVE  AppearsRight(r)'
<1> DEFINE s == req[r].job.at
           v == Freeze(d, account, Len(versions[s]) + 1)
<1>1. PICK add, drop :
         Goes(r, [pc |-> "publishing", job |-> req[r].job, version |-> v,
                  shared |-> account.row, add |-> add, drop |-> drop])
  BY DEF PublishResolved
<1>2. /\ req'[r].pc = "publishing" /\ req'[r].job = req[r].job
      /\ req'[r].version = v /\ req'[r].shared = account.row
  <2>1. req'[r] = [pc |-> "publishing", job |-> req[r].job, version |-> v,
                   shared |-> account.row, add |-> add, drop |-> drop]
    BY <1>1, GoesLocal
  <2>2. QED
    BY <2>1
<1>3. account' = account /\ status' = status /\ versions' = versions
  BY DEF rows
<1>4. req[r].job.op = "refresh" => account.row
  BY DEF AInv, AppearsRight, AskedOf, Refreshing
<1>5. AskedOf(r)'
  BY <1>2, <1>3, <1>4 DEF AskedOf, Refreshing
<1> HIDE DEF v
<1>6. SharedPlan(r)'
  <2>1. account.row => r \in sharers'
    BY DEF PublishResolved, Share
  <2>2. \A p \in v.follows : v.look[p] = account.look[p]
    BY FrozenFollows DEF v
  <2>3. \A l \in v.langs : ~PendingFor(account, l, v.follows)
    BY ReadyInEveryLanguage DEF v
  <2>4. QED
    BY <1>2, <1>3, <2>1, <2>2, <2>3 DEF SharedPlan, PendingFor
<1>7. RefreshPlan(r)'
  <2> SUFFICES ASSUME req[r].job.op = "refresh"
               PROVE  /\ account.row
                      /\ account.stamp = req[r].job.asked
                      /\ status[s] = "open"
                      /\ SaysThe(v, Live(s))
    BY <1>2, <1>3 DEF RefreshPlan, Live
  <2>1. SaysThe(v, Live(s))
    BY RedrawnSaysTheSame DEF v
  <2>2. QED
    BY <1>4, <2>1 DEF Refreshable
<1>8. QED
  BY <1>5, <1>6, <1>7 DEF AppearsRight

LEMMA TransactionsAppearRight ==
    ASSUME TypeOK, AInv, NEW r \in Request, Transaction(r)
    PROVE  AppearsRight(r)'
<1>1. ASSUME Goes(r, Idle) PROVE AppearsRight(r)'
  BY <1>1, GoesLocal, QuietAppearsRight DEF Idle
<1>2. ASSUME req[r].pc \in {"waiting", "held", "publishing"}, req[r].job.op = "refresh"
      PROVE  account.row
  BY <1>2 DEF AInv, AppearsRight, AskedOf, Refreshing
<1>3. CASE Hold(r)
  <2>1. req'[r] = [pc |-> "held", job |-> req[r].job]
    BY <1>3, GoesLocal DEF Hold
  <2>2. account' = account /\ req[r].pc = "waiting"
    BY <1>3 DEF Hold, rows
  <2>3. QED
    BY <1>2, <2>1, <2>2, WaitingAppearsRight
<1>4. CASE SaveStyle(r)
  <2>1. ASSUME NEW job, NEW add, NEW drop,
               Goes(r, [pc |-> "saving", job |-> job, add |-> add, drop |-> drop])
        PROVE  AppearsRight(r)'
    BY <2>1, GoesLocal, QuietAppearsRight
  <2>2. QED
    BY <1>1, <1>4, <2>1 DEF SaveStyle
<1>5. CASE CommitStyle(r) \/ PublishRefused(r) \/ NothingToPublish(r) \/ CommitAccountStyle(r)
  BY <1>1, <1>5 DEF CommitStyle, PublishRefused, NothingToPublish, CommitAccountStyle
<1>6. CASE Publish(r)
  BY <1>6, PublicationAppearsRight DEF Publish, Publishable
<1>7. CASE RefreshOne(r)
  <2>1. req[r].job.at \in Survey
    BY <1>7, RequestForms, JobForms DEF RefreshOne, Waiting
  <2>2. versions[req[r].job.at] \in Seq(Version) /\ versions[req[r].job.at] # <<>>
    BY <1>7, <2>1 DEF RefreshOne, Refreshable, TypeOK
  <2>3. Live(req[r].job.at) \in Version
    BY <2>2 DEF Live
  <2>4. QED
    BY <1>7, <2>3, PublicationAppearsRight DEF RefreshOne, Redrawn
<1>8. CASE RefreshSkipped(r)
  <2>1. account.row /\ account' = account
    BY <1>2, <1>8 DEF RefreshSkipped, rows
  <2>2. QED
    BY <1>1, <1>8, <2>1, NextAppearsRight DEF RefreshSkipped
<1>9. CASE CommitVersion(r)
  <2>1. account' = account
    BY <1>9 DEF CommitVersion
  <2>2. CASE req[r].job.op = "refresh"
    BY <1>2, <1>9, <2>1, <2>2, NextAppearsRight DEF CommitVersion
  <2>3. CASE req[r].job.op # "refresh"
    BY <1>1, <1>9, <2>3 DEF CommitVersion
  <2>4. QED
    BY <2>2, <2>3
<1>10. CASE HoldAccountStyle(r)
  <2>1. ASSUME NEW look, NEW add, NEW drop,
               Goes(r, [pc |-> "keeping", look |-> look, add |-> add, drop |-> drop])
        PROVE  AppearsRight(r)'
    BY <2>1, GoesLocal, QuietAppearsRight
  <2>2. QED
    BY <1>1, <1>10, <2>1 DEF HoldAccountStyle
<1>11. QED
  BY <1>3, <1>4, <1>5, <1>6, <1>7, <1>8, <1>9, <1>10 DEF Transaction

-----------------------------------------------------------------------------
(* Whatever happens, each plan stays right until its version appears.      *)

LEMMA RequestStepsKeepPlans ==
    ASSUME IInv, AInv, NEW r \in Request, RequestStep(r)
    PROVE  \A q \in Request : AppearsRight(q)'
<1>1. AppearsRight(r)'
  <2>1. CASE Transaction(r)
    BY <2>1, TransactionsAppearRight DEF IInv
  <2>2. CASE Handler(r)
    BY <2>2, HandlersAppearRight DEF IInv
  <2>3. CASE Abort(r)
    BY <2>3, AbortLocal, QuietAppearsRight DEF IInv
  <2>4. QED
    BY <2>1, <2>2, <2>3 DEF RequestStep
<1>2. \A q \in Request \ {r} : AppearsRight(q)'
  BY OthersAppearRight
<1>3. QED
  BY <1>1, <1>2

\* The account's words are not saved while anybody shares its style's row.
LEMMA TranslationsKeepPlans ==
    ASSUME AInv, NEW l \in Lang, SaveWorkspaceStyleTranslation(l), NEW q \in Request
    PROVE  AppearsRight(q)'
<1>1. AppearsRight(q) /\ sharers = {}
  BY DEF AInv, SaveWorkspaceStyleTranslation
<1>2. ~(req[q].pc = "publishing" /\ req[q].shared)
  BY <1>1 DEF AppearsRight, SharedPlan
<1>3. ~(req[q].pc = "publishing" /\ req[q].job.op = "refresh")
  BY <1>1, <1>2 DEF AppearsRight, RefreshPlan
<1>4. account'.row = account.row /\ req' = req
  BY DEF SaveWorkspaceStyleTranslation
<1>5. AskedOf(q)'
  BY <1>1, <1>4 DEF AppearsRight, AskedOf, Refreshing
<1>6. QED
  BY <1>2, <1>3, <1>4, <1>5 DEF AppearsRight, SharedPlan, RefreshPlan

\* A survey is not closed while a transaction holds its row.
LEMMA StatusKeepsPlans ==
    ASSUME IInv, AInv, NEW s \in Survey, SetStatus(s), NEW q \in Request
    PROVE  AppearsRight(q)'
<1>1. AppearsRight(q) /\ UNCHANGED <<versions, account, locks, req>>
  BY DEF AInv, SetStatus
<1>2. AskedOf(q)' /\ SharedPlan(q)'
  BY <1>1 DEF AppearsRight, AskedOf, Refreshing, SharedPlan, PendingFor, locks
<1>3. RefreshPlan(q)'
  <2> SUFFICES ASSUME req[q].pc = "publishing", req[q].job.op = "refresh"
               PROVE  status'[req[q].job.at] = status[req[q].job.at]
    BY <1>1 DEF AppearsRight, RefreshPlan, Live
  <2>1. req[q].job.at \in Survey /\ holder[req[q].job.at] = q
    BY RowOf DEF IInv, PlansStaySound, InRow
  <2>2. req[q].job.at # s
    BY <2>1, HoldersAssumption DEF SetStatus
  <2>3. QED
    BY <2>1, <2>2 DEF SetStatus, IInv, TypeOK
<1>4. QED
  BY <1>2, <1>3 DEF AppearsRight

LEMMA AInvStep == IInv /\ AInv /\ [Next]_vars => AInv'
<1> SUFFICES ASSUME IInv, AInv, [Next]_vars PROVE AInv'
  OBVIOUS
<1>1. Exclusive'
  BY ExclusiveStep DEF IInv, AInv
<1>2. \A q \in Request : AppearsRight(q)'
  <2>1. ASSUME NEW r \in Request, RequestStep(r) PROVE \A q \in Request : AppearsRight(q)'
    BY <2>1, RequestStepsKeepPlans
  <2>2. ASSUME NEW l \in Lang, SaveWorkspaceStyleTranslation(l)
        PROVE  \A q \in Request : AppearsRight(q)'
    BY <2>2, TranslationsKeepPlans
  <2>3. ASSUME NEW s \in Survey, SetStatus(s) PROVE \A q \in Request : AppearsRight(q)'
    BY <2>3, StatusKeepsPlans
  <2>4. CASE UNCHANGED vars
    BY <2>4 DEF vars, AInv, AppearsRight, AskedOf, Refreshing, SharedPlan, RefreshPlan,
                PendingFor, Live
  <2>5. QED
    BY <2>1, <2>2, <2>3, <2>4 DEF Next, RequestStep
<1>3. QED
  BY <1>1, <1>2 DEF AInv

\* Until a version appears, it shows the account's style as it is and, if
\* a refresh publishes it, what the live version says.
THEOREM PlansAppearRight == Spec => []AInv
BY AInvInit, AInvStep, Invariance, PTL DEF Spec

-----------------------------------------------------------------------------
(* What a step may never do.                                               *)

\* A survey's history grows by the commit of whoever holds its row.
LEMMA HolderAppends ==
    ASSUME IInv, [Next]_vars, NEW s \in Survey, NEW r \in Request,
           Appended(s), req[r].pc = "publishing", req[r].job.at = s
    PROVE  Last(s) = req[r].version
<1>1. holder[s] = r
  BY RowOf DEF IInv, PlansStaySound, InRow
<1>2. ASSUME NEW q \in Request, RequestStep(q) PROVE CommitVersion(r)
  <2>1. q = r
    BY <1>1, <1>2, RequestStepLocal DEF Local, Appended
  <2>2. Transaction(q)
    BY <1>2, HandlersLocal, AbortLocal DEF RequestStep, IInv, Appended
  <2>3. CommitVersion(q)
    BY <2>2 DEF Appended, Transaction, Hold, SaveStyle, CommitStyle, Publish, PublishRefused,
                NothingToPublish, RefreshOne, RefreshSkipped, HoldAccountStyle,
                CommitAccountStyle, rows
  <2>4. QED
    BY <2>1, <2>3
<1>3. CommitVersion(r)
  BY <1>2 DEF Next, RequestStep, Appended, SaveWorkspaceStyleTranslation, SetStatus, vars
<1>4. versions'[s] = Append(versions[s], req[r].version)
  BY <1>3 DEF CommitVersion, IInv, TypeOK
<1>5. versions[s] \in Seq(Version) /\ req[r].version \in Version
  BY RequestForms DEF IInv, TypeOK, Appearing
<1>6. QED
  BY <1>4, <1>5 DEF Last

LEMMA RefreshSaysTheSame ==
    ASSUME IInv, AInv, [Next]_vars, NEW s \in Survey, NEW r \in Request,
           Appended(s), Committing(r, s, "refresh")
    PROVE  /\ SaysThe(Last(s), Live(s))
           /\ account.stamp = req[r].job.asked
           /\ status[s] = "open"
<1>1. Last(s) = req[r].version
  BY HolderAppends DEF Committing
<1>2. QED
  BY <1>1 DEF AInv, AppearsRight, RefreshPlan, Committing

\* Applying the account's style leaves a survey's questions, languages and
\* own parts as they are.
THEOREM RefreshesOnlyFollowed == Spec => RefreshChangesOnlyFollowedParts
<1>1. IInv /\ AInv /\ [Next]_vars =>
        [\A s \in Survey, r \in Request :
            Appended(s) /\ Committing(r, s, "refresh") =>
               /\ Last(s).body = Live(s).body
               /\ Last(s).langs = Live(s).langs
               /\ Last(s).follows = Live(s).follows
               /\ \A p \in Part \ Live(s).follows : Last(s).look[p] = Live(s).look[p]]_vars
  BY RefreshSaysTheSame DEF SaysThe
<1>2. QED
  BY <1>1, Invariance, PlansAppearRight, PTL DEF Spec, RefreshChangesOnlyFollowedParts

\* No style but the one asked about is applied, and to no closed survey.
THEOREM RefreshesAsAsked == Spec => RefreshAppliesWhatWasAsked
<1>1. IInv /\ AInv /\ [Next]_vars =>
        [\A s \in Survey, r \in Request :
            Appended(s) /\ Committing(r, s, "refresh") =>
               /\ account.stamp = req[r].job.asked
               /\ status[s] = "open"]_vars
  BY RefreshSaysTheSame
<1>2. QED
  BY <1>1, Invariance, PlansAppearRight, PTL DEF Spec, RefreshAppliesWhatWasAsked

\* A version shows the account's style as it is when the version appears.
THEOREM FrozenAsAppearing == Spec => FrozenAsItStands
<1>1. IInv /\ AInv /\ [Next]_vars =>
        [\A s \in Survey, r \in Request :
            (/\ Appended(s) /\ req[r].pc = "publishing" /\ req[r].job.at = s
             /\ req[r].shared)
               => AsWhenAppearing(s)]_vars
  <2> SUFFICES ASSUME IInv, AInv, [Next]_vars, NEW s \in Survey, NEW r \in Request,
                      Appended(s), req[r].pc = "publishing", req[r].job.at = s,
                      req[r].shared
               PROVE  AsWhenAppearing(s)
    OBVIOUS
  <2>1. Last(s) = req[r].version
    BY HolderAppends
  <2>2. QED
    BY <2>1 DEF AInv, AppearsRight, SharedPlan, AsWhenAppearing
<1>2. QED
  BY <1>1, Invariance, PlansAppearRight, PTL DEF Spec, FrozenAsItStands

-----------------------------------------------------------------------------
(* The account's style and its pictures.                                   *)

InForm(r) == req[r].pc \in {"account", "keeping"}

\* One Style form of the account is handled at a time.
OneForm == \A r, q \in Request : InForm(r) /\ InForm(q) => r = q

\* The pictures a style is submitted with, or keeps, are those it shows.
FormComplete(r) ==
    /\ req[r].pc = "account" => Shows(req[r].look) \subseteq req[r].uploads \cup gallery
    /\ req[r].pc = "keeping" =>
          Shows(req[r].look) \subseteq (gallery \ req[r].drop) \cup req[r].add

FInv ==
    /\ OneForm
    /\ \A r \in Request : FormComplete(r)
    /\ AccountPicturesStored

LEMMA FInvInit == Init => FInv
<1> SUFFICES ASSUME Init PROVE FInv
  OBVIOUS
<1>1. \A r \in Request : ~InForm(r) /\ FormComplete(r)
  BY DEF Init, Idle, InForm, FormComplete
<1>2. AccountPicturesStored
  BY DEF Init, NoStyle, Shows, AccountPicturesStored
<1>3. QED
  BY <1>1, <1>2 DEF FInv, OneForm

\* A request that begins no form and keeps none disturbs no other's, as
\* long as the account's pictures and style stay.
LEMMA OtherwhereKeepsFInv ==
    ASSUME FInv, NEW r \in Request, \A q \in Request \ {r} : req'[q] = req[q],
           UNCHANGED <<account, gallery>>, ~InForm(r)'
    PROVE  FInv'
<1>1. \A q \in Request : InForm(q)' => InForm(q) /\ q # r
  BY DEF InForm
<1>2. OneForm'
  BY <1>1 DEF FInv, OneForm
<1>3. \A q \in Request : FormComplete(q)'
  <2> SUFFICES ASSUME NEW q \in Request PROVE FormComplete(q)'
    OBVIOUS
  <2>1. CASE q = r
    BY <2>1 DEF FormComplete, InForm
  <2>2. CASE q # r
    BY <2>2 DEF FInv, FormComplete
  <2>3. QED
    BY <2>1, <2>2
<1>4. QED
  BY <1>2, <1>3 DEF FInv, AccountPicturesStored

LEMMA SubmitKeepsFInv ==
    ASSUME TypeOK, FInv, NEW r \in Request, SubmitAccountStyle(r)
    PROVE  FInv'
<1>1. UNCHANGED <<account, gallery>> /\ \A q \in Request : ~InForm(q)
  BY DEF SubmitAccountStyle, StyleFormFree, InForm, rows
<1>2. PICK style \in Style, uploads \in SUBSET Picture :
         /\ Shows(style) \ Shows(account.look) \subseteq uploads
         /\ Goes(r, [pc |-> "account", look |-> style, uploads |-> uploads])
  BY DEF SubmitAccountStyle
<1>3. /\ \A q \in Request \ {r} : req'[q] = req[q]
      /\ req'[r] = [pc |-> "account", look |-> style, uploads |-> uploads]
  BY <1>2, GoesLocal
<1>4. OneForm'
  BY <1>1, <1>3 DEF OneForm, InForm
<1>5. Shows(style) \subseteq uploads \cup gallery
  BY <1>2 DEF FInv, AccountPicturesStored
<1>6. \A q \in Request : FormComplete(q)'
  <2>1. FormComplete(r)'
    BY <1>1, <1>3, <1>5 DEF FormComplete
  <2>2. \A q \in Request \ {r} : FormComplete(q)'
    BY <1>1, <1>3 DEF FormComplete, InForm
  <2>3. QED
    BY <2>1, <2>2
<1>7. QED
  BY <1>1, <1>4, <1>6 DEF FInv, AccountPicturesStored

\* Room is made for a style without a picture that it shows.
LEMMA GalleryHasWhatIsShown ==
    ASSUME NEW keep, NEW uploads, keep \subseteq uploads \cup gallery
    PROVE  keep \subseteq GalleryWith(keep, uploads \ gallery)
BY DEF GalleryWith

LEMMA HoldKeepsFInv ==
    ASSUME TypeOK, FInv, NEW r \in Request, HoldAccountStyle(r)
    PROVE  FInv'
<1> DEFINE stored == GalleryWith(Shows(req[r].look), req[r].uploads \ gallery)
           to == [pc |-> "keeping", look |-> req[r].look,
                  add |-> stored \ gallery, drop |-> gallery \ stored]
<1>1. UNCHANGED <<account, gallery>> /\ req[r].pc = "account"
  BY DEF HoldAccountStyle, rows
<1>2. CASE Goes(r, Idle)
  <2>1. ~InForm(r)' /\ \A q \in Request \ {r} : req'[q] = req[q]
    BY <1>2, GoesLocal DEF InForm, Idle
  <2>2. QED
    BY <1>1, <2>1, OtherwhereKeepsFInv
<1>3. CASE Goes(r, to)
  <2>1. Shows(req[r].look) \subseteq stored
    BY <1>1, GalleryHasWhatIsShown DEF FInv, FormComplete
  <2> HIDE DEF stored
  <2>2. req'[r] = to /\ \A q \in Request \ {r} : req'[q] = req[q]
    BY <1>3, GoesLocal
  <2>3. /\ req'[r].pc = "keeping" /\ req'[r].look = req[r].look
        /\ req'[r].add = stored \ gallery /\ req'[r].drop = gallery \ stored
    BY <2>2
  <2>4. InForm(r) /\ \A q \in Request : InForm(q)' => InForm(q)
    BY <1>1, <2>2 DEF InForm
  <2>5. OneForm'
    BY <2>4 DEF FInv, OneForm
  <2>6. (gallery \ req'[r].drop) \cup req'[r].add = stored
    BY <2>3, Rearranged
  <2>7. FormComplete(r)'
    BY <1>1, <2>1, <2>3, <2>6 DEF FormComplete
  <2>8. \A q \in Request \ {r} : FormComplete(q)'
    BY <1>1, <2>2 DEF FInv, FormComplete
  <2>9. QED
    BY <1>1, <2>5, <2>7, <2>8 DEF FInv, AccountPicturesStored
<1>4. QED
  BY <1>2, <1>3 DEF HoldAccountStyle

LEMMA CommitKeepsFInv ==
    ASSUME TypeOK, FInv, NEW r \in Request, CommitAccountStyle(r)
    PROVE  FInv'
<1>1. req[r].pc = "keeping" /\ InForm(r)
  BY DEF CommitAccountStyle, InForm
<1>2. ~InForm(r)' /\ \A q \in Request \ {r} : req'[q] = req[q]
  BY GoesLocal DEF CommitAccountStyle, InForm, Idle
<1>3. \A q \in Request : ~InForm(q)'
  BY <1>1, <1>2 DEF FInv, OneForm, InForm
<1>4. OneForm' /\ \A q \in Request : FormComplete(q)'
  BY <1>3 DEF OneForm, FormComplete, InForm
<1>5. AccountPicturesStored'
  BY <1>1 DEF FInv, FormComplete, CommitAccountStyle, AccountPicturesStored
<1>6. QED
  BY <1>4, <1>5 DEF FInv

\* Every other step of a request begins no form.
LEMMA OtherStepsBeginNoForm ==
    ASSUME TypeOK, NEW r \in Request, RequestStep(r),
           ~SubmitAccountStyle(r), ~HoldAccountStyle(r), ~CommitAccountStyle(r)
    PROVE  ~InForm(r)'
<1>1. ASSUME Goes(r, Idle) PROVE ~InForm(r)'
  BY <1>1, GoesLocal DEF InForm, Idle
<1>2. ASSUME NEW asked, NEW todo, NextRefresh(r, asked, todo) PROVE ~InForm(r)'
  BY <1>2, NextRefreshLocal DEF InForm
<1>3. ASSUME NEW to, Goes(r, to), to.pc \notin {"account", "keeping"} PROVE ~InForm(r)'
  BY <1>3, GoesLocal DEF InForm
<1>4. CASE Hold(r)
  BY <1>3, <1>4 DEF Hold
<1>5. CASE SaveStyle(r)
  <2>1. ASSUME NEW job, NEW add, NEW drop,
               Goes(r, [pc |-> "saving", job |-> job, add |-> add, drop |-> drop])
        PROVE  ~InForm(r)'
    BY <1>3, <2>1
  <2>2. QED
    BY <1>1, <1>5, <2>1 DEF SaveStyle
<1>6. ASSUME NEW d, PublishResolved(r, d) PROVE ~InForm(r)'
  <2>1. PICK v, add, drop :
           Goes(r, [pc |-> "publishing", job |-> req[r].job, version |-> v,
                    shared |-> account.row, add |-> add, drop |-> drop])
    BY <1>6 DEF PublishResolved
  <2>2. QED
    BY <1>3, <2>1
<1>7. CASE Publish(r) \/ RefreshOne(r)
  BY <1>6, <1>7 DEF Publish, RefreshOne
<1>8. CASE CommitStyle(r) \/ PublishRefused(r) \/ NothingToPublish(r) \/ RefreshSkipped(r)
           \/ CommitVersion(r)
  BY <1>1, <1>2, <1>8 DEF CommitStyle, PublishRefused, NothingToPublish, RefreshSkipped,
                          CommitVersion
<1>9. CASE Transaction(r)
  BY <1>4, <1>5, <1>7, <1>8, <1>9 DEF Transaction
<1>10. CASE Handler(r)
  <2>1. ASSUME NEW s \in Survey, SubmitStyle(r, s) PROVE ~InForm(r)'
    <3>1. PICK job : Goes(r, [pc |-> "waiting", job |-> job])
      BY <2>1 DEF SubmitStyle
    <3>2. QED
      BY <1>3, <3>1
  <2>2. ASSUME NEW s \in Survey,
               LoadForEdit(r, s) \/ SubmitReset(r, s) \/ SubmitPublish(r, s)
        PROVE  ~InForm(r)'
    BY <1>3, <2>2 DEF LoadForEdit, SubmitReset, SubmitPublish
  <2>3. CASE SaveDraft(r) \/ AskToApply(r) \/ RefreshFromAccount(r)
    BY <1>1, <1>2, <1>3, <2>3 DEF SaveDraft, AskToApply, RefreshFromAccount
  <2>4. QED
    BY <1>10, <2>1, <2>2, <2>3 DEF Handler
<1>11. CASE Abort(r)
  BY <1>1, <1>11 DEF Abort
<1>12. QED
  BY <1>9, <1>10, <1>11 DEF RequestStep

LEMMA FInvStep == IInv /\ FInv /\ [Next]_vars => FInv'
<1> SUFFICES ASSUME IInv, FInv, [Next]_vars PROVE FInv'
  OBVIOUS
<1>1. ASSUME NEW r \in Request, RequestStep(r) PROVE FInv'
  <2>1. CASE SubmitAccountStyle(r) \/ HoldAccountStyle(r) \/ CommitAccountStyle(r)
    BY <2>1, SubmitKeepsFInv, HoldKeepsFInv, CommitKeepsFInv DEF IInv
  <2>2. CASE ~SubmitAccountStyle(r) /\ ~HoldAccountStyle(r) /\ ~CommitAccountStyle(r)
    <3>1. UNCHANGED <<account, gallery>> /\ ~InForm(r)'
      BY <1>1, <2>2, StatusAndAccount, OtherStepsBeginNoForm DEF IInv
    <3>2. \A q \in Request \ {r} : req'[q] = req[q]
      BY <1>1, RequestStepLocal DEF Local
    <3>3. QED
      BY <3>1, <3>2, OtherwhereKeepsFInv
  <2>3. QED
    BY <2>1, <2>2
<1>2. ASSUME account'.look = account.look, UNCHANGED <<gallery, req>> PROVE FInv'
  BY <1>2 DEF FInv, OneForm, InForm, FormComplete, AccountPicturesStored
<1>3. QED
  BY <1>1, <1>2
  DEF Next, RequestStep, SaveWorkspaceStyleTranslation, SetStatus, vars

\* The account's style never shows a picture that the account has not.
THEOREM AccountPicturesStay == Spec => []AccountPicturesStored
<1>1. FInv => AccountPicturesStored
  BY DEF FInv
<1>2. QED
  BY <1>1, FInvInit, FInvStep, Invariance, PTL DEF Spec

-----------------------------------------------------------------------------
(***************************************************************************)
(* Beside the nightly purge too, a publication shows nothing that is not   *)
(* stored, and no limit is passed.  The pictures of old versions are not   *)
(* kept beside the purge, so VersionPicturesStored, and with it IInv, has  *)
(* no place here.                                                          *)
(***************************************************************************)

(***************************************************************************)
(* A plan fits: the rows it is about are held, what it will store has room *)
(* and has what it shows.                                                  *)
(***************************************************************************)
Fitting(r) ==
    /\ InRow(r) => holder[req[r].job.at] = r
    /\ req[r].pc \in {"saving", "publishing"} => Cardinality(StoredBy(r)) <= MaxSurveyImages
    /\ req[r].pc = "publishing" => Shows(req[r].version.look) \subseteq StoredBy(r)
    /\ req[r].pc = "keeping" =>
          /\ keeper = r
          /\ Cardinality((gallery \ req[r].drop) \cup req[r].add) <= MaxWorkspaceImages

(***************************************************************************)
(* What the purge is about to delete is of rows it holds.                  *)
(***************************************************************************)
Dooms ==
    /\ \A s \in Survey, p \in Picture : <<s, p>> \in purge.doomed => holder[s] = Job
    /\ purge.discarded # {} => keeper = Job

NightInv ==
    /\ PurgeTypeOK
    /\ PicturesWithinLimit
    /\ \A r \in Request : Fitting(r)
    /\ Dooms

LEMMA HeldRows ==
    ASSUME \A r \in Request : Fitting(r)
    PROVE  RowsHeld /\ KeeperHeld
BY DEF Fitting, RowsHeld, KeeperHeld, InRow

LEMMA RowOfFitting ==
    ASSUME TypeOK, NEW r \in Request, Fitting(r), InRow(r)
    PROVE  req[r].job.at \in Survey /\ holder[req[r].job.at] = r
BY RequestForms, JobForms DEF Fitting, InRow, Waiting, Saving, Appearing, SurveyJob

LEMMA OthersStayFitting ==
    ASSUME TypeOK, NEW q \in Request, Fitting(q), req'[q] = req[q],
           InRow(q) => /\ holder'[req[q].job.at] = holder[req[q].job.at]
                       /\ pictures'[req[q].job.at] = pictures[req[q].job.at],
           req[q].pc = "keeping" => keeper' = keeper /\ gallery' = gallery
    PROVE  Fitting(q)'
<1>1. CASE InRow(q)
  <2>1. StoredBy(q)' = StoredBy(q)
    BY <1>1 DEF StoredBy
  <2>2. req[q].pc # "keeping"
    BY <1>1 DEF InRow
  <2>3. QED
    BY <1>1, <2>1, <2>2 DEF Fitting, InRow
<1>2. CASE ~InRow(q)
  BY <1>2 DEF Fitting, InRow
<1>3. QED
  BY <1>1, <1>2

LEMMA CalmIsFitting ==
    ASSUME NEW r \in Request, req'[r].pc \in {"idle", "editing", "asked", "waiting", "account"}
    PROVE  Fitting(r)'
BY DEF Fitting, InRow

-----------------------------------------------------------------------------
(* The requests' steps.                                                    *)

LEMMA PublicationFits ==
    ASSUME TypeOK, NEW r \in Request, Fitting(r), NEW d,
           req[r].pc = "held", PublishResolved(r, d), UNCHANGED rows
    PROVE  Fitting(r)'
<1> DEFINE s == req[r].job.at
           shown == Shows(ResolvedStyle(d, account.look))
           stored == WithCopies(s, pictures[s], shown)
           to == [pc |-> "publishing", job |-> req[r].job,
                  version |-> Freeze(d, account, Len(versions[s]) + 1),
                  shared |-> account.row,
                  add |-> stored \ pictures[s], drop |-> pictures[s] \ stored]
<1>1. s \in Survey /\ holder[s] = r
  BY RowOfFitting DEF InRow
<1>2. Fits(stored) /\ shown \subseteq stored /\ Goes(r, to) /\ UNCHANGED holder
  BY DEF PublishResolved
<1> HIDE DEF stored
<1>3. req'[r] = to
  BY <1>2, GoesLocal
<1>4. /\ req'[r].pc = "publishing" /\ req'[r].job.at = s
      /\ req'[r].add = stored \ pictures[s] /\ req'[r].drop = pictures[s] \ stored
      /\ req'[r].version = Freeze(d, account, Len(versions[s]) + 1)
  BY <1>3
<1>5. StoredBy(r)' = stored
  <2>1. pictures' = pictures
    BY DEF rows
  <2>2. StoredBy(r)' = (pictures[s] \ (pictures[s] \ stored)) \cup (stored \ pictures[s])
    BY <1>4, <2>1 DEF StoredBy
  <2>3. QED
    BY <2>2, Rearranged
<1>6. req'[r].version.look = ResolvedStyle(d, account.look)
  BY <1>4 DEF Freeze
<1>7. QED
  BY <1>1, <1>2, <1>4, <1>5, <1>6 DEF Fitting, InRow, Fits

LEMMA OwnPlanFits ==
    ASSUME TypeOK, NEW r \in Request, Fitting(r), Transaction(r)
    PROVE  Fitting(r)'
<1> DEFINE s == req[r].job.at
<1>1. ASSUME Goes(r, Idle) PROVE Fitting(r)'
  BY <1>1, GoesLocal, CalmIsFitting DEF Idle
<1>2. CASE Hold(r)
  <2>1. s \in Survey
    BY <1>2, RequestForms, JobForms DEF Hold, Waiting
  <2>2. holder'[s] = r
    BY <1>2, <2>1 DEF Hold, TypeOK
  <2>3. req'[r] = [pc |-> "held", job |-> req[r].job]
    BY <1>2, GoesLocal DEF Hold
  <2>4. QED
    BY <2>2, <2>3 DEF Fitting, InRow
<1>3. CASE SaveStyle(r)
  <2> DEFINE keep == OwnPictures(req[r].job.draft)
             brought == WithRoom(s, pictures[s], keep, req[r].job.uploads \ pictures[s])
             stored == WithCopies(s, brought, keep)
             to == [pc |-> "saving", job |-> req[r].job,
                    add |-> stored \ pictures[s], drop |-> pictures[s] \ stored]
  <2>1. s \in Survey /\ holder[s] = r
    BY <1>3, RowOfFitting DEF InRow, SaveStyle
  <2>2. pictures' = pictures
    BY <1>3 DEF SaveStyle, rows
  <2>3. CASE Fits(stored) /\ Goes(r, to) /\ UNCHANGED holder
    <3> HIDE DEF stored
    <3>1. req'[r] = to
      BY <2>3, GoesLocal
    <3>2. /\ req'[r].pc = "saving" /\ req'[r].job.at = s
          /\ req'[r].add = stored \ pictures[s] /\ req'[r].drop = pictures[s] \ stored
      BY <3>1
    <3>3. StoredBy(r)' = (pictures[s] \ (pictures[s] \ stored)) \cup (stored \ pictures[s])
      BY <2>2, <3>2 DEF StoredBy
    <3>4. StoredBy(r)' = stored
      BY <3>3, Rearranged
    <3>5. QED
      BY <2>1, <2>3, <3>2, <3>4 DEF Fitting, InRow, Fits
  <2>4. CASE Goes(r, Idle)
    BY <2>4, <1>1
  <2>5. QED
    BY <1>3, <2>3, <2>4 DEF SaveStyle
<1>4. CASE CommitStyle(r)
  BY <1>1, <1>4 DEF CommitStyle
<1>5. CASE Publish(r)
  BY <1>5, PublicationFits DEF Publish
<1>6. CASE PublishRefused(r)
  BY <1>1, <1>6 DEF PublishRefused
<1>7. CASE NothingToPublish(r)
  BY <1>1, <1>7 DEF NothingToPublish
<1>8. CASE RefreshOne(r)
  BY <1>8, PublicationFits DEF RefreshOne
<1>9. CASE RefreshSkipped(r)
  BY <1>1, <1>9, NextRefreshLocal, CalmIsFitting DEF RefreshSkipped
<1>10. CASE CommitVersion(r)
  BY <1>1, <1>10, NextRefreshLocal, CalmIsFitting DEF CommitVersion
<1>11. CASE HoldAccountStyle(r)
  <2> DEFINE stored == GalleryWith(Shows(req[r].look), req[r].uploads \ gallery)
             to == [pc |-> "keeping", look |-> req[r].look,
                    add |-> stored \ gallery, drop |-> gallery \ stored]
  <2>1. CASE /\ Cardinality(stored) <= MaxWorkspaceImages
             /\ keeper' = r
             /\ Goes(r, to)
    <3>1. gallery' = gallery
      BY <1>11 DEF HoldAccountStyle, rows
    <3> HIDE DEF stored
    <3>2. req'[r] = to
      BY <2>1, GoesLocal
    <3>3. /\ req'[r].pc = "keeping"
          /\ req'[r].add = stored \ gallery /\ req'[r].drop = gallery \ stored
      BY <3>2
    <3>4. (gallery' \ req'[r].drop) \cup req'[r].add = stored
      BY <3>1, <3>3, Rearranged
    <3>5. QED
      BY <2>1, <3>3, <3>4 DEF Fitting, InRow
  <2>2. CASE Goes(r, Idle)
    BY <1>1, <2>2
  <2>3. QED
    BY <1>11, <2>1, <2>2 DEF HoldAccountStyle
<1>12. CASE CommitAccountStyle(r)
  BY <1>1, <1>12 DEF CommitAccountStyle
<1>13. QED
  BY <1>2, <1>3, <1>4, <1>5, <1>6, <1>7, <1>8, <1>9, <1>10, <1>11, <1>12 DEF Transaction

LEMMA RequestStepFits ==
    ASSUME TypeOK, \A q \in Request : Fitting(q), NEW r \in Request,
           Transaction(r) \/ Handler(r) \/ Abort(r)
    PROVE  Local(r) /\ \A q \in Request : Fitting(q)'
<1>1. Local(r)
  BY HeldRows, TransactionsLocal, HandlersLocal, AbortLocal
<1>2. Fitting(r)'
  <2>1. CASE Transaction(r)
    BY <2>1, OwnPlanFits
  <2>2. CASE Handler(r) \/ Abort(r)
    BY <2>2, HandlersLocal, AbortLocal, CalmIsFitting
  <2>3. QED
    BY <2>1, <2>2
<1>3. ASSUME NEW q \in Request \ {r} PROVE Fitting(q)'
  <2>1. InRow(q) => req[q].job.at \in Survey /\ holder[req[q].job.at] = q
    BY RowOfFitting
  <2>2. req[q].pc = "keeping" => keeper = q
    BY DEF Fitting
  <2>3. QED
    BY <1>1, <2>1, <2>2, OthersStayFitting DEF Local
<1>4. QED
  BY <1>1, <1>2, <1>3

\* What a request's commit stores, it had room for.
LEMMA CommitsWithinLimit ==
    ASSUME TypeOK, PicturesWithinLimit, NEW r \in Request, Fitting(r),
           Transaction(r) \/ Handler(r) \/ Abort(r)
    PROVE  PicturesWithinLimit'
<1> DEFINE s == req[r].job.at
<1>1. CASE CommitStyle(r) \/ CommitVersion(r)
  <2>1. req[r].pc \in {"saving", "publishing"}
    BY <1>1 DEF CommitStyle, CommitVersion
  <2>2. s \in Survey
    BY <2>1, RowOfFitting DEF InRow
  <2>3. pictures' = [pictures EXCEPT ![s] = StoredBy(r)] /\ gallery' = gallery
    BY <1>1, <2>2 DEF CommitStyle, CommitVersion, StoredBy, TypeOK
  <2>4. QED
    BY <2>1, <2>2, <2>3 DEF Fitting, PicturesWithinLimit, TypeOK
<1>2. CASE CommitAccountStyle(r)
  BY <1>2 DEF CommitAccountStyle, Fitting, PicturesWithinLimit
<1>3. CASE ~(CommitStyle(r) \/ CommitVersion(r) \/ CommitAccountStyle(r))
  <2>1. CASE Transaction(r)
    <3>1. UNCHANGED <<pictures, gallery>>
      BY <1>3, <2>1 DEF Transaction, Hold, SaveStyle, Publish, PublishRefused,
         NothingToPublish, RefreshOne, RefreshSkipped, HoldAccountStyle, rows
    <3>2. QED
      BY <3>1 DEF PicturesWithinLimit
  <2>2. CASE Handler(r) \/ Abort(r)
    BY <2>2, HandlersLocal, AbortLocal DEF PicturesWithinLimit
  <2>3. QED
    BY <2>1, <2>2
<1>4. QED
  BY <1>1, <1>2, <1>3

\* A request takes no row from the purge.
LEMMA JobKeepsRows ==
    ASSUME TypeOK, \A q \in Request : Fitting(q), NEW r \in Request,
           Transaction(r) \/ Handler(r) \/ Abort(r)
    PROVE  /\ \A s \in Survey : holder[s] = Job => holder'[s] = Job
           /\ keeper = Job => keeper' = Job
<1> DEFINE at == req[r].job.at
<1>1. InRow(r) => at \in Survey /\ holder[at] = r
  BY RowOfFitting
<1>2. ASSUME InRow(r), Release(r, at)
      PROVE  /\ \A s \in Survey : holder[s] = Job => holder'[s] = Job
             /\ keeper = Job => keeper' = Job
  BY <1>1, <1>2, HoldersAssumption DEF Release, TypeOK
<1>3. CASE Hold(r)
  BY <1>3, HoldersAssumption DEF Hold, TypeOK
<1>4. CASE SaveStyle(r)
  BY <1>4, <1>2 DEF SaveStyle, InRow
<1>5. CASE CommitStyle(r) \/ CommitVersion(r)
  BY <1>5, <1>2 DEF CommitStyle, CommitVersion, InRow
<1>6. CASE Publish(r) \/ RefreshOne(r)
  BY <1>6 DEF Publish, RefreshOne, PublishResolved
<1>7. CASE PublishRefused(r) \/ NothingToPublish(r) \/ RefreshSkipped(r)
  BY <1>7, <1>2 DEF PublishRefused, NothingToPublish, RefreshSkipped, InRow
<1>8. CASE HoldAccountStyle(r)
  BY <1>8, HoldersAssumption DEF HoldAccountStyle
<1>9. CASE CommitAccountStyle(r)
  BY <1>9, HoldersAssumption DEF CommitAccountStyle, Fitting
<1>10. CASE Handler(r)
  BY <1>10 DEF Handler, LoadForEdit, SubmitStyle, SubmitReset, SubmitPublish, SaveDraft,
     AskToApply, RefreshFromAccount, SubmitAccountStyle, locks
<1>11. CASE Abort(r)
  BY <1>11, HoldersAssumption DEF Abort, TypeOK
<1>12. QED
  BY <1>3, <1>4, <1>5, <1>6, <1>7, <1>8, <1>9, <1>10, <1>11 DEF Transaction

LEMMA ForgetTyped ==
    ASSUME PurgeTypeOK, TypeOK', Forget
    PROVE  aged' \in [Survey -> SUBSET Picture] /\ agedGallery' \in SUBSET Picture
BY DEF PurgeTypeOK, TypeOK, Forget

LEMMA NextKeepsNight ==
    ASSUME NightInv, Next, Forget, UNCHANGED purge
    PROVE  NightInv'
<1>1. TypeOK /\ TypeOK'
  BY TypeStep DEF NightInv, PurgeTypeOK
<1>2. PurgeTypeOK'
  BY <1>1, ForgetTyped DEF NightInv, PurgeTypeOK
<1>3. ASSUME NEW r \in Request, Transaction(r) \/ Handler(r) \/ Abort(r)
      PROVE  NightInv'
  <2>1. \A q \in Request : Fitting(q)'
    BY <1>1, <1>3, RequestStepFits DEF NightInv
  <2>2. PicturesWithinLimit'
    BY <1>1, <1>3, CommitsWithinLimit DEF NightInv
  <2>3. Dooms'
    BY <1>1, <1>3, JobKeepsRows DEF NightInv, Dooms
  <2>4. QED
    BY <1>2, <2>1, <2>2, <2>3 DEF NightInv
<1>4. ASSUME UNCHANGED <<versions, pictures, gallery, locks, req>>
      PROVE  NightInv'
  <2>1. ASSUME NEW q \in Request PROVE Fitting(q)'
    BY <1>1, <1>4, OthersStayFitting DEF NightInv, locks
  <2>2. PicturesWithinLimit' /\ Dooms'
    BY <1>4 DEF NightInv, PicturesWithinLimit, Dooms, locks
  <2>3. QED
    BY <1>2, <2>1, <2>2 DEF NightInv
<1>5. QED
  BY <1>3, <1>4 DEF Next, SaveWorkspaceStyleTranslation, SetStatus

-----------------------------------------------------------------------------
(* The purge's steps.                                                      *)

SurveysRun == [pc : {"surveys"}, todo : SUBSET Owned, unused : SUBSET Owned,
               doomed : SUBSET Owned, discarded : {{}}]

AccountRun == [pc : {"account"}, todo : SUBSET Picture, unused : SUBSET Picture,
               doomed : SUBSET Owned, discarded : SUBSET Picture]

LEMMA RunForms ==
    ASSUME PurgeTypeOK
    PROVE  /\ purge.pc = "surveys" => purge \in SurveysRun
           /\ purge.pc = "account" => purge \in AccountRun
BY DEF PurgeTypeOK, Off, SurveysRun, AccountRun

LEMMA RunTyped ==
    ASSUME TypeOK', purge' \in {Off} \cup SurveysRun \cup AccountRun,
           aged' \in [Survey -> SUBSET Picture], agedGallery' \in SUBSET Picture
    PROVE  PurgeTypeOK'
BY DEF PurgeTypeOK, SurveysRun, AccountRun

\* Steps that hold a row more, perhaps, and change no other.
LEMMA HoldingKeepsNight ==
    ASSUME NightInv, PurgeTypeOK', Dooms', UNCHANGED <<rows, sharers, req>>,
           \A s \in Survey : holder[s] \in Request => holder'[s] = holder[s],
           keeper \in Request => keeper' = keeper
    PROVE  NightInv'
<1>1. TypeOK
  BY DEF NightInv, PurgeTypeOK
<1>2. ASSUME NEW q \in Request PROVE Fitting(q)'
  <2>1. Fitting(q)
    BY DEF NightInv
  <2>2. InRow(q) => req[q].job.at \in Survey /\ holder[req[q].job.at] = q
    BY <1>1, <2>1, RowOfFitting
  <2>3. req[q].pc = "keeping" => keeper = q
    BY <2>1 DEF Fitting
  <2>4. QED
    BY <1>1, <2>1, <2>2, <2>3, OthersStayFitting DEF rows
<1>3. PicturesWithinLimit'
  BY DEF NightInv, PicturesWithinLimit, rows
<1>4. QED
  BY <1>2, <1>3 DEF NightInv

LEMMA TypesOfRows ==
    ASSUME TypeOK, UNCHANGED <<rows, sharers, req>>,
           holder' \in [Survey -> Request \cup {NoOne, Job}],
           keeper' \in Request \cup {NoOne, Job}
    PROVE  TypeOK'
BY DEF TypeOK, rows

LEMMA PurgeSurveysKeepsNight == NightInv /\ PurgeSurveys => NightInv'
<1> SUFFICES ASSUME NightInv, PurgeSurveys PROVE NightInv'
  OBVIOUS
<1>1. PurgeTypeOK /\ TypeOK /\ UNCHANGED <<rows, locks, req, aged, agedGallery>>
  BY DEF NightInv, PurgeTypeOK, PurgeSurveys, vars, rows, locks
<1>2. TypeOK'
  BY <1>1, TypesOfRows DEF locks, TypeOK
<1>3. UNION {{s} \X aged[s] : s \in Survey} \subseteq Owned
  BY <1>1 DEF PurgeTypeOK, Owned
<1>4. UNION {{s} \X OldAndUnused(s) : s \in Survey} \subseteq Owned
  BY <1>1 DEF PurgeTypeOK, Owned, OldAndUnused
<1>5. purge' \in SurveysRun
  BY <1>3, <1>4 DEF PurgeSurveys, SurveysRun
<1>6. PurgeTypeOK'
  BY <1>1, <1>2, <1>5, RunTyped DEF PurgeTypeOK
<1>7. Dooms'
  BY DEF Dooms, PurgeSurveys
<1>8. QED
  BY <1>1, <1>6, <1>7, HoldingKeepsNight DEF locks

LEMMA PurgeSurveyPictureKeepsNight ==
    ASSUME NightInv, NEW s \in Survey, NEW p \in Picture, PurgeSurveyPicture(s, p)
    PROVE  NightInv'
<1>1. PurgeTypeOK /\ TypeOK /\ Dooms /\ UNCHANGED <<rows, sharers, keeper, req, aged, agedGallery>>
  BY DEF NightInv, PurgeTypeOK, PurgeSurveyPicture
<1>2. purge \in SurveysRun
  BY <1>1, RunForms DEF PurgeSurveyPicture
<1>3. holder' \in {holder, [holder EXCEPT ![s] = Job]}
  BY DEF PurgeSurveyPicture
<1>4. \A t \in Survey : holder[t] \in Request => holder'[t] = holder[t]
  BY <1>1, HoldersAssumption DEF PurgeSurveyPicture, FreeForPurge, TypeOK
<1>5. holder' \in [Survey -> Request \cup {NoOne, Job}]
  BY <1>1, <1>3 DEF TypeOK
<1>6. TypeOK'
  BY <1>1, <1>5, TypesOfRows DEF TypeOK
<1>7. /\ purge'.doomed \subseteq purge.doomed \cup {<<s, p>>}
      /\ purge'.doomed = purge.doomed \/ holder' = [holder EXCEPT ![s] = Job]
      /\ purge'.discarded = {}
      /\ purge' \in SurveysRun
  <2>1. <<s, p>> \in Owned
    BY DEF Owned
  <2>2. CASE /\ holder' = [holder EXCEPT ![s] = Job]
             /\ purge' = [purge EXCEPT
                            !.todo = @ \ {<<s, p>>},
                            !.doomed = @ \cup (purge.unused \cap {<<s, p>>}
                                                 \cap ({s} \X aged[s]))]
    BY <1>2, <2>1, <2>2 DEF SurveysRun
  <2>3. CASE purge' = [purge EXCEPT !.todo = @ \ {<<s, p>>}] /\ UNCHANGED holder
    BY <1>2, <2>3 DEF SurveysRun
  <2>4. QED
    BY <2>2, <2>3 DEF PurgeSurveyPicture
<1>8. PurgeTypeOK'
  BY <1>1, <1>6, <1>7, RunTyped DEF PurgeTypeOK
<1>9. Dooms'
  BY <1>1, <1>3, <1>7 DEF Dooms, TypeOK
<1>10. QED
  BY <1>1, <1>4, <1>8, <1>9, HoldingKeepsNight

LEMMA PurgeAccountKeepsNight == NightInv /\ PurgeAccount => NightInv'
<1> SUFFICES ASSUME NightInv, PurgeAccount PROVE NightInv'
  OBVIOUS
<1>1. PurgeTypeOK /\ TypeOK /\ Dooms /\ UNCHANGED <<rows, locks, req, aged, agedGallery>>
  BY DEF NightInv, PurgeTypeOK, PurgeAccount, vars, rows, locks
<1>2. TypeOK'
  BY <1>1, TypesOfRows DEF locks, TypeOK
<1>3. purge \in SurveysRun
  BY <1>1, RunForms DEF PurgeAccount
<1>4. purge' \in AccountRun /\ purge'.doomed = purge.doomed /\ purge'.discarded = {}
  BY <1>1, <1>3 DEF PurgeAccount, AccountRun, SurveysRun, PurgeTypeOK
<1>5. PurgeTypeOK'
  BY <1>1, <1>2, <1>4, RunTyped DEF PurgeTypeOK
<1>6. Dooms'
  BY <1>1, <1>4 DEF Dooms, locks
<1>7. QED
  BY <1>1, <1>5, <1>6, HoldingKeepsNight DEF locks

LEMMA PurgeAccountPictureKeepsNight ==
    ASSUME NightInv, NEW p \in Picture, PurgeAccountPicture(p)
    PROVE  NightInv'
<1>1. PurgeTypeOK /\ TypeOK /\ Dooms /\ UNCHANGED <<rows, holder, sharers, req, aged, agedGallery>>
  BY DEF NightInv, PurgeTypeOK, PurgeAccountPicture
<1>2. purge \in AccountRun
  BY <1>1, RunForms DEF PurgeAccountPicture
<1>3. /\ keeper \in Request => keeper' = keeper
      /\ keeper' \in {keeper, Job}
  BY HoldersAssumption DEF PurgeAccountPicture, FreeForPurge
<1>4. TypeOK'
  BY <1>1, <1>3, TypesOfRows DEF TypeOK
<1>5. /\ purge'.doomed = purge.doomed
      /\ purge'.discarded = purge.discarded \/ keeper' = Job
      /\ purge' \in AccountRun
  BY <1>2 DEF PurgeAccountPicture, AccountRun
<1>6. PurgeTypeOK'
  BY <1>1, <1>4, <1>5, RunTyped DEF PurgeTypeOK
<1>7. Dooms'
  BY <1>1, <1>3, <1>5 DEF Dooms
<1>8. QED
  BY <1>1, <1>3, <1>6, <1>7, HoldingKeepsNight

LEMMA ReleasesLeaveRequests ==
    ASSUME TypeOK, PurgeReleases
    PROVE  /\ \A s \in Survey : holder[s] \in Request => holder'[s] = holder[s]
           /\ keeper \in Request => keeper' = keeper
           /\ holder' \in [Survey -> Request \cup {NoOne, Job}]
           /\ keeper' \in Request \cup {NoOne, Job}
           /\ purge' = Off /\ UNCHANGED sharers /\ Dooms'
BY HoldersAssumption DEF PurgeReleases, TypeOK, Off, Dooms

LEMMA PurgeRollsBackKeepsNight == NightInv /\ PurgeRollsBack => NightInv'
<1> SUFFICES ASSUME NightInv, PurgeRollsBack PROVE NightInv'
  OBVIOUS
<1>1. PurgeTypeOK /\ TypeOK /\ UNCHANGED <<rows, req, aged, agedGallery>> /\ PurgeReleases
  BY DEF NightInv, PurgeTypeOK, PurgeRollsBack
<1>2. TypeOK'
  BY <1>1, ReleasesLeaveRequests, TypesOfRows
<1>3. PurgeTypeOK'
  BY <1>1, <1>2, ReleasesLeaveRequests, RunTyped DEF PurgeTypeOK
<1>4. QED
  BY <1>1, <1>3, ReleasesLeaveRequests, HoldingKeepsNight

\* The purge deletes nothing of a survey, or of a gallery, that a request holds.
LEMMA PurgeCommitsKeepsNight == NightInv /\ PurgeCommits => NightInv'
<1> SUFFICES ASSUME NightInv, PurgeCommits PROVE NightInv'
  OBVIOUS
<1>1. PurgeTypeOK /\ TypeOK /\ Dooms /\ PurgeReleases
      /\ UNCHANGED <<draft, versions, status, account, req>>
  BY DEF NightInv, PurgeTypeOK, PurgeCommits
<1>2. /\ pictures' \in [Survey -> SUBSET Picture]
      /\ \A s \in Survey : pictures'[s] \subseteq pictures[s]
      /\ gallery' \subseteq gallery
  BY <1>1 DEF PurgeCommits, TypeOK
<1>3. TypeOK'
  BY <1>1, <1>2, ReleasesLeaveRequests DEF TypeOK
<1>4. PurgeTypeOK'
  BY <1>1, <1>3, ReleasesLeaveRequests, RunTyped, ForgetTyped DEF PurgeCommits
<1>5. \A s \in Survey : holder[s] # Job => pictures'[s] = pictures[s]
  BY <1>1 DEF Dooms, PurgeCommits, TypeOK
<1>6. keeper # Job => gallery' = gallery
  BY <1>1 DEF Dooms, PurgeCommits
<1>7. ASSUME NEW q \in Request PROVE Fitting(q)'
  <2>1. Fitting(q)
    BY DEF NightInv
  <2>2. InRow(q) => req[q].job.at \in Survey /\ holder[req[q].job.at] = q
    BY <1>1, <2>1, RowOfFitting
  <2>3. req[q].pc = "keeping" => keeper = q
    BY <2>1 DEF Fitting
  <2>4. QED
    BY <1>1, <1>5, <1>6, <2>1, <2>2, <2>3, ReleasesLeaveRequests, OthersStayFitting,
       HoldersAssumption
<1>8. PicturesWithinLimit'
  <2>1. ASSUME NEW s \in Survey PROVE Cardinality(pictures'[s]) <= MaxSurveyImages
    <3>1. IsFiniteSet(pictures[s])
      BY <1>1, LooksAssumption, FS_Subset DEF TypeOK
    <3>2. Cardinality(pictures'[s]) <= Cardinality(pictures[s])
      BY <1>2, <3>1, FS_Subset
    <3>3. Cardinality(pictures[s]) \in Nat /\ Cardinality(pictures'[s]) \in Nat
      BY <1>2, <3>1, FS_Subset, FS_CardinalityType
    <3>4. QED
      BY <3>2, <3>3, LimitsAssumption DEF NightInv, PicturesWithinLimit
  <2>2. Cardinality(gallery') <= MaxWorkspaceImages
    <3>1. IsFiniteSet(gallery)
      BY <1>1, LooksAssumption, FS_Subset DEF TypeOK
    <3>2. Cardinality(gallery') <= Cardinality(gallery)
      BY <1>2, <3>1, FS_Subset
    <3>3. Cardinality(gallery) \in Nat /\ Cardinality(gallery') \in Nat
      BY <1>2, <3>1, FS_Subset, FS_CardinalityType
    <3>4. QED
      BY <3>2, <3>3, LimitsAssumption DEF NightInv, PicturesWithinLimit
  <2>3. QED
    BY <2>1, <2>2 DEF PicturesWithinLimit
<1>9. QED
  BY <1>1, <1>4, <1>7, <1>8, ReleasesLeaveRequests DEF NightInv

LEMMA AgeKeepsNight == NightInv /\ Age => NightInv'
<1> SUFFICES ASSUME NightInv, Age PROVE NightInv'
  OBVIOUS
<1>1. PurgeTypeOK /\ TypeOK /\ Dooms /\ UNCHANGED <<rows, locks, req, purge>>
  BY DEF NightInv, PurgeTypeOK, Age, vars, rows, locks
<1>2. TypeOK'
  BY <1>1, TypesOfRows DEF locks, TypeOK
<1>3. PurgeTypeOK'
  BY <1>1, <1>2 DEF PurgeTypeOK, TypeOK, Age
<1>4. Dooms'
  BY <1>1 DEF Dooms, locks
<1>5. QED
  BY <1>1, <1>3, <1>4, HoldingKeepsNight DEF locks

-----------------------------------------------------------------------------
(* The inductive invariant.                                                *)

LEMMA NightInit == PurgeInit => NightInv
<1> SUFFICES ASSUME PurgeInit PROVE NightInv
  OBVIOUS
<1>1. PurgeTypeOK
  BY TypeInit DEF PurgeInit, PurgeTypeOK
<1>2. IInv
  BY IInvInit DEF PurgeInit
<1>3. \A r \in Request : Fitting(r)
  BY <1>2, SoundEverywhere DEF IInv, Sound, Fitting
<1>4. Dooms
  BY DEF PurgeInit, Off, Dooms
<1>5. QED
  BY <1>1, <1>2, <1>3, <1>4 DEF NightInv, IInv

LEMMA NightStep == NightInv /\ [PurgeNext]_allVars => NightInv'
<1> SUFFICES ASSUME NightInv, [PurgeNext]_allVars PROVE NightInv'
  OBVIOUS
<1>1. CASE Next /\ Forget /\ UNCHANGED purge
  BY <1>1, NextKeepsNight
<1>2. CASE PurgeStep
  BY <1>2, PurgeSurveysKeepsNight, PurgeAccountKeepsNight, PurgeCommitsKeepsNight,
     PurgeSurveyPictureKeepsNight, PurgeAccountPictureKeepsNight DEF PurgeStep
<1>3. CASE PurgeRollsBack
  BY <1>3, PurgeRollsBackKeepsNight
<1>4. CASE Age
  BY <1>4, AgeKeepsNight
<1>5. CASE UNCHANGED allVars
  <2>1. UNCHANGED <<rows, locks, req, aged, agedGallery, purge>>
    BY <1>5 DEF allVars, vars, purging, rows, locks
  <2>2. PurgeTypeOK' /\ Dooms'
    BY <2>1 DEF NightInv, PurgeTypeOK, TypeOK, Dooms, rows, locks
  <2>3. QED
    BY <2>1, <2>2, HoldingKeepsNight DEF locks
<1>6. QED
  BY <1>1, <1>2, <1>3, <1>4, <1>5 DEF PurgeNext

LEMMA Nightly == PurgeSpec => []NightInv
BY NightInit, NightStep, PTL DEF PurgeSpec

\* Every reachable state of PicturePurge is of the declared types.
THEOREM PurgeTypes == PurgeSpec => []PurgeTypeOK
<1>1. NightInv => PurgeTypeOK
  BY DEF NightInv
<1>2. QED
  BY <1>1, Nightly, PTL

\* Whatever the purge is about to delete, the pictures that a publication is about to
\* show are stored when its version appears (publishResolved, unused_style_images).
THEOREM PublishesStored == PurgeSpec => []PublishesWhatIsStored
<1>1. NightInv => PublishesWhatIsStored
  BY DEF NightInv, Fitting, PublishesWhatIsStored
<1>2. QED
  BY <1>1, Nightly, PTL

\* No limit on stored pictures is passed beside the purge either.
THEOREM LimitsHoldNightly == PurgeSpec => []PicturesWithinLimit
<1>1. NightInv => PicturesWithinLimit
  BY DEF NightInv
<1>2. QED
  BY <1>1, Nightly, PTL

-----------------------------------------------------------------------------
(***************************************************************************)
(* Who holds what: a survey is held by who is in a transaction on it,      *)
(* the account's style is shared by who is about to commit one, and held   *)
(* by who is about to replace it; the purge holds rows while it runs.      *)
(***************************************************************************)
Rightly ==
    /\ \A s \in Survey : holder[s] \in Request =>
          InRow(holder[s]) /\ req[holder[s]].job.at = s
    /\ \A q \in sharers : req[q].pc \in {"saving", "publishing"}
    /\ keeper \in Request => req[keeper].pc = "keeping"
    /\ purge.pc = "off" => keeper # Job /\ \A s \in Survey : holder[s] # Job

\* What a request holds after a step of its own, it holds rightly.
HoldsRightly(r) ==
    /\ \A s \in Survey : /\ holder'[s] \in {holder[s], r, NoOne}
                         /\ holder'[s] = r =>
                            /\ req'[r].pc \in {"held", "saving", "publishing"}
                            /\ req'[r].job.at = s
    /\ sharers' \subseteq sharers \cup {r}
    /\ r \in sharers' => req'[r].pc \in {"saving", "publishing"}
    /\ keeper' \in {keeper, r, NoOne}
    /\ keeper' = r => req'[r].pc = "keeping"

LEMMA RightlyStays ==
    ASSUME TypeOK, Rightly, NEW r \in Request, HoldsRightly(r), UNCHANGED purge,
           \A q \in Request \ {r} : req'[q] = req[q]
    PROVE  Rightly'
<1>1. ASSUME NEW s \in Survey, holder'[s] \in Request
      PROVE  /\ req'[holder'[s]].pc \in {"held", "saving", "publishing"}
             /\ req'[holder'[s]].job.at = s
  <2>1. CASE holder'[s] = r
    BY <2>1 DEF HoldsRightly, InRow
  <2>2. CASE holder'[s] # r
    <3>1. holder'[s] = holder[s]
      BY <1>1, <2>2, HoldersAssumption DEF HoldsRightly
    <3>2. req'[holder[s]] = req[holder[s]]
      BY <1>1, <2>2, <3>1
    <3>3. InRow(holder[s]) /\ req[holder[s]].job.at = s
      BY <1>1, <3>1 DEF Rightly
    <3>4. QED
      BY <3>1, <3>2, <3>3 DEF InRow
  <2>3. QED
    BY <2>1, <2>2
<1>2. \A q \in sharers' : req'[q].pc \in {"saving", "publishing"}
  BY DEF HoldsRightly, Rightly, TypeOK
<1>3. keeper' \in Request => req'[keeper'].pc = "keeping"
  BY HoldersAssumption DEF HoldsRightly, Rightly
<1>4. purge'.pc = "off" => keeper' # Job /\ \A s \in Survey : holder'[s] # Job
  BY HoldersAssumption DEF HoldsRightly, Rightly
<1>5. QED
  BY <1>1, <1>2, <1>3, <1>4 DEF Rightly, InRow

\* Who lets go, or had nothing, holds nothing.
LEMMA NothingHeld ==
    ASSUME TypeOK, Rightly, NEW r \in Request,
           \/ req[r].pc \notin {"held", "saving", "publishing", "keeping"} /\ UNCHANGED locks
           \/ InRow(r) /\ Release(r, req[r].job.at)
           \/ req[r].pc = "keeping" /\ keeper' = NoOne /\ UNCHANGED <<holder, sharers>>
           \/ Abort(r)
    PROVE  HoldsRightly(r)
<1>1. /\ \A s \in Survey : holder[s] = r => InRow(r) /\ req[r].job.at = s
      /\ r \in sharers => InRow(r)
      /\ keeper = r => req[r].pc = "keeping"
      /\ holder \in [Survey -> Request \cup {NoOne, Job}]
  BY DEF Rightly, InRow, TypeOK
<1>2. CASE req[r].pc \notin {"held", "saving", "publishing", "keeping"} /\ UNCHANGED locks
  BY <1>1, <1>2 DEF HoldsRightly, InRow, locks
<1>3. CASE InRow(r) /\ Release(r, req[r].job.at)
  BY <1>1, <1>3, HoldersAssumption DEF HoldsRightly, InRow, Release
<1>4. CASE req[r].pc = "keeping" /\ keeper' = NoOne /\ UNCHANGED <<holder, sharers>>
  BY <1>1, <1>4, HoldersAssumption DEF HoldsRightly, InRow
<1>5. CASE Abort(r)
  BY <1>1, <1>5, HoldersAssumption DEF HoldsRightly, InRow, Abort
<1>6. QED
  BY <1>2, <1>3, <1>4, <1>5

LEMMA TransactionHoldsRightly ==
    ASSUME TypeOK, Rightly, NEW r \in Request, Transaction(r)
    PROVE  HoldsRightly(r)
<1>1. /\ \A s \in Survey : holder[s] = r => InRow(r) /\ req[r].job.at = s
      /\ r \in sharers => InRow(r)
      /\ keeper = r => req[r].pc = "keeping"
      /\ holder \in [Survey -> Request \cup {NoOne, Job}]
  BY DEF Rightly, InRow, TypeOK
<1>2. CASE Hold(r)
  <2>1. req'[r] = [pc |-> "held", job |-> req[r].job]
    BY <1>2, GoesLocal DEF Hold
  <2>2. req'[r].pc = "held" /\ req'[r].job.at = req[r].job.at
    BY <2>1
  <2>3. QED
    BY <1>1, <1>2, <2>2, HoldersAssumption DEF Hold, HoldsRightly, InRow
<1>3. ASSUME req[r].pc = "held", NEW to, Goes(r, to), Share(r), UNCHANGED <<holder, keeper>>,
             to.pc \in {"saving", "publishing"}, to.job = req[r].job
      PROVE  HoldsRightly(r)
  <2>1. req'[r] = to
    BY <1>3, GoesLocal
  <2>2. QED
    BY <1>1, <1>3, <2>1 DEF HoldsRightly, InRow, Share
<1>4. CASE SaveStyle(r)
  <2>1. CASE Release(r, req[r].job.at)
    BY <1>4, <2>1, NothingHeld DEF SaveStyle, InRow
  <2>2. CASE ~Release(r, req[r].job.at)
    <3>1. PICK add, drop : Goes(r, [pc |-> "saving", job |-> req[r].job,
                                    add |-> add, drop |-> drop])
      BY <1>4, <2>2 DEF SaveStyle
    <3>2. req[r].pc = "held" /\ Share(r) /\ UNCHANGED <<holder, keeper>>
      BY <1>4, <2>2 DEF SaveStyle
    <3>3. QED
      BY <1>3, <3>1, <3>2
  <2>3. QED
    BY <2>1, <2>2
<1>5. ASSUME req[r].pc = "held", NEW d, PublishResolved(r, d)
      PROVE  HoldsRightly(r)
  <2>1. PICK v, shared, add, drop :
           Goes(r, [pc |-> "publishing", job |-> req[r].job, version |-> v, shared |-> shared,
                    add |-> add, drop |-> drop])
    BY <1>5 DEF PublishResolved
  <2>2. Share(r) /\ UNCHANGED <<holder, keeper>>
    BY <1>5 DEF PublishResolved
  <2>3. QED
    BY <1>3, <1>5, <2>1, <2>2
<1>6. CASE Publish(r) \/ RefreshOne(r)
  BY <1>5, <1>6 DEF Publish, RefreshOne
<1>7. CASE \/ CommitStyle(r) \/ PublishRefused(r) \/ NothingToPublish(r)
           \/ RefreshSkipped(r) \/ CommitVersion(r)
  BY <1>7, NothingHeld DEF CommitStyle, PublishRefused, NothingToPublish, RefreshSkipped,
     CommitVersion, InRow
<1>8. CASE HoldAccountStyle(r)
  <2>1. CASE UNCHANGED keeper
    BY <1>8, <2>1, NothingHeld DEF HoldAccountStyle, locks
  <2>2. CASE keeper' # keeper
    <3>1. PICK look, add, drop : Goes(r, [pc |-> "keeping", look |-> look,
                                          add |-> add, drop |-> drop])
      BY <1>8, <2>2 DEF HoldAccountStyle
    <3>2. req'[r] = [pc |-> "keeping", look |-> look, add |-> add, drop |-> drop]
      BY <3>1, GoesLocal
    <3>3. req'[r].pc = "keeping"
      BY <3>2
    <3>4. QED
      BY <1>1, <1>8, <2>2, <3>3 DEF HoldAccountStyle, HoldsRightly, InRow
  <2>3. QED
    BY <2>1, <2>2
<1>9. CASE CommitAccountStyle(r)
  BY <1>9, NothingHeld DEF CommitAccountStyle
<1>10. QED
  BY <1>2, <1>4, <1>6, <1>7, <1>8, <1>9 DEF Transaction

LEMMA HandlerHoldsRightly ==
    ASSUME TypeOK, Rightly, NEW r \in Request, Handler(r)
    PROVE  HoldsRightly(r)
BY NothingHeld DEF Handler, LoadForEdit, SubmitStyle, SubmitReset, SubmitPublish, SaveDraft,
   AskToApply, RefreshFromAccount, SubmitAccountStyle

\* A step leaves other requests where they are.
LEMMA OthersStand ==
    ASSUME TypeOK, NEW r \in Request, RequestStep(r)
    PROVE  \A q \in Request \ {r} : req'[q] = req[q]
<1>1. ASSUME NEW to, Goes(r, to)
      PROVE  \A q \in Request \ {r} : req'[q] = req[q]
  BY <1>1, GoesLocal
<1>2. CASE Transaction(r)
  BY <1>1, <1>2, NextRefreshLocal DEF Transaction, Hold, SaveStyle, CommitStyle, Publish,
     PublishResolved, PublishRefused, NothingToPublish, RefreshOne, RefreshSkipped, CommitVersion,
     HoldAccountStyle, CommitAccountStyle
<1>3. CASE Handler(r)
  BY <1>1, <1>3, NextRefreshLocal DEF Handler, LoadForEdit, SubmitStyle, SubmitReset, SubmitPublish,
     SaveDraft, AskToApply, RefreshFromAccount, SubmitAccountStyle
<1>4. CASE Abort(r)
  BY <1>1, <1>4 DEF Abort
<1>5. QED
  BY <1>2, <1>3, <1>4 DEF RequestStep

LEMMA NextHoldsRightly ==
    ASSUME TypeOK, Rightly, [Next]_vars, UNCHANGED purge
    PROVE  Rightly'
<1>1. ASSUME NEW r \in Request, RequestStep(r)
      PROVE  Rightly'
  <2>1. HoldsRightly(r)
    BY <1>1, TransactionHoldsRightly, HandlerHoldsRightly, NothingHeld DEF RequestStep
  <2>2. QED
    BY <1>1, <2>1, OthersStand, RightlyStays
<1>2. CASE UNCHANGED <<locks, req>>
  BY <1>2 DEF Rightly, InRow, locks
<1>3. QED
  BY <1>1, <1>2 DEF Next, RequestStep, SaveWorkspaceStyleTranslation, SetStatus, vars, locks

LEMMA RightlyStep ==
    NightInv /\ Rightly /\ [PurgeNext]_allVars => Rightly'
<1> SUFFICES ASSUME NightInv, Rightly, [PurgeNext]_allVars
             PROVE  Rightly'
  OBVIOUS
<1>1. TypeOK /\ PurgeTypeOK
  BY DEF NightInv, PurgeTypeOK
<1>2. CASE Next /\ UNCHANGED purge
  BY <1>1, <1>2, NextHoldsRightly
<1>3. CASE UNCHANGED <<locks, req>> /\ (purge'.pc = "off" => purge.pc = "off")
  BY <1>3 DEF Rightly, InRow, locks
<1>4. ASSUME NEW s \in Survey, NEW p \in Picture, PurgeSurveyPicture(s, p)
      PROVE  Rightly'
  <2>0. purge \in SurveysRun
    BY <1>1, <1>4, RunForms DEF PurgeSurveyPicture
  <2>1. purge'.pc = "surveys" /\ UNCHANGED <<sharers, keeper, req>>
    BY <1>4, <2>0 DEF PurgeSurveyPicture, SurveysRun
  <2>2. \A t \in Survey : holder'[t] \in {holder[t], Job}
    BY <1>1, <1>4 DEF PurgeSurveyPicture, TypeOK
  <2>3. QED
    BY <2>1, <2>2, HoldersAssumption DEF Rightly, InRow
<1>5. ASSUME NEW p \in Picture, PurgeAccountPicture(p)
      PROVE  Rightly'
  <2>0. purge \in AccountRun
    BY <1>1, <1>5, RunForms DEF PurgeAccountPicture
  <2>1. purge'.pc = "account" /\ UNCHANGED <<holder, sharers, req>> /\ keeper' \in {keeper, Job}
    BY <1>5, <2>0 DEF PurgeAccountPicture, AccountRun
  <2>2. QED
    BY <2>1, HoldersAssumption DEF Rightly, InRow
<1>6. CASE PurgeReleases /\ UNCHANGED req
  <2>1. /\ \A s \in Survey : holder'[s] = IF holder[s] = Job THEN NoOne ELSE holder[s]
        /\ keeper' = IF keeper = Job THEN NoOne ELSE keeper
        /\ UNCHANGED <<sharers, req>>
    BY <1>6 DEF PurgeReleases
  <2>2. QED
    BY <2>1, HoldersAssumption DEF Rightly, InRow
<1>7. CASE PurgeSurveys \/ PurgeAccount \/ Age \/ UNCHANGED allVars
  BY <1>3, <1>7 DEF PurgeSurveys, PurgeAccount, Age, allVars, vars, purging, locks
<1>8. QED
  BY <1>2, <1>4, <1>5, <1>6, <1>7 DEF PurgeNext, PurgeStep, PurgeCommits, PurgeRollsBack

LEMMA HoldersGoOn ==
    ASSUME TypeOK, Rightly, NEW r \in Request, NEW q \in WaitsFor(r)
    PROVE  /\ IF q = Job THEN purge.pc # "off" ELSE q \in Request /\ HasRows(q)
           /\ q # Job /\ req[q].pc = "held" => req[r].pc = "waiting"
<1>1. req[r].pc \in {"waiting", "held", "account"} /\ q # NoOne
  BY DEF WaitsFor
<1>2. CASE req[r].pc = "waiting"
  <2>1. q = holder[req[r].job.at] /\ req[r].job.at \in Survey
    BY <1>2, RequestForms, JobForms DEF WaitsFor, Waiting, SurveyJob
  <2>2. q \in Request \cup {Job}
    BY <1>1, <2>1 DEF TypeOK
  <2>3. QED
    BY <1>2, <2>1, <2>2 DEF Rightly, InRow, HasRows
<1>3. CASE req[r].pc = "held" \/ (req[r].pc = "account" /\ q = keeper)
  <2>1. q = keeper /\ q \in Request \cup {Job}
    BY <1>1, <1>3 DEF WaitsFor, TypeOK
  <2>2. QED
    BY <2>1, HoldersAssumption DEF Rightly, HasRows
<1>4. CASE req[r].pc = "account" /\ q # keeper
  <2>1. q \in sharers /\ q \in Request
    BY <1>1, <1>4 DEF WaitsFor, TypeOK
  <2>2. QED
    BY <2>1, HoldersAssumption DEF Rightly, HasRows
<1>5. QED
  BY <1>1, <1>2, <1>3, <1>4

LEMMA NoRing == TypeOK /\ Rightly => NoDeadlock
<1> SUFFICES ASSUME TypeOK, Rightly
             PROVE  NoDeadlock
  OBVIOUS
<1>1. \A r \in Request : \A q \in WaitsFor(r) :
         IF q = Job THEN purge.pc # "off" ELSE HasRows(q)
  BY HoldersGoOn
<1>2. ASSUME NEW R \in SUBSET Request, R # {}
      PROVE  \E r \in R : WaitsFor(r) \cap R = {}
  <2> SUFFICES ASSUME \A r \in R : \E q \in R : q \in WaitsFor(r)
               PROVE  FALSE
    OBVIOUS
  <2>1. PICK r \in R : TRUE
    BY <1>2
  <2>2. PICK q \in R : q \in WaitsFor(r)
    BY <2>1
  <2>3. PICK k \in R : k \in WaitsFor(q)
    BY <2>2
  <2>4. PICK m \in R : m \in WaitsFor(k)
    BY <2>3
  <2>5. HasRows(q) /\ HasRows(k) /\ q # Job /\ k # Job
    BY <2>1, <2>2, <2>3, HoldersGoOn, HoldersAssumption
  <2>6. req[q].pc = "held" /\ req[k].pc = "held"
    BY <2>3, <2>4, <2>5 DEF HasRows, WaitsFor
  <2>7. req[q].pc = "waiting"
    BY <2>3, <2>5, <2>6, HoldersGoOn
  <2>8. QED
    BY <2>6, <2>7
<1>3. QED
  BY <1>1, <1>2 DEF NoDeadlock

\* No requests ever wait for each other in a ring, beside the purge or without it, and whoever
\* they wait for has all it needs to go on or waits for one who has: a survey is always held
\* before the account's style ("never the other way round").
THEOREM NobodyDeadlocks == PurgeSpec => []NoDeadlock
<1>1. PurgeInit => Rightly
  BY HoldersAssumption DEF PurgeInit, Init, Off, Rightly
<1>2. NightInv => TypeOK
  BY DEF NightInv, PurgeTypeOK
<1>3. QED
  BY <1>1, <1>2, RightlyStep, NoRing, Nightly, PTL DEF PurgeSpec

=============================================================================
