# Earful, modelled and verified in TLA+

Earful is a survey service: one Go server over one Postgres database. This directory holds
TLA+ modules of the parts of it whose correctness depends on the *order* in which things
happen: transactions of several windows and of the nightly purge, submissions sent twice,
mails that fail, builds that run out of time, processes that end. Every module is translated
from the code named in its comments and, definition by definition, in `PROJECT.json`
(`map`). TLC checks the modules on small instances; TLAPS proves the theorems for every
instance.

To check a run: `tlc -config Publishing.cfg MCPublishingTurns`. To check the proofs:
`tlapm PublishingProofs.tla`.

## 1. The system

### Components

| Component | State it keeps | Operations | What makes it correct |
|---|---|---|---|
| Survey drafts, versions, publication (`internal/store/surveys.go`, `internal/http/surveys.go`) | `survey_drafts`, `survey_versions`, a survey's status | load and save a draft, publish, close, reopen, delete | versions are an append-only history; a version freezes what was there when it appears |
| Account style and pictures (`store/style.go`, `store/workspace_style.go`, `http/style*.go`, `http/account_style.go`) | the draft's style, `workspace_styles` with translations, `survey_images`, `workspace_images` | save or reset a style, save the account's, translate its words, evict pictures | nothing shown loses its picture; limits hold; row locks cannot deadlock |
| Applying the account's style (`store/account_refresh.go`, `domain/style_refresh.go`) | nothing of its own: a request that goes through the open surveys | ask, refresh one survey after the other | publishes only what was asked about, never the unpublished draft |
| Retention purge (`internal/purge`) | soft-deleted rows, old pictures, expired archives | one transaction a night, in fixed steps; erasure of one person | removes what is unused and nothing that is used |
| Answering (`http/respond.go`, `http/participants.go`, `store/responses.go`) | `responses`, `participants.submitted_at` | render, check, record, soft-delete | at most one response per invitation; pinned to the version shown |
| Replay protection (`internal/antibot`) | in memory: used nonces, solved challenges, keys, rate-limit windows | issue and check tokens, remember for a while | a solution or a render buys one submission, across restarts too |
| Participants and invitations (`internal/invites`, `store/participants.go`, `email/brevo.go`) | `participants`, `suppressions`, the hourly allowance | import, run through the pending list, mail, roll back, suppress | whoever is left as invited holds a link that works; the cap; the never-mail list |
| Exports (`http/export_workspace.go`, `http/export_closure.go`, `store/exports.go`) | `export_jobs`, a goroutine for each build | ask, queue, claim, build, store, fail, mail, expire | one build at a time; a mailed link works; one mail per closing |
| AI meter, generation, insights (`internal/ai`, `http/generate.go`, `http/insights.go`) | spend per workspace and day | check, call, record | every call is charged, the cap holds up to what is in flight |
| Voice answers (`http/voice.go`, `internal/voice`, `internal/ws`, `voice.js`) | a socket's take and its buffer | open, send, stop, transcribe | a take is transcribed once and charged once |
| Accounts and sign-in (`internal/auth`) | users, workspaces, sessions, tokens, beta codes | request and redeem a link, sign out, delete, reset | a link works once; a deleted account has no session |
| Suspension (`store/suspensions.go`, `http/suspension.go`) | a flag of a workspace | suspend, lift | nothing of a suspended workspace is answered or sent |
| Languages (`http/localizations.go`, `domain/localization.go`) | translations of a draft, each with the wording it was made from; per version what was frozen | draft by a model, save as read, publish, answer in a language | nothing goes out whose words were not read; an answer means what was chosen |
| Questions, answers, styles as values (`internal/domain`) | none | pure checks | one value at a time |
| Results, statistics, files (`store/results.go`, `http/export_csv.go` ...) | counters | reads; one-statement increments | |
| Starter survey, attachments, mail, configuration, logging, GeoIP, clock, pages, commands | none that several actors share | | |

### How they interact

Handlers run concurrently, one goroutine per request, and share the database and the
process's memory in `internal/antibot`. A draft is *loaded by one request and saved by
another*, whole. Transactions that touch a survey's style or versions hold the survey's row
(`LockSurveyForStyle`), then share the account style's row (`ShareWorkspaceStyle`); a save of
the account's style holds that row alone (`LockWorkspaceStyle`). The purge asks for the same
holds but skips what is held. Answers refer to the version that was rendered. Exports and
voice run in goroutines that outlive, or do not outlive, the request that started them.
The mail provider calls back with bounces while mails are being sent. A deploy replaces the
process: the database stays, memory is gone.

### What is hard

Interleaved transactions and reads before holds; whole-draft writes; a statement's snapshot
against per-row holds; the memory of a nonce shorter than the life of its form; two statements
where one was meant; contexts that end before the clean-up they should carry; limits counted
before they are added to. `PROJECT.json` lists each of these at its line (`hazards`), with
the properties that would catch it, or why there is none yet.

## 2. The plan

1. **Publishing**, with **PublishedHistory** (what publishing promises) and
   **PublishingProofs**. Done.
2. **PicturePurge**, which extends Publishing with the purge's two picture steps; its proofs are
   the last part of **PublishingProofs**. Done.
3. **Answering**: both links, replay protection, restarts; **AnsweringProofs**. Done.
4. **Invites**: send runs beside each other and beside bounces; **InvitesProofs**. Done.
5. **ExportJobs**: builds, closings, crashes; **ExportJobsProofs**. Done.
6. **AIMeter**: calls of a model checked and recorded by several requests, speech among them,
   and **AIMeterProofs**. Done.
7. **Accounts**: links, Google, beta codes, passwords, sessions, closing and signing up again, with
   **Registry** (what they promise) and **AccountsProofs**. Done.
8. **Retention**, which extends Accounts: the purge of what was deleted and `EraseSubject`,
   beside sign-ins, answers and deletions; its proofs are the second part of **AccountsProofs**. Done.
9. **Localization**: translations drafted, read and published from a draft that several windows
   save, and answers in a language; **LocalizationProofs**. Done.
10. **Dictation**: the takes of a card in the browser, their sockets and the server's sessions;
   **DictationProofs**. Done.
11. **Limiter**: the bound on the rate limiter's map and its sweep.
12. Pure operators: `Draft.Move`, `StatusAt`, against reference definitions.

Theorems, in order: `IInv` of Publishing, what follows from it and the refinement of
PublishedHistory, what a publication and a refresh take from the account's style, and what stays
true beside the purge, and that no
requests wait in a ring (done, PublishingProofs); the invariants of Answering (done, AnsweringProofs);
what the meter bounds, stops and charges (done, AIMeterProofs); what goes out in a language and
what an answer in it means (done, LocalizationProofs); that a take is in hand and never stranded (done,
DictationProofs);
who is invited can answer, and the pace (done, InvitesProofs); mailed links, one mail, one build
(done, ExportJobsProofs); one account and one workspace each, with and without a purge beside, and
what the purge keeps, leaves and is held up by, and the refinement of Registry (done,
AccountsProofs).

## 3. The modules

Each MC module extends the module it instantiates, declares model values and gives the few
constants a configuration cannot write (sets of looks, symmetry). No configuration replaces a
definition. The types of every module are proved.
Definitions whose comment starts with "Fault:" are slips a careless change of the
code could make; no action uses them, and the properties are known to notice each of them.

Where an MC module has an `instance`, a behaviour chooses it once, at the start, from `Turns`,
and stays with it: the run checks several small instances of one module, each with the bounds
its question needs, instead of one large one whose bounds would have to hold for all.

### Publishing

State: `draft`, `versions`, `pictures`, `status` of each survey, `account` and `gallery` are
the tables; `holder`, `sharers`, `keeper` are the row locks; `req` is where each request is
and *what it has read*. A transaction of the code is up to three steps: it takes its hold
(`Hold`, `HoldAccountStyle`), works out its writes under it (`SaveStyle`, `Publish`,
`RefreshOne`), and commits (`CommitStyle`, `CommitVersion`, `CommitAccountStyle`). The writes
are kept in the request as a plan until the commit, so that whatever the locks do not prevent
may come in between. `SaveDraft` writes back what `LoadForEdit` read, whenever that was:
the handlers hold nothing in between. `Abort` ends a request anywhere.

A part of a style (header, footer, background) is the set of the pictures it shows, or
`Follow`, when it is left to the account. Questions and thank you page are one value, `body`.
A language is among a draft's `langs`, and among `read` if its words were read against the
current wording; `Account.read` has, for each language, the look whose words were read. A
translation of the same words done over is not told apart.

Left out: the close date passing, and suspension, as guards of publishing (Answering has
both); the settings form; an upload whose bytes are those of the account's own part. The
order in which a refresh takes the surveys is any. Stamps of the account's style are unique:
`accountUpdatedAt` has microseconds. One workspace, whose requests may come from any number
of windows.

`StyleFormFree` models `fewStyleSavesAtOnce`: one Style form of a workspace at a time in a
process; one process is assumed.

**PublishedHistory** is the abstract specification: versions are appended, numbered in order,
each says something new, and pictures are rearranged without taking away any that a version
shows. `ImplementsPublishedHistory` maps `versions` to its history and `pictures` to what it
stores.

### PicturePurge

Extends Publishing with `purge`, and with which pictures are older than `UnusedImageWindow`
(`aged`). The purge's statement sees the rows as they were when it began (`unused` is computed
in `PurgeSurveys`), and asks for each survey's hold only when it comes to its pictures
(`FOR NO KEY UPDATE SKIP LOCKED`), one picture a step. Its deletions appear when the
transaction commits. `Age` makes pictures old only while no transaction is under way, since
none lasts a week. The other steps of the purge's transaction touch none of this state.

### Answering

One survey, from its rendered pages (`page`) to its `responses`. A submission (`click`) goes
through the steps of `respondSubmit` or `participantRespondSubmit` one by one: arrival (the
status and the participant are read *here*), the form token, the challenge, the nonce, the
transaction. The transaction is one step: `SubmitAnswers` runs in one, and the index
`responses_one_per_participant` decides between two. `epoch` counts processes: `Restart`
forgets nonces and solutions, and the keys with them. `Refuse` stands for every early return
that changes nothing (validation, honeypot, rate limit, a stale form). Whether the survey is answered
through personal links is chosen once, at the start. Time is in units that keep the order of
the windows: minimal filling time 3 s < nonce 1 h < challenge 2 h < solution
3 h < form 24 h; requests may last through ticks. Cookies, statistics and rendering are left
out. Rotation of a participant's token is in Invites.

### Invites

A run (`run`) reads its list once, then for each participant asks the cap (`Allow`, `Count`),
mints a token and marks the participant (`Issue`), mails (`Send`, `SendFails`), and takes the
mark back if the send failed (`RollBack`). `SendFails` includes the answer that came too late,
after the mail had gone out. `Cancel` is the end of the request's context. Tokens are numbers:
the database keeps the latest, `mailed` what reached the mailbox. Suppression is two
statements (`AddSuppression`, `MarkBounced`), the second of which may fail (`MarkFails`: the
webhook is answered 200 all the same). A survey's status is not modelled, nor the order of the
list.

### ExportJobs

Requests, jobs and the builders of jobs. Asking is a read (`AskForExport`) and a write
(`CreateExportJob`); closing queues a job, deletes the account, and starts the build or
removes the job. A builder has a limit (`until`) and every statement it runs, the mail
included, needs time left (`InTime`). `Crash` ends every request and builder. Time passes only
between requests: its unit is five minutes, so that `BuildTimeout` is 2 and `StaleAfter` 3; the
day and the seven days are just long enough (3 and 5) for their order to matter. `Asker` are
the requests that may ask for an export. What an
archive holds is not modelled, nor the removal of a job after thirty days, which lies beyond
the bound of time.

### AIMeter

A `call` goes through the meter's checks one by one (`CheckSuspension`, `CheckBreaker`,
`ReadTier`, `CheckQuota`; for speech the session's and the survey's seconds before them), asks
the model (`AskModel`), receives pieces of the answer (`Recv`) and is recorded (`Record`) in
`tokens`, `cost` and `heard`, the columns of `ai_usage`. Nothing is held between a check and the
record. The six kinds of call differ in when they are recorded: a form collects, charges and
stores; the editor's socket charges in a deferred closure; the results' socket in a deferred
call, whose arguments are worked out before anything arrived; translations check and ask in a
loop and charge at the end, what was refused in the middle included. `link` is the context the
record runs under: the browser may be gone (`closed`), which a socket learns when it sends, or
the context `over`, after which no statement runs. `Restart` loses what is under way, and the
seconds of each session, which are in memory; `Forget` is their TTL. A price is a constant, so
cost is counted in tokens. A translation of answers that asked the model nothing is charged one
token all the same (`Tokens(0)`); `empty` counts those, and OverrunBounded says so. `NextDay`
starts the columns from nothing; calls go on across it.

### Accounts

A request to sign in or up goes through the statements of `login`, `SignupWithCode` and
`LoginWithPassword`, each of which sees what is committed by then (READ COMMITTED). What its
transaction has written is in the request (`fresh`, `linked`, `space`) until `CommitLogin`; the
unique indexes on live rows make whoever inserts the same key wait until then (`Awaited`), and a
row that is updated makes other updates of it wait (`RowFree`). A code is held from
`HoldCode` to the commit (`FOR UPDATE`). `CreateSession` is a statement of its own, after the
commit. Closing an account is one transaction that dates the workspaces and the account and
removes the sessions; resetting a password is two statements. `Abort` ends a request anywhere,
and undoes what was not committed. A link may be found expired at any time; sessions do not
expire. `held` is what a purge, or an erasure, has written of the accounts' rows: nobody but
Retention sets it.

**Registry** is the abstract specification: a list of members, each with an address, perhaps a
Google identity, and their workspaces, that changes in single steps. `ImplementsRegistry` maps
`user` to its members (`Listed`) and `space` to their homes (`Housed`); requests, locks, codes,
sessions and the purge are not in it. `Enrol`, `Join` and `Rename` say at the step that makes the
row appear that no other live member has the key, which is what the statements read much earlier;
`Stray` is the one disorder the code admits, a workspace for an account closed meanwhile (see
`PurgeNotBlocked`).

### Retention

Extends Accounts with a survey of each workspace's creator (`surveys` has the Starter Survey
too), its participants and their responses, and with `job`, the purge that is under way. The
purge is one transaction, and each of its statements one step, in the order of `steps`: a
statement sees what is committed then and what the transaction has done so far (`dated`,
`emptied`, `removed`), and nobody else sees that until `Commit`. A row that still has children
is not removed: the statement is refused (`Refused`, with what it was refused for in `blocked`),
and the transaction with it. `DetachAuthors` is refused for whatever it would have to change,
since the triggers on versions and revisions accept no update. `EraseSubject` dates the account,
its workspaces and surveys into the past, removes the person's answers and their places on
lists, and then goes through the same statements. Its updates ask for `deleted_at IS NULL`: `theirs`
is everything of the person when it began, whenever it was deleted, and `skipped` the part of it that
keeps its date: accounts and workspaces deleted before, and the deleted surveys of those (in a
workspace that is dated, a survey goes whenever it was deleted). Whoever adds a row below another waits while
that one is being removed (`Stays`, `Refers`). A survey, with its drafts, versions and revisions,
is one row; responses have ids, since one that was deleted and one that replaced it live side by
side. Left out: what goes by its age alone (links, sessions, logs, revisions, archives).

### Localization

One survey's draft in several windows. A request loads the whole draft (`LoadDraft`) and saves the
whole draft (`SaveDraft`), with one edit of its own in it and whatever else it loaded, so a save may
bring back questions, languages and translations of another moment. A languages page (`page`) shows
the draft of its own moment and is filled in by its reader (`FillIn`, `Fillings`); when it is sent,
`localizationSave` loads the draft anew (`LoadForSave`) and takes what was posted for the wording
*that* draft has (`Accepted`). `LocalizationDraft` saves what the model drafted, any part of what was
pending, into the draft loaded before the first call. `Publish` is one transaction and one step;
`Frozen` is what it freezes. A respondent's form names its version, and its address the language
(`form`); the submission is read back by the options' positions (`Canonical`) and validated
against the creator's options (`Outcome`).

Wordings are values, and the words of a translation say of which wording they are and whose: the
model's or the creator's. An option is what it means, and a label the option in a language. `read` is
a history of what a person has posted. The thank you page and a style's words are translated, read
and frozen as a question without options is; the order of questions, and the cache of translated
answers, are left out. A reader translates the options line by line, or leaves the field as it is.

### Dictation

One card of a questionnaire page. The script has no state but closures, and so has the module:
`card` is the closure of `attachMic`, `take` that of each `startRecording` or
`startLocalRecognition`, `line` the socket a take opens with what is under way on it in either
direction and the session at its far end, `press` the Space key, `answer` the field. The card names
up to three takes (`starting`, `recorder`, `finishing`); everything else a take does, it does by
itself. Each handler is one action: the button (`Stop`, `Dictate`), the consent dialog (`Accept`,
`Decline`), the key (`PressSpace`, `Hold`, `Release`), `Clear`, `Cancel`, `Hide` and `Show`, the
promise of the microphone and that of `start` (`MicrophoneOpens`, `Settle`), the timer
(`StopTimer`), the recogniser on the device (`Recognise`, `RecogniserEnds`), the socket (`Connect`,
`LineLost`, `Deliver`, `Retry`). `ServerReceives` and `ServerTells` are `runVoiceSession` and
`finishVoiceTake`: a greeting, sound up to the cap, a stop, then the transcript word by word, done
or refused. A lost connection takes both directions and the session with it, and the next one starts
with the greeting again; a stop is kept for it, sound is not. A take that is called off closes its
socket (`Hung`, which sets `hung`, the code's `closedByUs`); one that waits for its next attempt is
opened again all the same, since nobody clears its timer and `connect` does not ask (`Retry`,
`Connect`): it starts a session nobody wants, and is left open until it is lost (`LineDown`). What
comes on it finds the take `dropped` (the code's `discarded`) and is not heard (`Deliver`; `Hears`
is what is done with a frame that is). Where the browser's storage is blocked, consent is not
remembered (`Accept`). `lost` and `overlapped` are history: connections lost, and whether a take was
begun beside another.

Left out: the question whether the microphone may be used, devices that come and go, the contents
of the pickers, several cards on a page (each has its own closure, and they share nothing of a
take), the draft in the browser's storage, wording, levels. What a take costs is in AIMeter.

## 4. The runs

| Run | Instance | Distinct states | What it shows |
|---|---|---|---|
| `publishing` | in turn, with 1 survey: 2 requests, 2 pictures of which 1 fits, 2 versions; the account's style, of whose pictures 1 fits, 4 saves; 2 requests, 2 wordings, 2 saves of the account's style; 1 request at a time, the account's translators, 1 language, an optional part | 1.3 M | VersionPicturesStored, PicturesWithinLimit, PlansStaySound, AccountPicturesStored, ImplementsPublishedHistory, RefreshChangesOnlyFollowedParts, RefreshAppliesWhatWasAsked, FrozenAsItStands |
| `languages` | 2 windows, 4 saves, 1 language, 2 versions, 1 answer, in turn: a question with options in either order and of two numbers; one that is reworded; 2 questions | 0.8 M | NothingUnreadGoesOut, LanguagesComplete, RecordedAsChosen |
| `picture_purge` | in turn: the purge and 1 request; 2 requests on nights without one; fair | 253 k | PublishesWhatIsStored, UnusedPicturesGo, RequestsEnd |
| `answers` | 1 page of either kind of survey, 2 submissions at once, 1 restart, 2 versions, the whole life of a form | 1.7 M | RepeatsApart, SolutionAcceptedOnce, OneResponseEach, MarkedWhenRecorded, PinnedToServed |
| `invite_runs` | 2 runs over 1 participant, cap 2, windows of 2 units, 5 units of time, 5 links, 1 run cut off | 0.8 M | InvitedCanAnswer, NoBurst, SuppressedLeftAlone |
| `exports` | 2 requests of which 1 asks for exports, 3 jobs, 1 fault | 4.8 M | OneBuildAtATime, MailedLinkWorks, OneMailOnceClosed |
| `ai_meter` | 2 calls, in turn: every kind but speech; forms and batches with 1 intervention; forms of 2 workspaces; takes with 1 intervention | 1.4 M | OverrunBounded, BudgetBounded, SpeechBounded, SuspensionStops, ChargedUnlessGone, CountsWhenTold |
| `accounts` | 2 requests, in turn: 2 accounts and addresses, 1 Google identity, 1 link, open to all; the same in the beta, 2 codes, 2 passwords; 1 account and 2 workspaces beside the purge, the rehearsal and an erasure | 0.9 M | ImplementsRegistry, OneAccountEach, BetaInvitedOnly, KeptForWindow, SweepComplete, PurgeGoesThrough |
| `dictation` | in turn, with either engine: 1 take, 2 words spoken, 1 typed, 1 connection lost; 2 silent takes that may overlap; on the server's engine, 2 silent takes one after the other, 1 connection lost | 0.6 M | TakeInHand, WordsKept, EveryTakeComesToAnEnd |

Why the bounds are enough. Two requests are the fewest that race, and every property speaks of two
actors at most. Room for one picture out of two makes a survey keep it, evict it or refuse the
other, and any limit is PublishingProofs'; two versions have a first and a next. Four saves of a
draft are a question, a language, a reading of it, and an edit of any window that makes the reading
stale, so that the second version differs from the first; any number of windows, languages, saves
and answers is LocalizationProofs'. One page is sent by two submissions, which may be the same click
twice or two windows of one person; what a second page would add is kept apart by its own nonce,
solution and participant (AnsweringProofs is for any number of pages). Five links let each of two
runs mint, fail and mint again, and fill the cap twice over; five units of time let two windows of
the cap meet. Three jobs are one that died, its successor and the closing one. Two calls, with an
allowance of two tokens and a budget of three, pass each limit by what the other has in flight; two
words and an answer of one piece make a batch go on and be stopped in its middle; any number of
calls and any prices are AIMeterProofs'. Two accounts, two addresses and one Google identity let an
account be found by the one or by the other, or be about to appear; two workspaces let a closed
account have a successor. Beside a purge one request at a time is enough (`OneBesideJob`): the purge
is the other actor, and it races each statement of the request. There the window is of no day, so
that what is deleted on day 0 is due on day 1; `RetentionWindow.cfg` is the same with a window of a
day, three days and responses deleted and replaced (1.3 M states), and passes too. `LockOrder.cfg`
(NoDeadlock, on the instance of `picture_purge`) and `TakeEnds.cfg` (NoTakeStranded and
TakesOnlyGoOn, on that of `dictation`) check what the liveness of those two runs rests on. One take
with two words, of which the server keeps one, and one connection lost is greeted anew and capped in
its middle; two takes are the fewest of which one can be forgotten by the card, and the fewest of
which one can be called off, opened again and told "done" or refused while the other is in hand.
Symmetry is used only in runs of safety properties, over sets whose members no definition tells
apart. Deadlock is checked except where `CHECK_DEADLOCK FALSE` says the instance may stop: there the
bounds on time, on links, on days or on jobs are used up and nobody has anything left to do.

### Where code and words part

Each of these configurations checks a sentence of the repository that the code does not keep,
and TLC answers with a counterexample. The first three are findings (`PROJECT.json` quotes the
sentences); the others are kept beside them for whoever changes that code. TLC stops at the first
that fails, so of a configuration that lists several (`...Claims.cfg`) keep one at a time.

| Configuration | Property | In short |
|---|---|---|
| `OptionsReordered.cfg` (run `options_reordered`) | AnswersMeanTheSame | options put in another order keep their translation in the old one, and an answer in it is another option |
| `PurgeBlocked.cfg` (run `purge_blocked`) | PurgeNotBlocked | a workspace made for an account that was closed meanwhile has the purge refused, every night |
| `ClosedCard.cfg` (run `closed_card`) | NothingHeardBehindClosedCard | consent given after the card was closed starts a take behind it |
| `PurgeRaces.cfg` | VersionPicturesStored | a version that appears while the purge's statement runs may lose its picture |
| `InviteClaims.cfg` | FailedSendsRetried | the roll-back needs the context whose end made it necessary |
| | MostRecentWorks | a failed send has already killed the link mailed before |
| | NeverRemailed | a run does not see a bounce recorded after it read its list |
| `LanguageAdded.cfg` | LanguageGoesOut | SPEC.md:442 says "adding a language later = new version"; a published survey's new language alone is "nothing to publish" (surveys.go:500-516) |
| `StaleReview.cfg` | ReadAgainstItsWording | a page read beside one wording is saved as read against another |
| `DraftPictures.cfg` | DraftPicturesStored | a question edit writes back a style whose picture was evicted since it was loaded |
| `FirstAccountStyle.cfg` | FrozenAsItStandsAlways | with no account style yet there is no row to hold |
| `AnswerClaims.cfg` | RenderRecordedOnce | a nonce is forgotten after an hour, its form is good for a day |
| | SecondClickThanked | both clicks carry one solution, and it is checked before the nonce |
| | OneSubmissionPerLink | deletion of the first response lets a second window's in |
| `ExportClaims.cfg` | OneBuildAtATime | two clicks, two builds |
| | CopyOnItsWay | the second submit counts on a job the first removes |
| | ToldInTime | the apology is mailed under the limit that was exceeded |
| `MeterClaims.cfg` | BatchStopsAtAllowance | a batch's own words are charged at its end, so none of its checks sees them |
| | ChargedInFull | the results' socket charges the prompt and never the answer |
| `ErasureClaims.cfg` | ErasureTakesAll | an erasure takes "everything of theirs", "skipping the 30-day wait" (purge.go:348-351), but an account closed before keeps its date, and waits for its window (purge.go:373) |
| `ResetSessions.cfg` | ResetEndsSessions | a login that compared the old password opens its session after the reset |
| `DictationClaims.cfg` | ClearDropsEveryTake | SPEC.md:352 drops the take, but `clear` aborts one only: the recording one, or else the one being transcribed |
| | ToggleIgnoresKey | the key's release calls off whatever take is starting, though a take of the button "pays the key no attention" (voice.js:568-570) |
| | TranscribingIsTrue | a take that the server ended leaves its timer running, which later shows "Transcribing" (voice.js:1305, 1317) |
| | ListeningIsTrue | a take that ends before the promise of `start` settles is taken up by the card all the same (voice.js:1358) |
| | SocketGoesWithTake | a take called off while its socket waits to try again is opened again and sends "start" again (wsclient.js:37, 87), though "the socket goes with it" (voice.js:1301-1303) |
| | EveryStartSettles | getUserMedia waits for the respondent, and nothing limits the wait: a prompt that is not answered leaves "Starting" as the last word (voice.js:611-630, 943-953) |
| | TranscribingEnds | a connection lost after the stop was sent is opened again, and then both ends wait (wsclient.js:5-8 promises no dead end) |

`purge_blocked` in steps: a sign-in reads an account as live (auth/service.go:245); the account
is closed, its workspace with it; the sign-in looks for a workspace (service.go:261), finds no
live one and makes one, with a Starter Survey published by that account. Nobody can sign in to
it, so nobody deletes it. When the account's window is over, `detach_purged_authors_from_versions`
(purge.go:241) would set the author of those versions to nobody, the trigger
`reject_mutation_of_published` refuses any update of a version, and the transaction is rolled
back: this night and every night, for everybody. PurgeGoesThrough says that nothing else holds it
up but what came in while it ran.

`options_reordered` in steps: a choice question is translated and read, options "Yes, No" as "Ja,
Nee"; its options are put in the order "No, Yes", its words left alone. Pending
(domain/localization.go:153) compares words only, so the language stays ready; Publish freezes "Ja,
Nee" with the new version, LocalizedQuestions serves them since they are as many, and
canonicalAnswers takes "Ja", the first, for "No". The same happens where the translation left the
options as written, and where an option is renamed; RecordedAsChosen says that nothing else goes
wrong.

`closed_card` in steps: the respondent presses the button and the consent dialog opens; nothing keeps
the page behind it from being used, so the card is closed (`collapse(true)`: no take to stop yet);
then consent is given, and Accept calls `proceed()` without asking whether the card is still open
(voice.js:1045). The take starts and records, with its Stop button and its level out of sight; Space
and Shift+Esc pass a closed card by. It ends with its timer.

What TakeInHand leaves out is as the code is: takes that overlap reset each other's card, and a
capture graph that cannot be built (`CaptureFails`) gives the card up while its microphone is open,
until the timer closes it. EveryTakeComesToAnEnd has both. It begins where the microphone streams to
the server: before that the respondent is asked, and on the device's engine asked twice (the level
meter opens a microphone of its own, `openMonitor`, and start waits for it).

Two more that a page of translations meets: `localizationDraft` saves the draft it loaded before up
to a model call per question, so what another window saved meanwhile is gone (the same whole-draft
write as DraftPictures); and `answersTranslate` (localizations.go:741) says that it never pays twice,
but asks which answers lack a translation before its calls, so two clicks pay for both.

SweepComplete therefore says of an erasure what the code does: it leaves of the person only what is
`skipped`, which a later purge takes when its own window is over.

VersionPicturesStored holds of Publishing, and is proved, but fails in PicturePurge: the
requests among themselves never lose a picture, and the purge's statement may. InvitedCanAnswer
is FailedSendsRetried for as long as no run was cut off; OneBuildAtATime holds where one
request at a time asks for exports (`Asker`).

## 5. Fairness

- `Fairness` of Publishing is strong fairness of each request's transaction steps. Postgres
  queues those who wait for a row, so a lock that is free again and again is had in the end;
  weak fairness would let others overtake for ever, which the queue does not. Handlers have
  none (nobody is made to send a form) and neither has `Abort`.
- `PurgeFairness` is weak fairness of the purge's steps (a run goes on, and there is one every
  night), and that from some night on no run is interrupted: a purge that fails every night
  removes nothing. UnusedPicturesGo asks this only of a survey no request holds for good.
  `FairMCSpec` says the same of the turn that has a purge.
- `Fairness` of Dictation: the browser runs its callbacks and timers and builds the capture graph, a
  handshake ends one way or the other, a session goes on while its connection stands. Nothing is
  asked of the respondent. So no take's microphone has to open or be refused, since getUserMedia
  waits for an answer to its prompt, and the promise of `start` has to settle on the server's engine
  only (`engine = "server" /\ Settle(t)`): on the device's it waits for openMonitor's getUserMedia.
  A connection is never bound to be lost. What a turn of MCDictation
  forbids is a step of the respondent or a fault, so no fair step is disabled by it.
- Nothing else assumes fairness; the other runs are of safety.

## 6. The proofs

Everything below is proved for every value of the constants, under the assumptions the modules
name: pictures are finitely many and a survey may turn off only what is a part of its style; the
windows of Answering are positive and a solution is remembered for longer than its challenge may
be solved; calls under way at once are finitely many and the meter's limits are numbers; no option
of a question is given twice; the cap on invitations and its window are positive; a build's limit
is shorter than the age at which its job counts as dead; the ids of two tables are never the same,
and days, the window of the purge and answers are numbers. `OneBuild` also assumes that one request
asks for exports (`OneAsker`). The bounds (`MaxVersions`, `MaxStamp`, `MaxTime`, `MaxEpoch`, ...)
are any numbers.

| Module | Theorem | Statement |
|---|---|---|
| `PublishingProofs` | `Types` | `Spec => []TypeOK` |
| | `PublishedPicturesStay` | `Spec => []VersionPicturesStored` |
| | `LimitsHold` | `Spec => []PicturesWithinLimit` |
| | `PlansHold` | `Spec => []PlansStaySound` |
| | `HistoryIsKept` | `Spec => ImplementsPublishedHistory` |
| | `RefreshesOnlyFollowed` | `Spec => RefreshChangesOnlyFollowedParts` |
| | `RefreshesAsAsked` | `Spec => RefreshAppliesWhatWasAsked` |
| | `FrozenAsAppearing` | `Spec => FrozenAsItStands` |
| | `AccountPicturesStay` | `Spec => []AccountPicturesStored` |
| | `PurgeTypes` | `PurgeSpec => []PurgeTypeOK` |
| | `PublishesStored` | `PurgeSpec => []PublishesWhatIsStored` |
| | `LimitsHoldNightly` | `PurgeSpec => []PicturesWithinLimit` |
| | `NobodyDeadlocks` | `PurgeSpec => []NoDeadlock` |
| `AccountsProofs` | `AccountTypes` | `Spec => []TypeOK` |
| | `OneAccountAlways` | `Spec => []OneAccountEach` |
| | `InvitedAlways` | `Spec => []InvitedOnly` |
| | `AccountsImplement` | `Spec => ImplementsRegistry` |
| | `RetentionTypes` | `RetentionSpec => []RetentionTypeOK` |
| | `OneAccountBesidePurge` | `RetentionSpec => []OneAccountEach` |
| | `InvitedBesidePurge` | `RetentionSpec => []InvitedOnly` |
| | `KeptAlways` | `RetentionSpec => KeptForWindow` |
| | `SweepAlways` | `RetentionSpec => SweepComplete` |
| | `GoesThroughAlways` | `RetentionSpec => PurgeGoesThrough` |
| | `RetentionImplements` | `RetentionSpec => ImplementsRegistry` |
| `AnsweringProofs` | `Types` | `Spec => []TypeOK` |
| | `AnswersPinned` | `Spec => []PinnedToServed` |
| | `OneEach` | `Spec => []OneResponseEach` |
| | `Marked` | `Spec => []MarkedWhenRecorded` |
| | `AcceptedOnce` | `Spec => []SolutionAcceptedOnce` |
| | `RepeatsLieApart` | `Spec => []RepeatsApart` |
| `AIMeterProofs` | `TypeCorrect` | `Spec => []TypeOK` |
| | `OverrunIsBounded` | `Spec => []OverrunBounded` |
| | `BudgetIsBounded` | `Spec => []BudgetBounded` |
| | `SuspensionStopsCalls` | `Spec => []SuspensionStops` |
| | `CallsAreCharged` | `Spec => []ChargedUnlessGone` |
| | `ToldCounts` | `Spec => []CountsWhenTold` |
| | `SpeechIsBounded` | `Spec => []SpeechBounded` |
| `LocalizationProofs` | `LocalizationTypes` | `Spec => []TypeOK` |
| | `OnlyReadGoesOut` | `Spec => []NothingUnreadGoesOut` |
| | `LanguagesOfferedWhole` | `Spec => []LanguagesComplete` |
| | `ChoicesKeepTheirMeaning` | `Spec => []RecordedAsChosen` |
| `InvitesProofs` | `InviteTypes` | `Spec => []TypeOK` |
| | `InvitedHaveTheirLink` | `Spec => []InvitedCanAnswer` |
| | `SuppressedStayAlone` | `Spec => []SuppressedLeftAlone` |
| | `BurstsAreBounded` | `Spec => []NoBurst` |
| `ExportJobsProofs` | `ExportTypes` | `Spec => []TypeOK` |
| | `OneMail` | `Spec => []OneMailOnceClosed` |
| | `LinksWork` | `Spec => []MailedLinkWorks` |
| | `OneBuild` | `OneAsker`, `Spec => []OneBuildAtATime` |
| `DictationProofs` | `DictationTypes` | `Spec => []DictationTypeOK` |
| | `TakesStayInHand` | `Spec => []TakeInHand` |
| | `WordsAreKept` | `Spec => WordsKept` |
| | `NobodyStranded` | `Spec => []NoTakeStranded` |
| | `TakesGoOn` | `Spec => TakesOnlyGoOn` |

**PublishingProofs.** VersionPicturesStored and PicturesWithinLimit are not inductive: a commit
writes what was computed earlier, so it must be known that the plan *is still right*. That is
PlansStaySound: whoever is in a transaction on a survey holds its row (RowsHeld), the pictures
its plan leaves are within the limit and contain what the versions show (SavesSafely), its
version is numbered next and new, with its pictures stored (PublishesSafely), and the same for
the account (KeepsSafely). The inductive invariant `IInv` is these with TypeOK. Its proof has
one lemma for what a step does to the request that takes it (`OwnPlanSound`), one for why the
plans of all the others survive (`OthersStaySound`: they hold other rows), and one for what
the commits do to the tables. Refinement uses `IInv`: a commit of a version is a `Publish` of
the history, a commit of a style an `Arrange`, everything else stutters.

*What is taken from the account's style.* `AInv` says of each plan what it took from the account's
style and from the live version: whoever shares the style's row keeps it as it was read, since it is
held by one or shared but never both (`Exclusive`), and a survey is neither closed nor published by
another while its row is held. The three action properties follow, because a history grows by the
commit of whoever holds the survey's row and by nothing else (`HolderAppends`).
AccountPicturesStored needs `FInv`: one form of the account's style is handled at a time, so nothing
evicts a picture between the form that keeps it by its hash and the commit.

*Beside the purge.* A version that appears while the purge's statement runs may lose its picture to
it (`PurgeRaces.cfg`), so PlansStaySound is too much to ask there. `NightInv` asks less of a plan,
that the rows it is about are held and that what it stores has room and shows nothing else
(`Fitting`), and says of the purge that what it will delete is of rows it holds (`Dooms`). What is
held by the purge is held by no request, so neither deletes what the other counts on;
PublishesStored follows. The purge deletes only, so the limits hold too.

*Why nobody waits for ever.* `NoDeadlock` is what RequestsEnd rests on: whoever is waited for is in
a transaction, and no set of requests waits for itself. Its invariant `Rightly` says who holds what:
a survey is held by a request in a transaction on that survey, the account's style is shared by one
about to commit and held by one about to replace it, and the purge holds rows only while it runs. So
a chain of waiting requests has at most two links, from one that waits for a survey to one that
holds it and waits for the account's style, and from there to one that waits for nothing
(`HoldersGoOn`, `NoRing`). It is proved for any number of requests and surveys. That every request
then ends needs fairness, and is the run's.

**AnsweringProofs.** `Base` is TypeOK with `Forms`: a submission past its form's check is of this
process, and a response says what its form says. RepeatsApart rests on `NonceInv`: each use of a
nonce, recorded or on its way to the database, is remembered by the process for the nonce's life
(`Remembered`), so a second use comes that much later (`UsesApart`); a new process remembers
nothing and honours none of the old forms (`RestartKeepsNonces`). AcceptedOnce rests on
`UsedOnce`: by the time a solution is forgotten its challenge has run out.

**AIMeterProofs.** Three parts of its `IInv` speak of one call each: `Shape` says how the fields
of a call go together (what was asked, what arrived, whether it is charged yet), `Paid` that
whoever is told, or returns, in a context that is not over is charged in full, `Stopping` that
between the check of a suspension and the model nothing has been asked since it began. The
theorems about stopping, charging and telling follow. The bounds are about all calls at once:
what passes a check adds one call in flight while the spend is still below the limit, and a
charge takes one away and adds at most `Most` (`BillBounded`). For a workspace that is inductive
as it stands; the breaker comes before the quota, so `BudgetCommitted` counts calls from there
on, not only those of `InFlight`.

SpeechBounded adds up the seconds of the takes under way, and what a sum over a set does would need
induction. So the seconds are counted one by one: `Seconds` has a member for each second of each
take, the sum is its cardinality, and a take of so many seconds has as many members (`Grid`). With
TypeOK and `Shape` the bound is inductive. A take that passes a check fits within the limit
together with what was heard, so beside it there are at most MaxTake seconds of each other call
(`BoundedEnter`), however the sum stood before; a charge moves a take's seconds from the sum to what
was heard (`BoundedLeave`); a take that ends otherwise only leaves the sum (`BoundedLess`). All
other steps are calm: a take counted afterwards was counted before, with the same seconds
(`CalmSteps`). The survey's seconds and the session's are checked at different stages and written by
different steps (`Record`, and for the session `RecordFails` too), so the argument is made for each.

**LocalizationProofs.** A published translation says nothing of who read it, so the invariant has
to follow the mark of reading: `DraftsRead` says that what is marked as read was posted by a person,
in the working copy *and in every copy that a request has loaded and may still save*. With the gate
of `Publish` (`FrozenRead`) this gives OnlyReadGoesOut and LanguagesOfferedWhole. A form's question
belongs to the version it names (`FormServed`), and versions only grow; the position of a label
among the options shown is its position among the options written (`OutcomeKept`).

**InvitesProofs.** InvitedCanAnswer speaks of runs cut off and of links in mailboxes, while the mark
and the mail are two steps. `Answerable` says what holds in between: whoever is marked has the
database's link in the mailbox, *or a run is carrying that link to it*; it needs that a run goes
through participants that were imported (`Base`). The pace is `Paced`: the bucket counts the latest
invitations, those a cap before them came a window earlier, so any two in the list of invitations
that are twice the cap less one apart lie a window apart. NoBurst then is counting: more
invitations than that in one window would have a first and a last (`Least`).

**ExportJobsProofs.** The status of a row says little of who is working on it, so `Ledger` ties
the two together: a build and its row agree (`BuilderFits`), a queued export of a closed account
belongs to one request alone, with no build and no mail yet (`OwnerFits`), a mail names a row that
is kept for as long as the mail says (`MailFits`). OneMail and LinksWork follow. OneBuild needs
time: a build ends before its job counts as dead (`Guarded`), so whoever is let through by an old
job finds no build of it; only the latest export is being built, and none is while another is
about to be queued.

**DictationProofs.** TakeInHand is kept by many hands, so its invariant `Parts` says for each take
what the card may call it: its fields and its socket's go together (`Shape`, of each take `Fits`: a
socket that was hung up is that of a take which is over, so that whatever opens it again finds the
take called off), what the card names as recording or
being transcribed is settled (`Named`), as long as none overlapped only one is going (`Sole`), and
one not settled yet is the one the card calls starting (`Starting`). The steps are of four kinds,
with a lemma each: those that at most move names about in the card (`CalmStep`), that end a take
(`EndingStep`), that settle one (`SettlingStep`), that begin one (`StartStep`).

WordsKept is about the answer, and what puts it at risk happens on the way there. `Flow` follows the
words of a take from the socket through the server's buffer and the frames back into the answer: a
word spoken after another is behind it within each of these and between any two (`Orderly`), and
what a take's socket carries, and what the take wrote, is its own (`Owned`). Words lost on the way,
with a connection or past the server's cap, leave the rest in order (`OrderlyFewer`); the five steps
that bring a word further have a lemma each (`OrderlySpoken` to `OrderlyWritten`). What a take that is
called off takes back is a suffix of the answer of its own words (`TakenBackIs`), so nothing typed
goes.

*Why every take ends.* EveryTakeComesToAnEnd is liveness, but what could go wrong with it is not:
NoTakeStranded says that what is to end a take is on its way (a promise that waits has a socket that
connects or will try again, a microphone that streams to the server has its timer), TakesOnlyGoOn
that each such step brings it nearer (no phase comes again, and each turn of a socket uses up one of
finitely many `Chances`). NoTakeStranded is inductive beside `Parts`. `Onward` says both of one step
and one take; most steps leave the take's phase and its socket, or settle its promise as they hang
up (`Kept`, `OnwardKept`), and those that do not are opening the microphone, settling, and the two
turns of a socket (`OnwardSettled`, `OnwardDown`).

**AccountsProofs.** A sign-in writes nothing until it commits, so the rows say nothing of two that
are about to make the same account. `Claims` says what each request counts on of the rows as they
are (the account it makes is not there, nor any live one with its keys; the workspace it makes is a
new account's or a closed one's; its code is unused), `Apart` that no two requests are about to
write the same account, key, workspace or code, and `Shapes` how the fields of a request go
together. The unique indexes and the row locks are what keeps `Apart`. A step that ends up holding
nothing keeps all three (`QuietGoes`, `QuietChanges`), so that only the five that come to hold
something, and the five that write rows, have a lemma each; `CommitLoginKeeps` is the heart of it.
`Homes` says that each live account has one live workspace, from which OneAccountEach follows.
InvitedAlways and InvitedBesidePurge are of one setting of `BetaMode`, as `Spec` is; the run's
BetaInvitedOnly says the same of its turn in the beta.

*Beside the purge.* A purge is some twelve steps between which anybody may commit, so the invariant
`RInv` has to say at each stage what has been done, of what is there *now*. `Base` is what clients
keep: `IInv`, and how rows hang together (`Together`: a workspace is deleted with its owner;
`Starters`: one made for a closed account has its Starter Survey still, since nobody can sign in to
delete it; `Written`: a survey is in a workspace of its author's). `JobShape` is about the purge's
books by themselves (an erasure has dated all of the person's that is not `skipped`, or will
remove it by their address). `Swept` relates the two: what an erasure dated is the person's
(`DatedFit`); what is removed is due (`RemovedDue`); what is due is removed, by the statement it is
for (`DueRemoved`); nothing is left below what is removed (`NothingBelow`).

The steps are of three kinds. A client's step *spares* what the purge has written: it changes no row
that is dated or removed, deletes nothing earlier than today, and adds nothing below what is being
removed (`Spares`; one lemma for each action). From that alone, `SparedSwept` shows that `Swept` is
kept. A statement that runs (`Executed`) must remove only what is due, leave nothing below, and
remove all of its kind (`Fair`, `Leaves`, `Cleared`); `StatementKeeps` does the rest, once, and each
statement has a lemma that shows the three. The heart is `HomesDue`, why a due account can be
removed from under its workspaces: a workspace of a due account is due as well, or is one of those
whose Starter Survey would have had the statement refused. `Commit` uses all of it: who stays keeps
a workspace (`GoneFits`). The theorems follow: rows go by `Commit` alone (`OnlyCommitRemoves`), and
then those of `RemovedDue`, and all of `DueRemoved`; a statement is refused for children that were
not removed, of which those that were there before are orphans (`StatementsMeet`). A request counts
on no row that the purge writes (`RequestsHold`), which is what `held` is for.

*Registry.* Only four steps change a row that the list shows (`NextLists`, `CommitLists`); a new
password is none of them. `CommitLoginLists` is an enrolment, a link or a stray workspace, as the
request's fields have it, and `Claims` is what makes the key free *then*; a closing takes every live
workspace, of which by `Owned` there are none once the account is gone; what a purge commits is
struck off whole because nothing is left below it and who stays keeps a workspace (`GoneFits`).

Only model-checked: liveness (RequestsEnd, UnusedPicturesGo, EveryTakeComesToAnEnd), which is out of
the provers' reach here; of the first and the last the part that needs no fairness is proved, as
NoDeadlock, NoTakeStranded and TakesOnlyGoOn. VersionPicturesStored is proved without the purge of
pictures, which may break it.

## 7. Not modelled, and why

See the components with status `not_modelled` or `partly` in `PROJECT.json`. Next in the plan: the
limiter's map, the settings form. Of the modelled components, left out: the undo history of
drafts, operators' rights and their restoring of what was deleted, the expiry of sessions, what
the purge removes by its age alone, what an archive holds. Left out for good: pure checks of
single values beyond the operators above, rendering and wording, statistics (single-statement
counters that may be lost by design), reading and checking uploaded bytes, mail transport,
configuration, deployment.
