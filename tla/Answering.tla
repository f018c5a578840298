----------------------------- MODULE Answering -----------------------------
(***************************************************************************)
(* How an answer is recorded: one survey as its respondents meet it        *)
(* (internal/http/respond.go, participants.go), with what a process keeps  *)
(* in memory against replays (internal/antibot) and what the database      *)
(* keeps of responses (internal/store/responses.go).                       *)
(*                                                                         *)
(* A page is one render of the survey's form; a browser may send it any    *)
(* number of times, at once or later.  Time passes in units; the windows   *)
(* of the code are constants in the code's order.  Refusals by the rate    *)
(* limiters may come at any time, since others share a respondent's        *)
(* address.                                                                *)
(***************************************************************************)
EXTENDS Naturals, Sequences

CONSTANTS
    Page,            \* renders of the form
    Click,           \* submissions in flight at once
    Participant,     \* the people the survey invites, if it is answered through personal links
    Anyone,          \* the respondent of an anonymous survey
    MinFillTime,     \* a form answered sooner is taken for automation
    NonceTTL,        \* how long a used nonce is remembered
    ChallengeTTL,    \* how long a challenge may be solved
    SolutionTTL,     \* how long a used solution is remembered
    MaxFormAge,      \* how long a form may be sent
    MaxTime,         \* bound: time
    MaxEpoch,        \* bound: processes, one after another
    MaxResponses,    \* bound: responses
    MaxVersions      \* bound: versions

ASSUME WindowsAssumption ==
    /\ {MinFillTime, NonceTTL, ChallengeTTL, SolutionTTL, MaxFormAge} \subseteq Nat \ {0}
    /\ ChallengeTTL < SolutionTTL
    /\ {MaxTime, MaxEpoch, MaxResponses} \subseteq Nat
    /\ MaxVersions \in Nat \ {0}
ASSUME RespondentsAssumption == Anyone \notin Participant

VARIABLES
    now,        \* the clock
    epoch,      \* which process is running: its keys are its own
    survey,     \* its status, whether its workspace is suspended, its latest version,
                \* and whether only personal links lead to it
    page,       \* each render: whose, of which version, when, by which process
    nonces,     \* submitNonces: until when each render's nonce counts as used
    solutions,  \* challenges: how often this process accepted each render's solution, until when it remembers
    responses,  \* the responses recorded, in order
    submitted,  \* the participants marked as having submitted
    click       \* each submission in flight

inMemory == <<nonces, solutions>>
stored == <<responses, submitted>>
vars == <<now, epoch, survey, page, nonces, solutions, responses, submitted, click>>

-----------------------------------------------------------------------------

Respondent == IF survey.invited THEN Participant ELSE {Anyone}

Version == 1..MaxVersions
Time == 0..MaxTime
Epoch == 0..MaxEpoch

NoPage == [shown |-> FALSE]
Unsolved == [solved |-> FALSE]
NoUse == [uses |-> 0, expires |-> 0]
NoClick == [pc |-> "idle"]

Solution == {Unsolved} \cup [solved : {TRUE}, minted : Time, epoch : Epoch]

Rendered == [shown : {TRUE}, who : Participant \cup {Anyone}, version : Version,
             at : Time, epoch : Epoch, solution : Solution]

\* An answer as it was recorded, and when its nonce was used.
Response == [page : Page, who : Participant \cup {Anyone}, version : Version,
             at : Time, deleted : BOOLEAN]

TypeOK ==
    /\ now \in Time
    /\ epoch \in Epoch
    /\ survey \in [status : {"open", "closed", "deleted"}, suspended : BOOLEAN,
                   latest : Version, invited : BOOLEAN]
    /\ page \in [Page -> {NoPage} \cup Rendered]
    /\ nonces \in [Page -> 0..(MaxTime + NonceTTL)]
    /\ solutions \in [Page -> [uses : Nat, expires : 0..(MaxTime + SolutionTTL)]]
    /\ responses \in Seq(Response)
    /\ submitted \subseteq Participant
    /\ click \in [Click -> {NoClick}
          \cup [pc : {"arrived", "formed", "checked"}, page : Page]
          \cup [pc : {"writing"}, page : Page, at : Time]]

Init ==
    /\ now = 0
    /\ epoch = 0
    /\ survey \in [status : {"open"}, suspended : {FALSE}, latest : {1}, invited : BOOLEAN]
    /\ page = [p \in Page |-> NoPage]
    /\ nonces = [p \in Page |-> 0]
    /\ solutions = [p \in Page |-> NoUse]
    /\ responses = <<>>
    /\ submitted = {}
    /\ click = [c \in Click |-> NoClick]

AcceptsResponses == ~survey.suspended /\ survey.status = "open"

Recorded == {responses[i] : i \in DOMAIN responses}

StepsTo(c, to) == click' = [click EXCEPT ![c] = to]

-----------------------------------------------------------------------------
(* The form.                                                               *)

\* The page of the share link, or of a personal link not yet used up.
Render(p, who) ==
    /\ ~page[p].shown
    /\ who \in Respondent \ submitted
    /\ AcceptsResponses
    /\ page' = [page EXCEPT ![p] = [shown |-> TRUE, who |-> who, version |-> survey.latest,
                                    at |-> now, epoch |-> epoch, solution |-> Unsolved]]
    /\ UNCHANGED <<now, epoch, survey, inMemory, stored, click>>

\* A script on an anonymous survey's page fetches a challenge and solves it;
\* the form carries the solution from then on.
SolveChallenge(p) ==
    /\ page[p].shown /\ page[p].who = Anyone
    /\ page[p].solution = Unsolved
    /\ page' = [page EXCEPT ![p].solution = [solved |-> TRUE, minted |-> now, epoch |-> epoch]]
    /\ UNCHANGED <<now, epoch, survey, inMemory, stored, click>>

-----------------------------------------------------------------------------
(* One submission, up to the point where it waits for something.           *)

\* The survey, and the participant, are read before anything is checked.
Arrive(c, p) ==
    /\ click[c].pc = "idle"
    /\ page[p].shown
    /\ page[p].who \notin submitted
    /\ AcceptsResponses
    /\ StepsTo(c, [pc |-> "arrived", page |-> p])
    /\ UNCHANGED <<now, epoch, survey, page, inMemory, stored>>

\* Fault: the key of the forms outlives the process.
FormHonouredByAnyProcess(p) ==
    /\ now - page[p].at >= MinFillTime
    /\ now - page[p].at <= MaxFormAge

\* FormTokens.Check: this process rendered the form, not too recently and
\* not too long ago.
FormHonoured(p) ==
    /\ page[p].epoch = epoch
    /\ now - page[p].at >= MinFillTime
    /\ now - page[p].at <= MaxFormAge

\* The form is checked and its answers are valid; a personal link goes
\* straight to the database, by the participant and not by a nonce.
CheckForm(c) ==
    LET p == click[c].page
    IN  /\ click[c].pc = "arrived"
        /\ FormHonoured(p)
        /\ IF page[p].who = Anyone
           THEN StepsTo(c, [pc |-> "formed", page |-> p])
           ELSE StepsTo(c, [pc |-> "writing", page |-> p, at |-> now])
        /\ UNCHANGED <<now, epoch, survey, page, inMemory, stored>>

\* A form that is stale, too quick or badly filled in is shown again; so
\* is the page of somebody over a limit, or a bot's thanks.
Refuse(c) ==
    /\ click[c].pc \in {"arrived", "formed", "checked"}
    /\ StepsTo(c, NoClick)
    /\ UNCHANGED <<now, epoch, survey, page, inMemory, stored>>

\* Fault: an old challenge is as good as a new one.
SolutionHonouredAtAnyAge(p) ==
    /\ page[p].solution.epoch = epoch
    /\ solutions[p].expires <= now

\* Challenges.Verify: this process minted the challenge, it has not
\* expired, and its solution was not used before.
SolutionHonoured(p) ==
    /\ page[p].solution.epoch = epoch
    /\ now <= page[p].solution.minted + ChallengeTTL
    /\ solutions[p].expires <= now

\* A solution is burnt by its first use; a form with none is held to the
\* tighter limit.
Verify(c) ==
    LET p == click[c].page
    IN  /\ click[c].pc = "formed"
        /\ \/ /\ page[p].solution.solved
              /\ SolutionHonoured(p)
              /\ solutions' = [solutions EXCEPT ![p] = [uses |-> @.uses + 1,
                                                        expires |-> now + SolutionTTL]]
           \/ ~page[p].solution.solved /\ UNCHANGED solutions
        /\ StepsTo(c, [pc |-> "checked", page |-> p])
        /\ UNCHANGED <<now, epoch, survey, page, nonces, stored>>

\* ErrChallengeFailed: the page says the submission was refused.
RefuseChallenge(c) ==
    LET p == click[c].page
    IN  /\ click[c].pc = "formed"
        /\ page[p].solution.solved /\ ~SolutionHonoured(p)
        /\ StepsTo(c, NoClick)
        /\ UNCHANGED <<now, epoch, survey, page, inMemory, stored>>

NonceFree(p) == nonces[p] <= now

\* The first submission of a render; its nonce is used up before its
\* answers are written.
UseNonce(c) ==
    LET p == click[c].page
    IN  /\ click[c].pc = "checked"
        /\ NonceFree(p)
        /\ nonces' = [nonces EXCEPT ![p] = now + NonceTTL]
        /\ StepsTo(c, [pc |-> "writing", page |-> p, at |-> now])
        /\ UNCHANGED <<now, epoch, survey, page, solutions, stored>>

\* A render sent before is answered with the same thanks page and writes
\* nothing.
ThankAgain(c) ==
    /\ click[c].pc = "checked"
    /\ ~NonceFree(click[c].page)
    /\ StepsTo(c, NoClick)
    /\ UNCHANGED <<now, epoch, survey, page, inMemory, stored>>

\* Fault: the database has no index on a survey's participants.
MayRecordAnyway(who) == TRUE

\* responses_one_per_participant.
MayRecord(who) ==
    who = Anyone \/ ~\E r \in Recorded : r.who = who /\ ~r.deleted

\* Fault: an answer is attributed to what the survey says now.
AnswerNow(c) ==
    [page |-> click[c].page, who |-> page[click[c].page].who, version |-> survey.latest,
     at |-> click[c].at, deleted |-> FALSE]

\* Pinned to the version the form was rendered from.
Answer(c) ==
    [page |-> click[c].page, who |-> page[click[c].page].who,
     version |-> page[click[c].page].version, at |-> click[c].at, deleted |-> FALSE]

\* Fault: the participant is marked by a statement of its own, which may
\* fail.
MarkPerhaps(who) == submitted' \in {submitted, submitted \cup ({who} \ {Anyone})}

\* MarkParticipantSubmitted, in the response's own transaction.
MarkSubmitted(who) == submitted' = submitted \cup ({who} \ {Anyone})

\* SubmitAnswers: the response, its answers and the participant's mark, in
\* one transaction that asks no more about the survey's status.
Write(c) ==
    LET who == page[click[c].page].who
    IN  /\ click[c].pc = "writing"
        /\ Len(responses) < MaxResponses
        /\ MayRecord(who)
        /\ responses' = Append(responses, Answer(c))
        /\ MarkSubmitted(who)
        /\ StepsTo(c, NoClick)
        /\ UNCHANGED <<now, epoch, survey, page, inMemory>>

\* ErrAlreadySubmitted, or a database that refuses: the transaction leaves
\* nothing, and the nonce stays used.
WriteFails(c) ==
    /\ click[c].pc = "writing"
    /\ StepsTo(c, NoClick)
    /\ UNCHANGED <<now, epoch, survey, page, inMemory, stored>>

-----------------------------------------------------------------------------
(* What happens meanwhile.                                                 *)

\* SoftDeleteResponse.
DeleteResponse(i) ==
    /\ ~responses[i].deleted
    /\ responses' = [responses EXCEPT ![i].deleted = TRUE]
    /\ UNCHANGED <<now, epoch, survey, page, inMemory, submitted, click>>

ChangeSurvey ==
    /\ \/ survey.latest < MaxVersions /\ survey' = [survey EXCEPT !.latest = @ + 1]
       \/ survey.status # "deleted"
            /\ \E s \in {"open", "closed", "deleted"} \ {survey.status} :
                  survey' = [survey EXCEPT !.status = s]
       \/ survey' = [survey EXCEPT !.suspended = ~@]
    /\ UNCHANGED <<now, epoch, page, inMemory, stored, click>>

Tick ==
    /\ now < MaxTime
    /\ now' = now + 1
    /\ UNCHANGED <<epoch, survey, page, inMemory, stored, click>>

\* A deploy: what the process had in memory, its keys included, is gone.
Restart ==
    /\ epoch < MaxEpoch
    /\ epoch' = epoch + 1
    /\ nonces' = [p \in Page |-> 0]
    /\ solutions' = [p \in Page |-> NoUse]
    /\ click' = [c \in Click |-> NoClick]
    /\ UNCHANGED <<now, survey, page, stored>>

Next ==
    \/ \E p \in Page, who \in Respondent : Render(p, who)
    \/ \E p \in Page : SolveChallenge(p)
    \/ \E c \in Click, p \in Page : Arrive(c, p)
    \/ \E c \in Click : \/ CheckForm(c) \/ Refuse(c) \/ Verify(c) \/ RefuseChallenge(c)
                        \/ UseNonce(c) \/ ThankAgain(c) \/ Write(c) \/ WriteFails(c)
    \/ \E i \in DOMAIN responses : DeleteResponse(i)
    \/ ChangeSurvey
    \/ Tick
    \/ Restart

Spec == Init /\ [][Next]_vars

-----------------------------------------------------------------------------

\* Sending one render again records nothing for as long as its nonce is
\* remembered, whoever else is served meanwhile and though a deploy forgets
\* every nonce: the forms rendered before it are refused with them
\* (submitNonces and formTokens, "the nonce identifies one form render").
RepeatsApart ==
    \A i, j \in DOMAIN responses :
        (i < j /\ responses[i].who = Anyone /\ responses[i].page = responses[j].page)
            => responses[j].at >= responses[i].at + NonceTTL
               \/ responses[i].at >= responses[j].at + NonceTTL

\* "a per-render nonce makes a double-click store exactly once": no render
\* is recorded twice, whenever it is sent again.
RenderRecordedOnce ==
    \A i, j \in DOMAIN responses :
        (responses[i].who = Anyone /\ responses[i].page = responses[j].page) => i = j

\* A solved challenge buys one submission: no process accepts it twice,
\* since it remembers a solution for longer than it honours the challenge
\* ("Replay window comfortably outlives challenge validity").
SolutionAcceptedOnce == \A p \in Page : solutions[p].uses <= 1

\* A participant has one response that counts, though two windows may have
\* been let in before either was recorded (responses_one_per_participant).
OneResponseEach ==
    \A i, j \in DOMAIN responses :
        (/\ responses[i].who # Anyone /\ responses[i].who = responses[j].who
         /\ ~responses[i].deleted /\ ~responses[j].deleted) => i = j

\* A participant is marked as having submitted just when a response of
\* theirs was recorded, deleted since or not: an invitation is used up by
\* recording an answer and by nothing else, whatever fails on the way
\* (SubmitAnswers).
MarkedWhenRecorded == submitted = {r.who : r \in Recorded} \ {Anyone}

\* An answer belongs to the version whose questions its respondent read,
\* whatever was published before it arrived (ADR-0001; SPEC.md story 32).
PinnedToServed ==
    \A r \in Recorded : page[r.page].shown /\ r.version = page[r.page].version

\* "exactly one submission tied to my link": once a response came through
\* a personal link, no other does, even if the first is deleted.
OneSubmissionPerLink ==
    \A i, j \in DOMAIN responses :
        (responses[i].who # Anyone /\ responses[i].who = responses[j].who) => i = j

\* "a second submit of the same render is answered with the same thanks
\* page": the submission of a render already recorded is not refused.
SecondClickThanked ==
    [][\A c \in Click :
          RefuseChallenge(c) => ~\E r \in Recorded : r.page = click[c].page
                                                     /\ r.at + NonceTTL > now]_vars

=============================================================================
