------------------------------ MODULE Retention ------------------------------
(***************************************************************************)
(* What is deleted stays for a window and then goes for good: the nightly  *)
(* purge (internal/purge), its rehearsal, and the erasure of one person,   *)
(* beside the accounts of Accounts and the surveys, participants and       *)
(* responses under them.  A purge is one transaction of many statements,   *)
(* children before parents.  Each sees what is committed when it starts    *)
(* and what the transaction itself has done; a row that still has children *)
(* cannot be removed, and a published version, or a draft's revision,      *)
(* cannot be changed: the statement is refused and the transaction with    *)
(* it.  Whoever adds a row below one that is being removed waits.          *)
(*                                                                         *)
(* A workspace has its Starter Survey and at most one survey of its        *)
(* creator's, which participants answer; that survey and its drafts,       *)
(* versions and revisions are one row here, each the author's.  Left out:  *)
(* what is removed by its age alone (links, sessions, logs, revisions),    *)
(* suppressions, and the pictures, which are PicturePurge's.               *)
(***************************************************************************)
EXTENDS Accounts

CONSTANTS
    Window,     \* SoftDeleteWindow, in days
    MaxAnswers  \* bound: responses of a participant that are there at once

ASSUME WindowAssumption == Window \in Nat /\ MaxAnswers \in Nat

VARIABLES
    people,     \* participants: in whose survey, and their address
    responses,  \* responses of participants: when each was deleted
    writer,     \* a request that is past its checks and about to add a row
    job         \* the purge, or the erasure, under way

accounts == <<user, space, surveys, sessions, link, code, req>>
retained == <<people, responses>>
allVars == <<vars, people, responses, writer, job>>

-----------------------------------------------------------------------------

SurveyId == [of : Space, origin : {"starter", "creator"}]
Participant == [in : Space, address : Address]
Response == [in : Space, from : Address, nth : 1..MaxAnswers]
Row == Account \cup Space \cup SurveyId \cup Participant \cup Response \cup Session

\* The ids of one table are not those of another.
ASSUME KindsAssumption ==
    /\ Account \cap Space = {}
    /\ (Account \cup Space) \cap (SurveyId \cup Participant \cup Response \cup Session) = {}

JobStage == {"idle", "answers", "people", "responses", "contents", "versions", "surveys",
             "spaces", "authors", "sessions", "users", "commit", "refused"}

\* `dated`, `emptied`, `removed`: what the transaction has done; `before` and `theirs`: what
\* was there when it began, and what of that was the person's to be erased; `skipped`: what
\* of theirs had been deleted by then; `blocked`: what a statement was refused for.
NoJob == [pc |-> "idle", kind |-> "purge", address |-> None, dated |-> {}, emptied |-> {},
          removed |-> {}, before |-> {}, theirs |-> {}, skipped |-> {}, blocked |-> {}]

Writer == [pc : {"idle", "create", "respond"}, in : Space \cup {None},
           by : Account \cup Address \cup {None}]

NoWriter == [pc |-> "idle", in |-> None, by |-> None]

Id(s) == [of |-> s.of, origin |-> s.origin]
CreatorsIn(w) == {s \in surveys : s.of = w /\ s.origin = "creator"}
From(r) == [in |-> r.in, address |-> r.from]
AnswersOf(ps) == {r \in DOMAIN responses : From(r) \in ps}

RetentionTypeOK ==
    /\ TypeOK
    /\ people \subseteq Participant
    /\ DOMAIN responses \subseteq Response
    /\ \A r \in DOMAIN responses : responses[r] \in When
    /\ writer \in Writer
    /\ job.pc \in JobStage
    /\ UNION {job.dated, job.emptied, job.removed, job.before, job.theirs, job.skipped,
              job.blocked} \subseteq Row
    /\ \A x \in Account \cup Space :
          held[x] = IF x \in job.removed THEN "removed"
                    ELSE IF x \in job.dated THEN "dated" ELSE "free"
    /\ \A p \in people : CreatorsIn(p.in) # {}
    /\ \A r \in DOMAIN responses : From(r) \in people

RetentionInit ==
    /\ Init
    /\ people = {}
    /\ responses = <<>>
    /\ writer = NoWriter
    /\ job = NoJob

-----------------------------------------------------------------------------
(* Creators and respondents.                                               *)

\* The survey and its workspace are live.
Open(w) == Live(space[w]) /\ \E s \in CreatorsIn(w) : s.deleted = Never

\* A row is not being removed, or rewritten, by somebody else.
Free(x) == x \notin job.removed \cup job.dated
Stays(x) == x \notin job.removed

Write(k) ==
    /\ writer.pc = "idle"
    /\ writer' = k
    /\ UNCHANGED <<vars, retained, job>>

\* Surveys.Create, for whoever is signed in.
BeginCreate(u, w) ==
    /\ Authenticated(u)
    /\ w \in LiveSpacesOf(u)
    /\ CreatorsIn(w) = {}
    /\ Write([pc |-> "create", in |-> w, by |-> u])

\* It refers to its workspace and its author, who are who they were: ids are not used again.
CreateSurvey ==
    LET w == writer.in
        u == writer.by
    IN  /\ writer.pc = "create"
        /\ Stays(w) /\ Stays(u)
        /\ surveys' = IF There(space[w]) /\ space[w].owner = u /\ There(user[u])
                      THEN surveys \cup {[of |-> w, by |-> u, origin |-> "creator",
                                          deleted |-> Never]}
                      ELSE surveys
        /\ writer' = NoWriter
        /\ UNCHANGED <<user, space, sessions, link, code, req, held, day, retained, job>>

\* A participant answers: the survey and the link were read.
BeginRespond(p) ==
    /\ Open(p.in)
    /\ Write([pc |-> "respond", in |-> p.in, by |-> p.address])

\* It refers to its survey, its version and its participant, who has one that is not deleted.
CreateResponse ==
    LET p == [in |-> writer.in, address |-> writer.by]
    IN  /\ writer.pc = "respond"
        /\ Stays(p)
        /\ \A s \in CreatorsIn(p.in) : Stays(Id(s)) /\ Id(s) \notin job.emptied
        /\ \/ /\ p \in people
              /\ \A r \in AnswersOf({p}) : responses[r] # Never
              /\ \E r \in Response \ DOMAIN responses :
                    /\ From(r) = p
                    /\ responses' = [x \in DOMAIN responses \cup {r} |->
                                        IF x = r THEN Never ELSE responses[x]]
           \/ UNCHANGED responses
        /\ writer' = NoWriter
        /\ UNCHANGED <<vars, people, job>>

\* The creator of a live survey, from their session.
Creator(w) == Live(space[w]) /\ Authenticated(space[w].owner)

Import(w, a) ==
    /\ Creator(w) /\ Open(w)
    /\ \A s \in CreatorsIn(w) : Stays(Id(s))
    /\ Stays([in |-> w, address |-> a])
    /\ people' = people \cup {[in |-> w, address |-> a]}
    /\ UNCHANGED <<vars, responses, writer, job>>

SoftDeleteResponse(r) ==
    /\ Creator(r.in) /\ Open(r.in)
    /\ responses[r] = Never /\ Free(r)
    /\ responses' = [responses EXCEPT ![r] = day]
    /\ UNCHANGED <<vars, people, writer, job>>

SoftDeleteSurvey(s) ==
    /\ Creator(s.of)
    /\ s.deleted = Never /\ Free(Id(s))
    /\ surveys' = (surveys \ {s}) \cup {[s EXCEPT !.deleted = day]}
    /\ UNCHANGED <<user, space, sessions, link, code, req, held, day, retained, writer, job>>

\* No request, and no purge, goes on from one day to the next.
NextDay ==
    /\ day < MaxDay
    /\ \A r \in Request : AtStage(r, "idle")
    /\ writer.pc = "idle" /\ job.pc = "idle"
    /\ day' = day + 1
    /\ UNCHANGED <<accounts, held, retained, writer, job>>

-----------------------------------------------------------------------------
(* The purge.                                                              *)

\* Fault: what is deleted goes the next night.
PastAtOnce(deleted) == deleted # Never

\* Earlier than the cutoff.
Past(deleted) == deleted # Never /\ deleted + Window < day

\* Fault: a survey is doomed only if it was deleted itself.
DoomedAlone == {Id(s) : s \in {t \in surveys : Past(t.deleted) \/ Id(t) \in job.dated}}

DueUsers == {u \in Account : There(user[u]) /\ (Past(user[u].deleted) \/ u \in job.dated)}
DueSpaces == {w \in Space : There(space[w]) /\ (Past(space[w].deleted) \/ w \in job.dated)}
DueResponses == {r \in DOMAIN responses : Past(responses[r])}

\* Deleted themselves, or in a workspace that was.
Doomed == {Id(s) : s \in {t \in surveys : Past(t.deleted) \/ Id(t) \in job.dated
                                             \/ t.of \in DueSpaces}}

Has(ids, w) == [of |-> w, origin |-> "creator"] \in ids
PeopleOf(ids) == {p \in people : Has(ids, p.in)}
ResponsesOf(ids) == {r \in DOMAIN responses : Has(ids, r.in)}
WrittenBy(us) == {Id(s) : s \in {t \in surveys : t.by \in us}}
SessionsOf(us) == {s \in sessions : s.user \in us}

\* Fault: only those who answered are looked for.
SubjectsOfAnswers(a) ==
    {p \in people : p.address = a /\ AnswersOf({p}) # {}}

Subject(a) == {p \in people : p.address = a}
\* All that keeps its identity; sessions come and go.
AllRows == {u \in Account : There(user[u])} \cup {w \in Space : There(space[w])}
               \cup {Id(s) : s \in surveys} \cup people \cup DOMAIN responses

Becomes(j) ==
    /\ job' = j
    /\ held' = [x \in DOMAIN held |->
                   IF x \in j.removed THEN "removed" ELSE IF x \in j.dated THEN "dated" ELSE "free"]
    /\ UNCHANGED <<accounts, day, retained, writer>>

Refused(children) ==
    [NoJob EXCEPT !.pc = "refused", !.before = job.before, !.blocked = children]

\* A statement removes rows, and goes to the next; or some of them still have children.
Removes(pc, xs, children, next) ==
    /\ job.pc = pc
    /\ Becomes(IF children \subseteq job.removed
               THEN [job EXCEPT !.removed = @ \cup xs, !.pc = next]
               ELSE Refused(children \ job.removed))

Start(kind) ==
    /\ job.pc = "idle"
    /\ Becomes([NoJob EXCEPT !.pc = "responses", !.kind = kind, !.before = AllRows])

\* erase_user, erase_workspaces, erase_surveys: dated into the past.  What was deleted already
\* keeps its date; of that, a survey goes all the same when its workspace is dated.
EraseSubject(a) ==
    LET named == {u \in Account : There(user[u]) /\ user[u].address = a}
        owned == {w \in Space : There(space[w]) /\ space[w].owner \in named}
        inside == {s \in surveys : s.of \in owned}
        live == named \cap LiveUsers
        spaces == {w \in owned : Live(space[w])}
    IN  /\ job.pc = "idle"
        /\ \A r \in Request : ~(Writing(r) /\ req[r].linked /\ req[r].user \in live)
        /\ Becomes([NoJob EXCEPT
                      !.pc = "answers", !.kind = "erasure", !.address = a, !.before = AllRows,
                      !.dated = live \cup spaces
                                     \cup {Id(s) : s \in {t \in inside : t.deleted = Never}},
                      !.theirs = named \cup owned \cup {Id(s) : s \in inside}
                                       \cup {p \in people : p.address = a}
                                       \cup {r \in DOMAIN responses : r.from = a},
                      !.skipped = (named \ live) \cup (owned \ spaces)
                                       \cup {Id(s) : s \in {t \in inside : t.deleted # Never
                                                                /\ t.of \notin spaces}}])

EraseAnswers == Removes("answers", AnswersOf(Subject(job.address)), {}, "people")

ErasePeople == Removes("people", Subject(job.address), AnswersOf(Subject(job.address)), "responses")

PurgeResponses == Removes("responses", DueResponses, {}, "contents")

PurgeContents == Removes("contents", ResponsesOf(Doomed), {}, "versions")

\* Versions, questions, drafts, then the participants.
PurgeVersions ==
    /\ job.pc = "versions"
    /\ IF ResponsesOf(Doomed) \subseteq job.removed
       THEN Becomes([job EXCEPT !.emptied = Doomed, !.removed = @ \cup PeopleOf(Doomed),
                                !.pc = "surveys"])
       ELSE Becomes(Refused(ResponsesOf(Doomed) \ job.removed))

\* A survey's draft refers to it, and one made since has not been emptied.
PurgeSurveys ==
    /\ job.pc = "surveys"
    /\ IF Doomed \subseteq job.emptied /\ PeopleOf(Doomed) \subseteq job.removed
       THEN Becomes([job EXCEPT !.removed = @ \cup Doomed, !.pc = "spaces"])
       ELSE Becomes(Refused((Doomed \ job.emptied) \cup (PeopleOf(Doomed) \ job.removed)))

PurgeSpaces ==
    Removes("spaces", DueSpaces, {Id(s) : s \in {t \in surveys : t.of \in DueSpaces}}, "authors")

\* What a due account wrote and stays is to lose its author: the triggers on versions and on
\* revisions accept no update.
DetachAuthors == Removes("authors", {}, WrittenBy(DueUsers), "sessions")

PurgeSessions == Removes("sessions", SessionsOf(DueUsers), {}, "users")

\* A workspace being made for the account refers to it.
PurgeUsers ==
    /\ \A r \in Request : ~(AtStage(r, "commit") /\ req[r].space # None /\ req[r].user \in DueUsers)
    /\ Removes("users", DueUsers, SessionsOf(DueUsers) \cup WrittenBy(DueUsers), "commit")

\* Everything at once, or, of a rehearsal, nothing.
Commit ==
    LET gone == IF job.kind = "rehearsal" THEN {} ELSE job.removed
    IN  /\ job.pc = "commit"
        /\ user' = [u \in DOMAIN user |-> IF u \in gone THEN NoUser ELSE user[u]]
        /\ space' = [w \in DOMAIN space |-> IF w \in gone THEN NoSpace ELSE space[w]]
        /\ surveys' = {s \in surveys : Id(s) \notin gone}
        /\ people' = people \ gone
        /\ responses' = [r \in DOMAIN responses \ gone |-> responses[r]]
        /\ sessions' = sessions \ gone
        /\ job' = NoJob
        /\ held' = [x \in DOMAIN held |-> "free"]
        /\ UNCHANGED <<link, code, req, day, writer>>

\* The refusal is logged; or the process dies, or the database is out of reach.
Over ==
    /\ job.pc # "idle"
    /\ Becomes(NoJob)

Purge ==
    \/ EraseAnswers \/ ErasePeople
    \/ PurgeResponses \/ PurgeContents \/ PurgeVersions \/ PurgeSurveys
    \/ PurgeSpaces \/ DetachAuthors \/ PurgeSessions \/ PurgeUsers \/ Commit

RetentionNext ==
    \/ Next /\ UNCHANGED <<retained, writer, job>>
    \/ \E u \in Account, w \in Space : BeginCreate(u, w)
    \/ \E p \in people : BeginRespond(p)
    \/ \E r \in DOMAIN responses : SoftDeleteResponse(r)
    \/ \E s \in surveys : SoftDeleteSurvey(s)
    \/ \E w \in Space, a \in Address : Import(w, a)
    \/ CreateSurvey \/ CreateResponse \/ NextDay
    \/ Start("purge") \/ Start("rehearsal") \/ \E a \in Address : EraseSubject(a)
    \/ Purge \/ Over

RetentionSpec == RetentionInit /\ [][RetentionNext]_allVars

-----------------------------------------------------------------------------

\* Deleted for longer than the window.
WindowOver(deleted) == deleted \in 0..MaxDay /\ day - deleted > Window

\* What the erasure is about, and what is below it.
Erased(a) == job.kind = "erasure" /\ job.address = a
UserMayGo(u) == WindowOver(user[u].deleted) \/ Erased(user[u].address)
SpaceMayGo(w) == WindowOver(space[w].deleted) \/ Erased(user[space[w].owner].address)
SurveyMayGo(s) == WindowOver(s.deleted) \/ SpaceMayGo(s.of)
ParticipantMayGo(p) == Erased(p.address) \/ \E s \in CreatorsIn(p.in) : SurveyMayGo(s)

(***************************************************************************)
(* Nothing goes for good before it, or what it is part of, has been        *)
(* deleted for the whole window, but what belongs to a person who is       *)
(* erased, whoever signs in, answers or deletes while the purge runs       *)
(* (purge.Run, EraseSubject).                                              *)
(***************************************************************************)
KeptForWindow ==
    [][/\ \A u \in Account : There(user[u]) /\ ~There(user'[u]) => UserMayGo(u)
       /\ \A w \in Space : There(space[w]) /\ ~There(space'[w]) => SpaceMayGo(w)
       /\ \A s \in surveys : Id(s) \notin {Id(t) : t \in surveys'} => SurveyMayGo(s)
       /\ \A p \in people \ people' : ParticipantMayGo(p)
       /\ \A r \in DOMAIN responses \ DOMAIN responses' :
              WindowOver(responses[r]) \/ ParticipantMayGo(From(r))]_allVars

(***************************************************************************)
(* A purge that commits leaves nothing whose time is up.  An erasure takes *)
(* all that was the person's when it began, but for accounts and           *)
(* workspaces that had been deleted before, and the deleted surveys of     *)
(* those: they go when their own window is over (steps, EraseSubject).     *)
(***************************************************************************)
SweepComplete ==
    [][Commit /\ job.kind # "rehearsal" =>
          /\ \A u \in Account : There(user'[u]) => ~WindowOver(user'[u].deleted)
          /\ \A w \in Space : There(space'[w]) => ~WindowOver(space'[w].deleted)
          /\ \A s \in surveys' : ~WindowOver(s.deleted)
          /\ \A r \in DOMAIN responses' : ~WindowOver(responses'[r])
          /\ job.theirs \cap AllRows' \subseteq job.skipped]_allVars

(***************************************************************************)
(* What the code does not keep; see README.  EraseSubject: "erase one      *)
(* person now, skipping the 30-day wait", "everything of theirs".          *)
(***************************************************************************)
ErasureTakesAll ==
    [][Commit /\ job.kind = "erasure" => job.theirs \cap AllRows' = {}]_allVars

\* What was written for an account that was closed meanwhile, in a workspace made for it then.
Orphans == {Id(s) : s \in {t \in surveys : Live(space[t.of]) /\ ~Live(user[t.by])}}

(***************************************************************************)
(* No statement of the purge meets a row that should have gone before it:  *)
(* it is refused only for rows that came in while it ran, or for what a    *)
(* closed account has in a workspace made after it was closed (steps:      *)
(* "children before parents, always").                                     *)
(***************************************************************************)
PurgeGoesThrough ==
    [][job.pc # "refused" => job'.blocked \cap job.before \subseteq Orphans]_allVars

(***************************************************************************)
(* "A purged author leaves their work attributed to nobody rather than     *)
(* blocking the erasure" (steps): no row that was there when a purge began *)
(* has it refused.                                                         *)
(***************************************************************************)
PurgeNotBlocked == job.blocked \cap job.before = {}

=============================================================================
