----------------------------- MODULE ExportJobs -----------------------------
(***************************************************************************)
(* The exports of one workspace (internal/http/export_workspace.go,        *)
(* export_closure.go, pages.go; internal/store/exports.go): the archive a  *)
(* creator asks for, and the copy sent when the account closes.  Each is a *)
(* row of export_jobs and a goroutine that builds it, for no longer than   *)
(* BuildTimeout, and stores what came of it under that same limit.         *)
(*                                                                         *)
(* Time passes in units that no request lasts; builds do.                  *)
(***************************************************************************)
EXTENDS Naturals

CONSTANTS
    Request,       \* requests under way at once
    Asker,         \* those among them that may ask for the workspace's export
    BuildTimeout,  \* a build's context ends after it
    StaleAfter,    \* exportStaleAfter
    TTL,           \* exportTTL
    ClosureTTL,    \* closureExportTTL
    MaxJobs,       \* bound: jobs
    MaxTime,       \* bound: time
    MaxFaults      \* bound: statements that fail and processes that end

ASSUME WindowsAssumption ==
    /\ {BuildTimeout, StaleAfter, TTL, ClosureTTL} \subseteq Nat \ {0}
    /\ BuildTimeout < StaleAfter
ASSUME BoundsAssumption == Asker \subseteq Request /\ {MaxJobs, MaxTime, MaxFaults} \subseteq Nat

VARIABLES
    now,       \* the clock
    job,       \* export_jobs
    builder,   \* each job's goroutine
    closed,    \* the account is closed
    req,       \* each request
    mails,     \* the mails sent about closure exports
    promised,  \* somebody was told that their copy is on its way
    faults     \* how much has gone wrong

vars == <<now, job, builder, closed, req, mails, promised, faults>>

-----------------------------------------------------------------------------

Job == 1..MaxJobs
Time == 0..MaxTime
NoJob == 0

\* A row not there yet, or there no more.
Free == [status |-> "free"]
Rows == [status : {"pending", "running", "ready", "failed", "removed"},
         kind : {"account", "closure"}, created : Time,
         expires : 0..(MaxTime + TTL + ClosureTTL), archive : BOOLEAN]

NoBuilder == [pc |-> "none"]
Builders == [pc : {"claiming", "building", "storing", "failing", "linking", "explaining"},
             until : 0..(MaxTime + BuildTimeout)]

Idle == [pc |-> "idle"]

TypeOK ==
    /\ now \in Time
    /\ job \in [Job -> {Free} \cup Rows]
    /\ builder \in [Job -> {NoBuilder} \cup Builders]
    /\ closed \in BOOLEAN
    /\ req \in [Request -> {Idle}
          \cup [pc : {"creating"}, at : Time]
          \cup [pc : {"queueing"}]
          \cup [pc : {"closing", "removing", "leaving"}, copy : BOOLEAN, job : Job \cup {NoJob}]]
    /\ mails \subseteq [job : Job, says : {"link", "reason"}]
    /\ promised \in BOOLEAN
    /\ faults \in 0..MaxFaults

Init ==
    /\ now = 0
    /\ job = [j \in Job |-> Free]
    /\ builder = [j \in Job |-> NoBuilder]
    /\ closed = FALSE
    /\ req = [r \in Request |-> Idle]
    /\ mails = {}
    /\ promised = FALSE
    /\ faults = 0

Stored(j) == job[j].status \notin {"free", "removed"}

\* The next row's identity.
NextJob == CHOOSE j \in Job : job[j] = Free /\ \A i \in 1..(j - 1) : job[i] # Free
Room == \E j \in Job : job[j] = Free

Goes(r, to) == req' = [req EXCEPT ![r] = to]

Fault == faults < MaxFaults /\ faults' = faults + 1

Latest(kind) ==
    {j \in Job : /\ Stored(j) /\ job[j].kind = kind
                 /\ \A i \in Job : Stored(i) /\ job[i].kind = kind => i <= j}

InProgress(j) == job[j].status \in {"pending", "running"}

\* The goroutine of a job, and the context it has.
Builds(j) ==
    builder' = [builder EXCEPT ![j] = [pc |-> "claiming", until |-> now + BuildTimeout]]

-----------------------------------------------------------------------------
(* The workspace's export.                                                 *)

\* Fault: an unfinished job is taken for dead while it may still be built.
DeadTooSoon(j) == now - job[j].created >= BuildTimeout - 1

Dead(j) == now - job[j].created >= StaleAfter

\* accountExport: a new job, unless one is being built.
AskForExport(r) ==
    /\ r \in Asker /\ req[r] = Idle /\ ~closed
    /\ \A j \in Latest("account") : InProgress(j) => Dead(j)
    /\ Goes(r, [pc |-> "creating", at |-> now])
    /\ UNCHANGED <<now, job, builder, closed, mails, promised, faults>>

CreateExportJob(r) ==
    /\ req[r].pc = "creating"
    /\ Room
    /\ job' = [job EXCEPT ![NextJob] = [status |-> "pending", kind |-> "account",
                  created |-> req[r].at, expires |-> 0, archive |-> FALSE]]
    /\ Builds(NextJob)
    /\ Goes(r, Idle)
    /\ UNCHANGED <<now, closed, mails, promised, faults>>

-----------------------------------------------------------------------------
(* Closing the account.                                                    *)

AskToClose(r, copy) ==
    /\ req[r] = Idle /\ ~closed
    /\ Goes(r, IF copy THEN [pc |-> "queueing"]
               ELSE [pc |-> "closing", copy |-> FALSE, job |-> NoJob])
    /\ UNCHANGED <<now, job, builder, closed, mails, promised, faults>>

\* Fault: a workspace may have several closure exports.
MayQueueAnother == TRUE

\* export_jobs_one_closure_idx.
MayQueue == Latest("closure") = {}

\* queueClosureExport: nothing is queued where a closure export exists.
QueueClosure(r) ==
    /\ req[r].pc = "queueing"
    /\ \/ /\ MayQueue /\ Room
          /\ job' = [job EXCEPT ![NextJob] = [status |-> "pending", kind |-> "closure",
                        created |-> now, expires |-> now + ClosureTTL, archive |-> FALSE]]
          /\ Goes(r, [pc |-> "closing", copy |-> TRUE, job |-> NextJob])
       \/ /\ ~MayQueue
          /\ Goes(r, [pc |-> "closing", copy |-> TRUE, job |-> NoJob])
          /\ UNCHANGED job
    /\ UNCHANGED <<now, builder, closed, mails, promised, faults>>

DeleteAccount(r) ==
    /\ req[r].pc = "closing"
    /\ closed' = TRUE
    /\ Goes(r, [req[r] EXCEPT !.pc = "leaving"])
    /\ UNCHANGED <<now, job, builder, mails, promised, faults>>

DeleteAccountFails(r) ==
    /\ req[r].pc = "closing"
    /\ Fault
    /\ Goes(r, IF req[r].job = NoJob THEN Idle ELSE [req[r] EXCEPT !.pc = "removing"])
    /\ UNCHANGED <<now, job, builder, closed, mails, promised>>

\* DeleteExportJob: the account stays open, so nothing is sent.
RemoveUnused(r) ==
    /\ req[r].pc = "removing"
    /\ job' = [job EXCEPT ![req[r].job].status = "removed"]
    /\ Goes(r, Idle)
    /\ UNCHANGED <<now, builder, closed, mails, promised, faults>>

\* The goodbye page says that a copy is coming, whoever queued it.
SayGoodbye(r) ==
    /\ req[r].pc = "leaving"
    /\ promised' = (promised \/ req[r].copy)
    /\ IF req[r].job = NoJob THEN UNCHANGED builder ELSE Builds(req[r].job)
    /\ Goes(r, Idle)
    /\ UNCHANGED <<now, job, closed, mails, faults>>

\* A statement of the request fails, and with it the request.
RequestFails(r) ==
    /\ req[r].pc \in {"creating", "queueing", "removing"}
    /\ Fault
    /\ Goes(r, Idle)
    /\ UNCHANGED <<now, job, builder, closed, mails, promised>>

-----------------------------------------------------------------------------
(* A build.                                                                *)

InTime(j) == now < builder[j].until

BuilderGoes(j, pc) == builder' = [builder EXCEPT ![j] = [pc |-> pc, until |-> builder[j].until]]
BuilderEnds(j) == builder' = [builder EXCEPT ![j] = NoBuilder]

\* ClaimExportJob: only a job still pending is built.
Claim(j) ==
    /\ builder[j].pc = "claiming" /\ InTime(j)
    /\ job[j].status = "pending"
    /\ job' = [job EXCEPT ![j].status = "running"]
    /\ BuilderGoes(j, "building")
    /\ UNCHANGED <<now, closed, req, mails, promised, faults>>

\* buildWorkspaceArchive, or what became of it: too large, a failed read,
\* or no time left.
Build(j) ==
    /\ builder[j].pc = "building"
    /\ \/ InTime(j) /\ BuilderGoes(j, "storing")
       \/ BuilderGoes(j, "failing")
    /\ UNCHANGED <<now, job, closed, req, mails, promised, faults>>

\* FinishExportJob, of a row still there: a closure export keeps the
\* expiry it was queued with.
Finish(j) ==
    job' = IF Stored(j)
           THEN [job EXCEPT ![j].status = "ready", ![j].archive = TRUE,
                     ![j].expires = IF job[j].kind = "account" THEN now + TTL ELSE @]
           ELSE job

Store(j) ==
    /\ builder[j].pc = "storing" /\ InTime(j)
    /\ Finish(j)
    /\ IF job[j].kind = "account" THEN BuilderEnds(j) ELSE BuilderGoes(j, "linking")
    /\ UNCHANGED <<now, closed, req, mails, promised, faults>>

\* The archive cannot be stored: for an account's export nobody is told.
StoreFails(j) ==
    /\ builder[j].pc = "storing"
    /\ (~InTime(j) /\ UNCHANGED faults) \/ Fault
    /\ IF job[j].kind = "account" THEN BuilderEnds(j) ELSE BuilderGoes(j, "explaining")
    /\ UNCHANGED <<now, job, closed, req, mails, promised>>

\* FailExportJob, where there is time for it; then the mail, if it is a
\* closure export.
Fail(j) ==
    /\ builder[j].pc = "failing"
    /\ \/ InTime(j) /\ job' = [job EXCEPT ![j].status = "failed"] /\ UNCHANGED faults
       \/ UNCHANGED job /\ ((~InTime(j) /\ UNCHANGED faults) \/ Fault)
    /\ IF job[j].kind = "account" THEN BuilderEnds(j) ELSE BuilderGoes(j, "explaining")
    /\ UNCHANGED <<now, closed, req, mails, promised>>

Says(j) == IF builder[j].pc = "linking" THEN "link" ELSE "reason"

SendClosureEmail(j) ==
    /\ builder[j].pc \in {"linking", "explaining"} /\ InTime(j)
    /\ mails' = mails \cup {[job |-> j, says |-> Says(j)]}
    /\ BuilderEnds(j)
    /\ UNCHANGED <<now, job, closed, req, promised, faults>>

\* The claim, or the mail, fails: the build is over.
BuilderGivesUp(j) ==
    /\ builder[j].pc \in {"claiming", "linking", "explaining"}
    /\ (~InTime(j) /\ UNCHANGED faults) \/ Fault
    /\ BuilderEnds(j)
    /\ UNCHANGED <<now, job, closed, req, mails, promised>>

-----------------------------------------------------------------------------

\* The process ends: its requests and its builds are gone.
Crash ==
    /\ Fault
    /\ req' = [r \in Request |-> Idle]
    /\ builder' = [j \in Job |-> NoBuilder]
    /\ UNCHANGED <<now, job, closed, mails, promised>>

\* Fault: an archive is kept for a day, whatever its row says.
ExpiredByAge(j) == job[j].archive /\ job[j].created + TTL < now

Expired(j) == job[j].archive /\ job[j].expires < now

\* The nightly purge's expired_export_archives.
PurgeArchives ==
    /\ \E j \in Job : Stored(j) /\ Expired(j)
    /\ job' = [j \in Job |-> IF Stored(j) /\ Expired(j)
                             THEN [job[j] EXCEPT !.archive = FALSE] ELSE job[j]]
    /\ UNCHANGED <<now, builder, closed, req, mails, promised, faults>>

Tick ==
    /\ now < MaxTime
    /\ \A r \in Request : req[r] = Idle
    /\ now' = now + 1
    /\ UNCHANGED <<job, builder, closed, req, mails, promised, faults>>

Next ==
    \/ \E r \in Request :
          \/ AskForExport(r) \/ CreateExportJob(r)
          \/ \E copy \in BOOLEAN : AskToClose(r, copy)
          \/ QueueClosure(r) \/ DeleteAccount(r) \/ DeleteAccountFails(r)
          \/ RemoveUnused(r) \/ SayGoodbye(r) \/ RequestFails(r)
    \/ \E j \in Job :
          \/ Claim(j) \/ Build(j) \/ Store(j) \/ StoreFails(j) \/ Fail(j)
          \/ SendClosureEmail(j) \/ BuilderGivesUp(j)
    \/ Crash \/ PurgeArchives \/ Tick

Spec == Init /\ [][Next]_vars

-----------------------------------------------------------------------------

BeingBuilt(j) == builder[j].pc \in {"building", "storing"} /\ InTime(j)

\* "accountExport queues a build unless one is already running": one
\* archive of a creator who asks one request at a time is being built at
\* once, since a build's own limit ends it before its job is taken for dead
\* (exportStaleAfter).
OneBuildAtATime ==
    \A i, j \in Job : (/\ BeingBuilt(i) /\ BeingBuilt(j)
                       /\ job[i].kind = "account" /\ job[j].kind = "account") => i = j

\* A link that was mailed works until the moment it says: the archive is
\* stored before the mail goes out, and neither a second closing of the
\* account nor the purge takes it away (closureExportTTL, "so the archive
\* lives exactly this long").
MailedLinkWorks ==
    \A m \in mails : m.says = "link" =>
        /\ job[m.job].status = "ready"
        /\ now < job[m.job].expires => job[m.job].archive

\* A closed account is written to once about its copy, and an open one not
\* at all, however many submits of the closing form race each other
\* (export_jobs_one_closure_idx; "The account stays open, so nothing is
\* sent").
OneMailOnceClosed ==
    /\ mails # {} => closed
    /\ \A m, n \in mails : m = n

\* The copy that was promised is queued, under way, or written about:
\* "that copy is already on its way".
CopyOnItsWay ==
    promised => \/ \E j \in Job : Stored(j) /\ job[j].kind = "closure"
                \/ mails # {}

\* "or an email saying why no copy could be made": no mail about a closure
\* export goes unsent because the time for building it is up.
ToldInTime ==
    [][\A j \in Job : builder[j].pc \in {"linking", "explaining"} /\ BuilderGivesUp(j)
          => InTime(j)]_vars

=============================================================================
