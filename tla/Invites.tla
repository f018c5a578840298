------------------------------ MODULE Invites ------------------------------
(***************************************************************************)
(* Inviting the participants of a workspace's surveys (internal/invites,   *)
(* internal/store/participants.go): creators import addresses and start    *)
(* send runs, any number at once; each run reads its list of participants  *)
(* once and mails them one by one, under a cap that the workspace's runs   *)
(* share.  Meanwhile the mail provider reports addresses never to be       *)
(* written to again.                                                       *)
(*                                                                         *)
(* A link's token is its number among those minted for the participant;    *)
(* the database keeps the latest only, as a hash.  0 stands for the one    *)
(* an import stores, which nobody knows.                                   *)
(***************************************************************************)
EXTENDS Naturals, FiniteSets, SequencesExt

CONSTANTS
    Survey,           \* the invited surveys of one workspace
    Address,          \* mail addresses
    Run,              \* send runs under way at once
    Cap,              \* perWorkspacePerHour
    Window,           \* the limiter's hour
    MaxTime,          \* bound: time
    MaxTokens,        \* bound: links minted for one participant
    MaxInterruptions  \* bound: runs cut off by the creator leaving

ASSUME CapAssumption == Cap \in Nat \ {0} /\ Window \in Nat \ {0}
ASSUME BoundsAssumption == {MaxTime, MaxTokens, MaxInterruptions} \subseteq Nat

Participant == Survey \X Address
AddressOf(p) == p[2]

VARIABLES
    now,         \* the clock
    row,         \* participants: each one's row
    suppressed,  \* suppressions: addresses never mailed again
    marking,     \* addresses suppressed whose participants are yet to be marked bounced
    mailed,      \* the links that reached each participant's mailbox, in order
    bucket,      \* the workspace's bucket in the limiter
    allowed,     \* when the limiter let an invitation through, in order
    run,         \* each run
    interrupted  \* how many runs were cut off

recipients == <<row, suppressed, marking>>
limiter == <<bucket, allowed>>
vars == <<now, row, suppressed, marking, mailed, bucket, allowed, run, interrupted>>

-----------------------------------------------------------------------------

Token == 0..MaxTokens

Absent == [imported |-> FALSE]
Row == [imported : {TRUE}, token : Token, invited : BOOLEAN, bounced : BOOLEAN]

\* Fault: a suppressed address is told by its mark alone.
PendingUnmarked(s) ==
    {p \in Participant : /\ p[1] = s /\ row[p].imported
                         /\ ~row[p].invited /\ ~row[p].bounced}

\* ParticipantPending, as PendingInvites lists them.
Pending(s) ==
    {p \in Participant : /\ p[1] = s /\ row[p].imported
                         /\ ~row[p].invited /\ ~row[p].bounced
                         /\ AddressOf(p) \notin suppressed}

Idle == [pc |-> "idle"]

\* A run between two participants, and one that has minted a link for the
\* participant `at` and mails it, or takes the invitation back.
Between == [pc : {"next"}, todo : SUBSET Participant]
At == [pc : {"sending", "clearing"}, todo : SUBSET Participant, at : Participant, token : Token]

TypeOK ==
    /\ now \in 0..MaxTime
    /\ row \in [Participant -> {Absent} \cup Row]
    /\ suppressed \subseteq Address
    /\ marking \subseteq suppressed
    /\ mailed \in [Participant -> Seq(Token)]
    /\ bucket \in [start : 0..MaxTime, count : 0..Cap]
    /\ allowed \in Seq(0..MaxTime)
    /\ run \in [Run -> {Idle} \cup Between \cup At]
    /\ interrupted \in 0..MaxInterruptions

Init ==
    /\ now = 0
    /\ row = [p \in Participant |-> Absent]
    /\ suppressed = {}
    /\ marking = {}
    /\ mailed = [p \in Participant |-> <<>>]
    /\ bucket = [start |-> 0, count |-> 0]
    /\ allowed = <<>>
    /\ run = [r \in Run |-> Idle]
    /\ interrupted = 0

Goes(r, to) == run' = [run EXCEPT ![r] = to]

\* The run is past the participant it was at.
MovesOn(r) == Goes(r, [pc |-> "next", todo |-> run[r].todo])

-----------------------------------------------------------------------------

\* ON CONFLICT DO NOTHING: an address imported again is left as it is.
ImportParticipant(p) ==
    /\ ~row[p].imported
    /\ row' = [row EXCEPT ![p] = [imported |-> TRUE, token |-> 0,
                                  invited |-> FALSE, bounced |-> FALSE]]
    /\ UNCHANGED <<now, suppressed, marking, mailed, limiter, run, interrupted>>

\* The list a run works through is read once.
SendPending(r, s) ==
    /\ run[r] = Idle
    /\ Goes(r, [pc |-> "next", todo |-> Pending(s)])
    /\ UNCHANGED <<now, recipients, mailed, limiter, interrupted>>

\* No bucket yet, or one whose window is over.
WindowOver == bucket.count = 0 \/ now - bucket.start >= Window

Allow == WindowOver \/ bucket.count < Cap

\* Fault: only a window's first invitation is counted.
CountFirstOnly ==
    bucket' = IF WindowOver THEN [start |-> now, count |-> 1] ELSE bucket

\* Limiter.Allow: a window starts with the first invitation after the last
\* one is over.
Count ==
    bucket' = IF WindowOver THEN [start |-> now, count |-> 1]
              ELSE [start |-> bucket.start, count |-> bucket.count + 1]

\* The cap lets one more through, and IssueInviteToken mints the link and
\* marks the participant invited, before anything is mailed.
Issue(r, p) ==
    LET token == row[p].token + 1
    IN  /\ run[r].pc = "next" /\ p \in run[r].todo
        /\ Allow
        /\ token \in Token
        /\ Count
        /\ allowed' = Append(allowed, now)
        /\ row' = [row EXCEPT ![p].token = token, ![p].invited = TRUE]
        /\ Goes(r, [pc |-> "sending", todo |-> run[r].todo \ {p}, at |-> p, token |-> token])
        /\ UNCHANGED <<now, suppressed, marking, mailed, interrupted>>

\* Nobody is left, the allowance is used up, or the statement fails.
RunEnds(r) ==
    /\ run[r].pc = "next"
    /\ Goes(r, Idle)
    /\ UNCHANGED <<now, recipients, mailed, limiter, interrupted>>

Send(r) ==
    LET p == run[r].at
    IN  /\ run[r].pc = "sending"
        /\ mailed' = [mailed EXCEPT ![p] = Append(@, run[r].token)]
        /\ MovesOn(r)
        /\ UNCHANGED <<now, recipients, limiter, interrupted>>

\* The sender reports an error: nothing was mailed, or the provider's
\* answer was late and the mail went out all the same.
SendFails(r) ==
    LET p == run[r].at
    IN  /\ run[r].pc = "sending"
        /\ mailed' \in {mailed, [mailed EXCEPT ![p] = Append(@, run[r].token)]}
        /\ Goes(r, [run[r] EXCEPT !.pc = "clearing"])
        /\ UNCHANGED <<now, recipients, limiter, interrupted>>

\* Fault: the invitation is left in place, to be tried by nobody.
ClearNothing(p) == row' = row

\* ClearInvited.
Clear(p) == row' = [row EXCEPT ![p].invited = FALSE]

RollBack(r) ==
    /\ run[r].pc = "clearing"
    /\ Clear(run[r].at)
    /\ MovesOn(r)
    /\ UNCHANGED <<now, suppressed, marking, mailed, limiter, interrupted>>

\* The creator leaves, and the request's context ends: what the run does
\* next fails, taking the invitation back included.
Cancel(r) ==
    /\ interrupted < MaxInterruptions
    /\ run[r] # Idle
    /\ Goes(r, Idle)
    /\ interrupted' = interrupted + 1
    /\ UNCHANGED <<now, recipients, mailed, limiter>>

-----------------------------------------------------------------------------

\* Suppress: the address first, its participants in every survey next.
AddSuppression(a) ==
    /\ a \notin suppressed
    /\ suppressed' = suppressed \cup {a}
    /\ marking' = marking \cup {a}
    /\ UNCHANGED <<now, row, mailed, limiter, run, interrupted>>

MarkBounced(a) ==
    /\ a \in marking
    /\ marking' = marking \ {a}
    /\ row' = [p \in Participant |->
                  IF AddressOf(p) = a /\ row[p].imported
                  THEN [row[p] EXCEPT !.bounced = TRUE] ELSE row[p]]
    /\ UNCHANGED <<now, suppressed, mailed, limiter, run, interrupted>>

\* The second statement fails, and the webhook is answered all the same.
MarkFails(a) ==
    /\ a \in marking
    /\ marking' = marking \ {a}
    /\ UNCHANGED <<now, row, suppressed, mailed, limiter, run, interrupted>>

Tick ==
    /\ now < MaxTime
    /\ now' = now + 1
    /\ UNCHANGED <<recipients, mailed, limiter, run, interrupted>>

Next ==
    \/ \E p \in Participant : ImportParticipant(p)
    \/ \E r \in Run :
          \/ \E s \in Survey : SendPending(r, s)
          \/ \E p \in Participant : Issue(r, p)
          \/ RunEnds(r) \/ Send(r) \/ SendFails(r) \/ RollBack(r) \/ Cancel(r)
    \/ \E a \in Address : AddSuppression(a) \/ MarkBounced(a) \/ MarkFails(a)
    \/ Tick

Spec == Init /\ [][Next]_vars

-----------------------------------------------------------------------------

Working(p) == \E r \in Run : run[r].pc \in {"sending", "clearing"} /\ run[r].at = p

\* "A failed send rolls back to pending so the next run retries it":
\* whoever is left as invited has been mailed the link that works.
FailedSendsRetried ==
    \A p \in Participant :
        (row[p].imported /\ row[p].invited /\ ~Working(p)) => Contains(mailed[p], row[p].token)

\* So it is while no run is cut off: however many runs mint links for one
\* participant at once, and whichever of their mails fail or arrive after
\* all, nobody ends up past the pending list with no way to answer
\* (SendPending).
InvitedCanAnswer == interrupted = 0 => FailedSendsRetried

\* Once nobody is being mailed, the last link a participant was mailed is
\* the one that works: "only the most recent invite works", and a failed
\* send has done no harm ("the rotated token is harmless (nothing was
\* emailed)").
MostRecentWorks ==
    \A p \in Participant :
        (mailed[p] # <<>> /\ ~Working(p)) => row[p].token = Last(mailed[p])

\* No run takes up an address that is suppressed, though its participants
\* were imported after it was, or never marked (PendingInvites: both the
\* mark and the list are asked).
SuppressedLeftAlone ==
    [][\A r \in Run : run[r] = Idle /\ run'[r] # Idle
          => \A p \in run'[r].todo : AddressOf(p) \notin suppressed]_vars

\* "a bounced address is never re-mailed": no mail goes to an address
\* marked as bounced.
NeverRemailed ==
    [][\A p \in Participant : mailed'[p] # mailed[p] => ~row[p].bounced]_vars

\* Two windows may meet back to back, and no worse: whatever runs share the
\* bucket, no stretch of a window's length sees twice the cap, since the
\* stretch that touches two windows misses the first invitation of one
\* (antibot.Limiter, "200/hour/workspace cap").
NoBurst ==
    \A i \in DOMAIN allowed :
        Cardinality({j \in DOMAIN allowed : allowed[j] \in allowed[i]..(allowed[i] + Window - 1)})
            < 2 * Cap

=============================================================================
