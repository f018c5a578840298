------------------------------ MODULE AIMeter ------------------------------
(***************************************************************************)
(* The meter every call of a model passes (internal/ai/meter.go) and the   *)
(* handlers that call one: a call is checked against what is recorded      *)
(* (suspension, the instance's budget, the workspace's allowance, and for  *)
(* speech the seconds of the session and of the survey), made, and         *)
(* recorded when it is over.  Nothing is held in between, so calls made    *)
(* side by side are checked against the same spend; and the record is      *)
(* written under the request's or the socket's own context, which may be   *)
(* over by then.                                                           *)
(*                                                                         *)
(* Kinds of call, by how they are metered:                                 *)
(*   collect   a form: the whole answer is collected, charged, then stored *)
(*   stream    the editor's socket: charged on the way out, by a closure   *)
(*   read      the results' socket: charged on the way out, by a call      *)
(*             whose arguments were worked out before anything arrived     *)
(*   batch     words translated one by one, after a check of their own     *)
(*   answers   answers translated one by one                               *)
(*   speech    a take transcribed for a respondent                         *)
(* Cost is counted in tokens: their price is one constant.  What is        *)
(* recorded is today's; a new day starts from nothing.                     *)
(***************************************************************************)
EXTENDS Naturals, FiniteSets

CONSTANTS
    Workspace, Survey,
    Owner,                   \* the workspace of each survey
    Session, NoSession,      \* form nonces of respondents, and none
    Call,                    \* calls under way at once
    Kinds,                   \* the kinds of call made about each survey
    LowNormal, Normal, High, \* TierCaps
    DailyBudget,             \* the breaker's threshold, in tokens
    VoiceSurveyDailySeconds, \* 0: no cap
    SessionSeconds,          \* the session budget's limit; 0: no cap
    Prompt, Fragment,        \* characters of a prompt, and of a piece of an answer
    MaxFragments,            \* bound: pieces of one answer
    MaxWords,                \* bound: words, or answers, translated in one go
    Attachment,              \* EstimateTokens of the files of an upload
    MaxTake,                 \* bound: seconds of one take
    AudioTokensPerSecond,
    MaxChanges,              \* bound: tiers set, suspensions, days, restarts
    MaxEmpty                 \* bound: tokens charged, in a day, to calls that asked nothing

Kind == {"collect", "stream", "read", "batch", "answers", "speech"}

ASSUME OwnerAssumption == Owner \in [Survey -> Workspace]
ASSUME SessionAssumption == NoSession \notin Session
ASSUME CallAssumption == IsFiniteSet(Call) /\ Call # {}
ASSUME KindsAssumption == Kinds \in [Survey -> SUBSET Kind]
ASSUME NumbersAssumption ==
    {LowNormal, Normal, High, DailyBudget, VoiceSurveyDailySeconds, SessionSeconds, Prompt,
     Fragment, MaxFragments, MaxWords, Attachment, MaxTake, AudioTokensPerSecond, MaxChanges,
     MaxEmpty} \subseteq Nat
ASSUME AllowedAssumption == High > 0 /\ DailyBudget > 0 /\ MaxWords > 0 /\ Survey # {}

VARIABLES
    tier,       \* workspaces: the tier of each
    suspended,  \* workspaces: whether each is suspended
    tokens,     \* ai_usage: the tokens of each workspace today
    cost,       \* ai_usage: everyone's tokens today
    heard,      \* ai_usage: seconds of speech of each survey today
    spent,      \* voice.Budget: seconds of speech of each session, in memory
    call,       \* each call
    empty,      \* tokens charged, today, to calls that asked the model nothing
    changes     \* how often the operator, the clock or the process intervened

recorded == <<tokens, cost, heard, empty>>
standing == <<tier, suspended, changes>>
vars == <<tier, suspended, tokens, cost, heard, spent, call, empty, changes>>

-----------------------------------------------------------------------------

Tier == {"low-normal", "normal", "high"}

For(t) == CASE t = "low-normal" -> LowNormal [] t = "high" -> High [] OTHER -> Normal

Larger(a, b) == IF a >= b THEN a ELSE b

TopCap == Larger(High, Larger(Normal, LowNormal))

Socket == {"stream", "read", "speech"}
Loop == {"batch", "answers"}

Checking == {"session", "survey", "suspension", "breaker", "tier", "quota"}
Settling == {"record", "settle"}
Stage == {"idle", "ask", "answer", "tell", "done"} \cup Checking \cup Settling

\* `begun`: within a loop over words; `since`: model calls since its workspace was suspended.
CallRecord ==
    [pc : Stage, kind : Kind, survey : Survey, session : Session \cup {NoSession},
     words : 1..MaxWords, attached : {0, Attachment}, seconds : 0..MaxTake, begun : BOOLEAN,
     cap : {LowNormal, Normal, High}, asked : 0..MaxWords,
     fragments : 0..(MaxWords * MaxFragments), link : {"open", "closed", "over"},
     charged : Nat, since : 0..MaxWords]

TypeOK ==
    /\ tier \in [Workspace -> Tier]
    /\ suspended \in [Workspace -> BOOLEAN]
    /\ tokens \in [Workspace -> Nat]
    /\ cost \in Nat
    /\ heard \in [Survey -> Nat]
    /\ spent \in [Session -> Nat]
    /\ call \in [Call -> CallRecord]
    /\ empty \in 0..MaxEmpty
    /\ changes \in 0..MaxChanges

WorkspaceOf(c) == Owner[call[c].survey]
AtStage(c, pc) == call[c].pc = pc
Alive(c) == call[c].link # "over"

-----------------------------------------------------------------------------

Tokens(chars) == chars \div 4 + 1

\* What a call sent to the model and had back, and what that is in tokens.
Chars(k) == (IF k.kind = "speech" THEN 0 ELSE k.asked * Prompt) + k.fragments * Fragment
Owed(k) == Tokens(Chars(k)) + k.attached + k.seconds * AudioTokensPerSecond

\* Fault: the closure's arguments are worked out early here too.
BillEarly(k) == IF k.kind \in {"read", "stream"} THEN Tokens(Prompt) ELSE Owed(k)

\* What the call is charged.  The arguments of recordInsightUsage are evaluated when it is
\* deferred: the answer is not in them.
Bill(k) == IF k.kind = "read" THEN Tokens(Prompt) ELSE Owed(k)

\* The most one call is charged.
Most == Larger(Tokens(MaxWords * Prompt + MaxWords * MaxFragments * Fragment),
               Larger(Tokens(Prompt + MaxFragments * Fragment) + Attachment,
                      Tokens(MaxFragments * Fragment) + MaxTake * AudioTokensPerSecond))

-----------------------------------------------------------------------------

Idle == [pc |-> "idle", kind |-> "collect", survey |-> CHOOSE s \in Survey : TRUE,
         session |-> NoSession, words |-> 1, attached |-> 0, seconds |-> 0, begun |-> FALSE,
         cap |-> Normal, asked |-> 0, fragments |-> 0, link |-> "open", charged |-> 0,
         since |-> 0]

Init ==
    /\ tier = [w \in Workspace |-> "normal"]
    /\ suspended = [w \in Workspace |-> FALSE]
    /\ tokens = [w \in Workspace |-> 0]
    /\ cost = 0
    /\ heard = [s \in Survey |-> 0]
    /\ spent = [x \in Session |-> 0]
    /\ call = [c \in Call |-> Idle]
    /\ empty = 0
    /\ changes = 0

Move(c, pc) == call' = [call EXCEPT ![c].pc = pc]

Asked(pc, kind, s) == [Idle EXCEPT !.pc = pc, !.kind = kind, !.survey = s]

Begin(c, k) ==
    /\ AtStage(c, "idle")
    /\ k.kind \in Kinds[k.survey]
    /\ call' = [call EXCEPT ![c] = k]
    /\ UNCHANGED <<recorded, standing, spent>>

\* A form or a socket asks for one answer; a form may carry files.
Ask(c, s) ==
    \/ \E a \in {0, Attachment} :
          Begin(c, [Asked("suspension", "collect", s) EXCEPT !.attached = a])
    \/ \E k \in {"stream", "read"} : Begin(c, Asked("suspension", k, s))

\* Words to translate are checked for before the first of them is.
Translate(c, s) ==
    \E n \in 1..MaxWords : Begin(c, [Asked("suspension", "batch", s) EXCEPT !.words = n])

\* Answers are not; and none may be left to translate.
TranslateAnswers(c, s) ==
    LET answers(pc) == [Asked(pc, "answers", s) EXCEPT !.begun = TRUE]
    IN \/ \E n \in 1..MaxWords : Begin(c, [answers("suspension") EXCEPT !.words = n])
       \/ Begin(c, answers("record"))

FinishTake(c, s) ==
    \E n \in 1..MaxTake, x \in Session \cup {NoSession} :
        Begin(c, [Asked("session", "speech", s) EXCEPT !.seconds = n, !.session = x])

-----------------------------------------------------------------------------

\* A refusal, or an error, ends the call; a loop that has begun is charged all the same.
Refused(c) == IF call[c].begun THEN "record" ELSE "done"

\* Fault: a survey's seconds are compared without the take's own.
VoiceSecondsSpent(c) ==
    /\ AtStage(c, "survey")
    /\ Alive(c)
    /\ Move(c, IF VoiceSurveyDailySeconds > 0
                  /\ heard[call[c].survey] > VoiceSurveyDailySeconds
                 THEN "done" ELSE "suspension")
    /\ UNCHANGED <<recorded, standing, spent>>

\* Budget.Remaining.
RemainingInSession(c) ==
    /\ AtStage(c, "session")
    /\ LET x == call[c].session
       IN Move(c, IF x # NoSession /\ SessionSeconds > 0
                     /\ spent[x] + call[c].seconds > SessionSeconds
                    THEN "done" ELSE "survey")
    /\ UNCHANGED <<recorded, standing, spent>>

VoiceSecondsLeft(c) ==
    /\ AtStage(c, "survey")
    /\ Alive(c)
    /\ Move(c, IF VoiceSurveyDailySeconds > 0
                  /\ heard[call[c].survey] + call[c].seconds > VoiceSurveyDailySeconds
                 THEN "done" ELSE "suspension")
    /\ UNCHANGED <<recorded, standing, spent>>

CheckSuspension(c) ==
    /\ AtStage(c, "suspension")
    /\ Alive(c)
    /\ Move(c, IF suspended[WorkspaceOf(c)] THEN Refused(c) ELSE "breaker")
    /\ UNCHANGED <<recorded, standing, spent>>

\* Fault: the breaker trips only once the budget is passed.
CheckBreakerLate(c) ==
    /\ AtStage(c, "breaker")
    /\ Alive(c)
    /\ Move(c, IF cost > DailyBudget THEN Refused(c) ELSE "tier")
    /\ UNCHANGED <<recorded, standing, spent>>

CheckBreaker(c) ==
    /\ AtStage(c, "breaker")
    /\ Alive(c)
    /\ LET est == call[c].attached
       IN Move(c, IF cost >= DailyBudget \/ (est > 0 /\ cost + est > DailyBudget)
                    THEN Refused(c) ELSE "tier")
    /\ UNCHANGED <<recorded, standing, spent>>

ReadTier(c) ==
    /\ AtStage(c, "tier")
    /\ Alive(c)
    /\ call' = [call EXCEPT ![c].pc = "quota", ![c].cap = For(tier[WorkspaceOf(c)])]
    /\ UNCHANGED <<recorded, standing, spent>>

\* Fault: the allowance may be reached before it refuses.
WithinOneMore(c) ==
    LET spentToday == tokens[WorkspaceOf(c)] IN spentToday <= call[c].cap

\* usage.Tokens against usage.Cap, with what the attachments are expected to cost.
Within(c) ==
    LET spentToday == tokens[WorkspaceOf(c)]
    IN /\ spentToday < call[c].cap
       /\ call[c].attached > 0 => spentToday + call[c].attached <= call[c].cap

CheckQuota(c) ==
    /\ AtStage(c, "quota")
    /\ Alive(c)
    /\ \/ /\ ~Within(c)
          /\ Move(c, Refused(c))
       \/ /\ Within(c)
          /\ IF call[c].kind = "batch" /\ ~call[c].begun
               THEN call' = [call EXCEPT ![c].pc = "suspension", ![c].begun = TRUE]
               ELSE Move(c, "ask")
    /\ UNCHANGED <<recorded, standing, spent>>

\* No statement runs in a context that is over: the check reports its error.
CheckFails(c) ==
    /\ call[c].pc \in Checking \ {"session"}
    /\ ~Alive(c)
    /\ Move(c, Refused(c))
    /\ UNCHANGED <<recorded, standing, spent>>

-----------------------------------------------------------------------------

AskModel(c) ==
    /\ AtStage(c, "ask")
    /\ Alive(c)
    /\ call' = [call EXCEPT ![c].pc = "answer", ![c].asked = @ + 1, ![c].since = @ + 1]
    /\ UNCHANGED <<recorded, standing, spent>>

\* The provider refuses the call, or its context is over.
AskFails(c) ==
    /\ AtStage(c, "ask")
    /\ Move(c, Refused(c))
    /\ UNCHANGED <<recorded, standing, spent>>

\* A piece of the answer; a socket relays it, and gives up when its reader is gone.
Recv(c) ==
    /\ AtStage(c, "answer")
    /\ Alive(c)
    /\ call[c].fragments < call[c].asked * MaxFragments
    /\ call' = [call EXCEPT ![c].fragments = @ + 1,
                            ![c].pc = IF call[c].kind \in Socket /\ call[c].link # "open"
                                        THEN "settle" ELSE "answer"]
    /\ UNCHANGED <<recorded, standing, spent>>

\* Fault: a loop checks the meter before its first word only.
WordToWordUnchecked(c) == IF call[c].asked < call[c].words THEN "ask" ELSE "record"

WordToWord(c) == IF call[c].asked < call[c].words THEN "suspension" ELSE "record"

\* Fault: the done frame is sent first.
ThenToldFirst(c) ==
    CASE call[c].kind \in Loop -> WordToWord(c)
      [] call[c].kind \in {"read", "speech"} -> "tell"
      [] OTHER -> "record"

\* After the answer: the next word, or the charge, or (read) the charge comes last.
Then(c) ==
    CASE call[c].kind \in Loop -> WordToWord(c)
      [] call[c].kind = "read" -> "tell"
      [] OTHER -> "record"

StreamEnds(c) ==
    /\ AtStage(c, "answer")
    /\ Alive(c)
    /\ Move(c, Then(c))
    /\ UNCHANGED <<recorded, standing, spent>>

\* It breaks.  What had arrived is kept, as if it had ended; with nothing to keep a loop
\* stops and the others report it.
StreamFails(c) ==
    /\ AtStage(c, "answer")
    /\ \/ /\ call[c].fragments > 0
          /\ Move(c, Then(c))
       \/ Move(c, IF call[c].kind \in Loop THEN "record" ELSE "settle")
    /\ UNCHANGED <<recorded, standing, spent>>

Add(k, n) ==
    LET w == Owner[k.survey]
    IN /\ tokens' = [tokens EXCEPT ![w] = @ + n]
       /\ cost' = cost + n
       /\ heard' = [heard EXCEPT ![k.survey] = @ + k.seconds]
       /\ empty' = IF k.asked = 0 THEN empty + n ELSE empty

After(c) == IF AtStage(c, "record") THEN "tell" ELSE "done"

Spend(c) ==
    IF call[c].session = NoSession THEN UNCHANGED spent
    ELSE spent' = [spent EXCEPT ![call[c].session] = @ + call[c].seconds]

Record(c) ==
    /\ call[c].pc \in Settling
    /\ Alive(c)
    /\ call[c].asked = 0 => empty + Bill(call[c]) <= MaxEmpty
    /\ Add(call[c], Bill(call[c]))
    /\ call' = [call EXCEPT ![c].pc = After(c), ![c].charged = @ + Bill(call[c])]
    /\ Spend(c)
    /\ UNCHANGED standing

\* The insert's context is over: nothing is charged, and the error is logged.
RecordFails(c) ==
    /\ call[c].pc \in Settling
    /\ ~Alive(c)
    /\ Move(c, After(c))
    /\ Spend(c)
    /\ UNCHANGED <<recorded, standing>>

\* The answer is stored and the page, or the done frame, sent.
Tell(c) ==
    /\ AtStage(c, "tell")
    /\ Move(c, IF call[c].kind = "read" THEN "settle" ELSE "done")
    /\ UNCHANGED <<recorded, standing, spent>>

-----------------------------------------------------------------------------

\* The browser goes away.  A form's context is over at once; a socket's when a ping goes
\* unanswered or its lifetime ends, and until then only what is sent to it fails.
Leave(c) ==
    /\ call[c].pc \notin {"idle", "done"}
    /\ \/ /\ call[c].kind \in Socket
          /\ call[c].link = "open"
          /\ call' = [call EXCEPT ![c].link = "closed"]
       \/ /\ Alive(c)
          /\ call' = [call EXCEPT ![c].link = "over"]
    /\ UNCHANGED <<recorded, standing, spent>>

\* The handler returns.
Return(c) ==
    /\ AtStage(c, "done")
    /\ call' = [call EXCEPT ![c] = Idle]
    /\ UNCHANGED <<recorded, standing, spent>>

Change == changes < MaxChanges /\ changes' = changes + 1

SetTier(w, t) ==
    /\ Change
    /\ tier' = [tier EXCEPT ![w] = t]
    /\ UNCHANGED <<suspended, recorded, call, spent>>

Suspend(w) ==
    /\ Change
    /\ ~suspended[w]
    /\ suspended' = [suspended EXCEPT ![w] = TRUE]
    /\ call' = [c \in Call |-> IF WorkspaceOf(c) = w THEN [call[c] EXCEPT !.since = 0] ELSE call[c]]
    /\ UNCHANGED <<tier, recorded, spent>>

Lift(w) ==
    /\ Change
    /\ suspended[w]
    /\ suspended' = [suspended EXCEPT ![w] = FALSE]
    /\ UNCHANGED <<tier, recorded, call, spent>>

\* What is recorded from here on is another day's.
NextDay ==
    /\ Change
    /\ tokens' = [w \in Workspace |-> 0]
    /\ cost' = 0
    /\ heard' = [s \in Survey |-> 0]
    /\ empty' = 0
    /\ UNCHANGED <<tier, suspended, call, spent>>

\* A session nobody spoke in for a while is forgotten.
Forget(x) ==
    /\ Change
    /\ spent[x] > 0
    /\ spent' = [spent EXCEPT ![x] = 0]
    /\ UNCHANGED <<tier, suspended, recorded, call>>

\* The process ends, with the calls it was making, and begins again.
Restart ==
    /\ Change
    /\ call' = [c \in Call |-> Idle]
    /\ spent' = [x \in Session |-> 0]
    /\ UNCHANGED <<tier, suspended, recorded>>

Check(c) ==
    \/ CheckSuspension(c)
    \/ CheckBreaker(c)
    \/ ReadTier(c)
    \/ CheckQuota(c)
    \/ CheckFails(c)

CallStep(c) ==
    \/ \E s \in Survey : Ask(c, s) \/ Translate(c, s) \/ TranslateAnswers(c, s) \/ FinishTake(c, s)
    \/ RemainingInSession(c) \/ VoiceSecondsLeft(c)
    \/ Check(c)
    \/ AskModel(c) \/ AskFails(c)
    \/ Recv(c) \/ StreamEnds(c) \/ StreamFails(c)
    \/ Record(c) \/ RecordFails(c) \/ Tell(c)
    \/ Leave(c) \/ Return(c)

Intervene ==
    \/ \E w \in Workspace : Suspend(w) \/ Lift(w) \/ \E t \in Tier : SetTier(w, t)
    \/ \E x \in Session : Forget(x)
    \/ NextDay
    \/ Restart

Next ==
    \/ \E c \in Call : CallStep(c)
    \/ Intervene

Spec == Init /\ [][Next]_vars

-----------------------------------------------------------------------------

\* Past its check, and not charged yet.
InFlight(c) ==
    /\ call[c].asked > 0 \/ call[c].pc = "ask" \/ (call[c].begun /\ call[c].kind = "batch")
    /\ call[c].pc # "done"
    /\ call[c].charged = 0

CallsInFlight == {c \in Call : InFlight(c)}
CallsOf(w) == {c \in CallsInFlight : WorkspaceOf(c) = w}

(***************************************************************************)
(* However the calls of a workspace run beside each other and beside its   *)
(* tier being changed, it goes past the largest allowance by no more than  *)
(* the calls that can be under way at once take, not by every call it      *)
(* makes (Meter.CheckFor, Meter.record).  Charges of calls that asked the  *)
(* model nothing come on top.                                              *)
(***************************************************************************)
OverrunBounded ==
    \A w \in Workspace :
        tokens[w] + Most * Cardinality(CallsOf(w)) < TopCap + Most * Cardinality(Call) + empty

(***************************************************************************)
(* So does the instance, past its budget, whichever workspaces' calls run  *)
(* beside each other (Meter.CheckFor's breaker).                           *)
(***************************************************************************)
BudgetBounded ==
    cost + Most * Cardinality(CallsInFlight) < DailyBudget + Most * Cardinality(Call) + empty

\* Takes between the check of the session's seconds, or of the survey's, and their charge.
Takes(from) ==
    {c \in Call : /\ call[c].kind = "speech"
                  /\ call[c].pc \in {"suspension", "breaker", "tier", "quota", "ask", "answer"}
                                    \cup Settling \cup from}

\* The seconds of the takes `cs`, each by its take and its place in it.
Seconds(cs) == {m \in cs \X (1..MaxTake) : m[2] <= call[m[1]].seconds}
SecondsOf(cs) == Cardinality(Seconds(cs))

(***************************************************************************)
(* Neither a respondent's session nor a survey has more speech transcribed *)
(* in a day than its limit and the other takes that can be under way at    *)
(* once (finishVoiceTake, Budget, Meter.VoiceSecondsLeft), although both   *)
(* are read before the take and written after it, the one in memory and    *)
(* the other in the database.                                              *)
(***************************************************************************)
SpeechBounded ==
    /\ VoiceSurveyDailySeconds > 0 =>
           \A s \in Survey :
               heard[s] + SecondsOf({c \in Takes({}) : call[c].survey = s})
                   <= VoiceSurveyDailySeconds + MaxTake * (Cardinality(Call) - 1)
    /\ SessionSeconds > 0 =>
           \A x \in Session :
               spent[x] + SecondsOf({c \in Takes({"survey"}) : call[c].session = x})
                   <= SessionSeconds + MaxTake * (Cardinality(Call) - 1)

(***************************************************************************)
(* Once a workspace is suspended, a call already under way asks the model  *)
(* at most once more, a loop over twenty words included                    *)
(* (translateQuestions, translateAnswers, Meter.CheckFor).                 *)
(***************************************************************************)
SuspensionStops ==
    \A c \in Call : suspended[WorkspaceOf(c)] => call[c].since <= 1

(***************************************************************************)
(* A call that asked the model is charged all that was sent and all that   *)
(* came back, once, however it ended, unless its context was over by then  *)
(* (surveyGenerate, streamGeneration, finishVoiceTake, translateQuestions, *)
(* translateAnswers).  The results' socket is left out: ChargedInFull.     *)
(***************************************************************************)
ChargedUnlessGone ==
    \A c \in Call :
        /\ call[c].pc = "done" /\ call[c].asked > 0
        /\ Alive(c) /\ call[c].kind # "read"
        => call[c].charged = Owed(call[c])

(***************************************************************************)
(* The client is told that a call is done only when its usage counts, so   *)
(* that the next call of the same client is checked against it             *)
(* (finishVoiceTake's recordUsage, streamGeneration); the results' socket  *)
(* is the exception.                                                       *)
(***************************************************************************)
CountsWhenTold ==
    \A c \in Call :
        call[c].pc = "tell" /\ Alive(c) /\ call[c].kind # "read" => call[c].charged > 0

-----------------------------------------------------------------------------
(* What the code says of itself.                                           *)

(***************************************************************************)
(* "a quota that runs out mid-batch keeps whatever was already translated  *)
(* and stops there" (translateQuestions): no word is sent to the model     *)
(* once what is recorded and what the batch itself has used reach the      *)
(* allowance.                                                              *)
(***************************************************************************)
BatchStopsAtAllowance ==
    [][\A c \in Call :
          call[c].kind = "batch" /\ call[c].asked > 0 /\ call'[c].asked > call[c].asked
              => tokens[WorkspaceOf(c)] + Owed(call[c]) < call[c].cap]_vars

(***************************************************************************)
(* "meaningful even when a stream failed midway, which is the case that    *)
(* must still be paid for" (CountedStream.Chars): a call that ends in a    *)
(* context that is not over is charged what came back, on the results'     *)
(* socket too.                                                             *)
(***************************************************************************)
ChargedInFull ==
    \A c \in Call :
        call[c].pc = "done" /\ call[c].asked > 0 /\ Alive(c)
            => call[c].charged = Owed(call[c])
=============================================================================
