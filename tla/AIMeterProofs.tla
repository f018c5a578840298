--------------------------- MODULE AIMeterProofs ---------------------------
(***************************************************************************)
(* What holds of every instance of AIMeter: its types; that a workspace,   *)
(* and the instance, go past what they are allowed by no more than the     *)
(* calls under way at once; that a suspension stops a loop within one      *)
(* call; that what is told done has been charged; that speech goes past    *)
(* its limits by no more than the other takes under way.                   *)
(***************************************************************************)
EXTENDS AIMeter, FiniteSetTheorems, TLAPS

\* What the fields of a call have to do with each other.
ShapeOf(k) ==
    /\ k.kind \notin Loop => k.words = 1
    /\ k.attached # 0 => k.kind = "collect"
    /\ k.seconds # 0 => k.kind = "speech"
    /\ k.begun => k.kind \in Loop
    /\ k.kind = "answers" /\ k.pc # "idle" => k.begun
    /\ k.asked <= k.words
    /\ k.since <= k.asked
    /\ k.fragments <= k.asked * MaxFragments
    /\ k.pc \in Checking \cup {"ask"} => k.asked < k.words
    /\ k.kind = "batch" /\ ~k.begun => k.asked = 0 /\ k.pc # "ask"
    /\ k.pc = "record" => k.kind # "read"
    /\ k.pc \in {"session", "survey"} => k.kind = "speech"
    /\ k.pc \notin {"tell", "done"} => k.charged = 0
    /\ k.pc = "answer" => k.asked > 0
    /\ k.pc = "idle" => k = Idle
    /\ k.kind = "read" /\ k.pc = "tell" => k.charged = 0

Shape == \A c \in Call : ShapeOf(call[c])

\* Told, or returning, with a context that is not over: charged in full.
PaidOf(k) ==
    /\ k.pc = "tell" \/ (k.pc = "done" /\ k.asked > 0)
    /\ k.link # "over" /\ k.kind # "read"
    => k.charged = Owed(k)

Paid == \A c \in Call : PaidOf(call[c])

\* Between the check of the suspension and the model, nothing was asked since it began.
StoppingOf(k) ==
    /\ k.since <= 1
    /\ k.pc \in {"breaker", "tier", "quota", "ask"} => k.since = 0

Stopping == \A c \in Call : suspended[WorkspaceOf(c)] => StoppingOf(call[c])

\* InFlight, of a call's record.
Flying(k) ==
    /\ k.asked > 0 \/ k.pc = "ask" \/ (k.begun /\ k.kind = "batch")
    /\ k.pc # "done"
    /\ k.charged = 0

\* Past the breaker, and not charged yet.
Committed(k) == Flying(k) \/ k.pc \in {"tier", "quota"}

CallsCommitted == {c \in Call : Committed(call[c])}

\* The instance's spend, with all that calls past the breaker may still be charged.
BudgetCommitted ==
    cost + Most * Cardinality(CallsCommitted) < DailyBudget + Most * Cardinality(Call) + empty

IInv == TypeOK /\ Shape /\ Paid /\ Stopping /\ OverrunBounded /\ BudgetCommitted

-----------------------------------------------------------------------------
(* Types, and the shape of calls.                                          *)

\* A fresh call has the shape of one.
LEMMA IdleShape == Idle \in CallRecord /\ ShapeOf(Idle)
<1>1. (CHOOSE s \in Survey : TRUE) \in Survey
  BY AllowedAssumption
<1> QED
  BY <1>1, NumbersAssumption, AllowedAssumption
     DEF Idle, CallRecord, ShapeOf, Stage, Checking, Settling, Kind, Loop

\* What a fresh call's fields are.
LEMMA IdleFields ==
  /\ Idle \in CallRecord
  /\ Idle.words = 1 /\ Idle.attached = 0 /\ Idle.seconds = 0 /\ Idle.begun = FALSE
  /\ Idle.asked = 0 /\ Idle.fragments = 0 /\ Idle.charged = 0 /\ Idle.since = 0
  /\ Idle.pc = "idle" /\ Idle.kind = "collect"
BY IdleShape DEF Idle

\* A call asked for, with nothing said of it yet.
Plain(k, pc, kind) ==
    /\ k \in CallRecord
    /\ k.words = 1 /\ k.attached = 0 /\ k.seconds = 0 /\ k.begun = FALSE
    /\ k.asked = 0 /\ k.fragments = 0 /\ k.charged = 0 /\ k.since = 0
    /\ k.pc = pc /\ k.kind = kind

LEMMA AskedFields ==
  ASSUME NEW pc \in {"session", "suspension", "record"}, NEW kind \in Kind, NEW s \in Survey
  PROVE  Plain(Asked(pc, kind, s), pc, kind)
BY IdleFields DEF Plain, Asked, CallRecord, Stage, Checking, Settling

\* A call as it is begun, before the model was asked for anything.
New(k) ==
    /\ k.asked = 0 /\ k.charged = 0 /\ k.since = 0
    /\ k.pc \in {"session", "suspension", "record"}
    /\ k.begun => k.kind = "answers"
    /\ k.pc = "record" => k.kind = "answers"
    /\ k.kind = "speech" => k.pc = "session"

\* A call that is begun has the shape of one.
LEMMA BeginShape ==
  ASSUME NEW c \in Call, NEW s \in Survey,
         \/ Ask(c, s) \/ Translate(c, s) \/ TranslateAnswers(c, s) \/ FinishTake(c, s)
  PROVE  \E k \in CallRecord : ShapeOf(k) /\ New(k) /\ Begin(c, k)
<1> DEFINE Fits(k) == k \in CallRecord /\ ShapeOf(k) /\ New(k)
<1>1. ASSUME NEW a \in {0, Attachment}
      PROVE  Fits([Asked("suspension", "collect", s) EXCEPT !.attached = a])
  <2> DEFINE a0 == Asked("suspension", "collect", s)
             k == [a0 EXCEPT !.attached = a]
  <2>1. Plain(a0, "suspension", "collect")
    BY AskedFields DEF Kind
  <2>2. k \in CallRecord
    BY <2>1, NumbersAssumption DEF Plain, CallRecord
  <2>3. ShapeOf(k) /\ New(k)
    BY <2>1, NumbersAssumption DEF Plain, ShapeOf, New, CallRecord, Checking, Loop
  <2> QED
    BY <2>2, <2>3
<1>2. ASSUME NEW kind \in {"stream", "read"} PROVE Fits(Asked("suspension", kind, s))
  <2> DEFINE a0 == Asked("suspension", kind, s)
  <2>1. Plain(a0, "suspension", kind)
    BY AskedFields DEF Kind
  <2>2. ShapeOf(a0) /\ New(a0)
    BY <2>1, NumbersAssumption DEF Plain, ShapeOf, New, CallRecord, Checking, Loop
  <2> QED
    BY <2>1, <2>2 DEF Plain
<1>3. ASSUME NEW n \in 1..MaxWords
      PROVE  Fits([Asked("suspension", "batch", s) EXCEPT !.words = n])
  <2> DEFINE a0 == Asked("suspension", "batch", s)
             k == [a0 EXCEPT !.words = n]
  <2>1. Plain(a0, "suspension", "batch")
    BY AskedFields DEF Kind
  <2>2. k \in CallRecord
    BY <2>1, NumbersAssumption DEF Plain, CallRecord
  <2>3. ShapeOf(k) /\ New(k)
    BY <2>1, NumbersAssumption DEF Plain, ShapeOf, New, CallRecord, Checking, Loop
  <2> QED
    BY <2>2, <2>3
<1>4. ASSUME NEW n \in 1..MaxWords
      PROVE  Fits([[Asked("suspension", "answers", s) EXCEPT !.begun = TRUE] EXCEPT !.words = n])
  <2> DEFINE a0 == Asked("suspension", "answers", s)
             k == [[a0 EXCEPT !.begun = TRUE] EXCEPT !.words = n]
  <2>1. Plain(a0, "suspension", "answers")
    BY AskedFields DEF Kind
  <2>2. k \in CallRecord
    BY <2>1, NumbersAssumption DEF Plain, CallRecord
  <2>3. ShapeOf(k) /\ New(k)
    BY <2>1, NumbersAssumption DEF Plain, ShapeOf, New, CallRecord, Checking, Loop
  <2> QED
    BY <2>2, <2>3
<1>5. Fits([Asked("record", "answers", s) EXCEPT !.begun = TRUE])
  <2> DEFINE a0 == Asked("record", "answers", s)
             k == [a0 EXCEPT !.begun = TRUE]
  <2>1. Plain(a0, "record", "answers")
    BY AskedFields DEF Kind
  <2>2. k \in CallRecord
    BY <2>1, NumbersAssumption DEF Plain, CallRecord
  <2>3. ShapeOf(k) /\ New(k)
    BY <2>1, NumbersAssumption DEF Plain, ShapeOf, New, CallRecord, Checking, Loop
  <2> QED
    BY <2>2, <2>3
<1>6. ASSUME NEW n \in 1..MaxTake, NEW x \in Session \cup {NoSession}
      PROVE  Fits([Asked("session", "speech", s) EXCEPT !.seconds = n, !.session = x])
  <2> DEFINE a0 == Asked("session", "speech", s)
             k == [a0 EXCEPT !.seconds = n, !.session = x]
  <2>1. Plain(a0, "session", "speech")
    BY AskedFields DEF Kind
  <2>2. k \in CallRecord
    <3>1. n \in 0..MaxTake /\ k = [[a0 EXCEPT !.seconds = n] EXCEPT !.session = x]
      BY NumbersAssumption
    <3>2. [a0 EXCEPT !.seconds = n] \in CallRecord
      BY <2>1, <3>1 DEF Plain, CallRecord
    <3> QED
      BY <3>1, <3>2 DEF CallRecord
  <2>3. ShapeOf(k) /\ New(k)
    BY <2>1, NumbersAssumption DEF Plain, ShapeOf, New, CallRecord, Checking, Loop
  <2> QED
    BY <2>2, <2>3
<1>7. \E k : Fits(k) /\ Begin(c, k)
  <2>1. CASE Ask(c, s)
    BY <2>1, <1>1, <1>2 DEF Ask, Fits
  <2>2. CASE Translate(c, s)
    BY <2>2, <1>3 DEF Translate
  <2>3. CASE TranslateAnswers(c, s)
    BY <2>3, <1>4, <1>5 DEF TranslateAnswers
  <2>4. CASE FinishTake(c, s)
    BY <2>4, <1>6 DEF FinishTake
  <2> QED
    BY <2>1, <2>2, <2>3, <2>4
<1> QED
  BY <1>7

\* Where a call at `k` may move without being asked, answered or charged.
MayMove(k, pc) ==
    /\ k.pc # "idle" /\ pc \in Stage \ {"idle", "answer"}
    /\ pc = "ask" /\ k.kind = "batch" => k.begun
    /\ pc \in Checking \cup {"ask"} => k.asked < k.words
    /\ pc = "record" => k.kind # "read"
    /\ pc \in {"session", "survey"} => k.kind = "speech"
    /\ pc \notin {"tell", "done"} => k.charged = 0
    /\ k.kind = "read" /\ pc = "tell" => k.charged = 0
    /\ PaidOf([k EXCEPT !.pc = pc])

LEMMA MovedShape ==
  ASSUME NEW k \in CallRecord, ShapeOf(k), NEW pc, MayMove(k, pc)
  PROVE  LET moved == [k EXCEPT !.pc = pc]
         IN moved \in CallRecord /\ ShapeOf(moved) /\ PaidOf(moved)
<1> DEFINE moved == [k EXCEPT !.pc = pc]
<1>1. moved \in CallRecord /\ moved.pc = pc
  BY DEF MayMove, CallRecord
<1>2. ShapeOf(moved)
  BY <1>1 DEF MayMove, ShapeOf, CallRecord
<1> QED
  BY <1>1, <1>2 DEF MayMove

\* A step of one call that charges nothing and begins nothing.
Quiet(c, k) ==
    /\ call' = [call EXCEPT ![c] = k]
    /\ k \in CallRecord /\ ShapeOf(k) /\ PaidOf(k)
    /\ k.survey = call[c].survey
    /\ UNCHANGED <<recorded, standing>>
    /\ spent' \in [Session -> Nat]
    /\ Flying(k) => Flying(call[c]) \/ tokens[WorkspaceOf(c)] < TopCap
    /\ Committed(k) => Committed(call[c]) \/ cost < DailyBudget
    /\ suspended[WorkspaceOf(c)] /\ StoppingOf(call[c]) => StoppingOf(k)

LEMMA QuietMove ==
  ASSUME TypeOK, Shape, Paid, NEW c \in Call, NEW pc, MayMove(call[c], pc), Move(c, pc),
         UNCHANGED <<recorded, standing>>, spent' \in [Session -> Nat],
         LET k == [call[c] EXCEPT !.pc = pc]
         IN /\ Flying(k) => Flying(call[c]) \/ tokens[WorkspaceOf(c)] < TopCap
            /\ Committed(k) => Committed(call[c]) \/ cost < DailyBudget
            /\ suspended[WorkspaceOf(c)] /\ StoppingOf(call[c]) => StoppingOf(k)
  PROVE  \E k : Quiet(c, k)
<1> DEFINE k == [call[c] EXCEPT !.pc = pc]
<1>1. call[c] \in CallRecord /\ ShapeOf(call[c])
  BY DEF TypeOK, Shape
<1>2. k \in CallRecord /\ ShapeOf(k) /\ PaidOf(k)
  BY <1>1, MovedShape
<1>3. call' = [call EXCEPT ![c] = k] /\ k.survey = call[c].survey
  BY <1>1 DEF Move, CallRecord
<1> QED
  BY <1>2, <1>3 DEF Quiet

LEMMA RefusedMoves ==
  ASSUME TypeOK, Shape, Paid, NEW c \in Call, call[c].pc \in Checking \cup {"ask"},
         Move(c, Refused(c)), UNCHANGED <<recorded, standing>>, spent' \in [Session -> Nat]
  PROVE  \E k : Quiet(c, k)
<1> DEFINE k == [call[c] EXCEPT !.pc = Refused(c)]
<1>1. call[c] \in CallRecord /\ ShapeOf(call[c]) /\ PaidOf(call[c])
  BY DEF TypeOK, Shape, Paid
<1>2. MayMove(call[c], Refused(c))
  BY <1>1 DEF MayMove, Refused, PaidOf, ShapeOf, CallRecord, Checking, Stage, Settling, Loop
<1>3. k \in CallRecord /\ k.pc \in {"record", "done"} /\ k.since = call[c].since
  BY <1>1 DEF Refused, CallRecord, Stage, Settling, Checking
<1>4. Flying(k) => Flying(call[c])
  BY <1>1 DEF Flying, Refused, CallRecord, ShapeOf, Checking
<1>5. Committed(k) => Committed(call[c])
  BY <1>3, <1>4 DEF Committed
<1>6. StoppingOf(call[c]) => StoppingOf(k)
  BY <1>3 DEF StoppingOf
<1> QED
  BY <1>2, <1>4, <1>5, <1>6, QuietMove

LEMMA SessionQuiet ==
  ASSUME TypeOK, Shape, Paid, NEW c \in Call, RemainingInSession(c)
  PROVE  \E k : Quiet(c, k)
<1>1. call[c] \in CallRecord /\ ShapeOf(call[c]) /\ PaidOf(call[c])
  BY DEF TypeOK, Shape, Paid
<1>2. UNCHANGED <<recorded, standing>> /\ spent' \in [Session -> Nat]
  BY DEF RemainingInSession, TypeOK
<1>3. CASE Move(c, "done")
  <2> DEFINE k == [call[c] EXCEPT !.pc = "done"]
  <2>1. MayMove(call[c], "done")
    BY <1>1 DEF RemainingInSession, AtStage, Alive, MayMove, PaidOf, ShapeOf, CallRecord, Checking, Stage, Settling, Loop, Kind
  <2>2. /\ Flying(k) => Flying(call[c]) \/ tokens[WorkspaceOf(c)] < TopCap
        /\ Committed(k) => Committed(call[c]) \/ cost < DailyBudget
        /\ suspended[WorkspaceOf(c)] /\ StoppingOf(call[c]) => StoppingOf(k)
    BY <1>1, NumbersAssumption
       DEF RemainingInSession, AtStage, Alive, Flying, Committed, StoppingOf, TypeOK, CallRecord,
           ShapeOf, Checking, Settling, Loop
  <2> QED
    BY <1>2, <1>3, <2>1, <2>2, QuietMove
<1>4. CASE Move(c, "survey")
  <2> DEFINE k == [call[c] EXCEPT !.pc = "survey"]
  <2>1. MayMove(call[c], "survey")
    BY <1>1 DEF RemainingInSession, AtStage, Alive, MayMove, PaidOf, ShapeOf, CallRecord, Checking, Stage, Settling, Loop, Kind
  <2>2. /\ Flying(k) => Flying(call[c]) \/ tokens[WorkspaceOf(c)] < TopCap
        /\ Committed(k) => Committed(call[c]) \/ cost < DailyBudget
        /\ suspended[WorkspaceOf(c)] /\ StoppingOf(call[c]) => StoppingOf(k)
    BY <1>1, NumbersAssumption
       DEF RemainingInSession, AtStage, Alive, Flying, Committed, StoppingOf, TypeOK, CallRecord,
           ShapeOf, Checking, Settling, Loop
  <2> QED
    BY <1>2, <1>4, <2>1, <2>2, QuietMove
<1> QED
  BY <1>3, <1>4 DEF RemainingInSession

LEMMA SurveyQuiet ==
  ASSUME TypeOK, Shape, Paid, NEW c \in Call, VoiceSecondsLeft(c)
  PROVE  \E k : Quiet(c, k)
<1>1. call[c] \in CallRecord /\ ShapeOf(call[c]) /\ PaidOf(call[c])
  BY DEF TypeOK, Shape, Paid
<1>2. UNCHANGED <<recorded, standing>> /\ spent' \in [Session -> Nat]
  BY DEF VoiceSecondsLeft, TypeOK
<1>3. CASE Move(c, "done")
  <2> DEFINE k == [call[c] EXCEPT !.pc = "done"]
  <2>1. MayMove(call[c], "done")
    BY <1>1 DEF VoiceSecondsLeft, AtStage, Alive, MayMove, PaidOf, ShapeOf, CallRecord, Checking, Stage, Settling, Loop, Kind
  <2>2. /\ Flying(k) => Flying(call[c]) \/ tokens[WorkspaceOf(c)] < TopCap
        /\ Committed(k) => Committed(call[c]) \/ cost < DailyBudget
        /\ suspended[WorkspaceOf(c)] /\ StoppingOf(call[c]) => StoppingOf(k)
    BY <1>1, NumbersAssumption
       DEF VoiceSecondsLeft, AtStage, Alive, Flying, Committed, StoppingOf, TypeOK, CallRecord,
           ShapeOf, Checking, Settling, Loop
  <2> QED
    BY <1>2, <1>3, <2>1, <2>2, QuietMove
<1>4. CASE Move(c, "suspension")
  <2> DEFINE k == [call[c] EXCEPT !.pc = "suspension"]
  <2>1. MayMove(call[c], "suspension")
    BY <1>1 DEF VoiceSecondsLeft, AtStage, Alive, MayMove, PaidOf, ShapeOf, CallRecord, Checking, Stage, Settling, Loop, Kind
  <2>2. /\ Flying(k) => Flying(call[c]) \/ tokens[WorkspaceOf(c)] < TopCap
        /\ Committed(k) => Committed(call[c]) \/ cost < DailyBudget
        /\ suspended[WorkspaceOf(c)] /\ StoppingOf(call[c]) => StoppingOf(k)
    BY <1>1, NumbersAssumption
       DEF VoiceSecondsLeft, AtStage, Alive, Flying, Committed, StoppingOf, TypeOK, CallRecord,
           ShapeOf, Checking, Settling, Loop
  <2> QED
    BY <1>2, <1>4, <2>1, <2>2, QuietMove
<1> QED
  BY <1>3, <1>4 DEF VoiceSecondsLeft

LEMMA SuspensionQuiet ==
  ASSUME TypeOK, Shape, Paid, NEW c \in Call, CheckSuspension(c)
  PROVE  \E k : Quiet(c, k)
<1>1. call[c] \in CallRecord /\ ShapeOf(call[c]) /\ PaidOf(call[c])
  BY DEF TypeOK, Shape, Paid
<1>2. UNCHANGED <<recorded, standing>> /\ spent' \in [Session -> Nat]
  BY DEF CheckSuspension, TypeOK
<1>3. CASE Move(c, Refused(c))
  BY <1>1, <1>2, <1>3, RefusedMoves DEF CheckSuspension, AtStage, Checking
<1>4. CASE Move(c, "breaker") /\ ~suspended[WorkspaceOf(c)]
  <2> DEFINE k == [call[c] EXCEPT !.pc = "breaker"]
  <2>1. MayMove(call[c], "breaker")
    BY <1>1 DEF CheckSuspension, AtStage, Alive, MayMove, PaidOf, ShapeOf, CallRecord, Checking, Stage, Settling, Loop, Kind
  <2>2. /\ Flying(k) => Flying(call[c]) \/ tokens[WorkspaceOf(c)] < TopCap
        /\ Committed(k) => Committed(call[c]) \/ cost < DailyBudget
        /\ suspended[WorkspaceOf(c)] /\ StoppingOf(call[c]) => StoppingOf(k)
    BY <1>1, <1>4, NumbersAssumption
       DEF CheckSuspension, AtStage, Alive, Flying, Committed, StoppingOf, TypeOK, CallRecord,
           ShapeOf, Checking, Settling, Loop
  <2> QED
    BY <1>2, <1>4, <2>1, <2>2, QuietMove
<1> QED
  BY <1>3, <1>4 DEF CheckSuspension

LEMMA BreakerQuiet ==
  ASSUME TypeOK, Shape, Paid, NEW c \in Call, CheckBreaker(c)
  PROVE  \E k : Quiet(c, k)
<1>1. call[c] \in CallRecord /\ ShapeOf(call[c]) /\ PaidOf(call[c])
  BY DEF TypeOK, Shape, Paid
<1>2. UNCHANGED <<recorded, standing>> /\ spent' \in [Session -> Nat]
  BY DEF CheckBreaker, TypeOK
<1>3. CASE Move(c, Refused(c))
  BY <1>1, <1>2, <1>3, RefusedMoves DEF CheckBreaker, AtStage, Checking
<1>4. CASE Move(c, "tier") /\ ~(cost >= DailyBudget)
  <2> DEFINE k == [call[c] EXCEPT !.pc = "tier"]
  <2>1. MayMove(call[c], "tier")
    BY <1>1 DEF CheckBreaker, AtStage, Alive, MayMove, PaidOf, ShapeOf, CallRecord, Checking, Stage, Settling, Loop, Kind
  <2>2. /\ Flying(k) => Flying(call[c]) \/ tokens[WorkspaceOf(c)] < TopCap
        /\ Committed(k) => Committed(call[c]) \/ cost < DailyBudget
        /\ suspended[WorkspaceOf(c)] /\ StoppingOf(call[c]) => StoppingOf(k)
    BY <1>1, <1>4, NumbersAssumption
       DEF CheckBreaker, AtStage, Alive, Flying, Committed, StoppingOf, TypeOK, CallRecord,
           ShapeOf, Checking, Settling, Loop
  <2> QED
    BY <1>2, <1>4, <2>1, <2>2, QuietMove
<1> QED
  BY <1>3, <1>4 DEF CheckBreaker

LEMMA FailsQuiet ==
  ASSUME TypeOK, Shape, Paid, NEW c \in Call, CheckFails(c)
  PROVE  \E k : Quiet(c, k)
<1>1. call[c] \in CallRecord /\ ShapeOf(call[c]) /\ PaidOf(call[c])
  BY DEF TypeOK, Shape, Paid
<1>2. UNCHANGED <<recorded, standing>> /\ spent' \in [Session -> Nat]
  BY DEF CheckFails, TypeOK
<1>3. CASE Move(c, Refused(c))
  BY <1>1, <1>2, <1>3, RefusedMoves DEF CheckFails, AtStage, Checking
<1> QED
  BY <1>3 DEF CheckFails

LEMMA AskFailsQuiet ==
  ASSUME TypeOK, Shape, Paid, NEW c \in Call, AskFails(c)
  PROVE  \E k : Quiet(c, k)
<1>1. call[c] \in CallRecord /\ ShapeOf(call[c]) /\ PaidOf(call[c])
  BY DEF TypeOK, Shape, Paid
<1>2. UNCHANGED <<recorded, standing>> /\ spent' \in [Session -> Nat]
  BY DEF AskFails, TypeOK
<1>3. CASE Move(c, Refused(c))
  BY <1>1, <1>2, <1>3, RefusedMoves DEF AskFails, AtStage, Checking
<1> QED
  BY <1>3 DEF AskFails

LEMMA StreamEndsQuiet ==
  ASSUME TypeOK, Shape, Paid, NEW c \in Call, StreamEnds(c)
  PROVE  \E k : Quiet(c, k)
<1>1. call[c] \in CallRecord /\ ShapeOf(call[c]) /\ PaidOf(call[c])
  BY DEF TypeOK, Shape, Paid
<1>2. UNCHANGED <<recorded, standing>> /\ spent' \in [Session -> Nat]
  BY DEF StreamEnds, TypeOK
<1>3. CASE Move(c, Then(c))
  <2> DEFINE k == [call[c] EXCEPT !.pc = Then(c)]
  <2>1. MayMove(call[c], Then(c))
    BY <1>1 DEF StreamEnds, AtStage, Alive, MayMove, PaidOf, ShapeOf, CallRecord, Checking, Stage, Settling, Loop, Kind, Then, WordToWord
  <2>2. /\ Flying(k) => Flying(call[c]) \/ tokens[WorkspaceOf(c)] < TopCap
        /\ Committed(k) => Committed(call[c]) \/ cost < DailyBudget
        /\ suspended[WorkspaceOf(c)] /\ StoppingOf(call[c]) => StoppingOf(k)
    BY <1>1, NumbersAssumption
       DEF StreamEnds, AtStage, Alive, Flying, Committed, StoppingOf, TypeOK, CallRecord,
           ShapeOf, Checking, Settling, Loop, Then, WordToWord
  <2> QED
    BY <1>2, <1>3, <2>1, <2>2, QuietMove
<1> QED
  BY <1>3 DEF StreamEnds

LEMMA StreamFailsQuiet ==
  ASSUME TypeOK, Shape, Paid, NEW c \in Call, StreamFails(c)
  PROVE  \E k : Quiet(c, k)
<1>1. call[c] \in CallRecord /\ ShapeOf(call[c]) /\ PaidOf(call[c])
  BY DEF TypeOK, Shape, Paid
<1>2. UNCHANGED <<recorded, standing>> /\ spent' \in [Session -> Nat]
  BY DEF StreamFails, TypeOK
<1>3. CASE Move(c, Then(c))
  <2> DEFINE k == [call[c] EXCEPT !.pc = Then(c)]
  <2>1. MayMove(call[c], Then(c))
    BY <1>1 DEF StreamFails, AtStage, Alive, MayMove, PaidOf, ShapeOf, CallRecord, Checking, Stage, Settling, Loop, Kind, Then, WordToWord
  <2>2. /\ Flying(k) => Flying(call[c]) \/ tokens[WorkspaceOf(c)] < TopCap
        /\ Committed(k) => Committed(call[c]) \/ cost < DailyBudget
        /\ suspended[WorkspaceOf(c)] /\ StoppingOf(call[c]) => StoppingOf(k)
    BY <1>1, NumbersAssumption
       DEF StreamFails, AtStage, Alive, Flying, Committed, StoppingOf, TypeOK, CallRecord,
           ShapeOf, Checking, Settling, Loop, Then, WordToWord
  <2> QED
    BY <1>2, <1>3, <2>1, <2>2, QuietMove
<1>4. CASE Move(c, IF call[c].kind \in Loop THEN "record" ELSE "settle")
  <2> DEFINE k == [call[c] EXCEPT !.pc = IF call[c].kind \in Loop THEN "record" ELSE "settle"]
  <2>1. MayMove(call[c], IF call[c].kind \in Loop THEN "record" ELSE "settle")
    BY <1>1 DEF StreamFails, AtStage, Alive, MayMove, PaidOf, ShapeOf, CallRecord, Checking, Stage, Settling, Loop, Kind, Then, WordToWord
  <2>2. /\ Flying(k) => Flying(call[c]) \/ tokens[WorkspaceOf(c)] < TopCap
        /\ Committed(k) => Committed(call[c]) \/ cost < DailyBudget
        /\ suspended[WorkspaceOf(c)] /\ StoppingOf(call[c]) => StoppingOf(k)
    BY <1>1, NumbersAssumption
       DEF StreamFails, AtStage, Alive, Flying, Committed, StoppingOf, TypeOK, CallRecord,
           ShapeOf, Checking, Settling, Loop, Then, WordToWord
  <2> QED
    BY <1>2, <1>4, <2>1, <2>2, QuietMove
<1> QED
  BY <1>3, <1>4 DEF StreamFails

LEMMA RecordFailsQuiet ==
  ASSUME TypeOK, Shape, Paid, NEW c \in Call, RecordFails(c)
  PROVE  \E k : Quiet(c, k)
<1>1. call[c] \in CallRecord /\ ShapeOf(call[c]) /\ PaidOf(call[c])
  BY DEF TypeOK, Shape, Paid
<1>2. UNCHANGED <<recorded, standing>> /\ spent' \in [Session -> Nat]
  <2>1. call[c].seconds \in Nat /\ call[c].session \in Session \cup {NoSession}
    BY <1>1, NumbersAssumption DEF CallRecord
  <2>2. spent' = spent \/ spent' = [spent EXCEPT ![call[c].session] = @ + call[c].seconds]
    BY DEF RecordFails, Spend
  <2> QED
    BY <2>1, <2>2 DEF RecordFails, TypeOK
<1>3. CASE Move(c, After(c))
  <2> DEFINE k == [call[c] EXCEPT !.pc = After(c)]
  <2>1. MayMove(call[c], After(c))
    BY <1>1 DEF RecordFails, AtStage, Alive, MayMove, PaidOf, ShapeOf, CallRecord, Checking, Stage, Settling, Loop, Kind, After
  <2>2. /\ Flying(k) => Flying(call[c]) \/ tokens[WorkspaceOf(c)] < TopCap
        /\ Committed(k) => Committed(call[c]) \/ cost < DailyBudget
        /\ suspended[WorkspaceOf(c)] /\ StoppingOf(call[c]) => StoppingOf(k)
    BY <1>1, NumbersAssumption
       DEF RecordFails, AtStage, Alive, Flying, Committed, StoppingOf, TypeOK, CallRecord,
           ShapeOf, Checking, Settling, Loop, After
  <2> QED
    BY <1>2, <1>3, <2>1, <2>2, QuietMove
<1> QED
  BY <1>3 DEF RecordFails

LEMMA TellQuiet ==
  ASSUME TypeOK, Shape, Paid, NEW c \in Call, Tell(c)
  PROVE  \E k : Quiet(c, k)
<1>1. call[c] \in CallRecord /\ ShapeOf(call[c]) /\ PaidOf(call[c])
  BY DEF TypeOK, Shape, Paid
<1>2. UNCHANGED <<recorded, standing>> /\ spent' \in [Session -> Nat]
  BY DEF Tell, TypeOK
<1>3. CASE Move(c, IF call[c].kind = "read" THEN "settle" ELSE "done")
  <2> DEFINE k == [call[c] EXCEPT !.pc = IF call[c].kind = "read" THEN "settle" ELSE "done"]
  <2>1. MayMove(call[c], IF call[c].kind = "read" THEN "settle" ELSE "done")
    <3>1. AtStage(c, "tell") /\ k \in CallRecord
      BY <1>1 DEF Tell, CallRecord, Stage, Settling
    <3>2. Owed(k) = Owed(call[c])
      BY <1>1, <3>1 DEF Owed, Chars, CallRecord
    <3>3. PaidOf(k)
      BY <1>1, <3>1, <3>2 DEF AtStage, PaidOf, CallRecord
    <3> QED
      BY <1>1, <3>1, <3>3 DEF AtStage, MayMove, ShapeOf, CallRecord, Checking, Stage, Settling
  <2>2. /\ Flying(k) => Flying(call[c]) \/ tokens[WorkspaceOf(c)] < TopCap
        /\ Committed(k) => Committed(call[c]) \/ cost < DailyBudget
        /\ suspended[WorkspaceOf(c)] /\ StoppingOf(call[c]) => StoppingOf(k)
    BY <1>1, NumbersAssumption
       DEF Tell, AtStage, Alive, Flying, Committed, StoppingOf, TypeOK, CallRecord,
           ShapeOf, Checking, Settling, Loop
  <2> QED
    BY <1>2, <1>3, <2>1, <2>2, QuietMove
<1> QED
  BY <1>3 DEF Tell

LEMMA ReadTierQuiet ==
  ASSUME TypeOK, Shape, Paid, NEW c \in Call, ReadTier(c)
  PROVE  \E k : Quiet(c, k)
<1>1. call[c] \in CallRecord /\ ShapeOf(call[c]) /\ PaidOf(call[c])
  BY DEF TypeOK, Shape, Paid
<1> DEFINE k == [call[c] EXCEPT !.pc = "quota", !.cap = For(tier[WorkspaceOf(c)])]
<1>2. /\ call' = [call EXCEPT ![c] = k]
      /\ UNCHANGED <<recorded, standing>> /\ spent' \in [Session -> Nat]
  BY <1>1 DEF ReadTier, TypeOK, CallRecord
<1>3. k \in CallRecord
  BY <1>1, NumbersAssumption
     DEF ReadTier, AtStage, ShapeOf, CallRecord, Stage, Checking, Settling, For
<1>4. ShapeOf(k) /\ PaidOf(k) /\ k.survey = call[c].survey
  BY <1>1, NumbersAssumption
     DEF ReadTier, AtStage, Alive, ShapeOf, PaidOf, CallRecord, Checking, Loop, Socket
<1>5. /\ Flying(k) => Flying(call[c]) \/ tokens[WorkspaceOf(c)] < TopCap
      /\ Committed(k) => Committed(call[c]) \/ cost < DailyBudget
      /\ suspended[WorkspaceOf(c)] /\ StoppingOf(call[c]) => StoppingOf(k)
  BY <1>1, NumbersAssumption
     DEF ReadTier, AtStage, ShapeOf, Flying, Committed, StoppingOf, CallRecord, Checking
<1> QED
  BY <1>2, <1>3, <1>4, <1>5 DEF Quiet

LEMMA AskModelQuiet ==
  ASSUME TypeOK, Shape, Paid, NEW c \in Call, AskModel(c)
  PROVE  \E k : Quiet(c, k)
<1>1. call[c] \in CallRecord /\ ShapeOf(call[c]) /\ PaidOf(call[c])
  BY DEF TypeOK, Shape, Paid
<1> DEFINE k == [call[c] EXCEPT !.pc = "answer", !.asked = @ + 1, !.since = @ + 1]
<1>2. /\ call' = [call EXCEPT ![c] = k]
      /\ UNCHANGED <<recorded, standing>> /\ spent' \in [Session -> Nat]
  BY <1>1 DEF AskModel, TypeOK, CallRecord
<1>3. /\ call[c].pc = "ask" /\ call[c].asked < call[c].words /\ call[c].words \in 1..MaxWords
      /\ call[c].asked \in 0..MaxWords /\ call[c].since \in 0..MaxWords
  BY <1>1 DEF AskModel, AtStage, ShapeOf, CallRecord, Checking
<1>4. k \in CallRecord /\ ShapeOf(k) /\ PaidOf(k) /\ k.survey = call[c].survey
  <2>1. call[c].asked + 1 \in 0..MaxWords
    BY <1>3, NumbersAssumption
  <2>2. call[c].since + 1 \in 0..MaxWords
    <3>1. call[c].since <= call[c].asked
      BY <1>1 DEF ShapeOf
    <3> QED
      BY <1>3, <3>1, NumbersAssumption
  <2>3. k \in CallRecord
    BY <1>1, <2>1, <2>2 DEF CallRecord, Stage
  <2>4. /\ k.asked = call[c].asked + 1 /\ k.fragments = call[c].fragments
        /\ k.since = call[c].since + 1 /\ k.pc = "answer" /\ k.words = call[c].words
        /\ k.kind = call[c].kind /\ k.begun = call[c].begun /\ k.charged = call[c].charged
        /\ k.attached = call[c].attached /\ k.seconds = call[c].seconds
    BY <1>1 DEF CallRecord
  <2>5. k.fragments <= k.asked * MaxFragments
    <3>1. call[c].fragments <= call[c].asked * MaxFragments /\ call[c].fragments \in Nat
      BY <1>1, NumbersAssumption DEF ShapeOf, CallRecord
    <3>2. (call[c].asked + 1) * MaxFragments = call[c].asked * MaxFragments + MaxFragments
      BY <1>3, NumbersAssumption
    <3> QED
      BY <1>3, <2>4, <3>1, <3>2, NumbersAssumption
  <2>6. ShapeOf(k)
    BY <1>1, <1>3, <2>4, <2>5 DEF ShapeOf, CallRecord, Checking, Loop
  <2> QED
    BY <1>1, <2>3, <2>6 DEF PaidOf, CallRecord
<1>5. /\ Flying(k) => Flying(call[c]) \/ tokens[WorkspaceOf(c)] < TopCap
      /\ Committed(k) => Committed(call[c]) \/ cost < DailyBudget
      /\ suspended[WorkspaceOf(c)] /\ StoppingOf(call[c]) => StoppingOf(k)
  BY <1>1, NumbersAssumption
     DEF AskModel, AtStage, ShapeOf, Flying, Committed, StoppingOf, CallRecord, Checking
<1> QED
  BY <1>2, <1>4, <1>5 DEF Quiet

LEMMA RecvQuiet ==
  ASSUME TypeOK, Shape, Paid, NEW c \in Call, Recv(c)
  PROVE  \E k : Quiet(c, k)
<1>1. call[c] \in CallRecord /\ ShapeOf(call[c]) /\ PaidOf(call[c])
  BY DEF TypeOK, Shape, Paid
<1> DEFINE k == [call[c] EXCEPT !.fragments = @ + 1,
                             !.pc = IF call[c].kind \in Socket /\ call[c].link # "open"
                                      THEN "settle" ELSE "answer"]
<1>2. /\ call' = [call EXCEPT ![c] = k]
      /\ UNCHANGED <<recorded, standing>> /\ spent' \in [Session -> Nat]
  BY <1>1 DEF Recv, TypeOK, CallRecord
<1>3. k \in CallRecord
  <2>1. call[c].fragments + 1 \in 0..(MaxWords * MaxFragments)
    <3>1. call[c].fragments < call[c].asked * MaxFragments /\ call[c].fragments \in Nat
      BY <1>1, NumbersAssumption DEF Recv, CallRecord
    <3>2. call[c].asked * MaxFragments <= MaxWords * MaxFragments
      BY <1>1, NumbersAssumption DEF CallRecord
    <3>3. /\ call[c].asked * MaxFragments \in Nat /\ MaxWords * MaxFragments \in Nat
      BY <1>1, NumbersAssumption DEF CallRecord
    <3> QED
      BY <3>1, <3>2, <3>3
  <2> QED
    BY <1>1, <2>1 DEF CallRecord, Stage, Settling
<1>4. ShapeOf(k) /\ PaidOf(k) /\ k.survey = call[c].survey
  BY <1>1, NumbersAssumption
     DEF Recv, AtStage, Alive, ShapeOf, PaidOf, CallRecord, Checking, Loop, Socket
<1>5. /\ Flying(k) => Flying(call[c]) \/ tokens[WorkspaceOf(c)] < TopCap
      /\ Committed(k) => Committed(call[c]) \/ cost < DailyBudget
      /\ suspended[WorkspaceOf(c)] /\ StoppingOf(call[c]) => StoppingOf(k)
  BY <1>1, NumbersAssumption
     DEF Recv, AtStage, ShapeOf, Flying, Committed, StoppingOf, CallRecord, Checking
<1> QED
  BY <1>2, <1>3, <1>4, <1>5 DEF Quiet

LEMMA QuotaQuiet ==
  ASSUME TypeOK, Shape, Paid, NEW c \in Call, CheckQuota(c)
  PROVE  \E k : Quiet(c, k)
<1>1. call[c] \in CallRecord /\ ShapeOf(call[c]) /\ PaidOf(call[c])
  BY DEF TypeOK, Shape, Paid
<1>2. UNCHANGED <<recorded, standing>> /\ spent' \in [Session -> Nat]
  BY DEF CheckQuota, TypeOK
<1>3. CASE Move(c, Refused(c))
  BY <1>1, <1>2, <1>3, RefusedMoves DEF CheckQuota, AtStage, Checking
<1>4. CASE Within(c) /\ ~(call[c].kind = "batch" /\ ~call[c].begun) /\ Move(c, "ask")
  <2> DEFINE k == [call[c] EXCEPT !.pc = "ask"]
  <2>1. MayMove(call[c], "ask")
    BY <1>1, <1>4 DEF CheckQuota, AtStage, MayMove, PaidOf, ShapeOf, CallRecord, Checking, Stage
  <2>2. tokens[WorkspaceOf(c)] < TopCap
    BY <1>1, <1>4, NumbersAssumption, OwnerAssumption
       DEF Within, TopCap, Larger, CallRecord, TypeOK, WorkspaceOf
  <2>3. /\ Committed(k) => Committed(call[c])
        /\ suspended[WorkspaceOf(c)] /\ StoppingOf(call[c]) => StoppingOf(k)
    BY <1>1 DEF CheckQuota, AtStage, Committed, Flying, StoppingOf, CallRecord
  <2> QED
    BY <1>2, <1>4, <2>1, <2>2, <2>3, QuietMove
<1>5. CASE /\ Within(c) /\ call[c].kind = "batch" /\ ~call[c].begun
           /\ call' = [call EXCEPT ![c].pc = "suspension", ![c].begun = TRUE]
  <2> DEFINE k == [call[c] EXCEPT !.pc = "suspension", !.begun = TRUE]
  <2>1. call' = [call EXCEPT ![c] = k]
    BY <1>1, <1>5 DEF TypeOK, CallRecord
  <2>2. /\ k \in CallRecord /\ k.survey = call[c].survey
        /\ k.pc = "suspension" /\ k.begun = TRUE /\ k.kind = "batch" /\ k.since = call[c].since
    BY <1>1, <1>5 DEF CallRecord, Stage, Checking
  <2>3. ShapeOf(k) /\ PaidOf(k)
    BY <1>1, <1>5, <2>2 DEF CheckQuota, AtStage, ShapeOf, PaidOf, CallRecord, Checking, Loop
  <2>4. tokens[WorkspaceOf(c)] < TopCap
    BY <1>1, <1>5, NumbersAssumption, OwnerAssumption
       DEF Within, TopCap, Larger, CallRecord, TypeOK, WorkspaceOf
  <2>5. Committed(call[c]) /\ (StoppingOf(call[c]) => StoppingOf(k))
    BY <1>1, <2>2 DEF CheckQuota, AtStage, Committed, StoppingOf
  <2> QED
    BY <1>2, <2>1, <2>2, <2>3, <2>4, <2>5 DEF Quiet
<1> QED
  BY <1>3, <1>4, <1>5 DEF CheckQuota

LEMMA LeaveQuiet ==
  ASSUME TypeOK, Shape, Paid, NEW c \in Call, Leave(c)
  PROVE  \E k : Quiet(c, k)
<1>1. call[c] \in CallRecord /\ ShapeOf(call[c]) /\ PaidOf(call[c])
  BY DEF TypeOK, Shape, Paid
<1>2. UNCHANGED <<recorded, standing>> /\ spent' \in [Session -> Nat]
  BY DEF Leave, TypeOK
<1>3. PICK link \in {"closed", "over"} :
         /\ call' = [call EXCEPT ![c].link = link]
         /\ call[c].pc \notin {"idle", "done"} /\ call[c].link # "over"
  BY DEF Leave, Alive
<1> DEFINE k == [call[c] EXCEPT !.link = link]
<1>4. call' = [call EXCEPT ![c] = k]
  BY <1>1, <1>3 DEF TypeOK, CallRecord
<1>5. k \in CallRecord /\ Owed(k) = Owed(call[c])
  BY <1>1, <1>3 DEF CallRecord, Owed, Chars
<1>6. ShapeOf(k) /\ PaidOf(k) /\ k.survey = call[c].survey
  BY <1>1, <1>3, <1>5 DEF ShapeOf, PaidOf, CallRecord
<1>7. /\ Flying(k) => Flying(call[c])
      /\ Committed(k) => Committed(call[c])
      /\ StoppingOf(call[c]) => StoppingOf(k)
  BY <1>1 DEF Flying, Committed, StoppingOf, CallRecord
<1> QED
  BY <1>2, <1>4, <1>5, <1>6, <1>7 DEF Quiet

-----------------------------------------------------------------------------
(* What a call is charged, and how many there are.                         *)

LEMMA Times ==
  ASSUME NEW a \in Nat, NEW b \in Nat, NEW m \in Nat, a <= b
  PROVE  m * a \in Nat /\ m * b \in Nat /\ m * a <= m * b
OBVIOUS

\* Quarters keep the order.
LEMMA TokensUp ==
  ASSUME NEW a \in Nat, NEW b \in Nat, a <= b
  PROVE  Tokens(a) \in Nat \ {0} /\ Tokens(b) \in Nat \ {0} /\ Tokens(a) <= Tokens(b)
BY DEF Tokens

LEMMA MostType == Most \in Nat \ {0}
<1>1. /\ MaxWords * Prompt \in Nat /\ MaxWords * MaxFragments \in Nat
      /\ MaxFragments * Fragment \in Nat /\ MaxTake * AudioTokensPerSecond \in Nat
  BY NumbersAssumption, Times
<1>2. MaxWords * MaxFragments * Fragment \in Nat
  BY <1>1, NumbersAssumption, Times
<1>3. /\ Tokens(MaxWords * Prompt + MaxWords * MaxFragments * Fragment) \in Nat \ {0}
      /\ Tokens(Prompt + MaxFragments * Fragment) \in Nat \ {0}
      /\ Tokens(MaxFragments * Fragment) \in Nat \ {0}
  BY <1>1, <1>2, NumbersAssumption, TokensUp
<1> QED
  BY <1>1, <1>3, NumbersAssumption DEF Most, Larger

\* No call is charged more than `Most`, nor less than a token.
LEMMA BillBounded ==
  ASSUME NEW k \in CallRecord, ShapeOf(k)
  PROVE  /\ Bill(k) \in Nat \ {0} /\ Bill(k) <= Most
         /\ Owed(k) \in Nat \ {0}
         /\ k.kind # "read" => Bill(k) = Owed(k)
<1> DEFINE loop == Tokens(MaxWords * Prompt + MaxWords * MaxFragments * Fragment)
           once == Tokens(Prompt + MaxFragments * Fragment) + Attachment
           take == Tokens(MaxFragments * Fragment) + MaxTake * AudioTokensPerSecond
<1>1. /\ k.asked \in Nat /\ k.fragments \in Nat /\ k.words \in 1..MaxWords /\ k.asked <= k.words
      /\ k.attached \in {0, Attachment} /\ k.seconds \in 0..MaxTake /\ k.kind \in Kind
  BY NumbersAssumption, Times DEF CallRecord, ShapeOf
<1>2. /\ k.asked * Prompt \in Nat /\ k.asked * MaxFragments \in Nat
      /\ k.fragments * Fragment \in Nat /\ MaxWords * Prompt \in Nat
      /\ MaxWords * MaxFragments \in Nat /\ MaxFragments * Fragment \in Nat
      /\ k.seconds * AudioTokensPerSecond \in Nat /\ MaxTake * AudioTokensPerSecond \in Nat
      /\ k.seconds * AudioTokensPerSecond <= MaxTake * AudioTokensPerSecond
  BY <1>1, NumbersAssumption, Times
<1>3. MaxWords * MaxFragments * Fragment \in Nat
  BY <1>2, NumbersAssumption, Times
<1>4. loop \in Nat \ {0} /\ once \in Nat \ {0} /\ take \in Nat \ {0}
  BY <1>2, <1>3, NumbersAssumption, TokensUp
<1>5. Most >= loop /\ Most >= once /\ Most >= take
  BY <1>4 DEF Most, Larger
<1>6. Chars(k) \in Nat
  BY <1>2 DEF Chars
<1>7. Owed(k) \in Nat \ {0}
  BY <1>1, <1>2, <1>6, NumbersAssumption, TokensUp DEF Owed
<1>8. CASE k.kind \in Loop
  <2>1. k.attached = 0 /\ k.seconds = 0 /\ k.kind # "read" /\ k.kind # "speech"
    BY <1>8 DEF Loop, ShapeOf
  <2>2. k.seconds * AudioTokensPerSecond = 0
    BY <2>1, NumbersAssumption
  <2>3. k.asked * Prompt <= MaxWords * Prompt
    BY <1>1, NumbersAssumption, Times
  <2>4. k.fragments * Fragment <= MaxWords * MaxFragments * Fragment
    <3>1. k.fragments <= MaxWords * MaxFragments
      BY DEF CallRecord
    <3> QED
      BY <1>1, <1>2, <3>1, NumbersAssumption, Times
  <2>5. Tokens(Chars(k)) <= loop
    BY <1>2, <1>3, <1>6, <2>1, <2>3, <2>4, TokensUp DEF Chars
  <2>6. Tokens(Chars(k)) \in Nat
    BY <1>6, TokensUp
  <2>7. Owed(k) = Tokens(Chars(k))
    BY <2>1, <2>2, <2>6 DEF Owed
  <2>8. Bill(k) = Owed(k)
    BY <2>1 DEF Bill
  <2> HIDE DEF loop
  <2> QED
    BY <1>4, <1>5, <1>7, <2>5, <2>7, <2>8, MostType
<1>9. CASE k.kind \notin Loop
  <2>1. k.asked \in {0, 1}
    BY <1>1, <1>9 DEF ShapeOf
  <2>2. k.asked * Prompt <= Prompt /\ k.fragments <= MaxFragments
    BY <1>1, <2>1, NumbersAssumption DEF ShapeOf
  <2>3. k.fragments * Fragment <= MaxFragments * Fragment
    BY <1>1, <2>2, NumbersAssumption, Times
  <2>4. CASE k.kind = "speech"
    <3>1. k.attached = 0 /\ Tokens(Chars(k)) <= Tokens(MaxFragments * Fragment)
      BY <1>2, <1>6, <2>3, <2>4, TokensUp DEF Chars, ShapeOf
    <3>2. Bill(k) = Owed(k)
      BY <2>4 DEF Bill
    <3>3. Tokens(Chars(k)) \in Nat /\ Tokens(MaxFragments * Fragment) \in Nat
      BY <1>2, <1>6, TokensUp
    <3>4. Owed(k) <= take
      BY <1>2, <3>1, <3>3 DEF Owed
    <3> HIDE DEF take
    <3> QED
      BY <1>4, <1>5, <1>7, <3>2, <3>4, MostType
  <2>5. CASE k.kind # "speech"
    <3>1. k.seconds = 0 /\ k.seconds * AudioTokensPerSecond = 0
      BY <2>5, NumbersAssumption DEF ShapeOf
    <3>2. /\ Tokens(Chars(k)) <= Tokens(Prompt + MaxFragments * Fragment)
          /\ Tokens(Prompt) <= Tokens(Prompt + MaxFragments * Fragment)
          /\ Tokens(Prompt) \in Nat \ {0} /\ Tokens(Chars(k)) \in Nat \ {0}
          /\ Tokens(Prompt + MaxFragments * Fragment) \in Nat \ {0}
      BY <1>2, <1>6, <2>2, <2>3, <2>5, NumbersAssumption, TokensUp DEF Chars
    <3>3. Owed(k) = Tokens(Chars(k)) + k.attached
      BY <1>1, <3>1, <3>2, NumbersAssumption DEF Owed
    <3>4. Owed(k) <= once /\ Tokens(Prompt) <= once
      BY <1>1, <3>2, <3>3, NumbersAssumption
    <3>5. Bill(k) = Owed(k) \/ (k.kind = "read" /\ Bill(k) = Tokens(Prompt))
      BY DEF Bill
    <3>6. k.kind # "read" => Bill(k) = Owed(k)
      BY DEF Bill
    <3> HIDE DEF once
    <3> QED
      BY <1>4, <1>5, <1>7, <3>2, <3>4, <3>5, <3>6, MostType
  <2> QED
    BY <2>4, <2>5
<1> QED
  BY <1>8, <1>9

\* Calls that may be charged come to what each may be.
LEMMA Fewer ==
  ASSUME NEW T, NEW S \in SUBSET T, T \subseteq Call
  PROVE  /\ Cardinality(S) \in Nat /\ Cardinality(T) \in Nat
         /\ Most * Cardinality(S) \in Nat /\ Most * Cardinality(T) \in Nat
         /\ Most * Cardinality(S) <= Most * Cardinality(T)
<1>1. IsFiniteSet(T)
  BY CallAssumption, FS_Subset
<1>2. Cardinality(S) \in Nat /\ Cardinality(T) \in Nat /\ Cardinality(S) <= Cardinality(T)
  BY <1>1, FS_Subset, FS_CardinalityType
<1> QED
  BY <1>2, MostType, Times

LEMMA OneFewer ==
  ASSUME NEW T, T \subseteq Call, NEW c \in T, NEW S \in SUBSET (T \ {c})
  PROVE  Most * Cardinality(S) + Most <= Most * Cardinality(T)
<1>1. IsFiniteSet(T)
  BY CallAssumption, FS_Subset
<1>2. Cardinality(T \ {c}) = Cardinality(T) - 1 /\ Cardinality(T) \in Nat
  BY <1>1, FS_RemoveElement, FS_CardinalityType
<1>3. /\ Most * Cardinality(S) <= Most * Cardinality(T \ {c})
      /\ Most * Cardinality(S) \in Nat
  BY Fewer
<1>4. Cardinality(T) - 1 \in Nat
  BY <1>1, <1>2, FS_Subset, FS_CardinalityType
<1>5. Most * (Cardinality(T) - 1) + Most = Most * Cardinality(T)
  BY <1>2, <1>4, MostType
<1> QED
  BY <1>2, <1>3, <1>4, <1>5, MostType

\* How many calls there are, and may be.
LEMMA Counted ==
  /\ Cardinality(Call) \in Nat /\ Most * Cardinality(Call) \in Nat
  /\ CallsCommitted \subseteq Call /\ Most * Cardinality(CallsCommitted) \in Nat
  /\ \A w \in Workspace : CallsOf(w) \subseteq Call /\ Most * Cardinality(CallsOf(w)) \in Nat
  /\ CallsInFlight = {c \in Call : Flying(call[c])}
  /\ \A w \in Workspace : CallsOf(w) = {c \in Call : Flying(call[c]) /\ WorkspaceOf(c) = w}
<1>1. CallsInFlight = {c \in Call : Flying(call[c])}
  BY DEF CallsInFlight, InFlight, Flying
<1>2. \A w \in Workspace : CallsOf(w) = {c \in Call : Flying(call[c]) /\ WorkspaceOf(c) = w}
  BY <1>1 DEF CallsOf
<1>3. CallsCommitted \in SUBSET Call /\ \A w \in Workspace : CallsOf(w) \in SUBSET Call
  BY <1>2 DEF CallsCommitted
<1> QED
  BY <1>1, <1>2, <1>3, Fewer

-----------------------------------------------------------------------------
(* Every step keeps the invariant.                                         *)

LEMMA QuietKeeps ==
  ASSUME IInv, NEW c \in Call, NEW k, Quiet(c, k)
  PROVE  IInv'
<1> USE DEF IInv
<1>1. /\ call' \in [Call -> CallRecord] /\ call'[c] = k
      /\ \A d \in Call \ {c} : call'[d] = call[d]
      /\ \A d \in Call : call'[d].survey = call[d].survey
  BY DEF Quiet, TypeOK
<1>2. TypeOK'
  BY <1>1 DEF Quiet, TypeOK, recorded, standing
<1>3. Shape' /\ Paid'
  BY <1>1 DEF Quiet, Shape, Paid
<1>4. \A d \in Call : WorkspaceOf(d)' = WorkspaceOf(d)
  BY <1>1 DEF WorkspaceOf
<1>5. Stopping'
  BY <1>1, <1>4 DEF Quiet, Stopping, standing
<1>6. tokens' = tokens /\ cost' = cost /\ empty' = empty
  BY DEF Quiet, recorded
<1>7. ASSUME NEW w \in Workspace
      PROVE  tokens'[w] + Most * Cardinality(CallsOf(w)')
                 < TopCap + Most * Cardinality(Call) + empty'
  <2>1. CallsOf(w)' = {d \in Call : Flying(call'[d]) /\ WorkspaceOf(d) = w}
    BY <1>4 DEF CallsOf, CallsInFlight, InFlight, Flying
  <2>2. CASE CallsOf(w)' \subseteq CallsOf(w)
    <3>1. /\ Most * Cardinality(CallsOf(w)') <= Most * Cardinality(CallsOf(w))
          /\ Most * Cardinality(CallsOf(w)') \in Nat
      BY <2>2, Counted, Fewer
    <3>2. tokens[w] + Most * Cardinality(CallsOf(w)) < TopCap + Most * Cardinality(Call) + empty
      BY DEF OverrunBounded
    <3> QED
      BY <1>6, <3>1, <3>2, Counted, NumbersAssumption DEF TypeOK, TopCap, Larger
  <2>3. CASE tokens[w] < TopCap
    <3>1. CallsOf(w)' \in SUBSET Call
      BY <2>1
    <3>2. /\ Most * Cardinality(CallsOf(w)') <= Most * Cardinality(Call)
          /\ Most * Cardinality(CallsOf(w)') \in Nat
      BY <3>1, Fewer
    <3> QED
      BY <1>6, <2>3, <3>2, Counted, NumbersAssumption DEF TypeOK, TopCap, Larger
  <2>4. CallsOf(w)' \subseteq CallsOf(w) \/ tokens[w] < TopCap
    <3>1. CASE Flying(k) => Flying(call[c])
      BY <1>1, <2>1, <3>1, Counted
    <3>2. CASE tokens[WorkspaceOf(c)] < TopCap
      BY <1>1, <2>1, <3>2, Counted
    <3> QED
      BY <3>1, <3>2 DEF Quiet
  <2> QED
    BY <2>2, <2>3, <2>4
<1>8. BudgetCommitted'
  <2>1. CallsCommitted' = {d \in Call : Committed(call'[d])}
    BY DEF CallsCommitted, Committed, Flying
  <2>2. CASE Committed(k) => Committed(call[c])
    <3>1. CallsCommitted' \subseteq CallsCommitted
      BY <1>1, <2>1, <2>2 DEF CallsCommitted
    <3>2. /\ Most * Cardinality(CallsCommitted') <= Most * Cardinality(CallsCommitted)
          /\ Most * Cardinality(CallsCommitted') \in Nat
      BY <3>1, Counted, Fewer
    <3> QED
      BY <1>6, <3>2, Counted, NumbersAssumption DEF BudgetCommitted, TypeOK
  <2>3. CASE cost < DailyBudget
    <3>1. CallsCommitted' \in SUBSET Call
      BY <2>1
    <3>2. /\ Most * Cardinality(CallsCommitted') <= Most * Cardinality(Call)
          /\ Most * Cardinality(CallsCommitted') \in Nat
      BY <3>1, Fewer
    <3> QED
      BY <1>6, <2>3, <3>2, Counted, NumbersAssumption DEF BudgetCommitted, TypeOK
  <2> QED
    BY <2>2, <2>3 DEF Quiet
<1> QED
  BY <1>2, <1>3, <1>5, <1>7, <1>8 DEF OverrunBounded

\* A call that is begun, or over, is not under way.
LEMMA FreshKeeps ==
  ASSUME IInv, NEW c \in Call, NEW k \in CallRecord, ShapeOf(k), PaidOf(k), StoppingOf(k),
         ~Committed(k), call' = [call EXCEPT ![c] = k], UNCHANGED <<recorded, standing, spent>>
  PROVE  IInv'
<1> USE DEF IInv
<1>1. /\ call' \in [Call -> CallRecord] /\ call'[c] = k
      /\ \A d \in Call \ {c} : call'[d] = call[d]
  BY DEF TypeOK
<1>2. TypeOK' /\ Shape' /\ Paid'
  BY <1>1 DEF TypeOK, Shape, Paid, recorded, standing
<1>3. Stopping'
  BY <1>1 DEF Stopping, standing, WorkspaceOf
<1>4. tokens' = tokens /\ cost' = cost /\ empty' = empty
  BY DEF recorded
<1>5. ~Flying(k)
  BY DEF Committed
<1>6. ASSUME NEW w \in Workspace
      PROVE  tokens'[w] + Most * Cardinality(CallsOf(w)')
                 < TopCap + Most * Cardinality(Call) + empty'
  <2>1. CallsOf(w)' = {d \in Call : Flying(call'[d]) /\ Owner[call'[d].survey] = w}
    BY DEF CallsOf, CallsInFlight, InFlight, Flying, WorkspaceOf
  <2>2. CallsOf(w)' \subseteq CallsOf(w)
    BY <1>1, <1>5, <2>1, Counted DEF WorkspaceOf
  <2>3. /\ Most * Cardinality(CallsOf(w)') <= Most * Cardinality(CallsOf(w))
        /\ Most * Cardinality(CallsOf(w)') \in Nat
    BY <2>2, Counted, Fewer
  <2>4. tokens[w] + Most * Cardinality(CallsOf(w)) < TopCap + Most * Cardinality(Call) + empty
    BY DEF OverrunBounded
  <2> QED
    BY <1>4, <2>3, <2>4, Counted, NumbersAssumption DEF TypeOK, TopCap, Larger
<1>7. BudgetCommitted'
  <2>1. CallsCommitted' \subseteq CallsCommitted
    BY <1>1 DEF CallsCommitted, Committed, Flying
  <2>2. /\ Most * Cardinality(CallsCommitted') <= Most * Cardinality(CallsCommitted)
        /\ Most * Cardinality(CallsCommitted') \in Nat
    BY <2>1, Counted, Fewer
  <2> QED
    BY <1>4, <2>2, Counted, NumbersAssumption DEF BudgetCommitted, TypeOK
<1> QED
  BY <1>2, <1>3, <1>6, <1>7 DEF OverrunBounded

\* A charge takes no more than what the call was counted for.
LEMMA RecordKeeps ==
  ASSUME IInv, NEW c \in Call, Record(c)
  PROVE  IInv'
<1> USE DEF IInv
<1> DEFINE old == call[c]
           bill == Bill(old)
           w0 == WorkspaceOf(c)
           k == [old EXCEPT !.pc = After(c), !.charged = old.charged + bill]
<1>1. old \in CallRecord /\ ShapeOf(old) /\ PaidOf(old)
  BY DEF TypeOK, Shape, Paid
<1>2. old.pc \in {"record", "settle"} /\ old.charged = 0
  BY <1>1 DEF Record, ShapeOf, Settling
<1>3. bill \in Nat \ {0} /\ bill <= Most /\ (old.kind # "read" => bill = Owed(old))
  BY <1>1, BillBounded
<1>4. k \in CallRecord /\ k.charged = bill /\ k.pc = After(c) /\ Owed(k) = Owed(old)
  <2>1. old.charged + bill = bill
    BY <1>2, <1>3
  <2>2. After(c) \in {"tell", "done"}
    BY DEF After
  <2> QED
    BY <1>1, <1>3, <2>1, <2>2 DEF CallRecord, Stage, Owed, Chars
<1>5. ShapeOf(k) /\ PaidOf(k) /\ k.survey = old.survey /\ k.since = old.since
  <2>1. /\ k.kind = old.kind /\ k.link = old.link /\ k.begun = old.begun /\ k.asked = old.asked
        /\ k.words = old.words /\ k.attached = old.attached /\ k.seconds = old.seconds
        /\ k.fragments = old.fragments /\ k.since = old.since /\ k.survey = old.survey
    BY <1>1 DEF CallRecord
  <2>2. /\ k.pc \in {"tell", "done"}
        /\ k.pc = "tell" => old.pc = "record"
    BY <1>4 DEF After, AtStage
  <2>3. ShapeOf(k)
    BY <1>1, <1>2, <2>1, <2>2 DEF ShapeOf, Checking
  <2>4. PaidOf(k)
    BY <1>3, <1>4, <2>1 DEF PaidOf
  <2> QED
    BY <2>1, <2>3, <2>4
<1>6. call' = [call EXCEPT ![c] = k]
  BY <1>1 DEF Record, TypeOK, CallRecord
<1>7. /\ call' \in [Call -> CallRecord] /\ call'[c] = k
      /\ \A d \in Call \ {c} : call'[d] = call[d]
      /\ \A d \in Call : WorkspaceOf(d)' = WorkspaceOf(d)
  BY <1>4, <1>5, <1>6 DEF TypeOK, WorkspaceOf
<1>8. /\ w0 \in Workspace /\ old.seconds \in Nat /\ old.survey \in Survey
      /\ old.session \in Session \cup {NoSession}
  BY <1>1, OwnerAssumption, NumbersAssumption DEF CallRecord, WorkspaceOf
<1>9. /\ tokens' = [tokens EXCEPT ![w0] = @ + bill] /\ cost' = cost + bill
      /\ heard' = [heard EXCEPT ![old.survey] = @ + old.seconds]
      /\ empty' = IF old.asked = 0 THEN empty + bill ELSE empty
      /\ UNCHANGED standing
  BY DEF Record, Add, WorkspaceOf
<1>10. TypeOK'
  <2>1. empty' \in 0..MaxEmpty
    BY <1>3, <1>9, NumbersAssumption DEF Record, TypeOK
  <2>2. spent' \in [Session -> Nat]
    <3>1. spent' = spent \/ spent' = [spent EXCEPT ![old.session] = @ + old.seconds]
      BY DEF Record, Spend
    <3> QED
      BY <1>8, <3>1 DEF TypeOK
  <2>3. tokens' \in [Workspace -> Nat] /\ cost' \in Nat /\ heard' \in [Survey -> Nat]
    BY <1>3, <1>8, <1>9 DEF TypeOK
  <2> QED
    BY <1>7, <1>9, <2>1, <2>2, <2>3 DEF TypeOK, standing
<1>11. Shape' /\ Paid'
  BY <1>5, <1>7 DEF Shape, Paid
<1>12. Stopping'
  <2>1. StoppingOf(old) => StoppingOf(k)
    BY <1>4, <1>5 DEF StoppingOf, After
  <2> QED
    BY <1>7, <1>9, <2>1 DEF Stopping, standing
<1>13. ~Flying(k) /\ ~Committed(k)
  BY <1>3, <1>4 DEF Flying, Committed, After
<1>14. Flying(old) \/ (old.asked = 0 /\ empty' = empty + bill)
  BY <1>1, <1>2, <1>9 DEF Flying, CallRecord
<1>15. empty' >= empty /\ empty' \in Nat /\ empty \in Nat
  BY <1>3, <1>9 DEF TypeOK
<1>16. ASSUME NEW w \in Workspace
       PROVE  tokens'[w] + Most * Cardinality(CallsOf(w)')
                 < TopCap + Most * Cardinality(Call) + empty'
  <2>1. CallsOf(w)' = {d \in Call : Flying(call'[d]) /\ WorkspaceOf(d) = w}
    BY <1>7 DEF CallsOf, CallsInFlight, InFlight, Flying
  <2>2. CallsOf(w)' \subseteq CallsOf(w) \ {c}
    BY <1>7, <1>13, <2>1, Counted
  <2>3. tokens[w] + Most * Cardinality(CallsOf(w)) < TopCap + Most * Cardinality(Call) + empty
    BY DEF OverrunBounded
  <2>4. /\ Most * Cardinality(CallsOf(w)') <= Most * Cardinality(CallsOf(w))
        /\ Most * Cardinality(CallsOf(w)') \in Nat
    BY <2>2, Counted, Fewer
  <2>5. TopCap \in Nat /\ tokens[w] \in Nat /\ Most \in Nat
    BY NumbersAssumption, MostType DEF TypeOK, TopCap, Larger
  <2>6. CASE w # w0
    <3>1. tokens'[w] = tokens[w]
      BY <1>8, <1>9, <2>6 DEF TypeOK
    <3> QED
      BY <1>15, <2>3, <2>4, <2>5, <3>1, Counted
  <2>7. CASE w = w0
    <3>1. tokens'[w] = tokens[w] + bill
      BY <1>8, <1>9, <2>7 DEF TypeOK
    <3>2. CASE Flying(old)
      <4>1. c \in CallsOf(w)
        BY <2>7, <3>2, Counted
      <4>2. Most * Cardinality(CallsOf(w)') + Most <= Most * Cardinality(CallsOf(w))
        BY <2>2, <4>1, Counted, OneFewer
      <4> QED
        BY <1>3, <1>15, <2>3, <2>4, <2>5, <3>1, <4>2, Counted
    <3>3. CASE empty' = empty + bill
      BY <1>3, <1>15, <2>3, <2>4, <2>5, <3>1, <3>3, Counted
    <3> QED
      BY <1>14, <3>2, <3>3
  <2> QED
    BY <2>6, <2>7
<1>17. BudgetCommitted'
  <2>1. CallsCommitted' \subseteq CallsCommitted \ {c}
    BY <1>7, <1>13 DEF CallsCommitted, Committed, Flying
  <2>2. /\ Most * Cardinality(CallsCommitted') <= Most * Cardinality(CallsCommitted)
        /\ Most * Cardinality(CallsCommitted') \in Nat
    BY <2>1, Counted, Fewer
  <2>3. cost \in Nat /\ Most \in Nat
    BY MostType DEF TypeOK
  <2>4. CASE Flying(old)
    <3>1. Most * Cardinality(CallsCommitted') + Most <= Most * Cardinality(CallsCommitted)
      BY <2>1, <2>4, Counted, OneFewer DEF CallsCommitted, Committed
    <3> QED
      BY <1>3, <1>9, <1>15, <2>2, <2>3, <3>1, Counted, NumbersAssumption DEF BudgetCommitted
  <2>5. CASE empty' = empty + bill
    BY <1>3, <1>9, <1>15, <2>2, <2>3, <2>5, Counted, NumbersAssumption DEF BudgetCommitted
  <2> QED
    BY <1>14, <2>4, <2>5
<1> QED
  BY <1>10, <1>11, <1>12, <1>16, <1>17 DEF OverrunBounded

\* The operator, the clock and the process add no call.
LEMMA InterveneKeeps ==
  ASSUME IInv, Intervene
  PROVE  IInv'
<1> USE DEF IInv
<1>1. TopCap \in Nat /\ TopCap > 0 /\ DailyBudget \in Nat \ {0} /\ Most \in Nat \ {0}
  BY NumbersAssumption, AllowedAssumption, MostType DEF TopCap, Larger
<1>2. ASSUME Change PROVE changes' \in 0..MaxChanges
  BY <1>2, NumbersAssumption DEF Change, TypeOK
<1>3. ASSUME /\ call' \in [Call -> CallRecord]
             /\ \A d \in Call : /\ Flying(call'[d]) => Flying(call[d])
                                /\ Committed(call'[d]) => Committed(call[d])
                                /\ call'[d].survey = call[d].survey
             /\ tokens' = tokens /\ cost' = cost /\ empty' = empty
      PROVE  OverrunBounded' /\ BudgetCommitted'
  <2>1. ASSUME NEW w \in Workspace
        PROVE  tokens'[w] + Most * Cardinality(CallsOf(w)')
                   < TopCap + Most * Cardinality(Call) + empty'
    <3>1. CallsOf(w)' = {d \in Call : Flying(call'[d]) /\ Owner[call'[d].survey] = w}
      BY DEF CallsOf, CallsInFlight, InFlight, Flying, WorkspaceOf
    <3>2. CallsOf(w)' \subseteq CallsOf(w)
      BY <1>3, <3>1, Counted DEF WorkspaceOf
    <3>3. /\ Most * Cardinality(CallsOf(w)') <= Most * Cardinality(CallsOf(w))
          /\ Most * Cardinality(CallsOf(w)') \in Nat
      BY <3>2, Counted, Fewer
    <3>4. tokens[w] + Most * Cardinality(CallsOf(w)) < TopCap + Most * Cardinality(Call) + empty
      BY DEF OverrunBounded
    <3> QED
      BY <1>1, <1>3, <3>3, <3>4, Counted DEF TypeOK
  <2>2. CallsCommitted' \subseteq CallsCommitted
    BY <1>3 DEF CallsCommitted, Committed, Flying
  <2>3. /\ Most * Cardinality(CallsCommitted') <= Most * Cardinality(CallsCommitted)
        /\ Most * Cardinality(CallsCommitted') \in Nat
    BY <2>2, Counted, Fewer
  <2> QED
    BY <1>1, <1>3, <2>1, <2>3, Counted DEF OverrunBounded, BudgetCommitted, TypeOK
<1>4. ASSUME NEW w \in Workspace, Suspend(w) PROVE IInv'
  <2>1. ASSUME NEW d \in Call
        PROVE  /\ call'[d] \in CallRecord /\ ShapeOf(call'[d]) /\ PaidOf(call'[d])
               /\ Flying(call'[d]) => Flying(call[d])
               /\ Committed(call'[d]) => Committed(call[d])
               /\ call'[d].survey = call[d].survey
               /\ StoppingOf(call[d]) => StoppingOf(call'[d])
               /\ WorkspaceOf(d) = w => StoppingOf(call'[d])
    <3> DEFINE old == call[d]
               k == [old EXCEPT !.since = 0]
    <3>1. old \in CallRecord /\ ShapeOf(old) /\ PaidOf(old)
      BY DEF TypeOK, Shape, Paid
    <3>2. CASE WorkspaceOf(d) # w
      BY <1>4, <3>1, <3>2 DEF Suspend
    <3>3. CASE WorkspaceOf(d) = w
      <4>1. call'[d] = k
        BY <1>4, <3>3 DEF Suspend
      <4>2. k \in CallRecord /\ Owed(k) = Owed(old)
        BY <3>1, NumbersAssumption DEF CallRecord, Owed, Chars
      <4>3. /\ k.pc = old.pc /\ k.asked = old.asked /\ k.begun = old.begun /\ k.kind = old.kind
            /\ k.charged = old.charged /\ k.survey = old.survey /\ k.since = 0
            /\ k.link = old.link
        BY <3>1 DEF CallRecord
      <4>4. ShapeOf(k)
        <5>1. old.pc = "idle" => old.since = 0
          BY <3>1 DEF ShapeOf, Idle
        <5>2. old.pc = "idle" => k = old
          BY <3>1, <5>1 DEF CallRecord
        <5>3. 0 <= old.asked
          BY <3>1, NumbersAssumption DEF CallRecord
        <5>4. /\ k.words = old.words /\ k.attached = old.attached /\ k.seconds = old.seconds
              /\ k.fragments = old.fragments
          BY <3>1 DEF CallRecord
        <5> QED
          BY <3>1, <4>3, <5>2, <5>3, <5>4 DEF ShapeOf
      <4>5. PaidOf(k)
        BY <3>1, <4>2, <4>3 DEF PaidOf
      <4>6. /\ Flying(k) => Flying(old)
            /\ Committed(k) => Committed(old)
            /\ StoppingOf(k)
        BY <4>3 DEF Flying, Committed, StoppingOf
      <4> QED
        BY <4>1, <4>2, <4>3, <4>4, <4>5, <4>6
    <3> QED
      BY <3>2, <3>3
  <2>2. call' \in [Call -> CallRecord]
    BY <1>4, <2>1 DEF Suspend
  <2>3. /\ tokens' = tokens /\ cost' = cost /\ empty' = empty /\ heard' = heard
        /\ spent' = spent /\ tier' = tier
        /\ suspended' = [suspended EXCEPT ![w] = TRUE]
    BY <1>4 DEF Suspend, recorded
  <2>4. TypeOK'
    BY <1>2, <1>4, <2>2, <2>3 DEF TypeOK, Suspend
  <2>5. Shape' /\ Paid'
    BY <2>1 DEF Shape, Paid
  <2>6. Stopping'
    BY <2>1, <2>3 DEF Stopping, WorkspaceOf, TypeOK
  <2> QED
    BY <1>3, <2>1, <2>2, <2>3, <2>4, <2>5, <2>6
<1>5. ASSUME call' = call, tokens' = tokens, cost' = cost, empty' = empty
      PROVE  Shape' /\ Paid' /\ OverrunBounded' /\ BudgetCommitted'
  <2>1. Shape' /\ Paid'
    BY <1>5 DEF Shape, Paid
  <2> QED
    BY <1>3, <1>5, <2>1 DEF TypeOK
<1>6. ASSUME NEW w \in Workspace, Lift(w) PROVE IInv'
  <2>1. TypeOK'
    BY <1>2, <1>6 DEF Lift, TypeOK, recorded
  <2>2. Stopping'
    BY <1>6 DEF Lift, Stopping, WorkspaceOf, TypeOK
  <2> QED
    BY <1>5, <1>6, <2>1, <2>2 DEF Lift, recorded
<1>7. ASSUME NEW w \in Workspace, NEW t \in Tier, SetTier(w, t) PROVE IInv'
  <2>1. TypeOK' /\ Stopping'
    BY <1>2, <1>7 DEF SetTier, TypeOK, recorded, Stopping, WorkspaceOf
  <2> QED
    BY <1>5, <1>7, <2>1 DEF SetTier, recorded
<1>8. ASSUME NEW x \in Session, Forget(x) PROVE IInv'
  <2>1. TypeOK' /\ Stopping'
    BY <1>2, <1>8 DEF Forget, TypeOK, recorded, Stopping, WorkspaceOf
  <2> QED
    BY <1>5, <1>8, <2>1 DEF Forget, recorded
<1>9. ASSUME NextDay PROVE IInv'
  <2>1. TypeOK'
    BY <1>2, <1>9, NumbersAssumption DEF NextDay, TypeOK
  <2>2. Shape' /\ Paid' /\ Stopping'
    BY <1>9 DEF NextDay, Shape, Paid, Stopping, WorkspaceOf
  <2>3. ASSUME NEW w \in Workspace
        PROVE  tokens'[w] + Most * Cardinality(CallsOf(w)')
                   < TopCap + Most * Cardinality(Call) + empty'
    <3>1. CallsOf(w)' \in SUBSET Call
      BY DEF CallsOf, CallsInFlight
    <3>2. /\ Most * Cardinality(CallsOf(w)') <= Most * Cardinality(Call)
          /\ Most * Cardinality(CallsOf(w)') \in Nat
      BY <3>1, Fewer
    <3> QED
      BY <1>1, <1>9, <3>2, Counted DEF NextDay
  <2>4. BudgetCommitted'
    <3>1. CallsCommitted' \in SUBSET Call
      BY DEF CallsCommitted
    <3>2. /\ Most * Cardinality(CallsCommitted') <= Most * Cardinality(Call)
          /\ Most * Cardinality(CallsCommitted') \in Nat
      BY <3>1, Fewer
    <3> QED
      BY <1>1, <1>9, <3>2, Counted DEF NextDay, BudgetCommitted
  <2> QED
    BY <2>1, <2>2, <2>3, <2>4 DEF OverrunBounded
<1>10. ASSUME Restart PROVE IInv'
  <2>1. /\ call' \in [Call -> CallRecord] /\ \A d \in Call : call'[d] = Idle
        /\ tokens' = tokens /\ cost' = cost /\ empty' = empty
    BY <1>10, IdleShape DEF Restart, recorded
  <2>2. TypeOK'
    BY <1>2, <1>10, <2>1 DEF Restart, TypeOK, recorded
  <2>3. ShapeOf(Idle) /\ PaidOf(Idle) /\ StoppingOf(Idle) /\ ~Committed(Idle) /\ ~Flying(Idle)
    BY IdleShape, IdleFields DEF PaidOf, StoppingOf, Committed, Flying
  <2>4. Shape' /\ Paid' /\ Stopping'
    BY <2>1, <2>3 DEF Shape, Paid, Stopping
  <2>5. ASSUME NEW w \in Workspace
        PROVE  tokens'[w] + Most * Cardinality(CallsOf(w)')
                   < TopCap + Most * Cardinality(Call) + empty'
    <3>1. CallsOf(w)' = {d \in Call : Flying(call'[d]) /\ Owner[call'[d].survey] = w}
      BY DEF CallsOf, CallsInFlight, InFlight, Flying, WorkspaceOf
    <3>2. CallsOf(w)' \subseteq CallsOf(w)
      BY <2>1, <2>3, <3>1
    <3>3. /\ Most * Cardinality(CallsOf(w)') <= Most * Cardinality(CallsOf(w))
          /\ Most * Cardinality(CallsOf(w)') \in Nat
      BY <3>2, Counted, Fewer
    <3>4. tokens[w] + Most * Cardinality(CallsOf(w)) < TopCap + Most * Cardinality(Call) + empty
      BY DEF OverrunBounded
    <3> QED
      BY <1>1, <2>1, <3>3, <3>4, Counted DEF TypeOK
  <2>6. BudgetCommitted'
    <3>1. CallsCommitted' \subseteq CallsCommitted
      BY <2>1, <2>3 DEF CallsCommitted, Committed, Flying
    <3>2. /\ Most * Cardinality(CallsCommitted') <= Most * Cardinality(CallsCommitted)
          /\ Most * Cardinality(CallsCommitted') \in Nat
      BY <3>1, Counted, Fewer
    <3> QED
      BY <1>1, <2>1, <3>2, Counted DEF BudgetCommitted, TypeOK
  <2> QED
    BY <2>2, <2>4, <2>5, <2>6 DEF OverrunBounded
<1> QED
  BY <1>4, <1>6, <1>7, <1>8, <1>9, <1>10 DEF Intervene

\* The first state.
LEMMA InitIInv == Init => IInv
<1> SUFFICES ASSUME Init PROVE IInv
  OBVIOUS
<1>1. TypeOK
  BY IdleShape, NumbersAssumption DEF Init, TypeOK, Tier
<1>2. ShapeOf(Idle) /\ PaidOf(Idle) /\ StoppingOf(Idle) /\ ~Committed(Idle) /\ ~Flying(Idle)
  BY IdleShape, IdleFields DEF PaidOf, StoppingOf, Committed, Flying
<1>3. Shape /\ Paid /\ Stopping
  BY <1>2 DEF Init, Shape, Paid, Stopping
<1>4. TopCap \in Nat /\ TopCap > 0 /\ DailyBudget \in Nat /\ DailyBudget > 0
  BY NumbersAssumption, AllowedAssumption DEF TopCap, Larger
<1>5. OverrunBounded
  <2> SUFFICES ASSUME NEW w \in Workspace
               PROVE  tokens[w] + Most * Cardinality(CallsOf(w))
                          < TopCap + Most * Cardinality(Call) + empty
    BY DEF OverrunBounded
  <2>1. /\ Most * Cardinality(CallsOf(w)) <= Most * Cardinality(Call)
        /\ Most * Cardinality(CallsOf(w)) \in Nat
    BY Counted, Fewer
  <2> QED
    BY <1>4, <2>1, Counted DEF Init
<1>6. BudgetCommitted
  <2>1. Most * Cardinality(CallsCommitted) <= Most * Cardinality(Call)
    BY Counted, Fewer
  <2> QED
    BY <1>4, <2>1, Counted DEF Init, BudgetCommitted
<1> QED
  BY <1>1, <1>3, <1>5, <1>6 DEF IInv

LEMMA NextIInv == IInv /\ [Next]_vars => IInv'
<1> SUFFICES ASSUME IInv, [Next]_vars PROVE IInv'
  OBVIOUS
<1> USE DEF IInv
<1>1. ASSUME NEW c \in Call, CallStep(c) PROVE IInv'
  <2>1. CASE \E s \in Survey :
                Ask(c, s) \/ Translate(c, s) \/ TranslateAnswers(c, s) \/ FinishTake(c, s)
    <3>1. PICK k \in CallRecord : ShapeOf(k) /\ New(k) /\ Begin(c, k)
      BY <2>1, BeginShape
    <3>2. PaidOf(k) /\ StoppingOf(k) /\ ~Committed(k)
      BY <3>1 DEF New, PaidOf, StoppingOf, Committed, Flying
    <3> QED
      BY <3>1, <3>2, FreshKeeps DEF Begin
  <2>2. CASE Return(c)
    <3>1. PaidOf(Idle) /\ StoppingOf(Idle) /\ ~Committed(Idle)
      BY IdleFields DEF PaidOf, StoppingOf, Committed, Flying
    <3>2. call' = [call EXCEPT ![c] = Idle] /\ UNCHANGED <<recorded, standing, spent>>
      BY <2>2 DEF Return
    <3> QED
      BY <3>1, <3>2, IdleShape, FreshKeeps
  <2>3. CASE Record(c)
    BY <2>3, RecordKeeps
  <2>4. CASE \/ RemainingInSession(c) \/ VoiceSecondsLeft(c) \/ Check(c) \/ AskModel(c)
             \/ AskFails(c) \/ Recv(c) \/ StreamEnds(c) \/ StreamFails(c)
             \/ RecordFails(c) \/ Tell(c) \/ Leave(c)
    <3>1. \E k : Quiet(c, k)
      BY <2>4, SessionQuiet, SurveyQuiet, SuspensionQuiet, BreakerQuiet, ReadTierQuiet,
         QuotaQuiet, FailsQuiet, AskModelQuiet, AskFailsQuiet, RecvQuiet, StreamEndsQuiet,
         StreamFailsQuiet, RecordFailsQuiet, TellQuiet, LeaveQuiet
         DEF Check
    <3> QED
      BY <3>1, QuietKeeps
  <2> QED
    BY <1>1, <2>1, <2>2, <2>3, <2>4 DEF CallStep
<1>2. CASE UNCHANGED vars
  <2>1. /\ call' = call /\ tokens' = tokens /\ cost' = cost /\ empty' = empty
        /\ suspended' = suspended
    BY <1>2 DEF vars
  <2>2. TypeOK' /\ Shape' /\ Paid' /\ Stopping'
    BY <1>2 DEF vars, TypeOK, Shape, Paid, Stopping, WorkspaceOf
  <2>3. OverrunBounded' /\ BudgetCommitted'
    BY <2>1 DEF OverrunBounded, BudgetCommitted, CallsOf, CallsInFlight, InFlight, WorkspaceOf,
                CallsCommitted, Committed, Flying
  <2> QED
    BY <2>2, <2>3
<1> QED
  BY <1>1, <1>2, InterveneKeeps DEF Next

-----------------------------------------------------------------------------

LEMMA Invariant == Spec => []IInv
  BY InitIInv, NextIInv, PTL DEF Spec

(***************************************************************************)
(* Every variable of the meter keeps its type.                             *)
(***************************************************************************)
THEOREM TypeCorrect == Spec => []TypeOK
<1>1. IInv => TypeOK
  BY DEF IInv
<1> QED
  BY <1>1, Invariant, PTL

(***************************************************************************)
(* A workspace goes past its allowance by no more than the calls under way *)
(* at once may take.                                                       *)
(***************************************************************************)
THEOREM OverrunIsBounded == Spec => []OverrunBounded
<1>1. IInv => OverrunBounded
  BY DEF IInv
<1> QED
  BY <1>1, Invariant, PTL

(***************************************************************************)
(* The instance goes past its budget by no more than that.                 *)
(***************************************************************************)
THEOREM BudgetIsBounded == Spec => []BudgetBounded
<1>1. IInv => BudgetBounded
  <2> SUFFICES ASSUME IInv PROVE BudgetBounded
    OBVIOUS
  <2>1. CallsInFlight \subseteq CallsCommitted
    BY Counted DEF CallsCommitted, Committed
  <2>2. /\ Most * Cardinality(CallsInFlight) <= Most * Cardinality(CallsCommitted)
        /\ Most * Cardinality(CallsInFlight) \in Nat
    BY <2>1, Counted, Fewer
  <2> QED
    BY <2>2, Counted, NumbersAssumption DEF IInv, TypeOK, BudgetCommitted, BudgetBounded
<1> QED
  BY <1>1, Invariant, PTL

(***************************************************************************)
(* A suspension stops each call within one question to the model.          *)
(***************************************************************************)
THEOREM SuspensionStopsCalls == Spec => []SuspensionStops
<1>1. IInv => SuspensionStops
  BY DEF IInv, Stopping, StoppingOf, SuspensionStops
<1> QED
  BY <1>1, Invariant, PTL

(***************************************************************************)
(* A call that ends in a context that is not over was charged in full.     *)
(***************************************************************************)
THEOREM CallsAreCharged == Spec => []ChargedUnlessGone
<1>1. IInv => ChargedUnlessGone
  BY DEF IInv, Paid, PaidOf, ChargedUnlessGone, Alive
<1> QED
  BY <1>1, Invariant, PTL

(***************************************************************************)
(* What is told done counts already.                                       *)
(***************************************************************************)
THEOREM ToldCounts == Spec => []CountsWhenTold
<1>1. IInv => CountsWhenTold
  <2> SUFFICES ASSUME IInv, NEW c \in Call,
                      call[c].pc = "tell" /\ Alive(c) /\ call[c].kind # "read"
               PROVE  call[c].charged > 0
    BY DEF CountsWhenTold
  <2>1. call[c].charged = Owed(call[c])
    BY DEF IInv, Paid, PaidOf, Alive
  <2>2. Owed(call[c]) \in Nat \ {0}
    BY BillBounded DEF IInv, TypeOK, Shape
  <2> QED
    BY <2>1, <2>2
<1> QED
  BY <1>1, Invariant, PTL

-----------------------------------------------------------------------------
(* Seconds of speech, counted one by one: a limit is passed by no more     *)
(* than the other takes under way, since a take is let through beside at    *)
(* most all the seconds the others may have, and its own.                  *)

\* Takes, of a call's record.
Taking(k, from) ==
    /\ k.kind = "speech"
    /\ k.pc \in {"suspension", "breaker", "tier", "quota", "ask", "answer"} \cup Settling \cup from

\* Seconds checked against a survey's, or a session's, and not recorded yet.
OfSurvey(s) == Seconds({c \in Takes({}) : call[c].survey = s})
OfSession(x) == Seconds({c \in Takes({"survey"}) : call[c].session = x})

\* A limit of `cap` seconds is passed by less than the takes at once take.
Bounded(n, taken, cap) == n + Cardinality(taken) <= cap + MaxTake * (Cardinality(Call) - 1)

\* One call moves, and if it is counted now it was, with the same seconds.
Calm(c, from) ==
    \E k : /\ call' = [call EXCEPT ![c] = k]
           /\ Taking(k, from) =>
                 /\ Taking(call[c], from)
                 /\ k.seconds = call[c].seconds /\ k.survey = call[c].survey
                 /\ k.session = call[c].session

\* A call that moves to where it is not counted, or from where it was.
LEMMA CalmMove ==
  ASSUME TypeOK, Shape, NEW c \in Call, NEW pc, NEW from, Move(c, pc),
         /\ call[c].kind = "speech"
         /\ pc \in {"suspension", "breaker", "tier", "quota", "ask", "answer"}
                    \cup Settling \cup from
         => Taking(call[c], from)
  PROVE  Calm(c, from)
<1> DEFINE k == [call[c] EXCEPT !.pc = pc]
<1>1. call[c] \in CallRecord
  BY DEF TypeOK
<1>2. k.pc = pc /\ k.kind = call[c].kind /\ k.seconds = call[c].seconds
      /\ k.survey = call[c].survey /\ k.session = call[c].session
  BY <1>1 DEF CallRecord
<1>3. call' = [call EXCEPT ![c] = k]
  BY DEF Move
<1> QED
  BY <1>2, <1>3 DEF Calm, Taking

\* Only the two checks that let a take go on have more seconds pending.
LEMMA CalmSteps ==
  ASSUME TypeOK, Shape, NEW c \in Call, CallStep(c), NEW from \in {{}, {"survey"}}
  PROVE  \/ Calm(c, from)
         \/ from = {} /\ VoiceSecondsLeft(c) /\ Move(c, "suspension")
         \/ from = {"survey"} /\ RemainingInSession(c) /\ Move(c, "survey")
<1>1. call[c] \in CallRecord /\ ShapeOf(call[c])
  BY DEF TypeOK, Shape
<1>2. CASE \E s \in Survey : Ask(c, s) \/ Translate(c, s) \/ TranslateAnswers(c, s) \/ FinishTake(c, s)
  <2>1. PICK k \in CallRecord : ShapeOf(k) /\ New(k) /\ Begin(c, k)
    BY <1>2, BeginShape
  <2>2. ~Taking(k, from)
    BY <2>1 DEF New, Taking, Settling
  <2> QED
    BY <2>1, <2>2 DEF Begin, Calm
<1>3. CASE RemainingInSession(c)
  <2>1. CASE Move(c, "done")
    BY <2>1, CalmMove DEF Settling
  <2>2. CASE Move(c, "survey")
    BY <1>3, <2>2, CalmMove DEF Settling
  <2> QED
    BY <1>3, <2>1, <2>2 DEF RemainingInSession
<1>4. CASE VoiceSecondsLeft(c)
  <2>1. CASE Move(c, "done")
    BY <2>1, CalmMove DEF Settling
  <2>2. CASE Move(c, "suspension")
    BY <1>4, <2>2, CalmMove DEF VoiceSecondsLeft, AtStage, Taking
  <2> QED
    BY <1>4, <2>1, <2>2 DEF VoiceSecondsLeft
<1>5. ASSUME call[c].pc \in Checking \cup {"ask"}, Move(c, Refused(c)) PROVE Calm(c, from)
  <2>1. call[c].kind = "speech" => Refused(c) = "done"
    BY <1>1 DEF ShapeOf, Loop, Refused
  <2> QED
    BY <1>5, <2>1, CalmMove DEF Settling
<1>6. CASE CheckSuspension(c)
  BY <1>5, <1>6, CalmMove DEF CheckSuspension, AtStage, Checking, Taking
<1>7. CASE CheckBreaker(c)
  BY <1>5, <1>7, CalmMove DEF CheckBreaker, AtStage, Checking, Taking
<1>8. CASE ReadTier(c)
  <2> DEFINE k == [call[c] EXCEPT !.pc = "quota", !.cap = For(tier[WorkspaceOf(c)])]
  <2>1. call' = [call EXCEPT ![c] = k]
    BY <1>8 DEF ReadTier
  <2>2. /\ k.kind = call[c].kind /\ k.seconds = call[c].seconds
        /\ k.survey = call[c].survey /\ k.session = call[c].session
    BY <1>1 DEF CallRecord
  <2> QED
    BY <1>8, <2>1, <2>2 DEF ReadTier, AtStage, Calm, Taking
<1>9. CASE CheckQuota(c)
  <2>1. CASE Move(c, Refused(c))
    BY <1>5, <1>9, <2>1 DEF CheckQuota, AtStage, Checking
  <2>2. CASE Move(c, "ask")
    BY <1>9, <2>2, CalmMove DEF CheckQuota, AtStage, Taking
  <2>3. CASE /\ call[c].kind = "batch"
             /\ call' = [call EXCEPT ![c].pc = "suspension", ![c].begun = TRUE]
    <3> DEFINE k == [call[c] EXCEPT !.pc = "suspension", !.begun = TRUE]
    <3>1. call' = [call EXCEPT ![c] = k] /\ k.kind = "batch"
      BY <1>1, <2>3 DEF TypeOK, CallRecord
    <3> QED
      BY <3>1 DEF Calm, Taking
  <2> QED
    BY <1>9, <2>1, <2>2, <2>3 DEF CheckQuota
<1>10. CASE CheckFails(c)
  BY <1>5, <1>10 DEF CheckFails
<1>11. CASE AskModel(c)
  <2> DEFINE k == [call[c] EXCEPT !.pc = "answer", !.asked = @ + 1, !.since = @ + 1]
  <2>1. call' = [call EXCEPT ![c] = k]
    BY <1>1, <1>11 DEF AskModel, TypeOK, CallRecord
  <2>2. /\ k.kind = call[c].kind /\ k.seconds = call[c].seconds
        /\ k.survey = call[c].survey /\ k.session = call[c].session
    BY <1>1 DEF CallRecord
  <2> QED
    BY <1>11, <2>1, <2>2 DEF AskModel, AtStage, Calm, Taking
<1>12. CASE AskFails(c)
  BY <1>5, <1>12 DEF AskFails, AtStage
<1>13. CASE Recv(c)
  <2> DEFINE k == [call[c] EXCEPT !.fragments = @ + 1,
                               !.pc = IF call[c].kind \in Socket /\ call[c].link # "open"
                                        THEN "settle" ELSE "answer"]
  <2>1. call' = [call EXCEPT ![c] = k]
    BY <1>1, <1>13 DEF Recv, TypeOK, CallRecord
  <2>2. /\ k.kind = call[c].kind /\ k.seconds = call[c].seconds
        /\ k.survey = call[c].survey /\ k.session = call[c].session
    BY <1>1 DEF CallRecord
  <2>3. Taking(k, from) => Taking(call[c], from)
    BY <1>13, <2>2 DEF Recv, AtStage, Taking
  <2> HIDE DEF k
  <2> QED
    BY <2>1, <2>2, <2>3 DEF Calm
<1>14. CASE StreamEnds(c)
  BY <1>14, CalmMove DEF StreamEnds, AtStage, Taking
<1>15. CASE StreamFails(c)
  BY <1>15, CalmMove DEF StreamFails, AtStage, Taking
<1>16. CASE Record(c)
  <2> DEFINE k == [call[c] EXCEPT !.pc = After(c), !.charged = @ + Bill(call[c])]
  <2>1. call' = [call EXCEPT ![c] = k]
    BY <1>1, <1>16 DEF Record, TypeOK, CallRecord
  <2>2. k.pc \in {"tell", "done"}
    BY <1>1 DEF CallRecord, After
  <2> QED
    BY <2>1, <2>2 DEF Calm, Taking, Settling
<1>17. CASE RecordFails(c)
  BY <1>17, CalmMove DEF RecordFails, After, Settling
<1>18. CASE Tell(c)
  <2>1. call[c].kind = "speech" => ~(call[c].kind = "read")
    OBVIOUS
  <2> QED
    BY <1>18, <2>1, CalmMove DEF Tell, Settling
<1>19. CASE Leave(c)
  <2>1. PICK link \in {"closed", "over"} : call' = [call EXCEPT ![c].link = link]
    BY <1>19 DEF Leave
  <2> DEFINE k == [call[c] EXCEPT !.link = link]
  <2>2. call' = [call EXCEPT ![c] = k]
    BY <1>1, <2>1 DEF TypeOK, CallRecord
  <2>3. /\ k.kind = call[c].kind /\ k.seconds = call[c].seconds /\ k.pc = call[c].pc
        /\ k.survey = call[c].survey /\ k.session = call[c].session
    BY <1>1 DEF CallRecord
  <2> QED
    BY <2>2, <2>3 DEF Calm, Taking
<1>20. CASE Return(c)
  BY <1>20, IdleFields DEF Return, Calm, Taking
<1> QED
  BY <1>2, <1>3, <1>4, <1>6, <1>7, <1>8, <1>9, <1>10, <1>11, <1>12, <1>13, <1>14, <1>15, <1>16,
     <1>17, <1>18, <1>19, <1>20 DEF CallStep, Check
-----------------------------------------------------------------------------

\* Calls are counted.
LEMMA CallCount == IsFiniteSet(Call) /\ Cardinality(Call) \in Nat \ {0}
BY CallAssumption, FS_EmptySet, FS_CardinalityType

\* So many seconds of so many calls.
LEMMA Grid ==
  ASSUME NEW S, IsFiniteSet(S), NEW j \in Nat
  PROVE  IsFiniteSet(S \X (1..j)) /\ Cardinality(S \X (1..j)) = Cardinality(S) * j
<1>1. IsFiniteSet(1..j) /\ Cardinality(1..j) = IF 1 > j THEN 0 ELSE j - 1 + 1
  BY FS_Interval
<1>2. Cardinality(1..j) = j
  BY <1>1
<1>3. IsFiniteSet(S \X (1..j)) /\ Cardinality(S \X (1..j)) = Cardinality(S) * Cardinality(1..j)
  BY <1>1, FS_Product, Zenon
<1> QED
  BY <1>2, <1>3, Zenon

\* The seconds of one call.
LEMMA Mine ==
  ASSUME NEW c, NEW j \in Nat
  PROVE  IsFiniteSet({c} \X (1..j)) /\ Cardinality({c} \X (1..j)) = j
<1>1. IsFiniteSet({c}) /\ Cardinality({c}) = 1
  BY FS_Singleton
<1>2. IsFiniteSet({c} \X (1..j)) /\ Cardinality({c} \X (1..j)) = 1 * j
  BY <1>1, Grid, Zenon
<1> QED
  BY <1>2

\* The seconds of any takes are finitely many.
LEMMA SecondsFinite ==
  ASSUME NEW P \in SUBSET (Call \X (1..MaxTake))
  PROVE  IsFiniteSet(P) /\ Cardinality(P) \in Nat
<1>1. IsFiniteSet(1..MaxTake)
  BY NumbersAssumption, FS_Interval
<1> QED
  BY <1>1, CallCount, FS_Product, FS_Subset, FS_CardinalityType

\* A limit passed by fewer seconds, of fewer takes.
LEMMA BoundedLess ==
  ASSUME NEW P \in SUBSET (Call \X (1..MaxTake)), NEW Q \in SUBSET P,
         NEW n \in Nat, NEW m \in Nat, m <= n, NEW cap \in Nat, Bounded(n, P, cap)
  PROVE  Bounded(m, Q, cap)
<1>1. Cardinality(Q) <= Cardinality(P) /\ Cardinality(P) \in Nat /\ Cardinality(Q) \in Nat
  BY SecondsFinite, FS_Subset
<1>2. MaxTake * (Cardinality(Call) - 1) \in Nat
  BY CallCount, NumbersAssumption
<1> QED
  BY <1>1, <1>2 DEF Bounded

\* A take that is within its limit begins beside all the others.
LEMMA BoundedEnter ==
  ASSUME NEW c \in Call, NEW j \in 0..MaxTake, NEW n \in Nat, NEW cap \in Nat, n + j <= cap,
         NEW Q, Q \subseteq ({c} \X (1..j)) \cup ((Call \ {c}) \X (1..MaxTake))
  PROVE  Bounded(n, Q, cap)
<1> DEFINE mine == {c} \X (1..j)
           others == (Call \ {c}) \X (1..MaxTake)
<1>1. IsFiniteSet(mine) /\ Cardinality(mine) = j
  <2>1. j \in Nat
    BY NumbersAssumption
  <2> QED
    BY <2>1, Mine, Zenon
<1>2. IsFiniteSet(others) /\ Cardinality(others) = MaxTake * (Cardinality(Call) - 1)
  <2>1. MaxTake \in Nat
    BY NumbersAssumption
  <2>2. IsFiniteSet(Call \ {c}) /\ Cardinality(Call \ {c}) = Cardinality(Call) - 1
    BY CallCount, FS_RemoveElement
  <2>3. IsFiniteSet(others) /\ Cardinality(others) = (Cardinality(Call) - 1) * MaxTake
    BY <2>1, <2>2, Grid, Zenon
  <2> QED
    BY <2>3, CallCount, NumbersAssumption
<1>3. IsFiniteSet(mine \cup others)
      /\ Cardinality(mine \cup others) = Cardinality(mine) + Cardinality(others) - Cardinality(mine \cap others)
  BY <1>1, <1>2, FS_Union
<1>4. IsFiniteSet(mine \cap others) /\ Cardinality(mine \cap others) \in Nat
  BY <1>1, FS_Subset, FS_CardinalityType
<1>5. Cardinality(Q) <= Cardinality(mine \cup others) /\ Cardinality(Q) \in Nat
  BY <1>3, FS_Subset, FS_CardinalityType
<1>6. MaxTake * (Cardinality(Call) - 1) \in Nat
  BY CallCount, NumbersAssumption
<1> HIDE DEF mine, others
<1> QED
  BY <1>1, <1>2, <1>3, <1>4, <1>5, <1>6, NumbersAssumption DEF Bounded

\* The seconds of a take are recorded: what is recorded grows by what is no longer pending.
LEMMA BoundedLeave ==
  ASSUME NEW c \in Call, NEW j \in 0..MaxTake, NEW n \in Nat, NEW cap \in Nat,
         NEW P \in SUBSET (Call \X (1..MaxTake)), {c} \X (1..j) \subseteq P,
         NEW Q, Q \subseteq P \ ({c} \X (1..j)), Bounded(n, P, cap)
  PROVE  Bounded(n + j, Q, cap)
<1> DEFINE mine == {c} \X (1..j)
<1>1. IsFiniteSet(mine) /\ Cardinality(mine) = j
  <2>1. j \in Nat
    BY NumbersAssumption
  <2> QED
    BY <2>1, Mine, Zenon
<1>2. IsFiniteSet(P) /\ Cardinality(P) \in Nat
  BY SecondsFinite
<1>3. IsFiniteSet(P \ mine) /\ Cardinality(P \ mine) = Cardinality(P) - Cardinality(P \cap mine)
  BY <1>2, FS_Difference
<1>4. Cardinality(P \cap mine) = j
  <2>1. P \cap mine = mine
    OBVIOUS
  <2> QED
    BY <1>1, <2>1
<1>5. Cardinality(Q) <= Cardinality(P \ mine) /\ Cardinality(Q) \in Nat
  BY <1>3, FS_Subset, FS_CardinalityType
<1>6. MaxTake * (Cardinality(Call) - 1) \in Nat
  BY CallCount, NumbersAssumption
<1> HIDE DEF mine
<1>7. Cardinality(Q) + j <= Cardinality(P)
  BY <1>2, <1>3, <1>4, <1>5, NumbersAssumption
<1> QED
  BY <1>2, <1>5, <1>6, <1>7, NumbersAssumption DEF Bounded

-----------------------------------------------------------------------------

\* What is pending, second by second.
LEMMA Pending ==
  ASSUME TypeOK
  PROVE  /\ \A s \in Survey :
              /\ OfSurvey(s) \subseteq Call \X (1..MaxTake)
              /\ OfSurvey(s) = {m \in Call \X (1..MaxTake) :
                    /\ Taking(call[m[1]], {}) /\ call[m[1]].survey = s
                    /\ m[2] <= call[m[1]].seconds}
         /\ \A x \in Session :
              /\ OfSession(x) \subseteq Call \X (1..MaxTake)
              /\ OfSession(x) = {m \in Call \X (1..MaxTake) :
                    /\ Taking(call[m[1]], {"survey"}) /\ call[m[1]].session = x
                    /\ m[2] <= call[m[1]].seconds}
BY DEF OfSurvey, OfSession, Seconds, Takes, Taking

\* The property, in these terms.
LEMMA SpeechIs ==
  SpeechBounded <=>
    /\ VoiceSurveyDailySeconds > 0 =>
         \A s \in Survey : Bounded(heard[s], OfSurvey(s), VoiceSurveyDailySeconds)
    /\ SessionSeconds > 0 =>
         \A x \in Session : Bounded(spent[x], OfSession(x), SessionSeconds)
BY DEF SpeechBounded, SecondsOf, OfSurvey, OfSession, Bounded

\* A calm step leaves no more pending.
LEMMA CalmPending ==
  ASSUME TypeOK, TypeOK', NEW c \in Call
  PROVE  /\ Calm(c, {}) => \A s \in Survey : OfSurvey(s)' \subseteq OfSurvey(s)
         /\ Calm(c, {"survey"}) => \A x \in Session : OfSession(x)' \subseteq OfSession(x)
<1>1. ASSUME NEW s \in Survey, Calm(c, {}), NEW m \in OfSurvey(s)' PROVE m \in OfSurvey(s)
  <2>1. /\ m \in Call \X (1..MaxTake) /\ Taking(call'[m[1]], {}) /\ call'[m[1]].survey = s
        /\ m[2] <= call'[m[1]].seconds
    BY <1>1 DEF OfSurvey, Seconds, Takes, Taking
  <2>2. PICK k : /\ call' = [call EXCEPT ![c] = k]
                 /\ Taking(k, {}) =>
                      /\ Taking(call[c], {})
                      /\ k.seconds = call[c].seconds /\ k.survey = call[c].survey
                      /\ k.session = call[c].session
    BY <1>1 DEF Calm
  <2>3. Taking(call[m[1]], {}) /\ call[m[1]].survey = s /\ call'[m[1]].seconds = call[m[1]].seconds
    BY <2>1, <2>2 DEF TypeOK
  <2> QED
    BY <2>1, <2>3, Pending
<1>2. ASSUME NEW x \in Session, Calm(c, {"survey"}), NEW m \in OfSession(x)' PROVE m \in OfSession(x)
  <2>1. /\ m \in Call \X (1..MaxTake) /\ Taking(call'[m[1]], {"survey"}) /\ call'[m[1]].session = x
        /\ m[2] <= call'[m[1]].seconds
    BY <1>2 DEF OfSession, Seconds, Takes, Taking
  <2>2. PICK k : /\ call' = [call EXCEPT ![c] = k]
                 /\ Taking(k, {"survey"}) =>
                      /\ Taking(call[c], {"survey"})
                      /\ k.seconds = call[c].seconds /\ k.survey = call[c].survey
                      /\ k.session = call[c].session
    BY <1>2 DEF Calm
  <2>3. Taking(call[m[1]], {"survey"}) /\ call[m[1]].session = x /\ call'[m[1]].seconds = call[m[1]].seconds
    BY <2>1, <2>2 DEF TypeOK
  <2> QED
    BY <2>1, <2>3, Pending
<1> QED
  BY <1>1, <1>2

\* Where one call moves, everything pending is its own seconds and at most all of the others'.
LEMMA BesideOthers ==
  ASSUME TypeOK, TypeOK', NEW c \in Call, NEW pc, Move(c, pc)
  PROVE  LET others == (Call \ {c}) \X (1..MaxTake)
         IN /\ \A s \in Survey :
                 /\ OfSurvey(s)' \subseteq ({c} \X (1..call[c].seconds)) \cup others
                 /\ s # call[c].survey => OfSurvey(s)' \subseteq OfSurvey(s)
            /\ \A x \in Session :
                 /\ OfSession(x)' \subseteq ({c} \X (1..call[c].seconds)) \cup others
                 /\ x # call[c].session => OfSession(x)' \subseteq OfSession(x)
<1>1. /\ call[c] \in CallRecord /\ call' = [call EXCEPT ![c] = [call[c] EXCEPT !.pc = pc]]
      /\ \A d \in Call : d # c => call'[d] = call[d]
      /\ call'[c].seconds = call[c].seconds /\ call'[c].survey = call[c].survey
      /\ call'[c].session = call[c].session
  BY DEF Move, TypeOK, CallRecord
<1>2. ASSUME NEW s \in Survey, NEW m \in OfSurvey(s)'
      PROVE  /\ m \in ({c} \X (1..call[c].seconds)) \cup ((Call \ {c}) \X (1..MaxTake))
             /\ s # call[c].survey => m \in OfSurvey(s)
  <2>1. /\ m \in Call \X (1..MaxTake) /\ Taking(call'[m[1]], {}) /\ call'[m[1]].survey = s
        /\ m[2] <= call'[m[1]].seconds
    BY <1>2 DEF OfSurvey, Seconds, Takes, Taking
  <2>2. CASE m[1] = c
    <3>1. m = <<c, m[2]>> /\ m[2] \in 1..call[c].seconds
      BY <1>1, <2>1, <2>2, NumbersAssumption DEF CallRecord
    <3> QED
      BY <1>1, <2>1, <2>2, <3>1
  <2>3. CASE m[1] # c
    BY <1>1, <2>1, <2>3, Pending
  <2> QED
    BY <2>2, <2>3
<1>3. ASSUME NEW x \in Session, NEW m \in OfSession(x)'
      PROVE  /\ m \in ({c} \X (1..call[c].seconds)) \cup ((Call \ {c}) \X (1..MaxTake))
             /\ x # call[c].session => m \in OfSession(x)
  <2>1. /\ m \in Call \X (1..MaxTake) /\ Taking(call'[m[1]], {"survey"}) /\ call'[m[1]].session = x
        /\ m[2] <= call'[m[1]].seconds
    BY <1>3 DEF OfSession, Seconds, Takes, Taking
  <2>2. CASE m[1] = c
    <3>1. m = <<c, m[2]>> /\ m[2] \in 1..call[c].seconds
      BY <1>1, <2>1, <2>2, NumbersAssumption DEF CallRecord
    <3> QED
      BY <1>1, <2>1, <2>2, <3>1
  <2>3. CASE m[1] # c
    BY <1>1, <2>1, <2>3, Pending
  <2> QED
    BY <2>2, <2>3
<1> QED
  BY <1>2, <1>3
\* A take that passes either check; a charge; and everything else.
LEMMA CallKeepsSpeech ==
  ASSUME TypeOK, TypeOK', Shape, SpeechBounded, NEW c \in Call, CallStep(c)
  PROVE  SpeechBounded'
<1> DEFINE j == call[c].seconds
           s0 == call[c].survey
           x0 == call[c].session
<1>1. /\ call[c] \in CallRecord /\ ShapeOf(call[c]) /\ j \in 0..MaxTake /\ j \in Nat
      /\ s0 \in Survey /\ VoiceSurveyDailySeconds \in Nat /\ SessionSeconds \in Nat
  BY NumbersAssumption DEF TypeOK, Shape, CallRecord
<1>2. /\ \A s \in Survey : heard[s] \in Nat /\ heard'[s] \in Nat
      /\ \A x \in Session : spent[x] \in Nat /\ spent'[x] \in Nat
  BY DEF TypeOK
<1>3. /\ \A s \in Survey : OfSurvey(s) \in SUBSET (Call \X (1..MaxTake))
      /\ \A x \in Session : OfSession(x) \in SUBSET (Call \X (1..MaxTake))
  BY Pending
<1>4. ASSUME VoiceSurveyDailySeconds > 0, NEW s \in Survey
      PROVE  Bounded(heard'[s], OfSurvey(s)', VoiceSurveyDailySeconds)
  <2>1. Bounded(heard[s], OfSurvey(s), VoiceSurveyDailySeconds)
    BY <1>4, SpeechIs
  <2>2. CASE OfSurvey(s)' \subseteq OfSurvey(s) /\ heard'[s] = heard[s]
    BY <1>1, <1>2, <1>3, <2>1, <2>2, BoundedLess
  <2>3. CASE Record(c)
    <3>1. /\ heard' = [heard EXCEPT ![s0] = heard[s0] + j]
          /\ call' = [call EXCEPT ![c] = call'[c]] /\ call'[c].pc = After(c)
      BY <1>1, <2>3 DEF Record, Add, TypeOK, CallRecord
    <3>2. CASE s # s0 \/ call[c].kind # "speech"
      <4>1. heard'[s] = heard[s]
        BY <1>1, <1>2, <3>1, <3>2 DEF ShapeOf, TypeOK
      <4>2. Calm(c, {})
        BY <2>3, CalmSteps DEF Record, VoiceSecondsLeft, AtStage, Settling
      <4> QED
        BY <2>2, <4>1, <4>2, CalmPending
    <3>3. CASE s = s0 /\ call[c].kind = "speech"
      <4>1. heard'[s] = heard[s] + j
        BY <1>1, <3>1, <3>3 DEF TypeOK
      <4>2. OfSurvey(s)' \subseteq OfSurvey(s)
        <5>1. Calm(c, {})
          BY <2>3, CalmSteps DEF Record, VoiceSecondsLeft, AtStage, Settling
        <5> QED
          BY <5>1, CalmPending
      <4>3. ASSUME NEW m \in OfSurvey(s)' PROVE m[1] # c
        <5>1. m[1] \in Call /\ Taking(call'[m[1]], {})
          BY <4>3 DEF OfSurvey, Seconds, Takes, Taking
        <5> QED
          BY <3>1, <5>1 DEF Taking, After, Settling
      <4>4. {c} \X (1..j) \subseteq OfSurvey(s)
        <5>1. Taking(call[c], {})
          BY <2>3, <3>3 DEF Record, Taking
        <5>2. ASSUME NEW m \in {c} \X (1..j)
              PROVE  m \in Call \X (1..MaxTake) /\ m[1] = c /\ m[2] <= j
          BY <1>1, <5>2, NumbersAssumption
        <5> QED
          BY <3>3, <5>1, <5>2, Pending
      <4>5. OfSurvey(s)' \subseteq OfSurvey(s) \ ({c} \X (1..j))
        BY <4>2, <4>3
      <4> HIDE DEF j, s0
      <4> QED
        BY <1>1, <1>2, <1>3, <2>1, <4>1, <4>4, <4>5, BoundedLeave
    <3> QED
      BY <3>2, <3>3
  <2>4. CASE VoiceSecondsLeft(c) /\ Move(c, "suspension")
    <3>1. heard' = heard
      BY <2>4 DEF VoiceSecondsLeft, recorded
    <3>2. OfSurvey(s)' \subseteq ({c} \X (1..j)) \cup ((Call \ {c}) \X (1..MaxTake))
      BY <2>4, BesideOthers
    <3>3. CASE s # s0
      BY <2>2, <2>4, <3>1, <3>3, BesideOthers
    <3>4. CASE s = s0
      <4>1. heard'[s] + j <= VoiceSurveyDailySeconds
        <5>1. call' # [call EXCEPT ![c].pc = "done"]
          BY <1>1, <2>4 DEF Move, TypeOK, CallRecord
        <5>2. ~(heard[s0] + j > VoiceSurveyDailySeconds)
          BY <1>4, <2>4, <5>1 DEF VoiceSecondsLeft, Move
        <5> QED
          BY <1>1, <1>2, <3>1, <3>4, <5>2
      <4> HIDE DEF j
      <4> QED
        BY <1>1, <1>2, <3>2, <4>1, BoundedEnter
    <3> QED
      BY <3>3, <3>4
  <2>5. CASE ~Record(c) /\ ~(VoiceSecondsLeft(c) /\ Move(c, "suspension"))
    <3>1. Calm(c, {})
      BY <2>5, CalmSteps
    <3>2. heard' = heard
      BY <2>5 DEF CallStep, Ask, Translate, TranslateAnswers, FinishTake, Begin, RemainingInSession,
                  VoiceSecondsLeft, Check, CheckSuspension, CheckBreaker, ReadTier, CheckQuota,
                  CheckFails, AskModel, AskFails, Recv, StreamEnds, StreamFails, RecordFails, Tell,
                  Leave, Return, recorded
    <3> QED
      BY <2>2, <3>1, <3>2, CalmPending
  <2> QED
    BY <2>3, <2>4, <2>5
<1>5. ASSUME SessionSeconds > 0, NEW x \in Session
      PROVE  Bounded(spent'[x], OfSession(x)', SessionSeconds)
  <2>1. Bounded(spent[x], OfSession(x), SessionSeconds)
    BY <1>5, SpeechIs
  <2>2. CASE OfSession(x)' \subseteq OfSession(x) /\ spent'[x] = spent[x]
    BY <1>1, <1>2, <1>3, <2>1, <2>2, BoundedLess
  <2>3. CASE Record(c) \/ RecordFails(c)
    <3>1. /\ spent' = IF x0 = NoSession THEN spent ELSE [spent EXCEPT ![x0] = spent[x0] + j]
          /\ call'[c].pc = After(c) /\ call[c].pc \in Settling
      BY <1>1, <2>3 DEF Record, RecordFails, Move, Spend, TypeOK, CallRecord
    <3>2. Calm(c, {"survey"})
      BY <2>3, CalmSteps DEF Record, RecordFails, RemainingInSession, AtStage, Settling
    <3>3. OfSession(x)' \subseteq OfSession(x)
      BY <3>2, CalmPending
    <3>4. CASE x # x0 \/ call[c].kind # "speech"
      <4>1. spent'[x] = spent[x]
        BY <1>1, <1>2, <3>1, <3>4 DEF ShapeOf, TypeOK
      <4> QED
        BY <2>2, <3>3, <4>1
    <3>5. CASE x = x0 /\ call[c].kind = "speech"
      <4>1. spent'[x] = spent[x] + j
        BY <1>1, <3>1, <3>5, SessionAssumption DEF TypeOK
      <4>2. ASSUME NEW m \in OfSession(x)' PROVE m[1] # c
        <5>1. m[1] \in Call /\ Taking(call'[m[1]], {"survey"})
          BY <4>2 DEF OfSession, Seconds, Takes, Taking
        <5> QED
          BY <3>1, <5>1 DEF Taking, After, Settling
      <4>3. {c} \X (1..j) \subseteq OfSession(x)
        <5>1. Taking(call[c], {"survey"})
          BY <3>1, <3>5 DEF Taking
        <5>2. ASSUME NEW m \in {c} \X (1..j)
              PROVE  m \in Call \X (1..MaxTake) /\ m[1] = c /\ m[2] <= j
          BY <1>1, <5>2, NumbersAssumption
        <5> QED
          BY <3>5, <5>1, <5>2, Pending
      <4>4. OfSession(x)' \subseteq OfSession(x) \ ({c} \X (1..j))
        BY <3>3, <4>2
      <4> HIDE DEF j, x0
      <4> QED
        BY <1>1, <1>2, <1>3, <2>1, <4>1, <4>3, <4>4, BoundedLeave
    <3> QED
      BY <3>4, <3>5
  <2>4. CASE RemainingInSession(c) /\ Move(c, "survey")
    <3>1. spent' = spent
      BY <2>4 DEF RemainingInSession
    <3>2. OfSession(x)' \subseteq ({c} \X (1..j)) \cup ((Call \ {c}) \X (1..MaxTake))
      BY <2>4, BesideOthers
    <3>3. CASE x # x0
      BY <2>2, <2>4, <3>1, <3>3, BesideOthers
    <3>4. CASE x = x0
      <4>1. spent'[x] + j <= SessionSeconds
        <5>1. call' # [call EXCEPT ![c].pc = "done"]
          BY <1>1, <2>4 DEF Move, TypeOK, CallRecord
        <5>2. ~(spent[x0] + j > SessionSeconds)
          BY <1>5, <2>4, <3>4, <5>1, SessionAssumption DEF RemainingInSession, Move
        <5> QED
          BY <1>1, <1>2, <3>1, <3>4, <5>2
      <4> HIDE DEF j
      <4> QED
        BY <1>1, <1>2, <3>2, <4>1, BoundedEnter
    <3> QED
      BY <3>3, <3>4
  <2>5. CASE ~Record(c) /\ ~RecordFails(c) /\ ~(RemainingInSession(c) /\ Move(c, "survey"))
    <3>1. Calm(c, {"survey"})
      BY <2>5, CalmSteps
    <3>2. spent' = spent
      BY <2>5 DEF CallStep, Ask, Translate, TranslateAnswers, FinishTake, Begin, RemainingInSession,
                  VoiceSecondsLeft, Check, CheckSuspension, CheckBreaker, ReadTier, CheckQuota,
                  CheckFails, AskModel, AskFails, Recv, StreamEnds, StreamFails, Tell, Leave, Return
    <3> QED
      BY <2>2, <3>1, <3>2, CalmPending
  <2> QED
    BY <2>3, <2>4, <2>5
<1> QED
  BY <1>4, <1>5 DEF SpeechBounded, SecondsOf, OfSurvey, OfSession, Bounded

\* A day, a restart and what is forgotten lower both; the rest leaves them.
LEMMA InterveneKeepsSpeech ==
  ASSUME TypeOK, TypeOK', SpeechBounded, Intervene \/ UNCHANGED vars
  PROVE  SpeechBounded'
<1>1. /\ \A s \in Survey : heard[s] \in Nat /\ heard'[s] \in Nat /\ heard'[s] <= heard[s]
      /\ \A x \in Session : spent[x] \in Nat /\ spent'[x] \in Nat /\ spent'[x] <= spent[x]
  <2>1. /\ \A s \in Survey : heard[s] \in Nat /\ heard'[s] \in Nat
        /\ \A x \in Session : spent[x] \in Nat /\ spent'[x] \in Nat
    BY DEF TypeOK
  <2>2. \A s \in Survey : heard'[s] = heard[s] \/ heard'[s] = 0
    BY DEF Intervene, Suspend, Lift, SetTier, Forget, NextDay, Restart, recorded, vars
  <2>3. \A x \in Session : spent'[x] = spent[x] \/ spent'[x] = 0
    BY DEF Intervene, Suspend, Lift, SetTier, Forget, NextDay, Restart, vars, TypeOK
  <2> QED
    BY <2>1, <2>2, <2>3
<1>2. \A d \in Call : \/ call'[d].kind # "speech"
                      \/ /\ call'[d].kind = call[d].kind /\ call'[d].pc = call[d].pc
                         /\ call'[d].survey = call[d].survey /\ call'[d].session = call[d].session
                         /\ call'[d].seconds = call[d].seconds
  <2>1. CASE \E w \in Workspace : Suspend(w)
    BY <2>1 DEF Suspend, TypeOK, CallRecord
  <2>2. CASE Restart
    BY <2>2, IdleFields DEF Restart
  <2>3. CASE call' = call
    BY <2>3
  <2> QED
    BY <2>1, <2>2, <2>3 DEF Intervene, Lift, SetTier, Forget, NextDay, vars
<1>3. ASSUME NEW s \in Survey, NEW m \in OfSurvey(s)' PROVE m \in OfSurvey(s)
  <2>1. /\ m \in Call \X (1..MaxTake) /\ Taking(call'[m[1]], {}) /\ call'[m[1]].survey = s
        /\ m[2] <= call'[m[1]].seconds
    BY <1>3 DEF OfSurvey, Seconds, Takes, Taking
  <2> QED
    BY <1>2, <2>1, Pending DEF Taking
<1>4. ASSUME NEW x \in Session, NEW m \in OfSession(x)' PROVE m \in OfSession(x)
  <2>1. /\ m \in Call \X (1..MaxTake) /\ Taking(call'[m[1]], {"survey"}) /\ call'[m[1]].session = x
        /\ m[2] <= call'[m[1]].seconds
    BY <1>4 DEF OfSession, Seconds, Takes, Taking
  <2> QED
    BY <1>2, <2>1, Pending DEF Taking
<1>5. VoiceSurveyDailySeconds \in Nat /\ SessionSeconds \in Nat
  BY NumbersAssumption
<1>6. ASSUME VoiceSurveyDailySeconds > 0, NEW s \in Survey
      PROVE  Bounded(heard'[s], OfSurvey(s)', VoiceSurveyDailySeconds)
  <2>1. Bounded(heard[s], OfSurvey(s), VoiceSurveyDailySeconds)
    BY <1>6, SpeechIs
  <2>2. OfSurvey(s)' \in SUBSET OfSurvey(s) /\ OfSurvey(s) \in SUBSET (Call \X (1..MaxTake))
    BY <1>3, Pending
  <2> QED
    BY <1>1, <1>5, <2>1, <2>2, BoundedLess
<1>7. ASSUME SessionSeconds > 0, NEW x \in Session
      PROVE  Bounded(spent'[x], OfSession(x)', SessionSeconds)
  <2>1. Bounded(spent[x], OfSession(x), SessionSeconds)
    BY <1>7, SpeechIs
  <2>2. OfSession(x)' \in SUBSET OfSession(x) /\ OfSession(x) \in SUBSET (Call \X (1..MaxTake))
    BY <1>4, Pending
  <2> QED
    BY <1>1, <1>5, <2>1, <2>2, BoundedLess
<1> QED
  BY <1>6, <1>7 DEF SpeechBounded, SecondsOf, OfSurvey, OfSession, Bounded

\* The first state.
LEMMA InitSpeech == Init => SpeechBounded
<1> SUFFICES ASSUME Init PROVE SpeechBounded
  OBVIOUS
<1>1. \A s \in Survey : heard[s] = 0 /\ OfSurvey(s) = {}
  BY IdleFields DEF Init, OfSurvey, Seconds, Takes
<1>2. \A x \in Session : spent[x] = 0 /\ OfSession(x) = {}
  BY IdleFields DEF Init, OfSession, Seconds, Takes
<1>3. /\ Cardinality({}) = 0 /\ MaxTake * (Cardinality(Call) - 1) \in Nat
      /\ VoiceSurveyDailySeconds \in Nat /\ SessionSeconds \in Nat
  BY CallCount, NumbersAssumption, FS_EmptySet
<1>4. \A cap \in Nat : Bounded(0, {}, cap)
  BY <1>3 DEF Bounded
<1> QED
  BY <1>1, <1>2, <1>3, <1>4, SpeechIs

(***************************************************************************)
(* Neither a session nor a survey has more speech transcribed than its     *)
(* limit and the other takes under way at once.                            *)
(***************************************************************************)
THEOREM SpeechIsBounded == Spec => []SpeechBounded
<1>1. IInv /\ IInv' /\ SpeechBounded /\ [Next]_vars => SpeechBounded'
  <2> SUFFICES ASSUME IInv, IInv', SpeechBounded, [Next]_vars PROVE SpeechBounded'
    OBVIOUS
  <2>1. TypeOK /\ TypeOK' /\ Shape
    BY DEF IInv
  <2> QED
    BY <2>1, CallKeepsSpeech, InterveneKeepsSpeech DEF Next
<1> QED
  BY <1>1, InitSpeech, Invariant, PTL DEF Spec
=============================================================================
