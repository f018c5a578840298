-------------------------- MODULE AnsweringProofs --------------------------
(***************************************************************************)
(* Proofs about Answering, for any number of pages, submissions and        *)
(* participants, any windows in the code's order, and any number of        *)
(* processes.                                                              *)
(***************************************************************************)
EXTENDS Answering, SequenceTheorems, TLAPS

Pages == {NoPage} \cup Rendered
Clicks == {NoClick} \cup [pc : {"arrived", "formed", "checked"}, page : Page]
          \cup [pc : {"writing"}, page : Page, at : Time]

-----------------------------------------------------------------------------
(* Types.                                                                  *)

LEMMA Windows ==
    /\ MinFillTime \in Nat /\ NonceTTL \in Nat /\ ChallengeTTL \in Nat /\ SolutionTTL \in Nat
    /\ MaxFormAge \in Nat /\ MaxTime \in Nat /\ MaxEpoch \in Nat /\ MaxVersions \in Nat
    /\ NonceTTL > 0 /\ ChallengeTTL < SolutionTTL
BY WindowsAssumption

LEMMA TypeInit == Init => TypeOK
<1> SUFFICES ASSUME Init PROVE TypeOK
  OBVIOUS
<1>1. 1 \in Version /\ 0 \in Time /\ 0 \in Epoch
  BY WindowsAssumption DEF Version, Time, Epoch
<1>2. nonces \in [Page -> 0..(MaxTime + NonceTTL)]
  BY Windows DEF Init
<1>3. solutions \in [Page -> [uses : Nat, expires : 0..(MaxTime + SolutionTTL)]]
  BY Windows DEF Init, NoUse
<1>4. responses \in Seq(Response)
  BY DEF Init
<1>5. QED
  BY <1>1, <1>2, <1>3, <1>4 DEF Init, TypeOK

LEMMA ShownIsRendered ==
    ASSUME TypeOK, NEW p \in Page, page[p].shown
    PROVE  page[p] \in Rendered
BY DEF TypeOK, NoPage

LEMMA ShownTimes ==
    ASSUME TypeOK, NEW p \in Page, page[p].shown
    PROVE  /\ page[p].epoch \in Nat /\ epoch \in Nat
           /\ page[p].solution.solved => page[p].solution.minted \in Nat
<1>1. page[p] \in Rendered
  BY ShownIsRendered
<1>2. page[p].epoch \in Epoch /\ page[p].solution \in Solution /\ epoch \in Epoch
  BY <1>1 DEF Rendered, TypeOK
<1>3. page[p].solution.solved => page[p].solution.minted \in Time
  <2>1. CASE page[p].solution = Unsolved
    BY <2>1 DEF Unsolved
  <2>2. CASE page[p].solution \in [solved : {TRUE}, minted : Time, epoch : Epoch]
    BY <2>2
  <2>3. QED
    BY <1>2, <2>1, <2>2 DEF Solution
<1>4. QED
  BY <1>2, <1>3 DEF Epoch, Time

LEMMA ResponsesTyped ==
    ASSUME TypeOK, NEW i \in DOMAIN responses
    PROVE  responses[i] \in Response /\ responses[i].page \in Page
<1>1. responses \in Seq(Response) /\ i \in 1..Len(responses)
  BY DEF TypeOK
<1>2. responses[i] \in Response
  BY <1>1, ElementOfSeq
<1>3. QED
  BY <1>2 DEF Response

\* What a submission holds, by where it is.
LEMMA ClickForms ==
    ASSUME TypeOK, NEW c \in Click
    PROVE  /\ click[c].pc \in {"idle", "arrived", "formed", "checked", "writing"}
           /\ click[c].pc # "idle" => click[c].page \in Page
           /\ click[c].pc = "writing" => click[c].at \in Time
BY DEF TypeOK, NoClick

LEMMA StepsTyped ==
    ASSUME TypeOK, NEW c \in Click, NEW to \in Clicks, StepsTo(c, to)
    PROVE  /\ click' \in [Click -> Clicks]
           /\ click'[c] = to
           /\ \A d \in Click \ {c} : click'[d] = click[d]
BY DEF TypeOK, StepsTo, Clicks

LEMMA NoClickIsClick == NoClick \in Clicks
BY DEF Clicks

LEMMA RenderTyped ==
    ASSUME TypeOK, NEW p \in Page, NEW who \in Respondent, Render(p, who)
    PROVE  TypeOK'
<1>1. who \in Participant \cup {Anyone}
  BY DEF Respondent
<1>2. [shown |-> TRUE, who |-> who, version |-> survey.latest, at |-> now,
       epoch |-> epoch, solution |-> Unsolved] \in Rendered
  BY <1>1 DEF Rendered, Solution, TypeOK
<1>3. page' \in [Page -> {NoPage} \cup Rendered]
  BY <1>2 DEF Render, TypeOK
<1>4. QED
  BY <1>3 DEF Render, TypeOK, inMemory, stored

LEMMA SolveTyped ==
    ASSUME TypeOK, NEW p \in Page, SolveChallenge(p)
    PROVE  TypeOK'
<1>1. page[p] \in Rendered
  BY ShownIsRendered DEF SolveChallenge
<1>2. [solved |-> TRUE, minted |-> now, epoch |-> epoch] \in Solution
  BY DEF Solution, TypeOK
<1>3. [page[p] EXCEPT !.solution = [solved |-> TRUE, minted |-> now, epoch |-> epoch]] \in Rendered
  BY <1>1, <1>2 DEF Rendered
<1>4. page' \in [Page -> {NoPage} \cup Rendered]
  BY <1>3 DEF SolveChallenge, TypeOK
<1>5. QED
  BY <1>4 DEF SolveChallenge, TypeOK, inMemory, stored

\* An answer, and what its transaction does to the responses.
LEMMA WriteAppends ==
    ASSUME TypeOK, NEW c \in Click, Write(c), page[click[c].page].shown
    PROVE  /\ Answer(c) \in Response
           /\ responses' \in Seq(Response)
           /\ Len(responses') = Len(responses) + 1
           /\ responses'[Len(responses) + 1] = Answer(c)
           /\ \A i \in DOMAIN responses : responses'[i] = responses[i]
           /\ DOMAIN responses = 1..Len(responses)
           /\ DOMAIN responses' = 1..(Len(responses) + 1)
           /\ Len(responses) \in Nat
<1>1. click[c].page \in Page /\ click[c].at \in Time
  BY ClickForms DEF Write
<1>2. page[click[c].page] \in Rendered
  BY <1>1, ShownIsRendered
<1>3. Answer(c) \in Response
  BY <1>1, <1>2 DEF Answer, Response, Rendered
<1>4. responses \in Seq(Response) /\ responses' = Append(responses, Answer(c))
  BY DEF TypeOK, Write
<1>5. QED
  BY <1>3, <1>4

LEMMA DeletionKeeps ==
    ASSUME TypeOK, NEW i \in DOMAIN responses, DeleteResponse(i)
    PROVE  /\ responses' \in Seq(Response)
           /\ DOMAIN responses' = DOMAIN responses
           /\ \A j \in DOMAIN responses :
                 /\ responses'[j].page = responses[j].page
                 /\ responses'[j].who = responses[j].who
                 /\ responses'[j].version = responses[j].version
                 /\ responses'[j].at = responses[j].at
                 /\ responses[j].deleted => responses'[j].deleted
<1> DEFINE gone == [responses[i] EXCEPT !.deleted = TRUE]
<1>1. responses \in Seq(Response) /\ i \in 1..Len(responses)
  BY DEF TypeOK
<1>2. responses[i] \in Response
  BY <1>1, ElementOfSeq
<1>3. gone \in Response
  BY <1>2 DEF Response
<1>4. /\ gone.page = responses[i].page /\ gone.who = responses[i].who
      /\ gone.version = responses[i].version /\ gone.at = responses[i].at
      /\ gone.deleted = TRUE
  BY <1>2 DEF Response
<1>5. responses' = [responses EXCEPT ![i] = gone]
  BY DEF DeleteResponse
<1> HIDE DEF gone
<1>6. /\ responses' \in Seq(Response)
      /\ Len(responses') = Len(responses)
      /\ \A j \in 1..Len(responses) : responses'[j] = IF j = i THEN gone ELSE responses[j]
  BY <1>1, <1>3, <1>5, ExceptSeq
<1>7. QED
  BY <1>1, <1>4, <1>6

-----------------------------------------------------------------------------
(* Submissions and the forms they send.                                    *)

Anonymous(c) == page[click[c].page].who = Anyone

\* A submission sends a form that was rendered, and past its check, one of
\* this process.
SendsForm(c) ==
    /\ click[c].pc # "idle" => page[click[c].page].shown
    /\ click[c].pc \in {"formed", "checked", "writing"} => page[click[c].page].epoch = epoch
    /\ click[c].pc \in {"formed", "checked"} => Anonymous(c)

\* A form, and the challenge it carries, are no younger than the clock.
FormOfItsTime(p) ==
    page[p].shown =>
        /\ page[p].epoch <= epoch
        /\ page[p].solution.solved => page[p].solution.minted <= now

\* A response says what its form says.
FromForm(i) ==
    LET p == responses[i].page
    IN  /\ page[p].shown
        /\ responses[i].who = page[p].who
        /\ responses[i].version = page[p].version

Forms ==
    /\ \A c \in Click : SendsForm(c)
    /\ \A p \in Page : FormOfItsTime(p)
    /\ \A i \in DOMAIN responses : FromForm(i)

ClickStep(c) ==
    \/ CheckForm(c) \/ Refuse(c) \/ Verify(c) \/ RefuseChallenge(c)
    \/ UseNonce(c) \/ ThankAgain(c) \/ Write(c) \/ WriteFails(c)

LEMMA ClickStepTyped ==
    ASSUME TypeOK, Forms, NEW c \in Click, ClickStep(c)
    PROVE  TypeOK'
<1>1. ASSUME StepsTo(c, NoClick) PROVE click' \in [Click -> Clicks]
  BY <1>1, NoClickIsClick, StepsTyped
<1>2. ASSUME NEW pc \in {"arrived", "formed", "checked"}, click[c].pc # "idle",
             StepsTo(c, [pc |-> pc, page |-> click[c].page])
      PROVE  click' \in [Click -> Clicks]
  <2>1. [pc |-> pc, page |-> click[c].page] \in Clicks
    BY <1>2, ClickForms DEF Clicks
  <2>2. QED
    BY <1>2, <2>1, StepsTyped
<1>3. ASSUME click[c].pc # "idle",
             StepsTo(c, [pc |-> "writing", page |-> click[c].page, at |-> now])
      PROVE  click' \in [Click -> Clicks]
  <2>1. [pc |-> "writing", page |-> click[c].page, at |-> now] \in Clicks
    BY <1>3, ClickForms DEF Clicks, TypeOK
  <2>2. QED
    BY <1>3, <2>1, StepsTyped
<1>4. CASE CheckForm(c)
  <2>1. click' \in [Click -> Clicks]
    BY <1>2, <1>3, <1>4 DEF CheckForm
  <2>2. QED
    BY <1>4, <2>1 DEF CheckForm, TypeOK, Clicks, inMemory, stored
<1>5. CASE Refuse(c) \/ RefuseChallenge(c) \/ ThankAgain(c) \/ WriteFails(c)
  BY <1>1, <1>5
  DEF Refuse, RefuseChallenge, ThankAgain, WriteFails, TypeOK, Clicks, inMemory, stored
<1>6. CASE Verify(c)
  <2>1. click' \in [Click -> Clicks]
    BY <1>2, <1>6 DEF Verify
  <2>2. click[c].page \in Page
    BY <1>6, ClickForms DEF Verify
  <2>3. now + SolutionTTL \in 0..(MaxTime + SolutionTTL)
    BY Windows DEF TypeOK, Time
  <2>4. solutions' \in [Page -> [uses : Nat, expires : 0..(MaxTime + SolutionTTL)]]
    <3> DEFINE p == click[c].page
               once == [uses |-> solutions[p].uses + 1, expires |-> now + SolutionTTL]
    <3>1. once \in [uses : Nat, expires : 0..(MaxTime + SolutionTTL)]
      BY <2>2, <2>3 DEF TypeOK
    <3>2. solutions' = [solutions EXCEPT ![p] = once] \/ solutions' = solutions
      BY <1>6 DEF Verify
    <3> HIDE DEF once
    <3>3. QED
      BY <3>1, <3>2 DEF TypeOK
  <2>5. QED
    BY <1>6, <2>1, <2>4 DEF Verify, TypeOK, Clicks, stored
<1>7. CASE UseNonce(c)
  <2>1. click' \in [Click -> Clicks]
    BY <1>3, <1>7 DEF UseNonce
  <2>2. now + NonceTTL \in 0..(MaxTime + NonceTTL)
    BY Windows DEF TypeOK, Time
  <2>3. nonces' \in [Page -> 0..(MaxTime + NonceTTL)]
    BY <1>7, <2>2 DEF UseNonce, TypeOK
  <2>4. QED
    BY <1>7, <2>1, <2>3 DEF UseNonce, TypeOK, Clicks, stored
<1>8. CASE Write(c)
  <2>1. page[click[c].page].shown
    BY <1>8 DEF Forms, SendsForm, Write
  <2>2. click[c].page \in Page
    BY <1>8, ClickForms DEF Write
  <2>3. page[click[c].page].who \in Participant \cup {Anyone}
    BY <2>1, <2>2, ShownIsRendered DEF Rendered
  <2>4. submitted' \subseteq Participant
    BY <1>8, <2>3 DEF Write, MarkSubmitted, TypeOK
  <2>5. click' \in [Click -> Clicks]
    BY <1>1, <1>8 DEF Write
  <2>6. QED
    BY <1>8, <2>1, <2>4, <2>5, WriteAppends DEF Write, TypeOK, Clicks, inMemory
<1>9. QED
  BY <1>4, <1>5, <1>6, <1>7, <1>8 DEF ClickStep

LEMMA ArriveTyped ==
    ASSUME TypeOK, NEW c \in Click, NEW p \in Page, Arrive(c, p)
    PROVE  TypeOK'
<1>1. [pc |-> "arrived", page |-> p] \in Clicks
  BY DEF Clicks
<1>2. click' \in [Click -> Clicks]
  BY <1>1, StepsTyped DEF Arrive
<1>3. QED
  BY <1>2 DEF Arrive, TypeOK, Clicks, inMemory, stored

LEMMA RestartTyped ==
    ASSUME TypeOK, Restart
    PROVE  TypeOK'
<1>1. epoch' \in Epoch
  BY Windows DEF Restart, TypeOK, Epoch
<1>2. /\ nonces' \in [Page -> 0..(MaxTime + NonceTTL)]
      /\ solutions' \in [Page -> [uses : Nat, expires : 0..(MaxTime + SolutionTTL)]]
  BY Windows DEF Restart, NoUse
<1>3. click' \in [Click -> Clicks]
  BY DEF Restart, Clicks
<1>4. QED
  BY <1>1, <1>2, <1>3 DEF Restart, TypeOK, Clicks, stored

LEMMA ChangeTyped ==
    ASSUME TypeOK, ChangeSurvey
    PROVE  TypeOK'
<1> DEFINE Surveys == [status : {"open", "closed", "deleted"}, suspended : BOOLEAN,
                       latest : Version, invited : BOOLEAN]
<1>1. survey' \in Surveys
  <2>1. survey \in Surveys
    BY DEF TypeOK
  <2>2. ASSUME survey.latest < MaxVersions
        PROVE  [survey EXCEPT !.latest = @ + 1] \in Surveys
    BY <2>1, <2>2, Windows DEF Version
  <2>3. ASSUME NEW st \in {"open", "closed", "deleted"}
        PROVE  [survey EXCEPT !.status = st] \in Surveys
    BY <2>1
  <2>4. ASSUME NEW b \in BOOLEAN PROVE [survey EXCEPT !.suspended = b] \in Surveys
    BY <2>1
  <2>5. (~survey.suspended) \in BOOLEAN
    BY Zenon
  <2> HIDE DEF Surveys
  <2>6. QED
    BY <2>2, <2>3, <2>4, <2>5 DEF ChangeSurvey
<1>2. QED
  BY <1>1 DEF ChangeSurvey, TypeOK, inMemory, stored

LEMMA TypeStep == TypeOK /\ Forms /\ [Next]_vars => TypeOK'
<1> SUFFICES ASSUME TypeOK, Forms, [Next]_vars PROVE TypeOK'
  OBVIOUS
<1>1. ASSUME NEW i \in DOMAIN responses, DeleteResponse(i) PROVE TypeOK'
  BY <1>1, DeletionKeeps DEF DeleteResponse, TypeOK, inMemory
<1>2. CASE Tick
  BY <1>2, Windows DEF Tick, TypeOK, Time, inMemory, stored
<1>3. CASE UNCHANGED vars
  BY <1>3 DEF vars, inMemory, stored, TypeOK
<1>4. QED
  BY <1>1, <1>2, <1>3, RenderTyped, SolveTyped, ArriveTyped, ClickStepTyped, RestartTyped,
     ChangeTyped
  DEF Next, ClickStep

-----------------------------------------------------------------------------
(* A form stays as it was rendered.                                        *)

FormStays(p) ==
    page[p].shown => /\ page'[p].shown
                     /\ page'[p].who = page[p].who
                     /\ page'[p].version = page[p].version
                     /\ page'[p].epoch = page[p].epoch

LEMMA RenderKeepsForms ==
    ASSUME TypeOK, Forms, NEW q \in Page, NEW who \in Respondent, Render(q, who)
    PROVE  /\ Forms'
           /\ \A p \in Page : page[p].shown => page'[p] = page[p]
<1>1. /\ ~page[q].shown
      /\ page' = [page EXCEPT ![q] = [shown |-> TRUE, who |-> who, version |-> survey.latest,
                                      at |-> now, epoch |-> epoch, solution |-> Unsolved]]
      /\ UNCHANGED <<now, epoch, responses, click>>
  BY DEF Render, stored
<1>2. \A p \in Page : page[p].shown => page'[p] = page[p]
  BY <1>1 DEF TypeOK
<1>3. \A p \in Page : FormOfItsTime(p)'
  <2> SUFFICES ASSUME NEW p \in Page PROVE FormOfItsTime(p)'
    OBVIOUS
  <2>1. CASE p = q
    <3>1. page'[p].epoch = epoch /\ page'[p].solution = Unsolved
      BY <1>1, <2>1 DEF TypeOK
    <3>2. QED
      BY <1>1, <3>1 DEF FormOfItsTime, Unsolved, TypeOK, Epoch
  <2>2. CASE p # q
    <3>1. page'[p] = page[p]
      BY <1>1, <2>2 DEF TypeOK
    <3>2. QED
      BY <1>1, <3>1 DEF FormOfItsTime, Forms
  <2>3. QED
    BY <2>1, <2>2
<1>4. \A c \in Click : SendsForm(c)'
  BY <1>1, <1>2, ClickForms DEF Forms, SendsForm, Anonymous
<1>5. \A i \in DOMAIN responses : responses[i].page \in Page
  BY ResponsesTyped
<1>6. \A i \in DOMAIN responses' : FromForm(i)'
  BY <1>1, <1>2, <1>5 DEF Forms, FromForm
<1>7. QED
  BY <1>2, <1>3, <1>4, <1>6 DEF Forms

LEMMA SolveKeepsForms ==
    ASSUME TypeOK, Forms, NEW q \in Page, SolveChallenge(q)
    PROVE  /\ Forms'
           /\ \A p \in Page : FormStays(p)
           /\ \A p \in Page : page[p].shown /\ page[p].solution # Unsolved => page'[p] = page[p]
<1> DEFINE found == [solved |-> TRUE, minted |-> now, epoch |-> epoch]
<1>1. page[q] \in Rendered /\ page[q].solution = Unsolved
  BY ShownIsRendered DEF SolveChallenge
<1>2. /\ page' = [page EXCEPT ![q] = [page[q] EXCEPT !.solution = found]]
      /\ UNCHANGED <<now, epoch, responses, click>>
  BY DEF SolveChallenge, stored
<1>3. /\ page'[q] = [page[q] EXCEPT !.solution = found]
      /\ \A p \in Page \ {q} : page'[p] = page[p]
  BY <1>2 DEF TypeOK
<1>4. /\ page'[q].shown = page[q].shown /\ page'[q].who = page[q].who
      /\ page'[q].version = page[q].version /\ page'[q].epoch = page[q].epoch
      /\ page'[q].solution = found
  BY <1>1, <1>3 DEF Rendered
<1>5. \A p \in Page : FormStays(p)
  BY <1>3, <1>4 DEF FormStays
<1>6. \A p \in Page : FormOfItsTime(p)'
  <2> SUFFICES ASSUME NEW p \in Page PROVE FormOfItsTime(p)'
    OBVIOUS
  <2>1. CASE p = q
    BY <1>2, <1>4, <2>1 DEF FormOfItsTime, Forms, TypeOK, Time
  <2>2. CASE p # q
    BY <1>2, <1>3, <2>2 DEF FormOfItsTime, Forms
  <2>3. QED
    BY <2>1, <2>2
<1>7. \A c \in Click : SendsForm(c)'
  BY <1>2, <1>5, ClickForms DEF Forms, SendsForm, Anonymous, FormStays
<1>8. \A i \in DOMAIN responses : responses[i].page \in Page
  BY ResponsesTyped
<1>9. \A i \in DOMAIN responses' : FromForm(i)'
  BY <1>2, <1>5, <1>8 DEF Forms, FromForm, FormStays
<1>10. QED
  BY <1>1, <1>3, <1>5, <1>6, <1>7, <1>9 DEF Forms

LEMMA ClickStepKeepsForms ==
    ASSUME TypeOK, Forms, NEW c \in Click, ClickStep(c) \/ \E p \in Page : Arrive(c, p)
    PROVE  Forms'
<1>1. UNCHANGED <<now, epoch, page>> /\ \E to : StepsTo(c, to)
  BY DEF ClickStep, CheckForm, Refuse, Verify, RefuseChallenge, UseNonce, ThankAgain, Write,
         WriteFails, Arrive
<1>2. \A d \in Click \ {c} : click'[d] = click[d]
  BY <1>1 DEF StepsTo, TypeOK
<1>3. \A d \in Click \ {c} : SendsForm(d)'
  BY <1>1, <1>2 DEF Forms, SendsForm, Anonymous
<1>4. \A p \in Page : FormOfItsTime(p)'
  BY <1>1 DEF Forms, FormOfItsTime
<1>5. SendsForm(c)'
  <2>1. SendsForm(c)
    BY DEF Forms
  <2>2. ASSUME StepsTo(c, NoClick) PROVE SendsForm(c)'
    BY <2>2 DEF StepsTo, TypeOK, NoClick, SendsForm
  <2>3. CASE Refuse(c) \/ RefuseChallenge(c) \/ ThankAgain(c) \/ Write(c) \/ WriteFails(c)
    BY <2>2, <2>3 DEF Refuse, RefuseChallenge, ThankAgain, Write, WriteFails
  <2>4. CASE CheckForm(c)
    BY <1>1, <2>1, <2>4 DEF CheckForm, FormHonoured, StepsTo, TypeOK, SendsForm, Anonymous
  <2>5. CASE Verify(c)
    BY <1>1, <2>1, <2>5 DEF Verify, StepsTo, TypeOK, SendsForm, Anonymous
  <2>6. CASE UseNonce(c)
    BY <1>1, <2>1, <2>6 DEF UseNonce, StepsTo, TypeOK, SendsForm, Anonymous
  <2>7. ASSUME NEW p \in Page, Arrive(c, p) PROVE SendsForm(c)'
    BY <1>1, <2>7 DEF Arrive, StepsTo, TypeOK, SendsForm
  <2>8. QED
    BY <2>3, <2>4, <2>5, <2>6, <2>7 DEF ClickStep
<1>6. \A i \in DOMAIN responses' : FromForm(i)'
  <2>1. CASE Write(c)
    <3>1. page[click[c].page].shown
      BY <2>1 DEF Forms, SendsForm, Write
    <3> SUFFICES ASSUME NEW i \in DOMAIN responses' PROVE FromForm(i)'
      OBVIOUS
    <3>2. CASE i = Len(responses) + 1
      <4>1. responses'[i] = Answer(c) /\ page' = page
        BY <1>1, <2>1, <3>1, <3>2, WriteAppends
      <4>2. /\ responses'[i].page = click[c].page
            /\ responses'[i].who = page[click[c].page].who
            /\ responses'[i].version = page[click[c].page].version
        BY <4>1 DEF Answer
      <4>3. QED
        BY <3>1, <4>1, <4>2 DEF FromForm
    <3>3. CASE i \in DOMAIN responses
      BY <1>1, <2>1, <3>1, <3>3, WriteAppends DEF FromForm, Forms
    <3>4. QED
      BY <2>1, <3>1, <3>2, <3>3, WriteAppends
  <2>2. CASE ~Write(c)
    <3>1. responses' = responses
      BY <2>2 DEF ClickStep, CheckForm, Refuse, Verify, RefuseChallenge, UseNonce, ThankAgain,
                  WriteFails, Arrive, stored
    <3>2. QED
      BY <1>1, <3>1 DEF Forms, FromForm
  <2>3. QED
    BY <2>1, <2>2
<1>7. QED
  BY <1>3, <1>4, <1>5, <1>6 DEF Forms

LEMMA DeletionKeepsForms ==
    ASSUME TypeOK, Forms, NEW i \in DOMAIN responses, DeleteResponse(i)
    PROVE  Forms'
<1>1. UNCHANGED <<now, epoch, page, click>>
  BY DEF DeleteResponse
<1>2. \A j \in DOMAIN responses' : FromForm(j)'
  BY <1>1, DeletionKeeps DEF Forms, FromForm
<1>3. QED
  BY <1>1, <1>2 DEF Forms, SendsForm, Anonymous, FormOfItsTime

LEMMA RestartKeepsForms ==
    ASSUME TypeOK, Forms, Restart
    PROVE  Forms'
<1>1. UNCHANGED <<now, page, responses>> /\ epoch' = epoch + 1
  BY DEF Restart, stored
<1>2. \A c \in Click : SendsForm(c)'
  BY DEF Restart, SendsForm, NoClick
<1>3. \A p \in Page : FormOfItsTime(p)'
  <2> SUFFICES ASSUME NEW p \in Page, page[p].shown PROVE FormOfItsTime(p)'
    BY <1>1 DEF FormOfItsTime
  <2>1. page[p].epoch \in Nat /\ epoch \in Nat
    BY ShownTimes
  <2>2. QED
    BY <1>1, <2>1 DEF FormOfItsTime, Forms
<1>4. QED
  BY <1>1, <1>2, <1>3 DEF Forms, FromForm

LEMMA TickKeepsForms ==
    ASSUME TypeOK, Forms, Tick
    PROVE  Forms'
<1>1. UNCHANGED <<epoch, page, responses, click>> /\ now' = now + 1 /\ now \in Nat
  BY DEF Tick, stored, TypeOK, Time
<1>2. \A p \in Page : FormOfItsTime(p)'
  <2> SUFFICES ASSUME NEW p \in Page, page[p].shown, page[p].solution.solved
               PROVE  page[p].solution.minted <= now + 1
    BY <1>1 DEF Forms, FormOfItsTime
  <2>1. page[p].solution.minted \in Nat
    BY ShownTimes
  <2>2. QED
    BY <1>1, <2>1 DEF Forms, FormOfItsTime
<1>3. QED
  BY <1>1, <1>2 DEF Forms, SendsForm, Anonymous, FromForm

LEMMA FormsStep == TypeOK /\ Forms /\ [Next]_vars => Forms'
<1> SUFFICES ASSUME TypeOK, Forms, [Next]_vars PROVE Forms'
  OBVIOUS
<1>1. ASSUME UNCHANGED <<now, epoch, page, responses, click>> PROVE Forms'
  BY <1>1 DEF Forms, SendsForm, Anonymous, FormOfItsTime, FromForm
<1>2. ChangeSurvey \/ UNCHANGED vars => UNCHANGED <<now, epoch, page, responses, click>>
  BY DEF ChangeSurvey, vars, stored
<1>3. QED
  BY <1>1, <1>2, RenderKeepsForms, SolveKeepsForms, ClickStepKeepsForms, DeletionKeepsForms,
     RestartKeepsForms, TickKeepsForms
  DEF Next, ClickStep

-----------------------------------------------------------------------------
(* The base: types and forms.                                              *)

Base == TypeOK /\ Forms

LEMMA BaseInit == Init => Base
<1> SUFFICES ASSUME Init PROVE Base
  OBVIOUS
<1>1. Forms
  BY DEF Init, Forms, SendsForm, FormOfItsTime, NoPage, NoClick
<1>2. QED
  BY <1>1, TypeInit DEF Base

LEMMA BaseStep == Base /\ [Next]_vars => Base'
BY TypeStep, FormsStep DEF Base

LEMMA BaseHolds == Spec => []Base
BY BaseInit, BaseStep, PTL DEF Spec

\* Every reachable state is of the declared types.
THEOREM Types == Spec => []TypeOK
BY BaseHolds, PTL DEF Base

\* An answer belongs to the version its respondent read.
THEOREM AnswersPinned == Spec => []PinnedToServed
<1>1. Base => PinnedToServed
  BY DEF Base, Forms, FromForm, PinnedToServed, Recorded
<1>2. QED
  BY <1>1, BaseHolds, PTL

-----------------------------------------------------------------------------
(* Responses change by a transaction, or by a deletion.                    *)

LEMMA ResponsesChange ==
    ASSUME [Next]_vars
    PROVE  \/ \E c \in Click : Write(c)
           \/ \E i \in DOMAIN responses : DeleteResponse(i) /\ submitted' = submitted
           \/ UNCHANGED stored
BY DEF Next, Render, SolveChallenge, Arrive, CheckForm, Refuse, Verify, RefuseChallenge,
       UseNonce, ThankAgain, Write, WriteFails, DeleteResponse, ChangeSurvey, Tick, Restart,
       stored, vars

\* What a transaction adds, once the form's page is known to be shown.
LEMMA Writes ==
    ASSUME Base, NEW c \in Click, Write(c)
    PROVE  /\ Len(responses) \in Nat
           /\ DOMAIN responses' = DOMAIN responses \cup {Len(responses) + 1}
           /\ \A i \in DOMAIN responses : responses'[i] = responses[i]
           /\ responses'[Len(responses) + 1].page = click[c].page
           /\ responses'[Len(responses) + 1].who = page[click[c].page].who
           /\ responses'[Len(responses) + 1].at = click[c].at
           /\ click[c].page \in Page /\ click[c].at \in Time
<1>1. page[click[c].page].shown
  BY DEF Base, Forms, SendsForm, Write
<1>2. responses'[Len(responses) + 1] = Answer(c)
  BY <1>1, WriteAppends DEF Base
<1>3. /\ responses'[Len(responses) + 1].page = click[c].page
      /\ responses'[Len(responses) + 1].who = page[click[c].page].who
      /\ responses'[Len(responses) + 1].at = click[c].at
  BY <1>2 DEF Answer
<1>4. click[c].page \in Page /\ click[c].at \in Time
  BY ClickForms DEF Base, Write
<1>5. /\ Len(responses) \in Nat
      /\ DOMAIN responses = 1..Len(responses)
      /\ DOMAIN responses' = 1..(Len(responses) + 1)
      /\ \A i \in DOMAIN responses : responses'[i] = responses[i]
  BY <1>1, WriteAppends DEF Base
<1>6. DOMAIN responses' = DOMAIN responses \cup {Len(responses) + 1}
  BY <1>5
<1>7. QED
  BY <1>3, <1>4, <1>5, <1>6

-----------------------------------------------------------------------------
(* One response that counts for each participant.                          *)

LEMMA OneResponseStep == Base /\ OneResponseEach /\ [Next]_vars => OneResponseEach'
<1> SUFFICES ASSUME Base, OneResponseEach, [Next]_vars PROVE OneResponseEach'
  OBVIOUS
<1>1. ASSUME NEW c \in Click, Write(c) PROVE OneResponseEach'
  <2> DEFINE n == Len(responses) + 1
             who == page[click[c].page].who
  <2>1. who = Anyone \/ \A i \in DOMAIN responses : responses[i].who = who => responses[i].deleted
    BY <1>1 DEF Write, MayRecord, Recorded
  <2>2. /\ DOMAIN responses' = DOMAIN responses \cup {n}
        /\ \A i \in DOMAIN responses : responses'[i] = responses[i]
        /\ responses'[n].who = who
    BY <1>1, Writes
  <2> HIDE DEF n, who
  <2>3. QED
    BY <2>1, <2>2 DEF OneResponseEach
<1>2. ASSUME NEW i \in DOMAIN responses, DeleteResponse(i) PROVE OneResponseEach'
  <2>1. \A j \in DOMAIN responses :
           responses'[j].who = responses[j].who /\ (~responses'[j].deleted => ~responses[j].deleted)
    BY <1>2, DeletionKeeps DEF Base
  <2>2. DOMAIN responses' = DOMAIN responses
    BY <1>2, DeletionKeeps DEF Base
  <2>3. QED
    BY <2>1, <2>2 DEF OneResponseEach
<1>3. CASE UNCHANGED stored
  BY <1>3 DEF stored, OneResponseEach
<1>4. QED
  BY <1>1, <1>2, <1>3, ResponsesChange

\* A participant has at most one response that counts.
THEOREM OneEach == Spec => []OneResponseEach
<1>1. Init => OneResponseEach
  BY DEF Init, OneResponseEach
<1>2. QED
  BY <1>1, OneResponseStep, BaseHolds, PTL DEF Spec

-----------------------------------------------------------------------------
(* An invitation is used up by recording an answer.                        *)

LEMMA MarkedStep == Base /\ MarkedWhenRecorded /\ [Next]_vars => MarkedWhenRecorded'
<1> SUFFICES ASSUME Base, MarkedWhenRecorded, [Next]_vars PROVE MarkedWhenRecorded'
  OBVIOUS
<1> DEFINE Who == {responses[i].who : i \in DOMAIN responses}
<1>1. {r.who : r \in Recorded} = Who
  BY DEF Recorded
<1>2. {r.who : r \in Recorded}' = Who'
  BY DEF Recorded
<1>3. submitted = Who \ {Anyone}
  BY <1>1 DEF MarkedWhenRecorded
<1>4. ASSUME NEW c \in Click, Write(c) PROVE submitted' = Who' \ {Anyone}
  <2> DEFINE n == Len(responses) + 1
             who == page[click[c].page].who
  <2>1. /\ DOMAIN responses' = DOMAIN responses \cup {n}
        /\ \A i \in DOMAIN responses : responses'[i] = responses[i]
        /\ responses'[n].who = who
    BY <1>4, Writes
  <2>2. submitted' = submitted \cup ({who} \ {Anyone})
    BY <1>4 DEF Write, MarkSubmitted
  <2> HIDE DEF n, who
  <2>3. Who' = Who \cup {who}
    BY <2>1
  <2>4. QED
    BY <1>3, <2>2, <2>3
<1>5. ASSUME NEW i \in DOMAIN responses, DeleteResponse(i), submitted' = submitted
      PROVE  submitted' = Who' \ {Anyone}
  <2>1. /\ DOMAIN responses' = DOMAIN responses
        /\ \A j \in DOMAIN responses : responses'[j].who = responses[j].who
    BY <1>5, DeletionKeeps DEF Base
  <2>2. Who' = Who
    BY <2>1
  <2>3. QED
    BY <1>3, <1>5, <2>2
<1>6. CASE UNCHANGED stored
  BY <1>3, <1>6, <1>2 DEF stored, MarkedWhenRecorded
<1>7. QED
  BY <1>2, <1>4, <1>5, <1>6, ResponsesChange DEF MarkedWhenRecorded

\* A participant is marked just when a response of theirs was recorded.
THEOREM Marked == Spec => []MarkedWhenRecorded
<1>1. Init => MarkedWhenRecorded
  BY DEF Init, MarkedWhenRecorded, Recorded
<1>2. QED
  BY <1>1, MarkedStep, BaseHolds, PTL DEF Spec

-----------------------------------------------------------------------------
(* A solution is accepted once.                                            *)

\* While this process remembers a solution, its challenge has run out by
\* the time it is forgotten.
UsedOnce(p) ==
    \/ solutions[p].uses = 0
    \/ /\ solutions[p].uses = 1
       /\ page[p].shown /\ page[p].solution.solved
       /\ page[p].solution.minted + SolutionTTL <= solutions[p].expires

LEMMA VerifyUsesOnce ==
    ASSUME Base, \A p \in Page : UsedOnce(p), NEW c \in Click, Verify(c)
    PROVE  \A p \in Page : UsedOnce(p)'
<1> DEFINE q == click[c].page
<1>1. q \in Page /\ page[q].shown /\ page' = page
  BY ClickForms DEF Base, Forms, SendsForm, Verify
<1>2. CASE solutions' = solutions
  BY <1>1, <1>2 DEF UsedOnce
<1>3. CASE /\ page[q].solution.solved
           /\ SolutionHonoured(q)
           /\ solutions' = [solutions EXCEPT ![q] = [uses |-> @.uses + 1,
                                                     expires |-> now + SolutionTTL]]
  <2>1. page[q].solution.minted \in Nat /\ page[q].solution.minted <= now
    BY <1>1, <1>3, ShownTimes DEF Base, Forms, FormOfItsTime
  <2>2. now \in Nat /\ solutions[q].expires \in Nat
    BY <1>1, Windows DEF Base, TypeOK, Time
  <2>3. solutions[q].uses = 0
    BY <1>1, <1>3, <2>1, <2>2, Windows DEF UsedOnce, SolutionHonoured
  <2>4. /\ solutions'[q].uses = 1 /\ solutions'[q].expires = now + SolutionTTL
        /\ \A p \in Page \ {q} : solutions'[p] = solutions[p]
    BY <1>1, <1>3, <2>3 DEF Base, TypeOK
  <2> SUFFICES ASSUME NEW p \in Page PROVE UsedOnce(p)'
    OBVIOUS
  <2>5. CASE p = q
    BY <1>1, <1>3, <2>1, <2>2, <2>4, <2>5, Windows DEF UsedOnce
  <2>6. CASE p # q
    BY <1>1, <2>4, <2>6 DEF UsedOnce
  <2>7. QED
    BY <2>5, <2>6
<1>4. QED
  BY <1>2, <1>3 DEF Verify

LEMMA UsedOnceStep ==
    Base /\ (\A p \in Page : UsedOnce(p)) /\ [Next]_vars => (\A p \in Page : UsedOnce(p))'
<1> SUFFICES ASSUME Base, \A p \in Page : UsedOnce(p), [Next]_vars
             PROVE  \A p \in Page : UsedOnce(p)'
  OBVIOUS
<1>1. ASSUME NEW q \in Page, NEW who \in Respondent, Render(q, who)
      PROVE  \A p \in Page : UsedOnce(p)'
  <2>1. \A p \in Page : page[p].shown => page'[p] = page[p]
    BY <1>1, RenderKeepsForms DEF Base
  <2>2. solutions' = solutions
    BY <1>1 DEF Render, inMemory
  <2>3. QED
    BY <2>1, <2>2 DEF UsedOnce
<1>2. ASSUME NEW q \in Page, SolveChallenge(q) PROVE \A p \in Page : UsedOnce(p)'
  <2>1. \A p \in Page : page[p].shown /\ page[p].solution # Unsolved => page'[p] = page[p]
    BY <1>2, SolveKeepsForms DEF Base
  <2>2. solutions' = solutions
    BY <1>2 DEF SolveChallenge, inMemory
  <2>3. QED
    BY <2>1, <2>2 DEF UsedOnce, Unsolved
<1>3. CASE Restart
  BY <1>3 DEF Restart, UsedOnce, NoUse
<1>4. CASE UNCHANGED <<page, solutions>>
  BY <1>4 DEF UsedOnce
<1>5. ASSUME NEW c \in Click, Verify(c) PROVE \A p \in Page : UsedOnce(p)'
  BY <1>5, VerifyUsesOnce
<1>6. QED
  BY <1>1, <1>2, <1>3, <1>4, <1>5
  DEF Next, Arrive, CheckForm, Refuse, RefuseChallenge, UseNonce, ThankAgain, Write,
      WriteFails, DeleteResponse, ChangeSurvey, Tick, inMemory, vars

\* No process accepts a solved challenge twice.
THEOREM AcceptedOnce == Spec => []SolutionAcceptedOnce
<1>1. Init => \A p \in Page : UsedOnce(p)
  <2> SUFFICES ASSUME Init, NEW p \in Page PROVE UsedOnce(p)
    OBVIOUS
  <2>1. solutions[p].uses = 0
    BY DEF Init, NoUse
  <2>2. QED
    BY <2>1 DEF UsedOnce
<1>2. (\A p \in Page : UsedOnce(p)) => SolutionAcceptedOnce
  <2> SUFFICES ASSUME NEW p \in Page, UsedOnce(p) PROVE solutions[p].uses <= 1
    BY DEF SolutionAcceptedOnce
  <2>1. QED
    BY DEF UsedOnce
<1>3. QED
  BY <1>1, <1>2, UsedOnceStep, BaseHolds, PTL DEF Spec

-----------------------------------------------------------------------------
(* A render sent again is recorded again no sooner than its nonce is       *)
(* forgotten.                                                              *)

\* A submission that has used up its render's nonce.
Sent(c) == click[c].pc = "writing" /\ Anonymous(c)

Apart(t, u) == t >= u + NonceTTL \/ u >= t + NonceTTL

\* While this process runs, it remembers the nonces it saw used.
Remembered ==
    /\ \A c \in Click : Sent(c) => click[c].at + NonceTTL <= nonces[click[c].page]
    /\ \A i \in DOMAIN responses :
          responses[i].who = Anyone /\ page[responses[i].page].epoch = epoch =>
              responses[i].at + NonceTTL <= nonces[responses[i].page]

\* The uses of one nonce, recorded or about to be, lie apart.
UsesApart ==
    /\ \A c, d \in Click :
          Sent(c) /\ Sent(d) /\ c # d /\ click[c].page = click[d].page =>
              Apart(click[c].at, click[d].at)
    /\ \A c \in Click : \A i \in DOMAIN responses :
          Sent(c) /\ responses[i].who = Anyone /\ click[c].page = responses[i].page =>
              Apart(click[c].at, responses[i].at)
    /\ \A i, j \in DOMAIN responses :
          i # j /\ responses[i].who = Anyone /\ responses[i].page = responses[j].page =>
              Apart(responses[i].at, responses[j].at)

NonceInv == Remembered /\ UsesApart

\* Steps that use no nonce and record nothing.
LEMMA CalmKeepsNonces ==
    ASSUME Base, NonceInv, UNCHANGED <<epoch, nonces>>,
           DOMAIN responses' = DOMAIN responses,
           \A i \in DOMAIN responses : /\ responses'[i].page = responses[i].page
                                       /\ responses'[i].who = responses[i].who
                                       /\ responses'[i].at = responses[i].at,
           \A p \in Page : FormStays(p),
           \A c \in Click : Sent(c)' => Sent(c) /\ click'[c] = click[c]
    PROVE  NonceInv'
<1>1. \A i \in DOMAIN responses : page'[responses[i].page].epoch = page[responses[i].page].epoch
  BY ResponsesTyped DEF Base, Forms, FromForm, FormStays
<1>2. Remembered'
  BY <1>1 DEF NonceInv, Remembered
<1>3. UsesApart'
  BY DEF NonceInv, UsesApart, Apart
<1>4. QED
  BY <1>2, <1>3 DEF NonceInv

LEMMA UseKeepsNonces ==
    ASSUME Base, NonceInv, NEW c \in Click, UseNonce(c)
    PROVE  NonceInv'
<1> DEFINE q == click[c].page
           to == [pc |-> "writing", page |-> q, at |-> now]
<1>1. /\ q \in Page /\ nonces[q] <= now /\ ~Sent(c)
      /\ UNCHANGED <<now, epoch, page, responses>>
  BY ClickForms DEF Base, UseNonce, NonceFree, Sent, stored
<1>2. /\ click'[c] = to
      /\ \A d \in Click \ {c} : click'[d] = click[d]
  BY DEF UseNonce, StepsTo, Base, TypeOK
<1>3. nonces'[q] = now + NonceTTL /\ \A p \in Page \ {q} : nonces'[p] = nonces[p]
  BY <1>1 DEF UseNonce, Base, TypeOK
<1>4. now \in Nat /\ NonceTTL \in Nat /\ \A p \in Page : nonces[p] \in Nat
  BY Windows DEF Base, TypeOK, Time
<1>5. click'[c].pc = "writing" /\ click'[c].page = q /\ click'[c].at = now
  BY <1>2
<1> HIDE DEF q, to
<1>6. \A d \in Click \ {c} :
         /\ Sent(d)' <=> Sent(d)
         /\ click'[d].page = click[d].page /\ click'[d].at = click[d].at
  BY <1>1, <1>2 DEF Sent, Anonymous
<1>7. \A d \in Click : Sent(d) => click[d].page \in Page /\ click[d].at \in Nat
  BY ClickForms DEF Base, Sent, Time
<1>8. \A i \in DOMAIN responses : responses[i].page \in Page /\ responses[i].at \in Nat
  BY ResponsesTyped DEF Base, Response, Time
<1>9. page[q].epoch = epoch
  BY DEF Base, Forms, SendsForm, UseNonce, q
\* Whoever used this nonce before used it long enough ago.
<1>10. /\ \A d \in Click : Sent(d) /\ click[d].page = q => click[d].at + NonceTTL <= now
       /\ \A i \in DOMAIN responses :
             responses[i].who = Anyone /\ responses[i].page = q => responses[i].at + NonceTTL <= now
  BY <1>1, <1>4, <1>7, <1>8, <1>9 DEF NonceInv, Remembered
<1>11. Remembered'
  <2>1. ASSUME NEW d \in Click, Sent(d)' PROVE click'[d].at + NonceTTL <= nonces'[click'[d].page]
    <3>1. CASE d = c
      BY <1>3, <1>4, <1>5, <3>1
    <3>2. CASE d # c /\ click[d].page = q
      BY <1>3, <1>4, <1>6, <1>7, <1>10, <2>1, <3>2
    <3>3. CASE d # c /\ click[d].page # q
      BY <1>3, <1>6, <1>7, <2>1, <3>3 DEF NonceInv, Remembered
    <3>4. QED
      BY <3>1, <3>2, <3>3
  <2>2. ASSUME NEW i \in DOMAIN responses, responses[i].who = Anyone,
               page[responses[i].page].epoch = epoch
        PROVE  responses[i].at + NonceTTL <= nonces'[responses[i].page]
    <3>1. CASE responses[i].page = q
      BY <1>3, <1>4, <1>8, <1>10, <2>2, <3>1
    <3>2. CASE responses[i].page # q
      BY <1>3, <1>8, <2>2, <3>2 DEF NonceInv, Remembered
    <3>3. QED
      BY <3>1, <3>2
  <2>3. QED
    BY <1>1, <2>1, <2>2 DEF Remembered
<1>12. UsesApart'
  <2>1. ASSUME NEW d, NEW e, d \in Click, e \in Click, Sent(d)', Sent(e)', d # e,
               click'[d].page = click'[e].page
        PROVE  Apart(click'[d].at, click'[e].at)
    <3>1. CASE d = c
      BY <1>5, <1>6, <1>10, <2>1, <3>1 DEF Apart
    <3>2. CASE e = c
      BY <1>5, <1>6, <1>10, <2>1, <3>2 DEF Apart
    <3>3. CASE d # c /\ e # c
      BY <1>6, <2>1, <3>3 DEF NonceInv, UsesApart
    <3>4. QED
      BY <3>1, <3>2, <3>3
  <2>2. ASSUME NEW d, d \in Click, NEW i \in DOMAIN responses, Sent(d)', responses[i].who = Anyone,
               click'[d].page = responses[i].page
        PROVE  Apart(click'[d].at, responses[i].at)
    <3>1. CASE d = c
      BY <1>5, <1>10, <2>2, <3>1 DEF Apart
    <3>2. CASE d # c
      BY <1>6, <2>2, <3>2 DEF NonceInv, UsesApart
    <3>3. QED
      BY <3>1, <3>2
  <2>3. QED
    BY <1>1, <2>1, <2>2 DEF NonceInv, UsesApart, Apart
<1>13. QED
  BY <1>11, <1>12 DEF NonceInv

LEMMA WriteKeepsNonces ==
    ASSUME Base, NonceInv, NEW c \in Click, Write(c)
    PROVE  NonceInv'
<1> DEFINE n == Len(responses) + 1
           q == click[c].page
<1>1. /\ DOMAIN responses' = DOMAIN responses \cup {n}
      /\ \A i \in DOMAIN responses : responses'[i] = responses[i]
      /\ responses'[n].page = q /\ responses'[n].at = click[c].at
      /\ responses'[n].who = page[q].who
  BY Writes
<1>2. UNCHANGED <<epoch, page, nonces>> /\ click[c].pc = "writing"
  BY DEF Write, inMemory
<1>3. responses'[n].who = Anyone => Sent(c)
  BY <1>1, <1>2 DEF Sent, Anonymous
<1>4. \A d \in Click : Sent(d)' => Sent(d) /\ d # c /\ click'[d] = click[d]
  BY <1>2 DEF Write, StepsTo, Base, TypeOK, NoClick, Sent, Anonymous
<1> HIDE DEF n, q
<1>5. Remembered'
  BY <1>1, <1>2, <1>3, <1>4 DEF NonceInv, Remembered, q
<1>6. UsesApart'
  <2>1. \A d, e \in Click :
           Sent(d)' /\ Sent(e)' /\ d # e /\ click'[d].page = click'[e].page =>
               Apart(click'[d].at, click'[e].at)
    BY <1>4 DEF NonceInv, UsesApart
  <2>2. ASSUME NEW d \in Click, NEW i, i \in DOMAIN responses', Sent(d)',
               responses'[i].who = Anyone, click'[d].page = responses'[i].page
        PROVE  Apart(click'[d].at, responses'[i].at)
    <3>1. CASE i = n
      BY <1>1, <1>3, <1>4, <2>2, <3>1 DEF NonceInv, UsesApart, q
    <3>2. CASE i \in DOMAIN responses
      BY <1>1, <1>4, <2>2, <3>2 DEF NonceInv, UsesApart
    <3>3. QED
      BY <1>1, <2>2, <3>1, <3>2
  <2>3. ASSUME NEW i, NEW j, i \in DOMAIN responses', j \in DOMAIN responses', i # j,
               responses'[i].who = Anyone, responses'[i].page = responses'[j].page
        PROVE  Apart(responses'[i].at, responses'[j].at)
    <3>1. CASE i \in DOMAIN responses /\ j \in DOMAIN responses
      BY <1>1, <2>3, <3>1 DEF NonceInv, UsesApart
    <3>2. CASE i = n /\ j \in DOMAIN responses
      <4>1. Sent(c) /\ responses[j].page = click[c].page
        BY <1>1, <1>3, <2>3, <3>2 DEF q
      <4>2. responses[j].who = Anyone
        BY <3>2, <4>1 DEF Base, Forms, FromForm, Sent, Anonymous
      <4>3. QED
        BY <1>1, <3>2, <4>1, <4>2 DEF NonceInv, UsesApart
    <3>3. CASE i \in DOMAIN responses /\ j = n
      <4>1. responses[i].page = click[c].page /\ responses[i].who = Anyone
        BY <1>1, <2>3, <3>3 DEF q
      <4>2. Sent(c)
        BY <1>2, <3>3, <4>1 DEF Base, Forms, FromForm, Sent, Anonymous
      <4>3. QED
        BY <1>1, <3>3, <4>1, <4>2 DEF NonceInv, UsesApart, Apart
    <3>4. QED
      BY <1>1, <2>3, <3>1, <3>2, <3>3
  <2>4. QED
    BY <2>1, <2>2, <2>3 DEF UsesApart, Apart
<1>7. QED
  BY <1>5, <1>6 DEF NonceInv

\* A new process forgets the nonces, and honours none of their forms.
LEMMA RestartKeepsNonces ==
    ASSUME Base, NonceInv, Restart
    PROVE  NonceInv'
<1>1. UNCHANGED <<page, responses>> /\ epoch' = epoch + 1
  BY DEF Restart, stored
<1>2. \A c \in Click : ~Sent(c)'
  BY DEF Restart, Sent, NoClick
<1>3. \A i \in DOMAIN responses : page[responses[i].page].epoch # epoch'
  <2> SUFFICES ASSUME NEW i \in DOMAIN responses
               PROVE  page[responses[i].page].epoch # epoch'
    OBVIOUS
  <2>1. responses[i].page \in Page /\ page[responses[i].page].shown
    BY ResponsesTyped DEF Base, Forms, FromForm
  <2>2. /\ page[responses[i].page].epoch <= epoch
        /\ page[responses[i].page].epoch \in Nat /\ epoch \in Nat
    BY <2>1, ShownTimes DEF Base, Forms, FormOfItsTime
  <2>3. QED
    BY <1>1, <2>2
<1>4. Remembered'
  BY <1>1, <1>2, <1>3 DEF Remembered
<1>5. UsesApart'
  BY <1>1, <1>2 DEF NonceInv, UsesApart, Apart
<1>6. QED
  BY <1>4, <1>5 DEF NonceInv

LEMMA CalmClicksKeepNonces ==
    ASSUME Base, NonceInv, NEW c \in Click,
           \/ CheckForm(c) \/ Refuse(c) \/ Verify(c) \/ RefuseChallenge(c)
           \/ ThankAgain(c) \/ WriteFails(c) \/ \E p \in Page : Arrive(c, p)
    PROVE  NonceInv'
<1>1. UNCHANGED <<epoch, page, nonces, responses>> /\ \E to : StepsTo(c, to)
  BY DEF CheckForm, Refuse, Verify, RefuseChallenge, ThankAgain, WriteFails, Arrive,
         inMemory, stored
<1>2. \A d \in Click \ {c} : click'[d] = click[d]
  BY <1>1 DEF StepsTo, Base, TypeOK
<1>3. ~Sent(c)'
  <2>1. CASE CheckForm(c)
    BY <1>1, <2>1 DEF CheckForm, StepsTo, Base, TypeOK, Sent, Anonymous
  <2>2. CASE ~CheckForm(c)
    BY <2>2 DEF Refuse, Verify, RefuseChallenge, ThankAgain, WriteFails, Arrive, StepsTo,
                Base, TypeOK, NoClick, Sent
  <2>3. QED
    BY <2>1, <2>2
<1>4. \A p \in Page : FormStays(p)
  BY <1>1 DEF FormStays
<1>5. \A d \in Click : Sent(d)' => Sent(d) /\ click'[d] = click[d]
  BY <1>1, <1>2, <1>3 DEF Sent, Anonymous
<1>6. QED
  BY <1>1, <1>4, <1>5, CalmKeepsNonces

\* Steps that are no submission's.
LEMMA OutsideKeepsNonces ==
    ASSUME Base, NonceInv, UNCHANGED <<epoch, nonces, click>>,
           DOMAIN responses' = DOMAIN responses,
           \A i \in DOMAIN responses : /\ responses'[i].page = responses[i].page
                                       /\ responses'[i].who = responses[i].who
                                       /\ responses'[i].at = responses[i].at,
           \A p \in Page : FormStays(p)
    PROVE  NonceInv'
<1>1. ASSUME NEW c \in Click, Sent(c)' PROVE Sent(c) /\ click'[c] = click[c]
  <2>1. click[c].pc = "writing" /\ click[c].page \in Page /\ page[click[c].page].shown
    BY <1>1, ClickForms DEF Sent, Base, Forms, SendsForm
  <2>2. QED
    BY <1>1, <2>1 DEF Sent, Anonymous, FormStays
<1>2. QED
  BY <1>1, CalmKeepsNonces

LEMMA NonceStep == Base /\ NonceInv /\ [Next]_vars => NonceInv'
<1> SUFFICES ASSUME Base, NonceInv, [Next]_vars PROVE NonceInv'
  OBVIOUS
<1>1. ASSUME NEW p \in Page, NEW who \in Respondent, Render(p, who) PROVE NonceInv'
  <2>1. \A q \in Page : FormStays(q)
    BY <1>1, RenderKeepsForms DEF Base, FormStays
  <2>2. UNCHANGED <<epoch, nonces, responses, click>>
    BY <1>1 DEF Render, inMemory, stored
  <2>3. QED
    BY <2>1, <2>2, OutsideKeepsNonces
<1>2. ASSUME NEW p \in Page, SolveChallenge(p) PROVE NonceInv'
  <2>1. \A q \in Page : FormStays(q)
    BY <1>2, SolveKeepsForms DEF Base
  <2>2. UNCHANGED <<epoch, nonces, responses, click>>
    BY <1>2 DEF SolveChallenge, inMemory, stored
  <2>3. QED
    BY <2>1, <2>2, OutsideKeepsNonces
<1>3. ASSUME NEW i \in DOMAIN responses, DeleteResponse(i) PROVE NonceInv'
  <2>1. UNCHANGED <<epoch, page, nonces, click>>
    BY <1>3 DEF DeleteResponse, inMemory
  <2>2. \A q \in Page : FormStays(q)
    BY <2>1 DEF FormStays
  <2>3. QED
    BY <1>3, <2>1, <2>2, DeletionKeeps, OutsideKeepsNonces DEF Base
<1>4. CASE ChangeSurvey \/ Tick \/ UNCHANGED vars
  <2>1. UNCHANGED <<epoch, page, nonces, responses, click>>
    BY <1>4 DEF ChangeSurvey, Tick, vars, inMemory, stored
  <2>2. \A q \in Page : FormStays(q)
    BY <2>1 DEF FormStays
  <2>3. QED
    BY <2>1, <2>2, OutsideKeepsNonces
<1>5. QED
  BY <1>1, <1>2, <1>3, <1>4, CalmClicksKeepNonces, UseKeepsNonces, WriteKeepsNonces,
     RestartKeepsNonces
  DEF Next

\* One render is not recorded twice while its nonce is remembered, though
\* processes come and go.
THEOREM RepeatsLieApart == Spec => []RepeatsApart
<1>1. Init => NonceInv
  BY DEF Init, NonceInv, Remembered, UsesApart, Sent, NoClick
<1>2. Base /\ NonceInv => RepeatsApart
  <2> SUFFICES ASSUME Base, NonceInv, NEW i \in DOMAIN responses, NEW j \in DOMAIN responses,
                      i < j, responses[i].who = Anyone,
                      responses[i].page = responses[j].page
               PROVE  \/ responses[j].at >= responses[i].at + NonceTTL
                      \/ responses[i].at >= responses[j].at + NonceTTL
    BY DEF RepeatsApart
  <2>1. i # j
    <3>1. i \in Nat /\ j \in Nat
      BY DEF Base, TypeOK
    <3>2. QED
      BY <3>1
  <2>2. QED
    BY <2>1 DEF NonceInv, UsesApart, Apart
<1>3. QED
  BY <1>1, <1>2, NonceStep, BaseHolds, PTL DEF Spec

=============================================================================
