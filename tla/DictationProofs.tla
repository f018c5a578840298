-------------------------- MODULE DictationProofs --------------------------
(***************************************************************************)
(* Proofs about Dictation, for any number of takes, words, dialogs and     *)
(* lost connections, on either engine: its types, that a take which goes   *)
(* on is in the card's hand, that the words of a take come into the answer *)
(* in the order they were spoken while what was typed stays, and that no   *)
(* take is stranded on its way to its end.                                 *)
(***************************************************************************)
EXTENDS Dictation, SequenceTheorems, TLAPS

TakeWords == Takes \X (1 .. MaxWords)
TakesTyped == take \in [Takes -> TakeRecord]
LinesTyped == line \in [Takes -> LineRecord]

\* Two states of a take that are as far on as each other.
Alike(a, b) ==
    /\ a.phase = b.phase /\ a.over = b.over /\ a.dropped = b.dropped
    /\ a.mic = b.mic /\ a.timer = b.timer /\ a.opened = b.opened

-----------------------------------------------------------------------------
(* What the parts the handlers share make of a card, a take and a line.     *)

LEMMA Bounds ==
    /\ MaxTakes \in Nat /\ MaxWords \in Nat /\ CapWords \in Nat /\ MaxTyped \in Nat
    /\ MaxDialogs \in Nat /\ MaxLost \in Nat /\ MaxAttempts \in Nat
    /\ None \notin Takes
BY DictationAssumption DEF None, Takes

LEMMA CardsReset ==
    ASSUME NEW c \in CardRecord
    PROVE  /\ ResetCard(c) \in CardRecord
           /\ ResetCard(c).recorder = None /\ ResetCard(c).finishing = None
           /\ ResetCard(c).starting = c.starting
           /\ ResetCard(c).disabled = c.disabled
BY DEF CardRecord, ResetCard

LEMMA CardsDisabled ==
    ASSUME NEW c \in CardRecord
    PROVE  /\ [DisabledCard(c) EXCEPT !.starting = None] \in CardRecord
           /\ [DisabledCard(c) EXCEPT !.starting = None].disabled
           /\ [DisabledCard(c) EXCEPT !.starting = None].recorder = None
           /\ [DisabledCard(c) EXCEPT !.starting = None].finishing = None
           /\ [DisabledCard(c) EXCEPT !.starting = None].starting = None
BY CardsReset DEF CardRecord, DisabledCard

LEMMA CardsStopped ==
    ASSUME NEW c \in CardRecord
    PROVE  /\ StoppedCard(c) \in CardRecord
           /\ StoppedCard(c).recorder = None /\ StoppedCard(c).finishing = c.recorder
           /\ StoppedCard(c).starting = c.starting
           /\ StoppedCard(c).disabled = c.disabled
BY DEF CardRecord, StoppedCard

LEMMA TakesEnded ==
    ASSUME NEW tk \in TakeRecord
    PROVE  /\ Ended(tk) \in TakeRecord
           /\ Ended(tk).over /\ ~Ended(tk).mic
           /\ Ended(tk).phase = tk.phase /\ Ended(tk).dropped = tk.dropped
           /\ Ended(tk).timer = tk.timer /\ Ended(tk).opened # "pending"
BY DEF TakeRecord, Ended

LEMMA LinesHung ==
    ASSUME NEW ln \in LineRecord
    PROVE  /\ Hung(ln) \in LineRecord /\ Hung(ln).hung
           /\ ln.wire # "backoff" => Hung(ln).wire = "closed"
           /\ ln.wire = "backoff" => Hung(ln).wire = "backoff"
<1>1. NoLine \in LineRecord
  BY Bounds DEF NoLine, LineRecord
<1>2. QED
  BY <1>1 DEF Hung, LineRecord

LEMMA LinesStopped ==
    ASSUME NEW ln \in LineRecord
    PROVE  /\ StopSent(ln) \in LineRecord /\ StopSent(ln).wire = ln.wire
           /\ StopSent(ln).hung = ln.hung
<1>1. CASE ln.wire = "open"
  <2>1. Append(ln.up, <<"stop">>) \in Seq({<<"start">>, <<"stop">>} \cup TakeWords)
    BY DEF LineRecord, TakeWords
  <2>2. QED
    BY <1>1, <2>1 DEF StopSent, LineRecord, TakeWords
<1>2. CASE ln.wire \in {"connecting", "backoff"} /\ ~ln.hung
  BY <1>2 DEF StopSent, LineRecord
<1>3. CASE ln.wire \in {"none", "closed"} \/ (ln.wire # "open" /\ ln.hung)
  BY <1>3 DEF StopSent
<1>4. QED
  BY <1>1, <1>2, <1>3 DEF LineRecord

LEMMA TakesAborted ==
    ASSUME NEW f \in [Takes -> TakeRecord], NEW t \in Takes \cup {None}
    PROVE  /\ AbortedIn(f, t) \in [Takes -> TakeRecord]
           /\ \A u \in Takes : u # t => AbortedIn(f, t)[u] = f[u]
           /\ t \in Takes =>
                 /\ AbortedIn(f, t)[t].dropped
                 /\ AbortedIn(f, t)[t].phase = f[t].phase
                 /\ f[t].over => AbortedIn(f, t)[t].over
                 /\ engine = "server" => /\ AbortedIn(f, t)[t].over
                                         /\ ~AbortedIn(f, t)[t].mic
                                         /\ AbortedIn(f, t)[t].opened # "pending"
                 /\ engine # "server" => /\ AbortedIn(f, t)[t].over = f[t].over
                                         /\ AbortedIn(f, t)[t].mic = f[t].mic
                                         /\ AbortedIn(f, t)[t].opened = f[t].opened
                                         /\ AbortedIn(f, t)[t].timer = f[t].timer
<1>1. CASE t = None
  BY <1>1, Bounds DEF AbortedIn
<1>2. CASE t \in Takes /\ engine = "server"
  <2>1. /\ Ended(f[t]) \in TakeRecord
        /\ Ended(f[t]).over /\ ~Ended(f[t]).mic /\ Ended(f[t]).phase = f[t].phase
        /\ Ended(f[t]).opened # "pending"
    BY <1>2, TakesEnded
  <2> DEFINE g == [Ended(f[t]) EXCEPT !.dropped = TRUE, !.timer = FALSE]
  <2>2. /\ g \in TakeRecord /\ g.dropped /\ g.over /\ ~g.mic /\ g.phase = f[t].phase
        /\ g.opened # "pending"
    BY <2>1 DEF TakeRecord
  <2>3. AbortedIn(f, t) = [f EXCEPT ![t] = g]
    BY <1>2, Bounds DEF AbortedIn
  <2> HIDE DEF g
  <2>4. QED
    BY <1>2, <2>2, <2>3
<1>3. CASE t \in Takes /\ engine # "server"
  <2> DEFINE g == [f[t] EXCEPT !.dropped = TRUE]
  <2>1. f[t] \in TakeRecord
    BY <1>3
  <2>2. /\ g \in TakeRecord /\ g.dropped /\ g.over = f[t].over /\ g.mic = f[t].mic
        /\ g.phase = f[t].phase /\ g.opened = f[t].opened /\ g.timer = f[t].timer
    BY <2>1 DEF TakeRecord
  <2>3. AbortedIn(f, t) = [f EXCEPT ![t] = g]
    BY <1>3, Bounds DEF AbortedIn
  <2> HIDE DEF g
  <2>4. QED
    BY <1>3, <2>2, <2>3
<1>4. QED
  BY <1>1, <1>2, <1>3

LEMMA LinesHungIn ==
    ASSUME NEW f \in [Takes -> LineRecord], NEW t \in Takes \cup {None}
    PROVE  /\ HungIn(f, t) \in [Takes -> LineRecord]
           /\ \A u \in Takes : u # t => HungIn(f, t)[u] = f[u]
           /\ engine = "local" => HungIn(f, t) = f
           /\ t \in Takes /\ engine # "local" =>
                 /\ HungIn(f, t)[t].hung
                 /\ f[t].wire # "backoff" => HungIn(f, t)[t].wire = "closed"
<1>1. t \in Takes => /\ Hung(f[t]) \in LineRecord /\ Hung(f[t]).hung
                     /\ f[t].wire # "backoff" => Hung(f[t]).wire = "closed"
  BY LinesHung
<1>2. QED
  BY <1>1, Bounds DEF HungIn

LEMMA TakesCancelled ==
    ASSUME NEW f \in [Takes -> TakeRecord], card \in CardRecord,
           NEW why \in {"released", "cleared"}
    PROVE  /\ CancelledIn(f, why) \in [Takes -> TakeRecord]
           /\ \A u \in Takes : Alike(CancelledIn(f, why)[u], f[u])
<1>1. card.starting \in Takes \cup {None}
  BY DEF CardRecord
<1>2. \A u \in Takes : /\ [f[u] EXCEPT !.cancelled = why] \in TakeRecord
                       /\ Alike([f[u] EXCEPT !.cancelled = why], f[u])
  <2> TAKE u \in Takes
  <2>1. f[u] \in TakeRecord
    OBVIOUS
  <2>2. QED
    BY <2>1 DEF TakeRecord, Alike
<1>3. CASE card.starting = None
  BY <1>3 DEF CancelledIn, Alike
<1>4. CASE card.starting \in Takes
  <2> DEFINE s == card.starting
  <2>1. CancelledIn(f, why) = [f EXCEPT ![s] = [f[s] EXCEPT !.cancelled = why]]
    BY <1>4, Bounds DEF CancelledIn
  <2>2. \A u \in Takes : Alike(f[u], f[u])
    BY DEF Alike
  <2>3. QED
    BY <1>2, <1>4, <2>1, <2>2
<1>5. QED
  BY <1>1, <1>3, <1>4

\* finish: the take's timer and microphone are off, its line says so.
LEMMA TakesFinished ==
    ASSUME TakesTyped, LinesTyped, NEW t \in Takes, FinishTake(t)
    PROVE  /\ TakesTyped' /\ LinesTyped'
           /\ \A u \in Takes :
                 /\ take'[u].phase = take[u].phase /\ take'[u].over = take[u].over
                 /\ take'[u].dropped = take[u].dropped /\ take'[u].opened = take[u].opened
                 /\ take'[u].mic => take[u].mic
                 /\ take'[u].timer => take[u].timer
                 /\ line'[u].wire = line[u].wire /\ line'[u].hung = line[u].hung
<1>1. CASE engine = "server"
  <2> DEFINE g == [take[t] EXCEPT !.timer = FALSE, !.mic = FALSE]
  <2>1. take[t] \in TakeRecord /\ line[t] \in LineRecord
    BY DEF TakesTyped, LinesTyped
  <2>2. /\ g \in TakeRecord /\ ~g.mic /\ ~g.timer /\ g.phase = take[t].phase
        /\ g.over = take[t].over /\ g.dropped = take[t].dropped /\ g.opened = take[t].opened
    BY <2>1 DEF TakeRecord
  <2>3. take' = [take EXCEPT ![t] = g]
    BY <1>1 DEF FinishTake
  <2>4. line' = [line EXCEPT ![t] = StopSent(line[t])]
    BY <1>1 DEF FinishTake
  <2>5. /\ StopSent(line[t]) \in LineRecord /\ StopSent(line[t]).wire = line[t].wire
        /\ StopSent(line[t]).hung = line[t].hung
    BY <2>1, LinesStopped
  <2> HIDE DEF g
  <2>6. QED
    BY <2>2, <2>3, <2>4, <2>5 DEF TakesTyped, LinesTyped
<1>2. CASE engine # "server"
  BY <1>2 DEF FinishTake, TakesTyped, LinesTyped
<1>3. QED
  BY <1>1, <1>2

\* cleanup: the take is over, its line hung up, the card reset.
LEMMA TakesCleaned ==
    ASSUME TakesTyped, LinesTyped, card \in CardRecord, NEW t \in Takes, Cleanup(t)
    PROVE  /\ TakesTyped' /\ LinesTyped'
           /\ take'[t].over /\ ~take'[t].mic /\ take'[t].opened # "pending"
           /\ line'[t].hung /\ (line[t].wire # "backoff" => line'[t].wire = "closed")
           /\ take'[t].phase = take[t].phase /\ take'[t].dropped = take[t].dropped
           /\ \A u \in Takes \ {t} : take'[u] = take[u] /\ line'[u] = line[u]
           /\ card' = ResetCard(card)
<1>1. take[t] \in TakeRecord /\ line[t] \in LineRecord
  BY DEF TakesTyped, LinesTyped
<1>2. /\ Ended(take[t]) \in TakeRecord /\ Ended(take[t]).over /\ ~Ended(take[t]).mic
      /\ Ended(take[t]).opened # "pending" /\ Ended(take[t]).phase = take[t].phase
      /\ Ended(take[t]).dropped = take[t].dropped
  BY <1>1, TakesEnded
<1>3. /\ Hung(line[t]) \in LineRecord /\ Hung(line[t]).hung
      /\ line[t].wire # "backoff" => Hung(line[t]).wire = "closed"
  BY <1>1, LinesHung
<1>4. /\ take' = [take EXCEPT ![t] = Ended(take[t])]
      /\ line' = [line EXCEPT ![t] = Hung(line[t])]
      /\ card' = ResetCard(card)
  BY DEF Cleanup
<1>5. QED
  BY <1>2, <1>3, <1>4 DEF TakesTyped, LinesTyped

-----------------------------------------------------------------------------
(* Types.                                                                  *)

CardTyped == card \in CardRecord
RestTyped ==
    /\ engine \in Engines /\ press \in {"up", "down", "held"}
    /\ answer \in Seq(Words) /\ lost \in 0 .. MaxLost /\ overlapped \in BOOLEAN

LEMMA TypesSplit ==
    /\ DictationTypeOK <=> CardTyped /\ TakesTyped /\ LinesTyped /\ RestTyped
    /\ DictationTypeOK' <=> CardTyped' /\ TakesTyped' /\ LinesTyped' /\ RestTyped'
BY DEF DictationTypeOK, CardTyped, TakesTyped, LinesTyped, RestTyped

LEMMA TypeInit == Init => DictationTypeOK
<1> SUFFICES ASSUME Init PROVE DictationTypeOK
  OBVIOUS
<1>1. CardTyped
  <2>1. Idle \in CardRecord
    <3>1. 0 \in 0 .. MaxDialogs
      BY Bounds
    <3>2. QED
      BY <3>1 DEF Idle, CardRecord
  <2>2. PICK consented \in BOOLEAN : card = [Idle EXCEPT !.consented = consented]
    BY DEF Init
  <2>3. QED
    BY <2>1, <2>2 DEF CardRecord, CardTyped
<1>2. Unused \in TakeRecord
  BY Bounds DEF Unused, TakeRecord
<1>3. NoLine \in LineRecord
  BY Bounds DEF NoLine, LineRecord
<1>4. TakesTyped /\ LinesTyped
  BY <1>2, <1>3 DEF Init, TakesTyped, LinesTyped
<1>5. RestTyped
  <2>1. 0 \in 0 .. MaxLost
    BY Bounds
  <2>2. <<>> \in Seq(Words)
    OBVIOUS
  <2>3. QED
    BY <2>1, <2>2 DEF Init, RestTyped
<1>6. QED
  BY <1>1, <1>4, <1>5, TypesSplit

LEMMA StartTyped ==
    ASSUME TakesTyped, NEW c \in CardRecord, NEW mode \in {"toggle", "hold"}, Start(c, mode)
    PROVE  TakesTyped' /\ CardTyped' /\ overlapped' \in BOOLEAN
<1>1. PICK t \in Takes :
        /\ take' = [take EXCEPT ![t].phase = "opening", ![t].mode = mode]
        /\ card' = [c EXCEPT !.starting = t]
        /\ overlapped' = (overlapped \/ \E u \in Takes : Going(u))
  BY DEF Start
<1>2. [take[t] EXCEPT !.phase = "opening", !.mode = mode] \in TakeRecord
  BY DEF TakesTyped, TakeRecord
<1>3. TakesTyped'
  BY <1>1, <1>2 DEF TakesTyped
<1>4. CardTyped'
  BY <1>1 DEF CardTyped, CardRecord
<1>5. overlapped' \in BOOLEAN
  BY <1>1
<1>6. QED
  BY <1>3, <1>4, <1>5

LEMMA ConsentTyped ==
    ASSUME TakesTyped, CardTyped, overlapped \in BOOLEAN,
           NEW mode \in {"toggle", "hold"}, AskConsent(mode)
    PROVE  TakesTyped' /\ CardTyped' /\ overlapped' \in BOOLEAN
<1>1. CASE card.consented
  BY <1>1, StartTyped DEF AskConsent, CardTyped
<1>2. CASE ~card.consented
  <2>1. [card EXCEPT !.dialogs = @ + 1] \in CardRecord
    BY <1>2, Bounds DEF AskConsent, CardTyped, CardRecord
  <2>2. QED
    BY <1>2, <2>1 DEF AskConsent, CardTyped, TakesTyped
<1>3. QED
  BY <1>1, <1>2

LEMMA LineDownTyped ==
    ASSUME TakesTyped, LinesTyped, CardTyped, NEW t \in Takes, LineDown(t)
    PROVE  TakesTyped' /\ LinesTyped' /\ CardTyped'
<1>1. CASE line[t].hung
  <2>1. line' = [line EXCEPT ![t] = Hung(line[t])] /\ UNCHANGED <<take, card>>
    BY <1>1 DEF LineDown
  <2>2. Hung(line[t]) \in LineRecord
    BY LinesHung DEF LinesTyped
  <2>3. QED
    BY <2>1, <2>2 DEF LinesTyped, TakesTyped, CardTyped
<1>2. CASE ~line[t].hung /\ line[t].attempts = MaxAttempts
  <2>1. Cleanup(t)
    BY <1>2, Bounds DEF LineDown
  <2>2. QED
    BY <2>1, TakesCleaned, CardsReset DEF CardTyped
<1>3. CASE ~line[t].hung /\ line[t].attempts < MaxAttempts
  <2>1. line[t].attempts + 1 \in 0 .. MaxAttempts /\ line[t].queued \in BOOLEAN
    BY <1>3, Bounds DEF LinesTyped, LineRecord
  <2>2. [NoLine EXCEPT !.wire = "backoff", !.attempts = line[t].attempts + 1,
                       !.queued = line[t].queued] \in LineRecord
    <3>1. NoLine \in LineRecord
      BY Bounds DEF NoLine, LineRecord
    <3>2. QED
      BY <2>1, <3>1 DEF LineRecord
  <2>3. /\ line' = [line EXCEPT ![t] = [NoLine EXCEPT !.wire = "backoff",
                        !.attempts = line[t].attempts + 1, !.queued = line[t].queued]]
        /\ UNCHANGED <<take, card>>
    BY <1>3, Bounds DEF LineDown, LinesTyped, LineRecord
  <2>4. QED
    BY <2>2, <2>3 DEF LinesTyped, TakesTyped, CardTyped
<1>4. QED
  BY <1>1, <1>2, <1>3 DEF LineDown

LEMMA TypeByHand == DictationTypeOK /\ ByHand => DictationTypeOK'
<1> SUFFICES ASSUME DictationTypeOK, ByHand PROVE DictationTypeOK'
  OBVIOUS
<1>0. CardTyped /\ TakesTyped /\ LinesTyped /\ RestTyped
  BY TypesSplit
<1>1. /\ card \in CardRecord
      /\ card.starting \in Takes \cup {None} /\ card.recorder \in Takes \cup {None}
      /\ card.finishing \in Takes \cup {None}
  BY <1>0 DEF CardTyped, CardRecord
<1>2. CASE Stop
  <2>1. card.recorder \in Takes
    BY <1>1, <1>2, Bounds DEF Stop
  <2>2. QED
    BY <1>0, <1>1, <1>2, <2>1, TakesFinished, CardsStopped, TypesSplit
       DEF Stop, CardTyped, RestTyped
<1>3. CASE Dictate
  BY <1>0, <1>3, ConsentTyped, TypesSplit DEF Dictate, LinesTyped, RestTyped
<1>4. CASE Accept
  <2>1. PICK kept \in {card.consented, TRUE} :
          Start([card EXCEPT !.dialogs = @ - 1, !.consented = kept], "toggle")
    BY <1>4 DEF Accept
  <2>2. [card EXCEPT !.dialogs = @ - 1, !.consented = kept] \in CardRecord
    <3>1. card.dialogs - 1 \in 0 .. MaxDialogs
      BY <1>1, <1>4, Bounds DEF Accept, CardRecord
    <3>2. kept \in BOOLEAN
      BY <1>1 DEF CardRecord
    <3>3. QED
      BY <1>1, <3>1, <3>2 DEF CardRecord
  <2>3. QED
    BY <1>0, <1>4, <2>1, <2>2, StartTyped, TypesSplit DEF Accept, LinesTyped, RestTyped
<1>5. CASE Decline
  <2>1. [card EXCEPT !.dialogs = @ - 1] \in CardRecord
    BY <1>1, <1>5, Bounds DEF Decline, CardRecord
  <2>2. QED
    BY <1>0, <1>5, <2>1, TypesSplit DEF Decline, CardTyped, TakesTyped, LinesTyped, RestTyped
<1>6. CASE PressSpace
  BY <1>0, <1>6, TypesSplit DEF PressSpace, CardTyped, TakesTyped, LinesTyped, RestTyped
<1>7. CASE Hold
  <2>1. CASE UNCHANGED <<card, take, overlapped>>
    BY <1>0, <1>7, <2>1, TypesSplit DEF Hold, CardTyped, TakesTyped, LinesTyped, RestTyped
  <2>2. CASE AskConsent("hold")
    <3>1. TakesTyped' /\ CardTyped' /\ overlapped' \in BOOLEAN
      BY <1>0, <2>2, ConsentTyped DEF RestTyped
    <3>2. QED
      BY <1>0, <1>7, <3>1, TypesSplit DEF Hold, LinesTyped, RestTyped
  <2>3. QED
    BY <1>7, <2>1, <2>2 DEF Hold
<1>8. CASE Release
  <2>1. CASE take' = CancelledIn(take, "released") /\ UNCHANGED <<card, line>>
    BY <1>0, <1>1, <1>8, <2>1, TakesCancelled, TypesSplit
       DEF Release, CardTyped, TakesTyped, LinesTyped, RestTyped
  <2>2. CASE card' = StoppedCard(card) /\ FinishTake(card.recorder) /\ card.recorder # None
    <3>1. TakesTyped' /\ LinesTyped'
      BY <1>0, <1>1, <2>2, TakesFinished
    <3>2. QED
      BY <1>0, <1>1, <1>8, <2>2, <3>1, CardsStopped, TypesSplit DEF Release, CardTyped, RestTyped
  <2>3. CASE UNCHANGED <<card, take, line>>
    BY <1>0, <1>8, <2>3, TypesSplit DEF Release, CardTyped, TakesTyped, LinesTyped, RestTyped
  <2>4. QED
    BY <1>8, <2>1, <2>2, <2>3 DEF Release
<1>9. CASE Clear
  <2> DEFINE live == IF card.recorder # None THEN card.recorder ELSE card.finishing
  <2>1. live \in Takes \cup {None}
    BY <1>1
  <2>2. CancelledIn(take, "cleared") \in [Takes -> TakeRecord]
    BY <1>0, <1>1, TakesCancelled DEF TakesTyped
  <2>3. AbortedIn(CancelledIn(take, "cleared"), live) \in [Takes -> TakeRecord]
    BY <2>1, <2>2, TakesAborted
  <2>4. HungIn(line, live) \in [Takes -> LineRecord]
    BY <1>0, <2>1, LinesHungIn DEF LinesTyped
  <2>5. RestTyped'
    BY <1>0, <1>9 DEF Clear, RestTyped
  <2>6. QED
    BY <1>1, <1>9, <2>3, <2>4, <2>5, CardsReset, TypesSplit DEF Clear, CardTyped, TakesTyped, LinesTyped
<1>10. CASE Cancel
  <2> DEFINE called == IF card.finishing # None THEN card.finishing ELSE card.recorder
  <2>1. called \in Takes
    BY <1>1, <1>10 DEF Cancel
  <2>2. AbortedIn(take, called) \in [Takes -> TakeRecord]
    BY <1>0, <2>1, TakesAborted DEF TakesTyped
  <2>3. HungIn(line, called) \in [Takes -> LineRecord]
    BY <1>0, <2>1, LinesHungIn DEF LinesTyped
  <2>4. answer' \in Seq(Words)
    <3>1. take[called].written \in Seq(Takes \X (1 .. MaxWords)) /\ answer \in Seq(Words)
      BY <1>0, <2>1 DEF TakesTyped, TakeRecord, RestTyped
    <3> DEFINE n == Len(answer) - Len(take[called].written)
    <3>2. n \in Int /\ n <= Len(answer)
      BY <3>1
    <3>3. \A i \in 1 .. n : answer[i] \in Words
      BY <3>1, <3>2
    <3>4. SubSeq(answer, 1, n) \in Seq(Words)
      BY <3>2, <3>3, SubSeqProperties
    <3>5. QED
      BY <1>10, <3>1, <3>4 DEF Cancel, TakenBack
  <2>5. RestTyped'
    BY <1>0, <1>10, <2>4 DEF Cancel, RestTyped
  <2>6. QED
    BY <1>1, <1>10, <2>2, <2>3, <2>5, CardsReset, TypesSplit DEF Cancel, CardTyped, TakesTyped, LinesTyped
<1>11. CASE Hide
  <2>1. CardTyped'
    <3>1. StoppedCard(card) \in CardRecord
      BY <1>1, CardsStopped
    <3>2. \A c \in CardRecord : [c EXCEPT !.collapsed = TRUE] \in CardRecord
      BY DEF CardRecord
    <3>3. QED
      BY <1>1, <1>11, <3>1, <3>2 DEF Hide, CardTyped
  <2> DEFINE f == CancelledIn(take, "cleared")
             r == card.recorder
  <2>2. f \in [Takes -> TakeRecord]
    BY <1>0, <1>1, TakesCancelled DEF TakesTyped
  <2>3. CASE r = None \/ engine = "local"
    BY <1>0, <1>11, <2>1, <2>2, <2>3, TypesSplit DEF Hide, TakesTyped, LinesTyped, RestTyped
  <2>4. CASE ~(r = None \/ engine = "local")
    <3>1. r \in Takes
      BY <1>1, <2>4
    <3>2. [f[r] EXCEPT !.timer = FALSE, !.mic = FALSE] \in TakeRecord
      <4> HIDE DEF f, r
      <4>1. f[r] \in TakeRecord
        BY <2>2, <3>1
      <4>2. QED
        BY <4>1 DEF TakeRecord
    <3>3. take' = [f EXCEPT ![r] = [f[r] EXCEPT !.timer = FALSE, !.mic = FALSE]]
      BY <1>11, <2>4 DEF Hide
    <3>4. line' = [line EXCEPT ![r] = StopSent(line[r])] /\ StopSent(line[r]) \in LineRecord
      BY <1>0, <1>11, <2>4, <3>1, LinesStopped DEF Hide, LinesTyped
    <3> HIDE DEF f, r
    <3>5. TakesTyped' /\ LinesTyped'
      BY <1>0, <2>2, <3>1, <3>2, <3>3, <3>4 DEF TakesTyped, LinesTyped
    <3>6. QED
      BY <1>0, <1>11, <2>1, <3>5, TypesSplit DEF Hide, RestTyped
  <2>5. QED
    BY <2>3, <2>4
<1>12. CASE Show
  <2>1. [card EXCEPT !.collapsed = FALSE] \in CardRecord
    BY <1>1 DEF CardRecord
  <2>2. QED
    BY <1>0, <1>12, <2>1, TypesSplit DEF Show, CardTyped, TakesTyped, LinesTyped, RestTyped
<1>13. CASE Type
  <2>1. \A n \in 1 .. MaxTyped : Append(answer, <<Respondent, n>>) \in Seq(Words)
    <3>1. \A n \in 1 .. MaxTyped : <<Respondent, n>> \in Words
      BY DEF Words
    <3>2. QED
      BY <1>0, <3>1 DEF RestTyped
  <2>2. QED
    BY <1>0, <1>13, <2>1, TypesSplit DEF Type, CardTyped, TakesTyped, LinesTyped, RestTyped
<1>14. QED
  BY <1>2, <1>3, <1>4, <1>5, <1>6, <1>7, <1>8, <1>9, <1>10, <1>11, <1>12, <1>13 DEF ByHand

LEMMA TypeByBrowser ==
    ASSUME DictationTypeOK, NEW t \in Takes, ByBrowser(t)
    PROVE  DictationTypeOK'
<1>0. CardTyped /\ TakesTyped /\ LinesTyped /\ RestTyped
  BY TypesSplit
<1>1. card \in CardRecord /\ take[t] \in TakeRecord /\ line[t] \in LineRecord
  BY <1>0 DEF CardTyped, TakesTyped, LinesTyped
<1>2. CASE MicrophoneOpens(t)
  <2>1. /\ [take[t] EXCEPT !.phase = "capturing", !.mic = TRUE, !.timer = TRUE] \in TakeRecord
        /\ [take[t] EXCEPT !.phase = "capturing", !.mic = TRUE, !.opened = "yes"] \in TakeRecord
        /\ [line[t] EXCEPT !.wire = "connecting"] \in LineRecord
    BY <1>1 DEF TakeRecord, LineRecord
  <2>2. QED
    BY <1>0, <1>2, <2>1, TypesSplit DEF MicrophoneOpens, CardTyped, TakesTyped, LinesTyped, RestTyped
<1>3. CASE MicrophoneRefused(t)
  <2>1. [take[t] EXCEPT !.phase = "settled", !.over = TRUE] \in TakeRecord
    BY <1>1 DEF TakeRecord
  <2>2. QED
    BY <1>0, <1>1, <1>3, <2>1, CardsDisabled, TypesSplit
       DEF MicrophoneRefused, CardTyped, TakesTyped, LinesTyped, RestTyped
<1>4. CASE Settle(t)
  <2>1. [take[t] EXCEPT !.phase = "settled"] \in TakeRecord
    BY <1>1 DEF TakeRecord
  <2>2. [ResetCard(card) EXCEPT !.starting = None] \in CardRecord
    <3>1. ResetCard(card) \in CardRecord
      BY <1>1, CardsReset
    <3>2. QED
      BY <3>1 DEF CardRecord
  <2>3. [card EXCEPT !.starting = None, !.recorder = t, !.shown = "recording"] \in CardRecord
    BY <1>1 DEF CardRecord
  <2>4. RestTyped'
    BY <1>0, <1>4 DEF Settle, RestTyped
  <2> DEFINE f == [take EXCEPT ![t].phase = "settled"]
  <2>5. f \in [Takes -> TakeRecord]
    BY <1>0, <2>1 DEF TakesTyped
  <2>6. AbortedIn(f, t) \in [Takes -> TakeRecord] /\ HungIn(line, t) \in [Takes -> LineRecord]
    BY <1>0, <2>5, TakesAborted, LinesHungIn DEF LinesTyped
  <2>7. /\ take' \in {f, AbortedIn(f, t)}
        /\ line' \in {line, HungIn(line, t)}
        /\ card' \in {[ResetCard(card) EXCEPT !.starting = None],
                      [card EXCEPT !.starting = None, !.recorder = t, !.shown = "recording"]}
    BY <1>4 DEF Settle
  <2>8. QED
    BY <1>0, <2>2, <2>3, <2>4, <2>5, <2>6, <2>7, TypesSplit DEF CardTyped, TakesTyped, LinesTyped
<1>5. CASE CaptureFails(t)
  <2>1. [take[t] EXCEPT !.phase = "settled"] \in TakeRecord
    BY <1>1 DEF TakeRecord
  <2>2. QED
    BY <1>0, <1>1, <1>5, <2>1, CardsDisabled, TypesSplit
       DEF CaptureFails, CardTyped, TakesTyped, LinesTyped, RestTyped
<1>6. CASE StopTimer(t)
  <2>1. [card EXCEPT !.shown = "transcribing"] \in CardRecord
    BY <1>1 DEF CardRecord
  <2>2. TakesTyped' /\ LinesTyped'
    BY <1>0, <1>6, TakesFinished DEF StopTimer
  <2>3. QED
    BY <1>0, <1>6, <2>1, <2>2, TypesSplit DEF StopTimer, CardTyped, RestTyped
<1>7. ASSUME take[t].words < MaxWords
      PROVE  /\ take[t].words + 1 \in 1 .. MaxWords
             /\ [take[t] EXCEPT !.words = @ + 1] \in TakeRecord
  <2>1. take[t].words \in 0 .. MaxWords
    BY <1>1 DEF TakeRecord
  <2>2. take[t].words + 1 \in 1 .. MaxWords /\ take[t].words + 1 \in 0 .. MaxWords
    BY <1>7, <2>1, Bounds
  <2>3. QED
    BY <1>1, <2>2 DEF TakeRecord
<1>8. CASE Speak(t)
  <2>1. <<t, take[t].words + 1>> \in TakeWords
    BY <1>7, <1>8 DEF Speak, TakeWords
  <2>2. [line[t] EXCEPT !.up = Append(@, <<t, take[t].words + 1>>)] \in LineRecord
    <3>1. Append(line[t].up, <<t, take[t].words + 1>>)
            \in Seq({<<"start">>, <<"stop">>} \cup TakeWords)
      BY <1>1, <2>1 DEF LineRecord, TakeWords
    <3>2. QED
      BY <1>1, <3>1 DEF LineRecord, TakeWords
  <2>3. QED
    BY <1>0, <1>7, <1>8, <2>2, TypesSplit DEF Speak, CardTyped, TakesTyped, LinesTyped, RestTyped
<1>9. CASE Recognise(t)
  <2>1. <<t, take[t].words + 1>> \in Words
    BY <1>7, <1>9 DEF Recognise, Words
  <2>2. Append(answer, <<t, take[t].words + 1>>) \in Seq(Words)
    BY <1>0, <2>1 DEF RestTyped
  <2>3. QED
    BY <1>0, <1>7, <1>9, <2>2, TypesSplit DEF Recognise, CardTyped, TakesTyped, LinesTyped, RestTyped
<1>10. CASE RecogniserEnds(t)
  <2>1. [take[t] EXCEPT !.mic = FALSE, !.over = TRUE] \in TakeRecord
    BY <1>1 DEF TakeRecord
  <2>2. QED
    BY <1>0, <1>1, <1>10, <2>1, CardsReset, TypesSplit
       DEF RecogniserEnds, CardTyped, TakesTyped, LinesTyped, RestTyped
<1>11. QED
  BY <1>2, <1>3, <1>4, <1>5, <1>6, <1>8, <1>9, <1>10 DEF ByBrowser

LEMMA LinesMoved ==
    ASSUME NEW ln \in LineRecord
    PROVE  /\ \A s \in {"greeted", "started", "telling", "over"} :
                 [ln EXCEPT !.session = s] \in LineRecord
           /\ ln.up # <<>> => [ln EXCEPT !.up = Tail(@)] \in LineRecord
           /\ ln.down # <<>> => [ln EXCEPT !.down = Tail(@)] \in LineRecord
           /\ [ln EXCEPT !.session = "over", !.down = Append(@, <<"done">>)] \in LineRecord
           /\ Refused(ln) \in LineRecord
           /\ [ln EXCEPT !.session = "started", !.heard = <<>>] \in LineRecord
           /\ \A w \in TakeWords : [ln EXCEPT !.heard = Append(@, w)] \in LineRecord
           /\ ln.heard # <<>> =>
                 [ln EXCEPT !.down = Append(@, Head(ln.heard)), !.heard = Tail(@),
                            !.told = TRUE] \in LineRecord
<1> DEFINE Ups == {<<"start">>, <<"stop">>} \cup TakeWords
           Downs == {<<"done">>, <<"error">>} \cup TakeWords
<1>1. ln.up \in Seq(Ups) /\ ln.down \in Seq(Downs) /\ ln.heard \in Seq(TakeWords)
  BY DEF LineRecord, TakeWords
<1>2. /\ ln.up # <<>> => Tail(ln.up) \in Seq(Ups)
      /\ ln.down # <<>> => Tail(ln.down) \in Seq(Downs)
      /\ ln.heard # <<>> => Tail(ln.heard) \in Seq(TakeWords) /\ Head(ln.heard) \in TakeWords
  BY <1>1, HeadTailProperties
<1>3. /\ Append(ln.down, <<"done">>) \in Seq(Downs) /\ Append(ln.down, <<"error">>) \in Seq(Downs)
      /\ \A w \in TakeWords : Append(ln.heard, w) \in Seq(TakeWords)
      /\ ln.heard # <<>> => Append(ln.down, Head(ln.heard)) \in Seq(Downs)
  BY <1>1, <1>2
<1>4. <<>> \in Seq(TakeWords)
  OBVIOUS
<1>5. LineRecord =
        [wire : {"none", "connecting", "open", "backoff", "closed"},
         attempts : 0 .. MaxAttempts, queued : BOOLEAN, hung : BOOLEAN,
         up : Seq(Ups), down : Seq(Downs),
         session : {"none", "greeted", "started", "telling", "over"},
         heard : Seq(TakeWords), told : BOOLEAN]
  BY DEF LineRecord, TakeWords
<1> HIDE DEF Ups, Downs
<1>6. QED
  BY <1>2, <1>3, <1>4, <1>5 DEF Refused

LEMMA TypeByWire ==
    ASSUME DictationTypeOK, NEW t \in Takes, ByWire(t)
    PROVE  DictationTypeOK'
<1>0. CardTyped /\ TakesTyped /\ LinesTyped /\ RestTyped
  BY TypesSplit
<1>1. card \in CardRecord /\ take[t] \in TakeRecord /\ line[t] \in LineRecord
  BY <1>0 DEF CardTyped, TakesTyped, LinesTyped
<1>2. CASE Connect(t)
  <2>1. [take[t] EXCEPT !.opened = IF @ = "pending" THEN "yes" ELSE @] \in TakeRecord
    BY <1>1 DEF TakeRecord
  <2>2. [NoLine EXCEPT !.wire = "open", !.hung = line[t].hung,
                       !.up = Greeting(line[t]), !.session = "greeted"] \in LineRecord
    <3>1. NoLine \in LineRecord
      BY Bounds DEF NoLine, LineRecord
    <3>2. Greeting(line[t]) \in Seq({<<"start">>, <<"stop">>} \cup TakeWords)
      <4> DEFINE Ups == {<<"start">>, <<"stop">>} \cup TakeWords
      <4>1. <<"start">> \in Ups /\ <<"stop">> \in Ups
        OBVIOUS
      <4> HIDE DEF Ups
      <4>2. << <<"start">>, <<"stop">> >> \in Seq(Ups) /\ << <<"start">> >> \in Seq(Ups)
        BY <4>1
      <4>3. QED
        BY <4>2 DEF Greeting, Ups
    <3>3. line[t].hung \in BOOLEAN
      BY <1>1 DEF LineRecord
    <3>4. QED
      BY <3>1, <3>2, <3>3 DEF LineRecord, TakeWords
  <2>3. QED
    BY <1>0, <1>2, <2>1, <2>2, TypesSplit DEF Connect, CardTyped, TakesTyped, LinesTyped, RestTyped
<1>3. CASE ConnectFails(t)
  BY <1>0, <1>3, LineDownTyped, TypesSplit DEF ConnectFails, RestTyped
<1>4. CASE Retry(t)
  <2>1. [line[t] EXCEPT !.wire = "connecting"] \in LineRecord
    BY <1>1 DEF LineRecord
  <2>2. QED
    BY <1>0, <1>4, <2>1, TypesSplit DEF Retry, CardTyped, TakesTyped, LinesTyped, RestTyped
<1>5. CASE LineLost(t)
  <2>1. lost' \in 0 .. MaxLost
    BY <1>0, <1>5, Bounds DEF LineLost, RestTyped
  <2>2. QED
    BY <1>0, <1>5, <2>1, LineDownTyped, TypesSplit DEF LineLost, RestTyped
<1>6. CASE Deliver(t)
  <2> DEFINE frame == Head(line[t].down)
  <2>1. CASE ~take[t].dropped /\ Ends(frame)
    <3>1. Cleanup(t) /\ UNCHANGED <<answer, engine, press, lost, overlapped>>
      BY <1>6, <2>1 DEF Deliver, Hears
    <3>2. QED
      BY <1>0, <1>1, <3>1, TakesCleaned, CardsReset, TypesSplit DEF CardTyped, RestTyped
  <2>2. CASE ~take[t].dropped /\ ~Ends(frame)
    <3>1. frame \in TakeWords
      <4>1. line[t].down \in Seq({<<"done">>, <<"error">>} \cup TakeWords) /\ line[t].down # <<>>
        BY <1>1, <1>6 DEF Deliver, LineRecord, TakeWords
      <4>2. frame \in {<<"done">>, <<"error">>} \cup TakeWords
        BY <4>1, HeadTailProperties
      <4>3. QED
        BY <2>2, <4>2 DEF Ends
    <3>2. Append(answer, frame) \in Seq(Words)
      BY <1>0, <3>1 DEF RestTyped, Words, TakeWords
    <3>3. [take[t] EXCEPT !.written = Append(@, frame)] \in TakeRecord
      <4> HIDE DEF frame
      <4>1. Append(take[t].written, frame) \in Seq(TakeWords)
        BY <1>1, <3>1 DEF TakeRecord, TakeWords
      <4>2. QED
        BY <1>1, <4>1 DEF TakeRecord, TakeWords
    <3>4. [line[t] EXCEPT !.down = Tail(@)] \in LineRecord
      BY <1>1, <1>6, LinesMoved DEF Deliver
    <3>5. /\ answer' = Append(answer, frame)
          /\ take' = [take EXCEPT ![t].written = Append(@, frame)]
          /\ line' = [line EXCEPT ![t].down = Tail(@)]
          /\ UNCHANGED <<card, engine, press, lost, overlapped>>
      BY <1>6, <2>2 DEF Deliver, Hears
    <3> HIDE DEF frame
    <3>6. QED
      BY <1>0, <3>2, <3>3, <3>4, <3>5, TypesSplit DEF CardTyped, TakesTyped, LinesTyped, RestTyped
  <2>3. CASE take[t].dropped
    <3>1. /\ \/ line' = [line EXCEPT ![t] = Hung(line[t])]
             \/ line' = [line EXCEPT ![t] = [line[t] EXCEPT !.down = Tail(line[t].down)]]
          /\ UNCHANGED <<engine, card, press, take, answer, lost, overlapped>>
      BY <1>6, <2>3 DEF Deliver
    <3>2. Hung(line[t]) \in LineRecord
      BY <1>1, LinesHung
    <3>3. [line[t] EXCEPT !.down = Tail(line[t].down)] \in LineRecord
      BY <1>1, <1>6, LinesMoved DEF Deliver
    <3>4. LinesTyped'
      BY <1>0, <3>1, <3>2, <3>3 DEF LinesTyped
    <3>5. QED
      BY <1>0, <3>1, <3>4, TypesSplit DEF CardTyped, TakesTyped, RestTyped
  <2>4. QED
    BY <2>1, <2>2, <2>3
<1>7. CASE ServerReceives(t)
  <2> DEFINE message == Head(line[t].up)
             ln == [line[t] EXCEPT !.up = Tail(@)]
  <2>1. ln \in LineRecord
    BY <1>1, <1>7, LinesMoved DEF ServerReceives
  <2>2. message \in {<<"start">>, <<"stop">>} \cup TakeWords
    <3>1. line[t].up \in Seq({<<"start">>, <<"stop">>} \cup TakeWords) /\ line[t].up # <<>>
      BY <1>1, <1>7 DEF ServerReceives, LineRecord, TakeWords
    <3>2. QED
      BY <3>1, HeadTailProperties
  <2> HIDE DEF message, ln
  <2>3. /\ Started(ln) \subseteq LineRecord
        /\ Stopped(ln) \in LineRecord
        /\ message \in TakeWords => Heard(ln, message) \in LineRecord
    BY <2>1, LinesMoved DEF Started, Stopped, Heard
  <2>4. \E next \in LineRecord : line' = [line EXCEPT ![t] = next]
    <3>1. \/ \E next \in Started(ln) : line' = [line EXCEPT ![t] = next]
          \/ line' = [line EXCEPT ![t] = Stopped(ln)]
          \/ message \in TakeWords /\ line' = [line EXCEPT ![t] = Heard(ln, message)]
      BY <1>7, <2>2 DEF ServerReceives, message, ln
    <3>2. QED
      BY <2>3, <3>1
  <2>5. UNCHANGED <<engine, card, press, take, answer, lost, overlapped>>
    BY <1>7 DEF ServerReceives
  <2>6. QED
    BY <1>0, <2>4, <2>5, TypesSplit DEF CardTyped, TakesTyped, LinesTyped, RestTyped
<1>8. CASE ServerTells(t)
  <2>1. \E next \in LineRecord : line' = [line EXCEPT ![t] = next]
    <3>1. \/ /\ line[t].heard # <<>>
             /\ line' = [line EXCEPT ![t].down = Append(@, Head(line[t].heard)),
                                     ![t].heard = Tail(@), ![t].told = TRUE]
          \/ line' = [line EXCEPT ![t].session = "over", ![t].down = Append(@, <<"done">>)]
          \/ line' = [line EXCEPT ![t] = Refused(@)]
      BY <1>8 DEF ServerTells
    <3>2. QED
      BY <1>0, <1>1, <3>1, LinesMoved DEF LinesTyped
  <2>2. UNCHANGED <<engine, card, press, take, answer, lost, overlapped>>
    BY <1>8 DEF ServerTells
  <2>3. QED
    BY <1>0, <2>1, <2>2, TypesSplit DEF CardTyped, TakesTyped, LinesTyped, RestTyped
<1>9. QED
  BY <1>2, <1>3, <1>4, <1>5, <1>6, <1>7, <1>8 DEF ByWire

LEMMA TypeStep == DictationTypeOK /\ [Next]_vars => DictationTypeOK'
<1> SUFFICES ASSUME DictationTypeOK, [Next]_vars PROVE DictationTypeOK'
  OBVIOUS
<1>1. CASE ByHand
  BY <1>1, TypeByHand
<1>2. ASSUME NEW t \in Takes, ByBrowser(t) PROVE DictationTypeOK'
  BY <1>2, TypeByBrowser
<1>3. ASSUME NEW t \in Takes, ByWire(t) PROVE DictationTypeOK'
  BY <1>3, TypeByWire
<1>4. CASE UNCHANGED vars
  BY <1>4 DEF vars, DictationTypeOK
<1>5. QED
  BY <1>1, <1>2, <1>3, <1>4 DEF Next

\* The card, the takes and the sockets keep the shape their closures have.
THEOREM DictationTypes == Spec => []DictationTypeOK
<1>1. QED
  BY TypeInit, TypeStep, PTL DEF Spec

-----------------------------------------------------------------------------
(* In the card's hand.                                                     *)

\* A take that is over listens no more, and its socket is gone or hung up; one
\* whose microphone is not open yet has neither begun to.  A socket hung up that is
\* not gone was called off with its take, which hears nothing more of it.
Fits(tk, ln, e) ==
    /\ tk.phase \in {"unused", "opening"} =>
          /\ ~tk.over /\ ~tk.mic
          /\ tk.opened = "pending" /\ ln.wire = "none"
    /\ tk.over => ~tk.mic /\ (ln.wire \in {"none", "closed"} \/ ln.hung)
    /\ tk.opened = "no" => tk.over
    /\ e = "local" => ln.wire = "none" /\ ~ln.hung
    /\ ln.hung => /\ tk.over /\ tk.opened # "pending"
                  /\ tk.dropped \/ ln.wire = "closed"
    /\ e = "server" /\ tk.dropped => ln.hung

Shape == \A t \in Takes : Fits(take[t], line[t], engine)

Unsettled(t) == take[t].phase \in {"opening", "capturing"}

Named ==
    \A t \in Takes : t \in {card.recorder, card.finishing} => take[t].phase = "settled"

\* Where no take was begun beside another, one at most goes on.
Sole == ~overlapped => \A t, u \in Takes : Going(t) /\ Going(u) => t = u

Starting == ~overlapped => \A t \in Takes : Unsettled(t) => card.starting = t

Parts == Shape /\ Named /\ Sole /\ Starting /\ TakeInHand

LEMMA Engined == DictationTypeOK => engine \in {"server", "local"}
BY DictationAssumption DEF DictationTypeOK

LEMMA PartsInit == Init => Parts
<1> SUFFICES ASSUME Init PROVE Parts
  OBVIOUS
<1>1. PICK consented \in BOOLEAN : card = [Idle EXCEPT !.consented = consented]
  BY DEF Init
<1>2. card.starting = None /\ card.recorder = None /\ card.finishing = None
  BY <1>1 DEF Idle
<1>3. \A t \in Takes : take[t] = Unused /\ line[t] = NoLine
  BY DEF Init
<1>4. \A t \in Takes : ~Going(t) /\ ~Unsettled(t)
  BY <1>2, <1>3, Bounds DEF Going, Running, Held, Unused, Unsettled
<1>5. Shape
  BY <1>3 DEF Shape, Fits, Unused, NoLine
<1>6. QED
  BY <1>2, <1>4, <1>5, Bounds DEF Parts, Named, Sole, Starting, TakeInHand, Going

\* Nothing that matters here happens to a take.
AsBefore(u) ==
    /\ take'[u].phase = take[u].phase /\ take'[u].over = take[u].over
    /\ take'[u].dropped = take[u].dropped
    /\ take'[u].mic => take[u].mic
    /\ line'[u].hung = line[u].hung
    /\ \/ take'[u].opened = take[u].opened /\ line'[u].wire = line[u].wire
       \/ /\ take'[u].opened \in {take[u].opened, "yes"}
          /\ line[u].wire \notin {"none", "closed"}

SameNames == card'.starting = card.starting /\ card'.disabled = card.disabled

LEMMA ShapeOfOthers ==
    ASSUME Shape, UNCHANGED engine, NEW u \in Takes, AsBefore(u)
    PROVE  Fits(take'[u], line'[u], engine')
BY DEF Shape, Fits, AsBefore

\* A step that moves names about in the card, at most.
LEMMA CalmStep ==
    ASSUME DictationTypeOK, Parts, UNCHANGED <<engine, overlapped>>, SameNames,
           \A u \in Takes : AsBefore(u),
           {card'.recorder, card'.finishing} \subseteq {card.recorder, card.finishing, None},
           card.recorder \in {None, card'.recorder, card'.finishing},
           card.recorder # None \/ card.finishing \in {None, card'.recorder, card'.finishing}
    PROVE  Parts'
<1>1. card.recorder \in Takes \cup {None} /\ None \notin Takes
  BY Bounds DEF DictationTypeOK, CardRecord
<1>2. Shape'
  BY ShapeOfOthers DEF Shape, Parts
<1>3. \A u \in Takes : (Going(u)' => Going(u)) /\ Running(u)' = Running(u)
  BY <1>1 DEF Going, Running, Held, AsBefore, SameNames
<1>4. Named'
  BY <1>1 DEF Named, Parts, AsBefore
<1>5. Sole'
  BY <1>3 DEF Sole, Parts
<1>6. Starting'
  BY DEF Starting, Unsettled, Parts, AsBefore, SameNames
<1>7. TakeInHand'
  <2> SUFFICES ASSUME ~overlapped, ~card.disabled, NEW u \in Takes,
                      Running(u), ~take[u].dropped
               PROVE  Held(u)'
    BY <1>3 DEF TakeInHand, AsBefore, SameNames
  <2>1. Held(u) /\ Going(u)
    BY DEF TakeInHand, Parts, Going
  <2>2. card.recorder \in Takes => card.recorder = u
    BY <2>1 DEF Sole, Parts, Going, Held
  <2>3. QED
    BY <1>1, <2>1, <2>2 DEF Held, SameNames
<1>8. QED
  BY <1>2, <1>4, <1>5, <1>6, <1>7 DEF Parts

\* A step that ends the take t, or drops it, and resets the card.
LEMMA EndingStep ==
    ASSUME DictationTypeOK, Parts, UNCHANGED <<engine, overlapped>>, SameNames,
           card'.recorder = None, card'.finishing = None,
           NEW t \in Takes, Going(t), \A u \in Takes \ {t} : AsBefore(u),
           take'[t].phase = take[t].phase, take[t].over => take'[t].over,
           take'[t].over \/ take'[t].dropped,
           take[t].phase \notin {"unused", "opening"}, Fits(take'[t], line'[t], engine')
    PROVE  Parts'
<1>1. None \notin Takes
  BY Bounds
<1>2. Shape'
  BY ShapeOfOthers DEF Shape, Parts
<1>3. \A u \in Takes : Going(u)' => Going(u)
  BY <1>1 DEF Going, Running, Held, AsBefore, SameNames
<1>4. Named'
  BY <1>1 DEF Named
<1>5. Sole'
  BY <1>3 DEF Sole, Parts
<1>6. Starting'
  BY DEF Starting, Unsettled, Parts, AsBefore, SameNames
<1>7. TakeInHand'
  <2> SUFFICES ASSUME ~overlapped, NEW u \in Takes, Running(u)', ~take'[u].dropped
               PROVE  FALSE
    BY DEF TakeInHand
  <2>1. u # t
    BY DEF Running
  <2>2. Going(u)
    BY <1>3 DEF Going
  <2>3. QED
    BY <2>1, <2>2 DEF Sole, Parts
<1>8. QED
  BY <1>2, <1>4, <1>5, <1>6, <1>7 DEF Parts

\* A step in which the promise that opens the take t settles.
LEMMA SettlingStep ==
    ASSUME DictationTypeOK, Parts, UNCHANGED <<engine, overlapped>>,
           NEW t \in Takes, Unsettled(t), \A u \in Takes \ {t} : AsBefore(u),
           take'[t].phase = "settled", card'.starting = None,
           {card'.recorder, card'.finishing} \subseteq {t, card.finishing, None},
           card'.disabled \/ take'[t].over \/ take'[t].dropped \/ card'.recorder = t,
           take[t].over => take'[t].over, Fits(take'[t], line'[t], engine')
    PROVE  Parts'
<1>1. None \notin Takes
  BY Bounds
<1>2. Shape'
  BY ShapeOfOthers DEF Shape, Parts
<1>3. ~overlapped => card.starting = t /\ Going(t)
  BY DEF Starting, Parts, Going, Held
<1>4. \A u \in Takes : u # t => (Going(u)' => Going(u)) /\ Running(u)' = Running(u)
  BY <1>1 DEF Going, Running, Held, AsBefore
<1>5. Named'
  BY <1>1 DEF Named, Parts, AsBefore
<1>6. Sole'
  BY <1>3, <1>4 DEF Sole, Parts
<1>7. Starting'
  BY <1>3 DEF Starting, Unsettled, Parts, AsBefore
<1>8. TakeInHand'
  <2> SUFFICES ASSUME ~overlapped, ~card'.disabled, NEW u \in Takes,
                      Running(u)', ~take'[u].dropped
               PROVE  Held(u)'
    BY DEF TakeInHand
  <2>1. CASE u = t
    BY <2>1 DEF Running, Held
  <2>2. CASE u # t
    BY <1>3, <1>4, <2>2 DEF Sole, Parts, Going
  <2>3. QED
    BY <2>1, <2>2
<1>9. QED
  BY <1>2, <1>5, <1>6, <1>7, <1>8 DEF Parts

LEMMA StartStep ==
    ASSUME DictationTypeOK, Parts, UNCHANGED <<engine, line>>, NEW c \in CardRecord,
           c.recorder = card.recorder, c.finishing = card.finishing, c.disabled = card.disabled,
           NEW mode \in {"toggle", "hold"}, Start(c, mode)
    PROVE  Parts'
<1>1. None \notin Takes /\ card.recorder \in Takes \cup {None} /\ card.finishing \in Takes \cup {None}
  BY Bounds DEF DictationTypeOK, CardRecord
<1>2. PICK t \in Takes :
        /\ take[t].phase = "unused"
        /\ take' = [take EXCEPT ![t].phase = "opening", ![t].mode = mode]
        /\ card' = [c EXCEPT !.starting = t]
        /\ overlapped' = (overlapped \/ \E u \in Takes : Going(u))
  BY DEF Start
<1>3. /\ card'.starting = t /\ card'.recorder = card.recorder
      /\ card'.finishing = card.finishing /\ card'.disabled = card.disabled
  BY <1>2 DEF CardRecord
<1>4. /\ take'[t].phase = "opening" /\ take'[t].over = take[t].over
      /\ take'[t].mic = take[t].mic /\ take'[t].opened = take[t].opened
      /\ take'[t].dropped = take[t].dropped
  <2>1. take[t] \in TakeRecord /\ take'[t] = [take[t] EXCEPT !.phase = "opening", !.mode = mode]
    BY <1>2 DEF DictationTypeOK
  <2>2. QED
    BY <2>1 DEF TakeRecord
<1>5. \A u \in Takes : u # t => take'[u] = take[u]
  BY <1>2 DEF DictationTypeOK
<1>6. ~overlapped' => \A u \in Takes : ~Going(u)
  BY <1>2 DEF DictationTypeOK
<1>7. Shape'
  <2> SUFFICES ASSUME NEW u \in Takes PROVE Fits(take'[u], line'[u], engine')
    BY DEF Shape
  <2>0. Fits(take[u], line[u], engine) /\ Fits(take[t], line[t], engine)
    BY DEF Shape, Parts
  <2>1. CASE u = t
    BY <1>2, <1>4, <2>0, <2>1 DEF Fits
  <2>2. CASE u # t
    <3>1. take'[u] = take[u]
      BY <1>5, <2>2
    <3>2. QED
      BY <2>0, <3>1 DEF Fits
  <2>3. QED
    BY <2>1, <2>2
<1>8. Named'
  BY <1>1, <1>2, <1>3, <1>5 DEF Named, Parts
<1>9. ~overlapped' => \A u \in Takes : u # t => ~Going(u)'
  BY <1>1, <1>3, <1>5, <1>6 DEF Going, Running, Held
<1>10. ~overlapped' => Starting
  BY <1>2 DEF Parts, DictationTypeOK
<1>11. Starting'
  <2>1. ~overlapped' => ~overlapped /\ \A u \in Takes : ~Unsettled(u)
    BY <1>2, <1>6, <1>10 DEF Starting, Going, Held, DictationTypeOK
  <2>2. \A u \in Takes : u # t => Unsettled(u)' = Unsettled(u)
    BY <1>5 DEF Unsettled
  <2>3. QED
    BY <1>3, <2>1, <2>2 DEF Starting
<1>12. TakeInHand'
  BY <1>3, <1>9 DEF TakeInHand, Going, Held
<1>13. Sole'
  BY <1>9 DEF Sole
<1>14. QED
  BY <1>7, <1>8, <1>11, <1>12, <1>13 DEF Parts

LEMMA ConsentStep ==
    ASSUME DictationTypeOK, Parts, UNCHANGED <<engine, line>>,
           NEW mode \in {"toggle", "hold"}, AskConsent(mode)
    PROVE  Parts'
<1>1. card \in CardRecord
  BY DEF DictationTypeOK
<1>2. CASE card.consented
  BY <1>1, <1>2, StartStep DEF AskConsent
<1>3. CASE ~card.consented
  <2>1. /\ card'.starting = card.starting /\ card'.disabled = card.disabled
        /\ card'.recorder = card.recorder /\ card'.finishing = card.finishing
        /\ UNCHANGED <<take, overlapped>>
    BY <1>1, <1>3 DEF AskConsent, CardRecord
  <2>2. QED
    BY <2>1, CalmStep DEF SameNames, AsBefore
<1>4. QED
  BY <1>2, <1>3

\* Those handlers of the respondent that neither start nor end a take.
LEMMA CalmByHand ==
    ASSUME DictationTypeOK, Parts,
           Stop \/ Decline \/ PressSpace \/ Release \/ Hide \/ Show \/ Type
    PROVE  Parts'
<1>0. /\ card \in CardRecord /\ TakesTyped /\ LinesTyped
      /\ card.recorder \in Takes \cup {None} /\ None \notin Takes
      /\ engine \in {"server", "local"}
  BY Bounds, Engined DEF DictationTypeOK, CardRecord, TakesTyped, LinesTyped
<1>1. ASSUME card.recorder # None, FinishTake(card.recorder), card' = StoppedCard(card),
             UNCHANGED <<engine, overlapped>>
      PROVE  Parts'
  <2>1. \A u \in Takes : AsBefore(u)
    BY <1>0, <1>1, TakesFinished DEF AsBefore
  <2>2. /\ SameNames /\ card'.recorder = None /\ card'.finishing = card.recorder
    BY <1>0, <1>1, CardsStopped DEF SameNames
  <2>3. QED
    BY <1>1, <2>1, <2>2, CalmStep
<1>2. ASSUME \A u \in Takes : AsBefore(u), SameNames, UNCHANGED <<engine, overlapped>>,
             card'.recorder = card.recorder, card'.finishing = card.finishing
      PROVE  Parts'
  BY <1>2, CalmStep
<1>3. UNCHANGED <<take, line>> => \A u \in Takes : AsBefore(u)
  BY DEF AsBefore
<1>4. \A why \in {"released", "cleared"} :
        take' = CancelledIn(take, why) /\ line' = line => \A u \in Takes : AsBefore(u)
  BY <1>0, TakesCancelled DEF Alike, AsBefore, TakesTyped
<1>5. CASE Stop
  BY <1>1, <1>5 DEF Stop
<1>6. CASE Decline
  <2>1. SameNames /\ card'.recorder = card.recorder /\ card'.finishing = card.finishing
    BY <1>0, <1>6 DEF Decline, SameNames, CardRecord
  <2>2. QED
    BY <1>2, <1>3, <1>6, <2>1 DEF Decline
<1>7. CASE PressSpace \/ Type
  BY <1>2, <1>3, <1>7 DEF PressSpace, Type, SameNames
<1>8. CASE Release
  <2>1. CASE take' = CancelledIn(take, "released") /\ UNCHANGED <<card, line>>
    BY <1>2, <1>4, <1>8, <2>1 DEF Release, SameNames
  <2>2. CASE card' = StoppedCard(card) /\ FinishTake(card.recorder) /\ card.recorder # None
    BY <1>1, <1>8, <2>2 DEF Release
  <2>3. CASE UNCHANGED <<card, take, line>>
    BY <1>2, <1>3, <1>8, <2>3 DEF Release, SameNames
  <2>4. QED
    BY <1>8, <2>1, <2>2, <2>3 DEF Release
<1>9. CASE Show
  <2>1. SameNames /\ card'.recorder = card.recorder /\ card'.finishing = card.finishing
    BY <1>0, <1>9 DEF Show, SameNames, CardRecord
  <2>2. QED
    BY <1>2, <1>3, <1>9, <2>1 DEF Show
<1>10. CASE Hide
  <2> DEFINE f == CancelledIn(take, "cleared")
             r == card.recorder
             c == IF r = None THEN card ELSE StoppedCard(card)
  <2>1. /\ f \in [Takes -> TakeRecord]
        /\ \A u \in Takes : Alike(f[u], take[u])
    BY <1>0, TakesCancelled DEF TakesTyped
  <2>2. c \in CardRecord /\ card' = [c EXCEPT !.collapsed = TRUE]
    BY <1>0, <1>10, CardsStopped DEF Hide
  <2>3. /\ card'.starting = c.starting /\ card'.disabled = c.disabled
        /\ card'.recorder = c.recorder /\ card'.finishing = c.finishing
    <3> HIDE DEF c
    <3>1. QED
      BY <2>2 DEF CardRecord
  <2>4. SameNames
    BY <1>0, <2>3, CardsStopped DEF SameNames
  <2>5. r = None => card'.recorder = card.recorder /\ card'.finishing = card.finishing
    BY <2>3
  <2>6. r # None => card'.recorder = None /\ card'.finishing = r
    BY <1>0, <2>3, CardsStopped
  <2>7. \A u \in Takes : AsBefore(u)
    <3>1. CASE r = None \/ engine = "local"
      BY <1>4, <1>10, <3>1 DEF Hide
    <3>2. CASE ~(r = None \/ engine = "local")
      <4> DEFINE g == [f[r] EXCEPT !.timer = FALSE, !.mic = FALSE]
      <4> HIDE DEF f, r
      <4>1. r \in Takes
        BY <1>0, <3>2 DEF r
      <4>2. f[r] \in TakeRecord /\ line[r] \in LineRecord
        BY <1>0, <2>1, <4>1 DEF LinesTyped
      <4>3. /\ g.phase = f[r].phase /\ g.over = f[r].over /\ g.dropped = f[r].dropped
            /\ ~g.mic /\ g.opened = f[r].opened
        BY <4>2 DEF TakeRecord
      <4>4. take' = [f EXCEPT ![r] = g] /\ line' = [line EXCEPT ![r] = StopSent(line[r])]
        BY <1>10, <3>2 DEF Hide, f, r
      <4> HIDE DEF g
      <4>5. StopSent(line[r]).wire = line[r].wire /\ StopSent(line[r]).hung = line[r].hung
        BY <4>2, LinesStopped
      <4>6. /\ \A u \in Takes : take'[u] = IF u = r THEN g ELSE f[u]
            /\ \A u \in Takes : line'[u].wire = line[u].wire /\ line'[u].hung = line[u].hung
        BY <1>0, <2>1, <4>1, <4>4, <4>5 DEF LinesTyped
      <4>7. QED
        BY <2>1, <4>3, <4>6 DEF AsBefore, Alike
    <3>3. QED
      BY <3>1, <3>2
  <2>8. UNCHANGED <<engine, overlapped>>
    BY <1>10 DEF Hide
  <2> HIDE DEF c
  <2>9. QED
    BY <2>4, <2>5, <2>6, <2>7, <2>8, CalmStep
<1>11. QED
  BY <1>5, <1>6, <1>7, <1>8, <1>9, <1>10

\* abort of a take the card holds by name, or of one that was about to be.
LEMMA AbortedShape ==
    ASSUME DictationTypeOK, Parts, NEW t \in Takes, NEW f \in [Takes -> TakeRecord],
           f[t].over = take[t].over, f[t].opened = take[t].opened,
           f[t].mic => take[t].mic, f[t].phase \notin {"unused", "opening"},
           take' = AbortedIn(f, t), line' = HungIn(line, t), UNCHANGED engine
    PROVE  /\ take'[t].phase = f[t].phase
           /\ take[t].over => take'[t].over
           /\ take'[t].dropped
           /\ Fits(take'[t], line'[t], engine')
<1>1. engine \in {"server", "local"} /\ LinesTyped
  BY Engined DEF DictationTypeOK, LinesTyped
<1>2. Fits(take[t], line[t], engine)
  BY DEF Parts, Shape
<1>3. /\ take'[t].phase = f[t].phase /\ take'[t].dropped
      /\ f[t].over => take'[t].over
      /\ engine = "server" => take'[t].over /\ ~take'[t].mic /\ take'[t].opened # "pending"
      /\ engine = "local" => /\ take'[t].over = f[t].over /\ take'[t].mic = f[t].mic
                             /\ take'[t].opened = f[t].opened
  BY <1>1, TakesAborted
<1>4. /\ engine = "local" => line' = line
      /\ engine = "server" => line'[t].hung
  BY <1>1, LinesHungIn DEF LinesTyped
<1>5. CASE engine = "server"
  BY <1>2, <1>3, <1>4, <1>5 DEF Fits
<1>6. CASE engine = "local"
  BY <1>2, <1>3, <1>4, <1>6 DEF Fits
<1>7. QED
  BY <1>1, <1>5, <1>6

LEMMA ClearStep ==
    ASSUME DictationTypeOK, Parts, Clear
    PROVE  Parts'
<1> DEFINE live == IF card.recorder # None THEN card.recorder ELSE card.finishing
           f == CancelledIn(take, "cleared")
<1>0. /\ card \in CardRecord /\ TakesTyped /\ LinesTyped
      /\ live \in Takes \cup {None} /\ None \notin Takes
      /\ live \in {card.recorder, card.finishing}
  BY Bounds DEF DictationTypeOK, CardRecord, TakesTyped, LinesTyped
<1>1. f \in [Takes -> TakeRecord] /\ \A u \in Takes : Alike(f[u], take[u])
  BY <1>0, TakesCancelled DEF TakesTyped
<1>2. /\ take' = AbortedIn(f, live) /\ line' = HungIn(line, live)
      /\ card' = ResetCard(card) /\ UNCHANGED <<engine, overlapped>>
  BY DEF Clear
<1>3. SameNames /\ card'.recorder = None /\ card'.finishing = None
  BY <1>0, <1>2, CardsReset DEF SameNames
<1>4. \A u \in Takes : u # live => AsBefore(u)
  <2> TAKE u \in Takes
  <2> HIDE DEF f, live
  <2>1. u # live => take'[u] = f[u] /\ line'[u] = line[u]
    BY <1>0, <1>1, <1>2, TakesAborted, LinesHungIn DEF LinesTyped
  <2>2. QED
    BY <1>1, <2>1 DEF Alike, AsBefore
<1>5. CASE live = None
  <2>1. card.recorder = None /\ card.finishing = None
    BY <1>5
  <2>2. QED
    BY <1>0, <1>2, <1>3, <1>4, <1>5, <2>1, CalmStep
<1>6. CASE live \in Takes
  <2>1. take[live].phase = "settled" /\ Going(live)
    BY <1>0, <1>6 DEF Parts, Named, Going, Held
  <2> HIDE DEF live, f
  <2>2. f[live].over = take[live].over /\ f[live].opened = take[live].opened
        /\ f[live].phase = take[live].phase /\ (f[live].mic => take[live].mic)
    BY <1>1, <1>6 DEF Alike
  <2>3. /\ take'[live].phase = f[live].phase
        /\ take[live].over => take'[live].over
        /\ take'[live].dropped
        /\ Fits(take'[live], line'[live], engine')
    BY <1>1, <1>2, <1>6, <2>1, <2>2, AbortedShape
  <2>4. QED
    BY <1>2, <1>3, <1>4, <1>6, <2>1, <2>2, <2>3, EndingStep
<1>7. QED
  BY <1>0, <1>5, <1>6

LEMMA CancelStep ==
    ASSUME DictationTypeOK, Parts, Cancel
    PROVE  Parts'
<1> DEFINE called == IF card.finishing # None THEN card.finishing ELSE card.recorder
<1>0. /\ card \in CardRecord /\ TakesTyped /\ LinesTyped
      /\ called \in Takes /\ None \notin Takes
      /\ called \in {card.recorder, card.finishing}
  BY Bounds DEF DictationTypeOK, CardRecord, TakesTyped, LinesTyped, Cancel
<1>1. /\ take' = AbortedIn(take, called) /\ line' = HungIn(line, called)
      /\ card' = ResetCard(card) /\ UNCHANGED <<engine, overlapped>>
  BY DEF Cancel
<1>2. SameNames /\ card'.recorder = None /\ card'.finishing = None
  BY <1>0, <1>1, CardsReset DEF SameNames
<1>3. take[called].phase = "settled" /\ Going(called)
  BY <1>0 DEF Parts, Named, Going, Held
<1> HIDE DEF called
<1>4. \A u \in Takes \ {called} : AsBefore(u)
  BY <1>0, <1>1, TakesAborted, LinesHungIn DEF TakesTyped, LinesTyped, AsBefore
<1>5. /\ take'[called].phase = take[called].phase
      /\ take[called].over => take'[called].over
      /\ take'[called].dropped
      /\ Fits(take'[called], line'[called], engine')
  BY <1>0, <1>1, <1>3, AbortedShape DEF TakesTyped
<1>6. QED
  BY <1>0, <1>1, <1>2, <1>3, <1>4, <1>5, EndingStep

LEMMA HandByHand ==
    ASSUME DictationTypeOK, Parts, ByHand
    PROVE  Parts'
<1>1. CASE Dictate
  BY <1>1, ConsentStep DEF Dictate
<1>2. CASE Accept
  <2>0. PICK kept \in {card.consented, TRUE} :
          Start([card EXCEPT !.dialogs = @ - 1, !.consented = kept], "toggle")
    BY <1>2 DEF Accept
  <2> DEFINE c == [card EXCEPT !.dialogs = @ - 1, !.consented = kept]
  <2>1. card \in CardRecord /\ kept \in BOOLEAN
    BY DEF DictationTypeOK, CardRecord
  <2>2. card.dialogs - 1 \in 0 .. MaxDialogs
    BY <1>2, <2>1, Bounds DEF Accept, CardRecord
  <2>3. /\ c \in CardRecord /\ c.recorder = card.recorder
        /\ c.finishing = card.finishing /\ c.disabled = card.disabled
    BY <2>1, <2>2 DEF CardRecord
  <2>4. Start(c, "toggle") /\ UNCHANGED <<engine, line>>
    BY <1>2, <2>0 DEF Accept
  <2> HIDE DEF c
  <2>5. QED
    BY <2>3, <2>4, StartStep
<1>3. CASE Hold
  <2>1. CASE AskConsent("hold")
    BY <1>3, <2>1, ConsentStep DEF Hold
  <2>2. CASE UNCHANGED <<card, take, overlapped>>
    BY <1>3, <2>2, CalmStep DEF Hold, SameNames, AsBefore
  <2>3. QED
    BY <1>3, <2>1, <2>2 DEF Hold
<1>4. QED
  BY <1>1, <1>2, <1>3, CalmByHand, ClearStep, CancelStep DEF ByHand

LEMMA SettleStep ==
    ASSUME DictationTypeOK, Parts, NEW t \in Takes, Settle(t)
    PROVE  Parts'
<1> DEFINE f == [take EXCEPT ![t] = [take[t] EXCEPT !.phase = "settled"]]
<1>0. /\ card \in CardRecord /\ TakesTyped /\ LinesTyped /\ take[t] \in TakeRecord
      /\ UNCHANGED <<engine, overlapped>> /\ Unsettled(t)
  BY DEF DictationTypeOK, CardRecord, TakesTyped, LinesTyped, Settle, Unsettled
<1>1. /\ f \in [Takes -> TakeRecord] /\ f[t].phase = "settled"
      /\ f[t].over = take[t].over /\ f[t].opened = take[t].opened
      /\ f[t].mic = take[t].mic /\ f[t].dropped = take[t].dropped
      /\ \A u \in Takes : u # t => f[u] = take[u]
  <2>1. /\ [take[t] EXCEPT !.phase = "settled"] \in TakeRecord
        /\ [take[t] EXCEPT !.phase = "settled"].phase = "settled"
        /\ [take[t] EXCEPT !.phase = "settled"].over = take[t].over
        /\ [take[t] EXCEPT !.phase = "settled"].opened = take[t].opened
        /\ [take[t] EXCEPT !.phase = "settled"].mic = take[t].mic
        /\ [take[t] EXCEPT !.phase = "settled"].dropped = take[t].dropped
    BY <1>0 DEF TakeRecord
  <2>2. QED
    BY <1>0, <2>1 DEF TakesTyped
<1>2. take' = f /\ line' = line => Fits(take'[t], line'[t], engine')
  <2>1. Fits(take[t], line[t], engine)
    BY DEF Parts, Shape
  <2> HIDE DEF f
  <2>2. QED
    BY <1>0, <1>1, <2>1 DEF Fits
<1>3. /\ [ResetCard(card) EXCEPT !.starting = None].recorder = None
      /\ [ResetCard(card) EXCEPT !.starting = None].finishing = None
      /\ [ResetCard(card) EXCEPT !.starting = None].starting = None
  <2>1. ResetCard(card) \in CardRecord /\ ResetCard(card).recorder = None
        /\ ResetCard(card).finishing = None
    BY <1>0, CardsReset
  <2>2. QED
    BY <2>1 DEF CardRecord
<1>4. /\ [card EXCEPT !.starting = None, !.recorder = t, !.shown = "recording"].recorder = t
      /\ [card EXCEPT !.starting = None, !.recorder = t, !.shown = "recording"].finishing
           = card.finishing
      /\ [card EXCEPT !.starting = None, !.recorder = t, !.shown = "recording"].starting = None
  BY <1>0 DEF CardRecord
<1>5. CASE /\ take[t].opened = "no" /\ take' = f /\ line' = line
           /\ card' = [ResetCard(card) EXCEPT !.starting = None]
  <2>1. \A u \in Takes \ {t} : AsBefore(u)
    BY <1>1, <1>5 DEF AsBefore
  <2>2. take[t].over
    BY <1>5 DEF Parts, Shape, Fits
  <2> HIDE DEF f
  <2>3. QED
    BY <1>0, <1>1, <1>2, <1>3, <1>5, <2>1, <2>2, SettlingStep
<1>6. CASE /\ take' = AbortedIn(f, t) /\ line' = HungIn(line, t)
           /\ card' = [ResetCard(card) EXCEPT !.starting = None]
  <2> HIDE DEF f
  <2>1. \A u \in Takes \ {t} : AsBefore(u)
    BY <1>0, <1>1, <1>6, TakesAborted, LinesHungIn DEF LinesTyped, AsBefore
  <2>2. /\ take'[t].phase = "settled"
        /\ take[t].over => take'[t].over
        /\ take'[t].dropped
        /\ Fits(take'[t], line'[t], engine')
    BY <1>0, <1>1, <1>6, AbortedShape
  <2>3. QED
    BY <1>0, <1>3, <1>6, <2>1, <2>2, SettlingStep
<1>7. CASE /\ take' = f /\ line' = line
           /\ card' = [card EXCEPT !.starting = None, !.recorder = t, !.shown = "recording"]
  <2>1. \A u \in Takes \ {t} : AsBefore(u)
    BY <1>1, <1>7 DEF AsBefore
  <2> HIDE DEF f
  <2>2. /\ card'.recorder = t /\ card'.starting = None
        /\ {card'.recorder, card'.finishing} \subseteq {t, card.finishing, None}
    BY <1>4, <1>7
  <2>3. QED
    BY <1>0, <1>1, <1>2, <1>7, <2>1, <2>2, SettlingStep
<1>8. QED
  BY <1>5, <1>6, <1>7 DEF Settle

LEMMA HandByBrowser ==
    ASSUME DictationTypeOK, Parts, NEW t \in Takes, ByBrowser(t)
    PROVE  Parts'
<1>0. /\ card \in CardRecord /\ TakesTyped /\ LinesTyped
      /\ take[t] \in TakeRecord /\ line[t] \in LineRecord
      /\ engine \in {"server", "local"}
  BY Engined DEF DictationTypeOK, TakesTyped, LinesTyped
<1>1. Fits(take[t], line[t], engine)
  BY DEF Parts, Shape
<1>2. CASE MicrophoneOpens(t)
  <2>1. UNCHANGED <<engine, card, overlapped>> /\ take[t].phase = "opening"
    BY <1>2 DEF MicrophoneOpens
  <2>2. /\ \A u \in Takes \ {t} : take'[u] = take[u] /\ line'[u] = line[u]
        /\ take'[t].phase = "capturing" /\ take'[t].over = take[t].over
        /\ take'[t].dropped = take[t].dropped /\ take'[t].opened # "no"
        /\ line'[t].hung = line[t].hung
        /\ engine = "local" => line'[t].wire = "none"
    <3>1. CASE engine = "server"
      <4>1. /\ take' = [take EXCEPT ![t] = [take[t] EXCEPT !.phase = "capturing",
                                               !.mic = TRUE, !.timer = TRUE]]
            /\ line' = [line EXCEPT ![t] = [line[t] EXCEPT !.wire = "connecting"]]
            /\ [line[t] EXCEPT !.wire = "connecting"].hung = line[t].hung
        BY <1>0, <1>2, <3>1 DEF MicrophoneOpens, LineRecord
      <4>2. /\ [take[t] EXCEPT !.phase = "capturing", !.mic = TRUE, !.timer = TRUE].phase = "capturing"
            /\ [take[t] EXCEPT !.phase = "capturing", !.mic = TRUE, !.timer = TRUE].over = take[t].over
            /\ [take[t] EXCEPT !.phase = "capturing", !.mic = TRUE, !.timer = TRUE].dropped = take[t].dropped
            /\ [take[t] EXCEPT !.phase = "capturing", !.mic = TRUE, !.timer = TRUE].opened = take[t].opened
        BY <1>0 DEF TakeRecord
      <4>3. QED
        BY <1>0, <1>1, <2>1, <3>1, <4>1, <4>2 DEF TakesTyped, LinesTyped, Fits
    <3>2. CASE engine # "server"
      <4>1. /\ take' = [take EXCEPT ![t] = [take[t] EXCEPT !.phase = "capturing",
                                               !.mic = TRUE, !.opened = "yes"]]
            /\ line' = line
        BY <1>2, <3>2 DEF MicrophoneOpens
      <4>2. /\ [take[t] EXCEPT !.phase = "capturing", !.mic = TRUE, !.opened = "yes"].phase = "capturing"
            /\ [take[t] EXCEPT !.phase = "capturing", !.mic = TRUE, !.opened = "yes"].over = take[t].over
            /\ [take[t] EXCEPT !.phase = "capturing", !.mic = TRUE, !.opened = "yes"].dropped = take[t].dropped
            /\ [take[t] EXCEPT !.phase = "capturing", !.mic = TRUE, !.opened = "yes"].opened = "yes"
        BY <1>0 DEF TakeRecord
      <4>3. QED
        BY <1>0, <1>1, <3>2, <4>1, <4>2 DEF TakesTyped, LinesTyped, Fits
    <3>3. QED
      BY <3>1, <3>2
  <2>3. \A u \in Takes : /\ Running(u)' = Running(u) /\ Held(u)' = Held(u)
                         /\ Unsettled(u)' = Unsettled(u) /\ take'[u].dropped = take[u].dropped
    BY <2>1, <2>2 DEF Running, Held, Unsettled
  <2>4. Shape'
    <3>1. Fits(take'[t], line'[t], engine')
      BY <1>1, <2>1, <2>2 DEF Fits
    <3>2. ASSUME NEW u \in Takes \ {t} PROVE Fits(take'[u], line'[u], engine')
      <4>1. Fits(take[u], line[u], engine)
        BY DEF Shape, Parts
      <4>2. QED
        BY <2>1, <2>2, <4>1 DEF Fits
    <3>3. QED
      BY <3>1, <3>2 DEF Shape
  <2>5. Named'
    BY <2>1, <2>2 DEF Named, Parts
  <2>6. Sole' /\ Starting' /\ TakeInHand'
    BY <2>1, <2>3 DEF Sole, Starting, TakeInHand, Parts, Going
  <2>7. QED
    BY <2>4, <2>5, <2>6 DEF Parts
<1>3. CASE MicrophoneRefused(t)
  <2>1. /\ [take[t] EXCEPT !.phase = "settled", !.over = TRUE].phase = "settled"
        /\ [take[t] EXCEPT !.phase = "settled", !.over = TRUE].over
        /\ [take[t] EXCEPT !.phase = "settled", !.over = TRUE].mic = take[t].mic
        /\ [take[t] EXCEPT !.phase = "settled", !.over = TRUE].dropped = take[t].dropped
        /\ [take[t] EXCEPT !.phase = "settled", !.over = TRUE].opened = take[t].opened
    BY <1>0 DEF TakeRecord
  <2>2. /\ take' = [take EXCEPT ![t] = [take[t] EXCEPT !.phase = "settled", !.over = TRUE]]
        /\ card' = [DisabledCard(card) EXCEPT !.starting = None]
        /\ UNCHANGED <<engine, line, overlapped>> /\ take[t].phase = "opening"
    BY <1>3 DEF MicrophoneRefused
  <2>3. /\ take'[t].phase = "settled" /\ take'[t].over /\ take'[t].mic = take[t].mic
        /\ take'[t].dropped = take[t].dropped /\ take'[t].opened = take[t].opened
        /\ \A u \in Takes \ {t} : AsBefore(u)
    BY <1>0, <2>1, <2>2 DEF TakesTyped, AsBefore
  <2>4. /\ card'.starting = None /\ card'.recorder = None /\ card'.finishing = None
    BY <1>0, <2>2, CardsDisabled
  <2>5. Unsettled(t) /\ Fits(take'[t], line'[t], engine')
    BY <1>1, <2>2, <2>3 DEF Unsettled, Fits
  <2>6. QED
    BY <2>2, <2>3, <2>4, <2>5, SettlingStep
<1>4. CASE CaptureFails(t)
  <2>1. /\ [take[t] EXCEPT !.phase = "settled"].phase = "settled"
        /\ [take[t] EXCEPT !.phase = "settled"].over = take[t].over
        /\ [take[t] EXCEPT !.phase = "settled"].mic = take[t].mic
        /\ [take[t] EXCEPT !.phase = "settled"].opened = take[t].opened
        /\ [take[t] EXCEPT !.phase = "settled"].dropped = take[t].dropped
    BY <1>0 DEF TakeRecord
  <2>2. /\ take' = [take EXCEPT ![t] = [take[t] EXCEPT !.phase = "settled"]]
        /\ card' = [DisabledCard(card) EXCEPT !.starting = None]
        /\ UNCHANGED <<engine, line, overlapped>> /\ take[t].phase = "capturing"
    BY <1>4 DEF CaptureFails
  <2>3. /\ take'[t].phase = "settled" /\ take'[t].over = take[t].over
        /\ take'[t].mic = take[t].mic /\ take'[t].opened = take[t].opened
        /\ take'[t].dropped = take[t].dropped
        /\ \A u \in Takes \ {t} : AsBefore(u)
    BY <1>0, <2>1, <2>2 DEF TakesTyped, AsBefore
  <2>4. /\ card'.starting = None /\ card'.recorder = None /\ card'.finishing = None
        /\ card'.disabled
    BY <1>0, <2>2, CardsDisabled
  <2>5. Unsettled(t) /\ Fits(take'[t], line'[t], engine')
    BY <1>1, <2>2, <2>3 DEF Unsettled, Fits
  <2>6. QED
    BY <2>2, <2>3, <2>4, <2>5, SettlingStep
<1>5. CASE StopTimer(t)
  <2>1. \A u \in Takes : AsBefore(u)
    BY <1>0, <1>5, TakesFinished DEF StopTimer, AsBefore
  <2>2. /\ SameNames /\ card'.recorder = card.recorder /\ card'.finishing = card.finishing
        /\ UNCHANGED <<engine, overlapped>>
    BY <1>0, <1>5 DEF StopTimer, SameNames, CardRecord
  <2>3. QED
    BY <2>1, <2>2, CalmStep
<1>6. CASE Speak(t) \/ Recognise(t)
  <2>1. take' = [take EXCEPT ![t] = [take[t] EXCEPT !.words = @ + 1]]
        /\ UNCHANGED <<engine, card, overlapped>>
    BY <1>6 DEF Speak, Recognise
  <2>2. Alike([take[t] EXCEPT !.words = @ + 1], take[t])
    BY <1>0 DEF TakeRecord, Alike
  <2>3. \A u \in Takes : Alike(take'[u], take[u])
    BY <1>0, <2>1, <2>2 DEF TakesTyped, Alike
  <2>4. \A u \in Takes : line'[u].wire = line[u].wire /\ line'[u].hung = line[u].hung
    <3>1. /\ [line[t] EXCEPT !.up = Append(@, <<t, take[t].words + 1>>)].wire = line[t].wire
          /\ [line[t] EXCEPT !.up = Append(@, <<t, take[t].words + 1>>)].hung = line[t].hung
      BY <1>0 DEF LineRecord
    <3>2. QED
      BY <1>0, <1>6, <3>1 DEF Speak, Recognise, LinesTyped
  <2>5. QED
    BY <2>1, <2>3, <2>4, CalmStep DEF Alike, AsBefore, SameNames
<1>7. CASE RecogniserEnds(t)
  <2>1. /\ [take[t] EXCEPT !.mic = FALSE, !.over = TRUE].phase = take[t].phase
        /\ [take[t] EXCEPT !.mic = FALSE, !.over = TRUE].over
        /\ ~[take[t] EXCEPT !.mic = FALSE, !.over = TRUE].mic
        /\ [take[t] EXCEPT !.mic = FALSE, !.over = TRUE].opened = take[t].opened
    BY <1>0 DEF TakeRecord
  <2>2. /\ take' = [take EXCEPT ![t] = [take[t] EXCEPT !.mic = FALSE, !.over = TRUE]]
        /\ card' = ResetCard(card) /\ UNCHANGED <<engine, line, overlapped>>
        /\ engine = "local" /\ take[t].mic
    BY <1>7 DEF RecogniserEnds
  <2>3. /\ take'[t].phase = take[t].phase /\ take'[t].over /\ ~take'[t].mic
        /\ take'[t].opened = take[t].opened
        /\ \A u \in Takes \ {t} : AsBefore(u)
    BY <1>0, <2>1, <2>2 DEF TakesTyped, AsBefore
  <2>4. SameNames /\ card'.recorder = None /\ card'.finishing = None
    BY <1>0, <2>2, CardsReset DEF SameNames
  <2>5. take[t].phase \notin {"unused", "opening"} /\ Going(t)
    BY <1>1, <2>2 DEF Going, Running, Fits
  <2>6. Fits(take'[t], line'[t], engine')
    BY <1>1, <2>2, <2>3, <2>5 DEF Fits
  <2>7. QED
    BY <2>2, <2>3, <2>4, <2>5, <2>6, EndingStep
<1>8. CASE Settle(t)
  BY <1>8, SettleStep
<1>9. QED
  BY <1>2, <1>3, <1>4, <1>5, <1>6, <1>7, <1>8 DEF ByBrowser

LEMMA CleanupStep ==
    ASSUME DictationTypeOK, Parts, NEW t \in Takes, Cleanup(t),
           line[t].wire \in {"connecting", "open"}, ~line[t].hung,
           UNCHANGED <<engine, overlapped>>
    PROVE  Parts'
<1>0. /\ card \in CardRecord /\ TakesTyped /\ LinesTyped
      /\ engine \in {"server", "local"}
  BY Engined DEF DictationTypeOK, TakesTyped, LinesTyped
<1>1. /\ take[t].phase \notin {"unused", "opening"} /\ ~take[t].over /\ engine # "local"
  BY DEF Parts, Shape, Fits
<1>2. /\ take'[t].over /\ ~take'[t].mic /\ take'[t].opened # "pending"
      /\ line'[t].wire = "closed" /\ line'[t].hung
      /\ take'[t].phase = take[t].phase
      /\ \A u \in Takes \ {t} : take'[u] = take[u] /\ line'[u] = line[u]
      /\ card' = ResetCard(card)
  BY <1>0, TakesCleaned
<1>3. SameNames /\ card'.recorder = None /\ card'.finishing = None
  BY <1>0, <1>2, CardsReset DEF SameNames
<1>4. \A u \in Takes \ {t} : AsBefore(u)
  BY <1>2 DEF AsBefore
<1>5. Going(t) /\ Fits(take'[t], line'[t], engine')
  BY <1>1, <1>2 DEF Going, Running, Fits
<1>6. QED
  BY <1>1, <1>2, <1>3, <1>4, <1>5, EndingStep

LEMMA HandByWire ==
    ASSUME DictationTypeOK, Parts, NEW t \in Takes, ByWire(t)
    PROVE  Parts'
<1>0. /\ card \in CardRecord /\ TakesTyped /\ LinesTyped
      /\ take[t] \in TakeRecord /\ line[t] \in LineRecord
  BY DEF DictationTypeOK, TakesTyped, LinesTyped
<1>1. ASSUME UNCHANGED <<engine, card, take, overlapped>>,
             line[t].wire \notin {"none", "closed"},
             NEW ln, ln.hung = line[t].hung, line' = [line EXCEPT ![t] = ln]
      PROVE  Parts'
  <2>1. \A u \in Takes : AsBefore(u)
    BY <1>0, <1>1 DEF AsBefore, LinesTyped
  <2>2. QED
    BY <1>1, <2>1, CalmStep DEF SameNames
<1>2. ASSUME LineDown(t), line[t].wire \in {"connecting", "open"},
             UNCHANGED <<engine, overlapped>>
      PROVE  Parts'
  <2>1. CASE line[t].hung
    <3>1. line' = [line EXCEPT ![t] = Hung(line[t])] /\ UNCHANGED <<take, card>>
      BY <1>2, <2>1 DEF LineDown
    <3>2. Hung(line[t]).hung = line[t].hung
      BY <1>0, <2>1, LinesHung DEF LineRecord
    <3>3. QED
      BY <1>1, <1>2, <3>1, <3>2
  <2>2. CASE ~line[t].hung /\ Cleanup(t)
    BY <1>2, <2>2, CleanupStep
  <2>3. CASE ~line[t].hung /\ ~Cleanup(t)
    <3> DEFINE km == [NoLine EXCEPT !.wire = "backoff", !.attempts = line[t].attempts + 1,
                                    !.queued = line[t].queued]
    <3>1. line' = [line EXCEPT ![t] = km] /\ UNCHANGED <<take, card>>
      BY <1>2, <2>3 DEF LineDown
    <3>2. km.hung = line[t].hung
      BY <1>0, <2>3 DEF NoLine, LineRecord
    <3> HIDE DEF km
    <3>3. QED
      BY <1>1, <1>2, <3>1, <3>2
  <2>4. QED
    BY <2>1, <2>2, <2>3
<1>3. CASE Connect(t)
  <2>1. /\ take' = [take EXCEPT ![t] = [take[t] EXCEPT !.opened = IF @ = "pending" THEN "yes" ELSE @]]
        /\ line[t].wire = "connecting" /\ UNCHANGED <<engine, card, overlapped>>
        /\ \A u \in Takes \ {t} : line'[u] = line[u]
        /\ line'[t].hung = line[t].hung
    <3>1. [NoLine EXCEPT !.wire = "open", !.hung = line[t].hung, !.up = Greeting(line[t]),
                         !.session = "greeted"].hung = line[t].hung
      BY DEF NoLine
    <3>2. QED
      BY <1>0, <1>3, <3>1 DEF Connect, LinesTyped
  <2> DEFINE g == [take[t] EXCEPT !.opened = IF @ = "pending" THEN "yes" ELSE @]
  <2>2. /\ g.phase = take[t].phase /\ g.over = take[t].over /\ g.mic = take[t].mic
        /\ g.dropped = take[t].dropped /\ g.opened \in {take[t].opened, "yes"}
    BY <1>0 DEF TakeRecord
  <2> HIDE DEF g
  <2>3. take' = [take EXCEPT ![t] = g]
    BY <2>1 DEF g
  <2>4. \A u \in Takes : AsBefore(u)
    BY <1>0, <2>1, <2>2, <2>3 DEF TakesTyped, AsBefore
  <2>5. QED
    BY <2>1, <2>4, CalmStep DEF SameNames
<1>4. CASE ConnectFails(t)
  BY <1>2, <1>4 DEF ConnectFails
<1>5. CASE Retry(t)
  <2>1. line' = [line EXCEPT ![t] = [line[t] EXCEPT !.wire = "connecting"]]
    BY <1>5 DEF Retry
  <2>2. [line[t] EXCEPT !.wire = "connecting"].hung = line[t].hung
    BY <1>0 DEF LineRecord
  <2>3. QED
    BY <1>1, <1>5, <2>1, <2>2 DEF Retry
<1>6. CASE LineLost(t)
  BY <1>2, <1>6 DEF LineLost
<1>7. CASE Deliver(t)
  <2>0. /\ line[t].wire = "open" /\ UNCHANGED <<engine, overlapped>>
        /\ line[t].hung = take[t].dropped
    <3>1. Fits(take[t], line[t], engine) /\ engine \in {"server", "local"} /\ line[t].hung \in BOOLEAN
      BY <1>0, Engined DEF Parts, Shape, LineRecord
    <3>2. take[t].dropped \in BOOLEAN
      BY <1>0 DEF TakeRecord
    <3>3. QED
      BY <1>7, <3>1, <3>2 DEF Deliver, Fits
  <2>1. CASE ~take[t].dropped /\ Cleanup(t)
    BY <2>0, <2>1, CleanupStep
  <2>2. CASE /\ take' = [take EXCEPT ![t].written = Append(@, Head(line[t].down))]
             /\ line' = [line EXCEPT ![t].down = Tail(@)]
             /\ UNCHANGED card
    <3>1. Alike([take[t] EXCEPT !.written = Append(@, Head(line[t].down))], take[t])
      BY <1>0 DEF TakeRecord, Alike
    <3>2. take' = [take EXCEPT ![t] = [take[t] EXCEPT !.written = Append(@, Head(line[t].down))]]
      BY <2>2
    <3>3. \A u \in Takes : Alike(take'[u], take[u])
      BY <1>0, <3>1, <3>2 DEF TakesTyped, Alike
    <3>4. \A u \in Takes : line'[u].wire = line[u].wire /\ line'[u].hung = line[u].hung
      <4>1. /\ [line[t] EXCEPT !.down = Tail(@)].wire = line[t].wire
            /\ [line[t] EXCEPT !.down = Tail(@)].hung = line[t].hung
        BY <1>0 DEF LineRecord
      <4>2. QED
        BY <1>0, <2>2, <4>1 DEF LinesTyped
    <3>5. UNCHANGED <<engine, card, overlapped>>
      BY <1>7, <2>2 DEF Deliver
    <3>6. QED
      BY <3>3, <3>4, <3>5, CalmStep DEF Alike, AsBefore, SameNames
  <2>3. CASE take[t].dropped
    <3>1. /\ \/ line' = [line EXCEPT ![t] = Hung(line[t])]
             \/ line' = [line EXCEPT ![t] = [line[t] EXCEPT !.down = Tail(line[t].down)]]
          /\ UNCHANGED <<engine, card, take, overlapped>>
      BY <1>7, <2>3 DEF Deliver
    <3>2. /\ Hung(line[t]).hung = line[t].hung
          /\ [line[t] EXCEPT !.down = Tail(line[t].down)].hung = line[t].hung
      <4>1. Hung(line[t]).hung /\ line[t].hung
        BY <1>0, <2>0, <2>3, LinesHung
      <4>2. Hung(line[t]).hung \in BOOLEAN /\ line[t].hung \in BOOLEAN
        BY <1>0, LinesHung DEF LineRecord
      <4>3. QED
        BY <1>0, <4>1, <4>2 DEF LineRecord
    <3>3. QED
      BY <1>1, <2>0, <3>1, <3>2
  <2>4. QED
    BY <1>7, <2>1, <2>2, <2>3 DEF Deliver, Hears
<1>8. CASE ServerReceives(t)
  <2>1. line[t].wire = "open" /\ UNCHANGED <<engine, card, take, overlapped>>
    BY <1>8 DEF ServerReceives
  <2>2. \E ln : ln.hung = line[t].hung /\ line' = [line EXCEPT ![t] = ln]
    <3> DEFINE message == Head(line[t].up)
               ln == [line[t] EXCEPT !.up = Tail(@)]
    <3>1. /\ ln.hung = line[t].hung
          /\ \A s \in {"started", "telling", "over"} :
                [ln EXCEPT !.session = s].hung = line[t].hung
          /\ Refused(ln).hung = line[t].hung
          /\ [ln EXCEPT !.session = "started", !.heard = <<>>].hung = line[t].hung
          /\ \A w : [ln EXCEPT !.heard = Append(@, w)].hung = line[t].hung
      BY <1>0 DEF LineRecord, Refused
    <3> HIDE DEF message, ln
    <3>2. /\ \A next \in Started(ln) : next.hung = line[t].hung
          /\ Stopped(ln).hung = line[t].hung
          /\ Heard(ln, message).hung = line[t].hung
      BY <3>1 DEF Started, Stopped, Heard
    <3>3. \/ \E next \in Started(ln) : line' = [line EXCEPT ![t] = next]
          \/ line' = [line EXCEPT ![t] = Stopped(ln)]
          \/ line' = [line EXCEPT ![t] = Heard(ln, message)]
      BY <1>8 DEF ServerReceives, message, ln
    <3>4. QED
      BY <3>2, <3>3
  <2>3. QED
    BY <1>1, <2>1, <2>2
<1>9. CASE ServerTells(t)
  <2>1. line[t].wire = "open" /\ UNCHANGED <<engine, card, take, overlapped>>
    BY <1>9 DEF ServerTells
  <2>2. \E ln : ln.hung = line[t].hung /\ line' = [line EXCEPT ![t] = ln]
    <3>0. /\ [line[t] EXCEPT !.down = Append(@, Head(line[t].heard)), !.heard = Tail(@),
                             !.told = TRUE].hung = line[t].hung
          /\ [line[t] EXCEPT !.session = "over", !.down = Append(@, <<"done">>)].hung
               = line[t].hung
          /\ Refused(line[t]).hung = line[t].hung
      BY <1>0 DEF LineRecord, Refused
    <3>1. \/ line' = [line EXCEPT ![t] = [line[t] EXCEPT !.down = Append(@, Head(line[t].heard)),
                                                       !.heard = Tail(@), !.told = TRUE]]
          \/ line' = [line EXCEPT ![t] = [line[t] EXCEPT !.session = "over",
                                                       !.down = Append(@, <<"done">>)]]
          \/ line' = [line EXCEPT ![t] = Refused(line[t])]
      BY <1>9 DEF ServerTells
    <3>2. QED
      BY <3>0, <3>1
  <2>3. QED
    BY <1>1, <2>1, <2>2
<1>10. QED
  BY <1>3, <1>4, <1>5, <1>6, <1>7, <1>8, <1>9 DEF ByWire

LEMMA PartsStep == DictationTypeOK /\ Parts /\ [Next]_vars => Parts'
<1> SUFFICES ASSUME DictationTypeOK, Parts, [Next]_vars PROVE Parts'
  OBVIOUS
<1>1. CASE ByHand
  BY <1>1, HandByHand
<1>2. ASSUME NEW t \in Takes, ByBrowser(t) PROVE Parts'
  BY <1>2, HandByBrowser
<1>3. ASSUME NEW t \in Takes, ByWire(t) PROVE Parts'
  BY <1>3, HandByWire
<1>4. CASE UNCHANGED vars
  BY <1>4, CalmStep DEF vars, SameNames, AsBefore
<1>5. QED
  BY <1>1, <1>2, <1>3, <1>4 DEF Next

\* However takes are started, stopped, dropped and lost, one after the other,
\* each that goes on is one the card holds.
THEOREM TakesStayInHand == Spec => []TakeInHand
<1>1. Parts => TakeInHand
  BY DEF Parts
<1>2. QED
  BY <1>1, TypeInit, TypeStep, PartsInit, PartsStep, PTL DEF Spec

-----------------------------------------------------------------------------
(* Words on their way.                                                     *)

\* The words of a take; those of them in a sequence; and how they stand there.
Of(t) == {t} \X (1 .. MaxWords)
Said(s, t) == {w \in Of(t) : \E i \in 1 .. Len(s) : s[i] = w}
Rising(s, t) ==
    \A i, j \in 1 .. Len(s) : i < j /\ s[i] \in Of(t) /\ s[j] \in Of(t) => s[i][2] < s[j][2]
Own(s, t) == \A i \in 1 .. Len(s) : s[i] \in TakeWords => s[i] \in Of(t)
Before(v, w) == \A a \in v, b \in w : a[2] < b[2]

\* Nothing new is said in `r`, and nothing is out of order that was not in `s`.
Fewer(r, s, t) ==
    /\ Said(r, t) \subseteq Said(s, t)
    /\ Rising(s, t) => Rising(r, t)
    /\ Own(s, t) => Own(r, t)

\* A word spoken after another is behind it everywhere on its way: to the server,
\* in its buffer, back from it, and in the answer.
Orderly(t, a, ln, n) ==
    /\ Rising(a, t) /\ Rising(ln.down, t) /\ Rising(ln.heard, t) /\ Rising(ln.up, t)
    /\ Before(Said(a, t), Said(ln.down, t)) /\ Before(Said(a, t), Said(ln.heard, t))
    /\ Before(Said(a, t), Said(ln.up, t)) /\ Before(Said(ln.down, t), Said(ln.heard, t))
    /\ Before(Said(ln.down, t), Said(ln.up, t)) /\ Before(Said(ln.heard, t), Said(ln.up, t))
    /\ \A w \in Said(a, t) \cup Said(ln.down, t) \cup Said(ln.heard, t) \cup Said(ln.up, t) :
          w[2] <= n

\* What a take's socket carries and what the take wrote is its own.
Owned(t, ln, written) ==
    Own(ln.down, t) /\ Own(ln.heard, t) /\ Own(ln.up, t) /\ Own(written, t)

\* The device's recogniser has no socket.
NoneCarried(e, t, ln) ==
    e = "local" => Said(ln.down, t) = {} /\ Said(ln.heard, t) = {} /\ Said(ln.up, t) = {}

Flow(t) ==
    /\ Orderly(t, answer, line[t], take[t].words)
    /\ Owned(t, line[t], take[t].written)
    /\ NoneCarried(engine, t, line[t])

Flows == \A t \in Takes : Flow(t)

\* A word names its take and its number.
LEMMA WordIsPair ==
    ASSUME NEW t, NEW w \in Of(t)
    PROVE  w = <<t, w[2]>> /\ w[1] = t /\ w[2] \in 1 .. MaxWords /\ Len(w) = 2
BY DEF Of

\* What the two ends say to each other besides words.
LEMMA ControlIsNoWord ==
    ASSUME NEW x \in {<<"start">>, <<"stop">>, <<"done">>, <<"error">>}
    PROVE  x \notin TakeWords /\ \A t : x \notin Of(t)
<1>1. Len(x) = 1
  OBVIOUS
<1>2. \A w \in TakeWords : Len(w) = 2
  BY DEF TakeWords
<1>3. QED
  BY <1>1, <1>2, WordIsPair

\* Nothing is said in an empty sequence.
LEMMA SaidNone == \A t : Said(<<>>, t) = {} /\ Rising(<<>>, t) /\ Own(<<>>, t)
BY DEF Said, Rising, Own

LEMMA FewerNone == \A s, t : Fewer(<<>>, s, t)
BY SaidNone DEF Fewer

LEMMA FewerSame == \A s, t : Fewer(s, s, t)
BY DEF Fewer

\* What is put behind a sequence and is no word of the take.
LEMMA FewerAppend ==
    ASSUME NEW S, NEW s \in Seq(S), NEW t, NEW x \in S, x \notin Of(t)
    PROVE  /\ Said(Append(s, x), t) = Said(s, t)
           /\ Rising(s, t) => Rising(Append(s, x), t)
           /\ x \notin TakeWords => Fewer(Append(s, x), s, t)
<1>1. /\ Len(Append(s, x)) = Len(s) + 1 /\ Len(s) \in Nat
      /\ \A i \in 1 .. Len(s) : Append(s, x)[i] = s[i]
      /\ Append(s, x)[Len(s) + 1] = x
  OBVIOUS
<1>2. \A i \in 1 .. Len(s) + 1 : i \in 1 .. Len(s) \/ i = Len(s) + 1
  BY <1>1
<1>3. Said(Append(s, x), t) = Said(s, t)
  BY <1>1, <1>2 DEF Said
<1>4. Rising(s, t) => Rising(Append(s, x), t)
  BY <1>1, <1>2 DEF Rising
<1>5. x \notin TakeWords /\ Own(s, t) => Own(Append(s, x), t)
  BY <1>1, <1>2 DEF Own
<1>6. QED
  BY <1>3, <1>4, <1>5 DEF Fewer

\* A later word of the take put behind it.
LEMMA SaidAppend ==
    ASSUME NEW S, NEW s \in Seq(S), NEW t, NEW x \in S, x \in Of(t),
           Rising(s, t), Before(Said(s, t), {x})
    PROVE  /\ Said(Append(s, x), t) = Said(s, t) \cup {x}
           /\ Rising(Append(s, x), t)
           /\ Own(s, t) => Own(Append(s, x), t)
<1>1. /\ Len(Append(s, x)) = Len(s) + 1 /\ Len(s) \in Nat
      /\ \A i \in 1 .. Len(s) : Append(s, x)[i] = s[i]
      /\ Append(s, x)[Len(s) + 1] = x
  OBVIOUS
<1>2. \A i \in 1 .. Len(s) + 1 : i \in 1 .. Len(s) \/ i = Len(s) + 1
  BY <1>1
<1>3. Len(s) + 1 \in 1 .. Len(Append(s, x)) /\ 1 .. Len(s) \subseteq 1 .. Len(Append(s, x))
  BY <1>1
<1>4. Said(Append(s, x), t) = Said(s, t) \cup {x}
  BY <1>1, <1>2, <1>3 DEF Said
<1>5. \A i \in 1 .. Len(s) : s[i] \in Of(t) => s[i][2] < x[2]
  BY DEF Before, Said
<1>6. Rising(Append(s, x), t)
  BY <1>1, <1>2, <1>5 DEF Rising
<1>7. Own(s, t) => Own(Append(s, x), t)
  BY <1>1, <1>2 DEF Own
<1>8. QED
  BY <1>4, <1>6, <1>7

\* The word taken from the front was before all that stay.
LEMMA SaidTail ==
    ASSUME NEW S, NEW s \in Seq(S), s # <<>>, NEW t
    PROVE  /\ Fewer(Tail(s), s, t)
           /\ Head(s) \in Of(t) => Head(s) \in Said(s, t)
           /\ Own(s, t) /\ Head(s) \in TakeWords => Head(s) \in Of(t)
           /\ Head(s) \in Of(t) /\ Rising(s, t) => Before({Head(s)}, Said(Tail(s), t))
<1>1. /\ Len(s) \in Nat \ {0} /\ Len(Tail(s)) = Len(s) - 1 /\ Head(s) = s[1]
      /\ \A i \in 1 .. Len(s) - 1 : Tail(s)[i] = s[i + 1]
  BY HeadTailProperties
<1>2. /\ 1 \in 1 .. Len(s)
      /\ \A i \in 1 .. Len(s) - 1 : i + 1 \in 1 .. Len(s) /\ 1 < i + 1
  BY <1>1
<1>3. Said(Tail(s), t) \subseteq Said(s, t)
  BY <1>1, <1>2 DEF Said
<1>4. Rising(s, t) => Rising(Tail(s), t)
  BY <1>1, <1>2 DEF Rising
<1>5. Own(s, t) => Own(Tail(s), t)
  BY <1>1, <1>2 DEF Own
<1>6. Head(s) \in Of(t) => Head(s) \in Said(s, t)
  BY <1>1, <1>2 DEF Said
<1>7. Own(s, t) /\ Head(s) \in TakeWords => Head(s) \in Of(t)
  BY <1>1, <1>2 DEF Own
<1>8. ASSUME Head(s) \in Of(t), Rising(s, t), NEW b \in Said(Tail(s), t) PROVE Head(s)[2] < b[2]
  <2>1. PICK i \in 1 .. Len(s) - 1 : s[i + 1] = b /\ b \in Of(t)
    BY <1>1, <1>8 DEF Said
  <2>2. QED
    BY <1>1, <1>2, <1>8, <2>1 DEF Rising
<1>9. QED
  BY <1>3, <1>4, <1>5, <1>6, <1>7, <1>8 DEF Fewer, Before

\* What is cut off the end takes words away only.
LEMMA FewerSub ==
    ASSUME NEW S, NEW s \in Seq(S), NEW n \in Int, n <= Len(s), NEW t
    PROVE  /\ Fewer(SubSeq(s, 1, n), s, t)
           /\ Len(SubSeq(s, 1, n)) = IF n < 0 THEN 0 ELSE n
           /\ \A i \in 1 .. n : SubSeq(s, 1, n)[i] = s[i]
<1>1. /\ Len(SubSeq(s, 1, n)) = IF n < 0 THEN 0 ELSE n
      /\ \A i \in 1 .. n : SubSeq(s, 1, n)[i] = s[i]
  OBVIOUS
<1>2. \A i \in 1 .. Len(SubSeq(s, 1, n)) : i \in 1 .. n /\ i \in 1 .. Len(s)
  BY <1>1
<1>3. Said(SubSeq(s, 1, n), t) \subseteq Said(s, t)
  BY <1>1, <1>2 DEF Said
<1>4. Rising(s, t) => Rising(SubSeq(s, 1, n), t)
  BY <1>1, <1>2 DEF Rising
<1>5. Own(s, t) => Own(SubSeq(s, 1, n), t)
  BY <1>1, <1>2 DEF Own
<1>6. QED
  BY <1>1, <1>3, <1>4, <1>5 DEF Fewer
-----------------------------------------------------------------------------

LineLess(km, ln, t) ==
    Fewer(km.down, ln.down, t) /\ Fewer(km.heard, ln.heard, t) /\ Fewer(km.up, ln.up, t)

Same(g, f) == g.words = f.words /\ g.written = f.written

\* A step that brings no word of the take any further.
Unmoved(t) ==
    /\ Same(take'[t], take[t]) /\ LineLess(line'[t], line[t], t)
    /\ Fewer(answer', answer, t)

\* Order outlives words that are lost on the way, and words still to be spoken.
LEMMA OrderlyFewer ==
    ASSUME NEW t, NEW a, NEW b, NEW ln, NEW km, NEW n \in Nat, NEW m \in Nat,
           Fewer(b, a, t), LineLess(km, ln, t), n <= m, Orderly(t, a, ln, n)
    PROVE  Orderly(t, b, km, m)
<1>1. /\ Said(b, t) \subseteq Said(a, t) /\ Said(km.down, t) \subseteq Said(ln.down, t)
      /\ Said(km.heard, t) \subseteq Said(ln.heard, t) /\ Said(km.up, t) \subseteq Said(ln.up, t)
      /\ Rising(b, t) /\ Rising(km.down, t) /\ Rising(km.heard, t) /\ Rising(km.up, t)
  BY DEF Fewer, LineLess, Orderly
<1>2. /\ Before(Said(b, t), Said(km.down, t)) /\ Before(Said(b, t), Said(km.heard, t))
      /\ Before(Said(b, t), Said(km.up, t)) /\ Before(Said(km.down, t), Said(km.heard, t))
      /\ Before(Said(km.down, t), Said(km.up, t)) /\ Before(Said(km.heard, t), Said(km.up, t))
  BY <1>1 DEF Orderly, Before
<1>3. ASSUME NEW w \in Said(b, t) \cup Said(km.down, t) \cup Said(km.heard, t) \cup Said(km.up, t)
      PROVE  w[2] <= m
  <2>1. w[2] <= n
    BY <1>1 DEF Orderly
  <2>2. w[2] \in Nat
    BY WordIsPair DEF Said
  <2>3. QED
    BY <2>1, <2>2
<1>4. QED
  BY <1>1, <1>2, <1>3 DEF Orderly

\* A step that brings no word of a take further leaves its flow.
LEMMA FlowUnmoved ==
    ASSUME DictationTypeOK, UNCHANGED engine, NEW t \in Takes, Flow(t), Unmoved(t)
    PROVE  Flow(t)'
<1>1. take[t].words \in Nat /\ take'[t].words = take[t].words /\ take'[t].written = take[t].written
  BY Bounds DEF DictationTypeOK, TakeRecord, Unmoved, Same
<1>2. Orderly(t, answer', line'[t], take'[t].words)
  BY <1>1, OrderlyFewer DEF Flow, Unmoved
<1>3. Owned(t, line'[t], take'[t].written)
  BY <1>1 DEF Flow, Unmoved, Owned, LineLess, Fewer
<1>4. NoneCarried(engine', t, line'[t])
  BY DEF Flow, Unmoved, NoneCarried, LineLess, Fewer
<1>5. QED
  BY <1>2, <1>3, <1>4 DEF Flow

\* What becomes of a line that is hung up, stopped, opened again or left.
LEMMA LineNone == \A ln, t : LineLess(NoLine, ln, t) /\ LineLess(ln, ln, t)
BY FewerNone, FewerSame DEF LineLess, NoLine

LEMMA LineHung ==
    ASSUME NEW ln \in LineRecord, NEW t
    PROVE  LineLess(Hung(ln), ln, t)
<1>1. CASE ln.wire = "backoff"
  BY <1>1, FewerSame DEF LineLess, Hung, LineRecord
<1>2. CASE ln.wire # "backoff"
  BY <1>2, FewerNone DEF LineLess, Hung, NoLine
<1>3. QED
  BY <1>1, <1>2

LEMMA LineStopped ==
    ASSUME NEW ln \in LineRecord, NEW t
    PROVE  LineLess(StopSent(ln), ln, t)
<1>1. CASE ln.wire = "open"
  <2>1. StopSent(ln) = [ln EXCEPT !.up = Append(ln.up, <<"stop">>)]
    BY <1>1 DEF StopSent
  <2>2. /\ StopSent(ln).up = Append(ln.up, <<"stop">>)
        /\ StopSent(ln).down = ln.down /\ StopSent(ln).heard = ln.heard
    BY <2>1 DEF LineRecord
  <2>3. ln.up \in Seq({<<"start">>, <<"stop">>} \cup TakeWords)
    BY DEF LineRecord, TakeWords
  <2>4. Fewer(Append(ln.up, <<"stop">>), ln.up, t)
    BY <2>3, ControlIsNoWord, FewerAppend
  <2>5. QED
    BY <2>2, <2>4, FewerSame DEF LineLess
<1>2. CASE ln.wire \in {"connecting", "backoff"} /\ ~ln.hung
  BY <1>2, FewerSame DEF StopSent, LineRecord, LineLess
<1>3. CASE ln.wire \in {"none", "closed"} \/ (ln.wire # "open" /\ ln.hung)
  BY <1>3, LineNone DEF StopSent
<1>4. QED
  BY <1>1, <1>2, <1>3 DEF LineRecord

LEMMA LineGreeting ==
    ASSUME NEW ln \in LineRecord, NEW t,
           NEW km, km = [NoLine EXCEPT !.wire = "open", !.hung = ln.hung,
                                       !.up = Greeting(ln), !.session = "greeted"]
    PROVE  LineLess(km, ln, t)
<1>1. km.down = <<>> /\ km.heard = <<>> /\ km.up = Greeting(ln)
  BY DEF NoLine
<1>2. \A i \in 1 .. Len(Greeting(ln)) : Greeting(ln)[i] \in {<<"start">>, <<"stop">>}
  BY DEF Greeting
<1>3. Fewer(Greeting(ln), ln.up, t)
  BY <1>2, ControlIsNoWord DEF Fewer, Said, Rising, Own
<1>4. QED
  BY <1>1, <1>3, FewerNone DEF LineLess

LEMMA LinesUnmovedHung ==
    ASSUME NEW f \in [Takes -> LineRecord], NEW t \in Takes \cup {None}, NEW u \in Takes
    PROVE  LineLess(HungIn(f, t)[u], f[u], u)
BY Bounds, LineHung, LineNone DEF HungIn

\* A take aborted or cancelled keeps the words it spoke and wrote.
LEMMA TakesSameAborted ==
    ASSUME NEW f \in [Takes -> TakeRecord], NEW t \in Takes \cup {None}, NEW u \in Takes
    PROVE  Same(AbortedIn(f, t)[u], f[u])
<1>1. CASE t = None
  BY <1>1, Bounds DEF AbortedIn, Same
<1>2. CASE t \in Takes /\ engine = "server"
  <2> DEFINE g == [Ended(f[t]) EXCEPT !.dropped = TRUE, !.timer = FALSE]
  <2>1. f[t] \in TakeRecord
    BY <1>2
  <2>2. Same(g, f[t])
    BY <2>1 DEF Ended, Same, TakeRecord
  <2>3. AbortedIn(f, t) = [f EXCEPT ![t] = g]
    BY <1>2, Bounds DEF AbortedIn
  <2> HIDE DEF g
  <2>4. QED
    BY <1>2, <2>2, <2>3 DEF Same
<1>3. CASE t \in Takes /\ engine # "server"
  <2> DEFINE g == [f[t] EXCEPT !.dropped = TRUE]
  <2>1. f[t] \in TakeRecord
    BY <1>3
  <2>2. Same(g, f[t])
    BY <2>1 DEF Same, TakeRecord
  <2>3. AbortedIn(f, t) = [f EXCEPT ![t] = g]
    BY <1>3, Bounds DEF AbortedIn
  <2> HIDE DEF g
  <2>4. QED
    BY <1>3, <2>2, <2>3 DEF Same
<1>4. QED
  BY <1>1, <1>2, <1>3

LEMMA TakesSameCancelled ==
    ASSUME NEW f \in [Takes -> TakeRecord], card \in CardRecord,
           NEW why \in {"released", "cleared"}, NEW u \in Takes
    PROVE  Same(CancelledIn(f, why)[u], f[u])
<1>1. card.starting \in Takes \cup {None}
  BY DEF CardRecord
<1>2. CASE card.starting = None
  BY <1>2 DEF CancelledIn, Same
<1>3. CASE card.starting \in Takes
  <2> DEFINE c == card.starting
             g == [f[c] EXCEPT !.cancelled = why]
  <2>1. f[c] \in TakeRecord
    BY <1>3
  <2>2. Same(g, f[c])
    BY <2>1 DEF Same, TakeRecord
  <2>3. CancelledIn(f, why) = [f EXCEPT ![c] = g]
    BY <1>3, Bounds DEF CancelledIn
  <2> HIDE DEF g, c
  <2>4. QED
    BY <1>3, <2>2, <2>3 DEF Same, c
<1>4. QED
  BY <1>1, <1>2, <1>3

\* finish, cleanup and a line that goes down, of any take.
LEMMA UnmovedParts ==
    ASSUME DictationTypeOK, NEW t \in Takes, NEW u \in Takes,
           FinishTake(t) \/ Cleanup(t) \/ LineDown(t)
    PROVE  Same(take'[u], take[u]) /\ LineLess(line'[u], line[u], u)
<1>1. take[t] \in TakeRecord /\ line[t] \in LineRecord
      /\ take \in [Takes -> TakeRecord] /\ line \in [Takes -> LineRecord]
  BY DEF DictationTypeOK
<1>2. CASE UNCHANGED <<take, line>>
  BY <1>2, LineNone DEF Same
<1>3. CASE FinishTake(t) /\ engine = "server"
  <2> DEFINE g == [take[t] EXCEPT !.timer = FALSE, !.mic = FALSE]
  <2>1. Same(g, take[t])
    BY <1>1 DEF Same, TakeRecord
  <2>2. take' = [take EXCEPT ![t] = g] /\ line' = [line EXCEPT ![t] = StopSent(line[t])]
    BY <1>3 DEF FinishTake
  <2> HIDE DEF g
  <2>3. QED
    BY <1>1, <2>1, <2>2, LineStopped, LineNone DEF Same
<1>4. CASE Cleanup(t)
  <2>1. Same(Ended(take[t]), take[t])
    BY <1>1 DEF Ended, Same, TakeRecord
  <2>2. take' = [take EXCEPT ![t] = Ended(take[t])] /\ line' = [line EXCEPT ![t] = Hung(line[t])]
    BY <1>4 DEF Cleanup
  <2>3. QED
    BY <1>1, <2>1, <2>2, LineHung, LineNone DEF Same
<1>5. CASE LineDown(t) /\ line[t].hung
  <2>1. line' = [line EXCEPT ![t] = Hung(line[t])] /\ take' = take
    BY <1>5 DEF LineDown
  <2>2. QED
    BY <1>1, <2>1, LineHung, LineNone DEF Same
<1>6. CASE LineDown(t) /\ ~line[t].hung /\ ~Cleanup(t)
  <2> DEFINE km == [NoLine EXCEPT !.wire = "backoff", !.attempts = line[t].attempts + 1,
                                  !.queued = line[t].queued]
  <2>1. line' = [line EXCEPT ![t] = km] /\ take' = take
    BY <1>6 DEF LineDown
  <2>2. LineLess(km, line[t], t)
    BY FewerNone DEF LineLess, NoLine
  <2> HIDE DEF km
  <2>3. QED
    BY <1>1, <2>1, <2>2, LineNone DEF Same
<1>7. QED
  BY <1>2, <1>3, <1>4, <1>5, <1>6 DEF FinishTake
-----------------------------------------------------------------------------
(* A word moves on.                                                        *)

UpMessages == {<<"start">>, <<"stop">>} \cup TakeWords
DownFrames == {<<"done">>, <<"error">>} \cup TakeWords

\* What a line carries each way.
LEMMA LineTypes ==
    ASSUME NEW ln \in LineRecord
    PROVE  ln.up \in Seq(UpMessages) /\ ln.down \in Seq(DownFrames) /\ ln.heard \in Seq(TakeWords)
BY DEF LineRecord, UpMessages, DownFrames, TakeWords

\* A take's words are among all takes', and no two takes share one.
LEMMA OfTakes == \A t \in Takes : Of(t) \subseteq TakeWords /\ Of(t) \subseteq Words
BY DEF Of, TakeWords, Words

\* Spoken into the socket.
LEMMA OrderlySpoken ==
    ASSUME NEW t \in Takes, NEW a, NEW ln \in LineRecord, NEW km, NEW n \in Nat,
           n + 1 \in 1 .. MaxWords, Orderly(t, a, ln, n), Own(ln.up, t),
           km.down = ln.down, km.heard = ln.heard, km.up = Append(ln.up, <<t, n + 1>>)
    PROVE  Orderly(t, a, km, n + 1) /\ Own(km.up, t)
<1> DEFINE w == <<t, n + 1>>
<1>1. w \in Of(t) /\ w \in UpMessages /\ w[2] = n + 1
  BY OfTakes DEF Of, UpMessages, TakeWords
<1>2. ln.up \in Seq(UpMessages)
  BY LineTypes
<1>3. \A v \in Said(a, t) \cup Said(ln.down, t) \cup Said(ln.heard, t) \cup Said(ln.up, t) :
         v[2] \in Nat /\ v[2] <= n
  BY WordIsPair DEF Orderly, Said
<1>4. \A v \in Said(a, t) \cup Said(ln.down, t) \cup Said(ln.heard, t) \cup Said(ln.up, t) :
         v[2] < w[2] /\ v[2] <= n + 1
  BY <1>1, <1>3
<1> HIDE DEF w
<1>5. /\ Said(km.up, t) = Said(ln.up, t) \cup {w} /\ Rising(km.up, t) /\ Own(km.up, t)
  <2>1. Rising(ln.up, t) /\ Before(Said(ln.up, t), {w})
    BY <1>4 DEF Orderly, Before
  <2>2. QED
    BY <1>1, <1>2, <2>1, SaidAppend DEF w
<1>6. QED
  BY <1>1, <1>4, <1>5 DEF Orderly, Before

\* Recognised on the device.
LEMMA OrderlyRecognised ==
    ASSUME NEW t \in Takes, NEW a \in Seq(Words), NEW ln, NEW n \in Nat, n + 1 \in 1 .. MaxWords,
           Orderly(t, a, ln, n), Said(ln.down, t) = {}, Said(ln.heard, t) = {}, Said(ln.up, t) = {}
    PROVE  Orderly(t, Append(a, <<t, n + 1>>), ln, n + 1)
<1> DEFINE w == <<t, n + 1>>
<1>1. w \in Of(t) /\ w \in Words /\ w[2] = n + 1
  BY OfTakes DEF Of
<1>2. \A v \in Said(a, t) : v[2] \in Nat /\ v[2] <= n
  BY WordIsPair DEF Orderly, Said
<1>3. \A v \in Said(a, t) : v[2] < w[2] /\ v[2] <= n + 1
  BY <1>1, <1>2
<1> HIDE DEF w
<1>4. Said(Append(a, w), t) = Said(a, t) \cup {w} /\ Rising(Append(a, w), t)
  <2>1. Rising(a, t) /\ Before(Said(a, t), {w})
    BY <1>3 DEF Orderly, Before
  <2>2. QED
    BY <1>1, <2>1, SaidAppend
<1>5. Orderly(t, Append(a, w), ln, n + 1)
  BY <1>1, <1>3, <1>4 DEF Orderly, Before
<1>6. QED
  BY <1>5 DEF w

\* Received by the server, within its cap.
LEMMA OrderlyHeard ==
    ASSUME NEW t \in Takes, NEW a, NEW ln \in LineRecord, NEW km, NEW n, ln.up # <<>>,
           Head(ln.up) \in TakeWords, Orderly(t, a, ln, n), Own(ln.up, t), Own(ln.heard, t),
           km.down = ln.down, km.up = Tail(ln.up), km.heard = Append(ln.heard, Head(ln.up))
    PROVE  Orderly(t, a, km, n) /\ Own(km.up, t) /\ Own(km.heard, t)
<1> DEFINE w == Head(ln.up)
<1>1. ln.up \in Seq(UpMessages) /\ ln.heard \in Seq(TakeWords)
  BY LineTypes
<1>2. /\ Fewer(km.up, ln.up, t) /\ w \in Of(t) /\ w \in Said(ln.up, t) /\ w \in TakeWords
      /\ Before({w}, Said(km.up, t))
  BY <1>1, SaidTail DEF Orderly
<1> HIDE DEF w
<1>3. /\ Said(km.heard, t) = Said(ln.heard, t) \cup {w} /\ Rising(km.heard, t) /\ Own(km.heard, t)
  <2>1. Rising(ln.heard, t) /\ Before(Said(ln.heard, t), {w})
    BY <1>2 DEF Orderly, Before
  <2>2. QED
    BY <1>1, <1>2, <2>1, SaidAppend DEF w
<1>4. QED
  BY <1>2, <1>3 DEF Orderly, Before, Fewer

\* Transcribed, and sent back.
LEMMA OrderlyTold ==
    ASSUME NEW t \in Takes, NEW a, NEW ln \in LineRecord, NEW km, NEW n, ln.heard # <<>>,
           Orderly(t, a, ln, n), Own(ln.down, t), Own(ln.heard, t),
           km.up = ln.up, km.heard = Tail(ln.heard), km.down = Append(ln.down, Head(ln.heard))
    PROVE  Orderly(t, a, km, n) /\ Own(km.heard, t) /\ Own(km.down, t)
<1> DEFINE w == Head(ln.heard)
<1>1. ln.down \in Seq(DownFrames) /\ ln.heard \in Seq(TakeWords) /\ w \in TakeWords
  BY LineTypes, HeadTailProperties
<1>2. /\ Fewer(km.heard, ln.heard, t) /\ w \in Of(t) /\ w \in Said(ln.heard, t) /\ w \in DownFrames
      /\ Before({w}, Said(km.heard, t))
  BY <1>1, SaidTail DEF Orderly, DownFrames
<1> HIDE DEF w
<1>3. /\ Said(km.down, t) = Said(ln.down, t) \cup {w} /\ Rising(km.down, t) /\ Own(km.down, t)
  <2>1. Rising(ln.down, t) /\ Before(Said(ln.down, t), {w})
    BY <1>2 DEF Orderly, Before
  <2>2. QED
    BY <1>1, <1>2, <2>1, SaidAppend DEF w
<1>4. QED
  BY <1>2, <1>3 DEF Orderly, Before, Fewer

\* Written into the answer.
LEMMA OrderlyWritten ==
    ASSUME NEW t \in Takes, NEW a \in Seq(Words), NEW ln \in LineRecord, NEW km, NEW n,
           ln.down # <<>>, Head(ln.down) \in TakeWords, Orderly(t, a, ln, n), Own(ln.down, t),
           km.up = ln.up, km.heard = ln.heard, km.down = Tail(ln.down)
    PROVE  Orderly(t, Append(a, Head(ln.down)), km, n) /\ Own(km.down, t)
<1> DEFINE w == Head(ln.down)
<1>1. ln.down \in Seq(DownFrames)
  BY LineTypes
<1>2. /\ Fewer(km.down, ln.down, t) /\ w \in Of(t) /\ w \in Said(ln.down, t) /\ w \in Words
      /\ Before({w}, Said(km.down, t))
  BY <1>1, SaidTail, OfTakes DEF Orderly
<1> HIDE DEF w
<1>3. Said(Append(a, w), t) = Said(a, t) \cup {w} /\ Rising(Append(a, w), t)
  <2>1. Rising(a, t) /\ Before(Said(a, t), {w})
    BY <1>2 DEF Orderly, Before
  <2>2. QED
    BY <1>2, <2>1, SaidAppend
<1>4. Orderly(t, Append(a, w), km, n)
  BY <1>2, <1>3 DEF Orderly, Before, Fewer
<1>5. QED
  BY <1>2, <1>4 DEF w, Fewer
\* A word of its own put behind what is its own.
LEMMA OwnAppend ==
    ASSUME NEW t, NEW S, NEW s \in Seq(S), NEW x \in S, x \in Of(t), Own(s, t)
    PROVE  Own(Append(s, x), t)
<1>1. /\ Len(Append(s, x)) = Len(s) + 1 /\ Len(s) \in Nat
      /\ \A i \in 1 .. Len(s) : Append(s, x)[i] = s[i]
      /\ Append(s, x)[Len(s) + 1] = x
  OBVIOUS
<1>2. \A i \in 1 .. Len(s) + 1 : i \in 1 .. Len(s) \/ i = Len(s) + 1
  BY <1>1
<1>3. QED
  BY <1>1, <1>2 DEF Own

-----------------------------------------------------------------------------
(* Steps.                                                                  *)

\* The flows of all takes.
LEMMA UnmovedKeeps ==
    ASSUME DictationTypeOK, Flows, UNCHANGED engine, \A u \in Takes : Unmoved(u)
    PROVE  Flows'
BY FlowUnmoved DEF Flows

\* Starting another take, or asking for consent, brings no word further.
LEMMA StartUnmoved ==
    ASSUME DictationTypeOK, NEW c, NEW mode, NEW u \in Takes,
           Start(c, mode) \/ (c = card /\ AskConsent(mode))
    PROVE  Same(take'[u], take[u])
<1>1. take \in [Takes -> TakeRecord]
  BY DEF DictationTypeOK
<1>2. CASE UNCHANGED take
  BY <1>2 DEF Same
<1>3. ASSUME NEW d, Start(d, mode) PROVE Same(take'[u], take[u])
  <2>1. PICK t \in Takes : take' = [take EXCEPT ![t].phase = "opening", ![t].mode = mode]
    BY <1>3 DEF Start
  <2> DEFINE g == [take[t] EXCEPT !.phase = "opening", !.mode = mode]
  <2>2. take[t] \in TakeRecord /\ take' = [take EXCEPT ![t] = g]
    BY <1>1, <2>1 DEF TakeRecord
  <2>3. Same(g, take[t])
    BY <2>2 DEF Same, TakeRecord
  <2> HIDE DEF g
  <2>4. QED
    BY <1>1, <2>2, <2>3 DEF Same
<1>4. QED
  BY <1>2, <1>3 DEF AskConsent

\* Places counted from the end.
LEMMA FromTheEnd ==
    ASSUME NEW p \in Nat, NEW q \in Nat, p <= q, NEW i \in 1 .. q, i > q - p
    PROVE  /\ q - i + 1 \in 1 .. p /\ q - (q - i + 1) + 1 = i
           /\ p - (q - i + 1) + 1 \in 1 .. p
OBVIOUS

\* What a take takes back is its own, from the end.
LEMMA TakenBackIs ==
    ASSUME DictationTypeOK, Flows, NEW t \in Takes
    PROVE  /\ \A u \in Takes : Fewer(TakenBack(t), answer, u)
           /\ \A i \in 1 .. Len(answer) :
                 ByRespondent(answer[i]) => i <= Len(TakenBack(t)) /\ TakenBack(t)[i] = answer[i]
<1> DEFINE written == take[t].written
           n == Len(answer) - Len(written)
<1>1. written \in Seq(TakeWords) /\ answer \in Seq(Words) /\ Own(written, t)
  BY DEF DictationTypeOK, TakeRecord, TakeWords, Flows, Flow, Owned
<1>2. CASE ~(engine = "server" /\ IsSuffix(written, answer))
  BY <1>2, FewerSame DEF TakenBack
<1>3. CASE engine = "server" /\ IsSuffix(written, answer)
  <2>1. TakenBack(t) = SubSeq(answer, 1, n)
    BY <1>3 DEF TakenBack
  <2>2. /\ Len(written) \in Nat /\ Len(answer) \in Nat /\ Len(written) <= Len(answer)
        /\ \A i \in 1 .. Len(written) :
              written[Len(written) - i + 1] = answer[Len(answer) - i + 1]
    <3> HIDE DEF written
    <3>1. /\ Len(Reverse(written)) = Len(written) /\ Len(Reverse(answer)) = Len(answer)
          /\ Reverse(written) \in Seq(TakeWords) /\ Reverse(answer) \in Seq(Words)
      BY <1>1 DEF Reverse
    <3>2. /\ Len(written) <= Len(answer)
          /\ Reverse(written) = SubSeq(Reverse(answer), 1, Len(written))
      <4>1. /\ Len(Reverse(written)) <= Len(Reverse(answer))
            /\ SubSeq(Reverse(written), 1, Len(Reverse(written)))
                 = SubSeq(Reverse(answer), 1, Len(Reverse(written)))
        BY <1>3 DEF IsSuffix, IsPrefix
      <4>2. SubSeq(Reverse(written), 1, Len(Reverse(written))) = Reverse(written)
        BY <3>1
      <4>3. QED
        BY <3>1, <4>1, <4>2
    <3>3. ASSUME NEW i \in 1 .. Len(written) PROVE Reverse(written)[i] = Reverse(answer)[i]
      BY <1>1, <3>1, <3>2
    <3>4. ASSUME NEW i \in 1 .. Len(written)
          PROVE  written[Len(written) - i + 1] = answer[Len(answer) - i + 1]
      <4>1. i \in 1 .. Len(answer)
        BY <1>1, <3>2
      <4>2. Reverse(written)[i] = written[Len(written) - i + 1]
        BY DEF Reverse
      <4>3. Reverse(answer)[i] = answer[Len(answer) - i + 1]
        BY <4>1 DEF Reverse
      <4>4. QED
        BY <3>3, <4>2, <4>3
    <3>5. QED
      BY <1>1, <3>2, <3>4
  <2>3. ASSUME NEW i \in 1 .. Len(answer), i > n PROVE answer[i][1] = t
    <3> DEFINE j == Len(answer) - i + 1
    <3>1. j \in 1 .. Len(written) /\ Len(answer) - j + 1 = i
          /\ Len(written) - j + 1 \in 1 .. Len(written)
      <4>1. Len(written) \in Nat /\ Len(answer) \in Nat /\ Len(written) <= Len(answer)
        BY <2>2
      <4>2. i > Len(answer) - Len(written)
        BY <2>3
      <4> HIDE DEF written, n
      <4>3. QED
        BY <4>1, <4>2, FromTheEnd
    <3>2. answer[i] = written[Len(written) - j + 1]
      BY <2>2, <3>1
    <3>3. answer[i] \in Of(t)
      BY <1>1, <3>1, <3>2 DEF Own
    <3>4. QED
      BY <3>3, WordIsPair
  <2>4. n \in 0 .. Len(answer)
    BY <2>2
  <2> HIDE DEF n
  <2>5. /\ \A u \in Takes : Fewer(TakenBack(t), answer, u)
        /\ Len(TakenBack(t)) = n /\ \A i \in 1 .. n : TakenBack(t)[i] = answer[i]
    BY <1>1, <2>1, <2>4, FewerSub
  <2>6. ASSUME NEW i \in 1 .. Len(answer), ByRespondent(answer[i]) PROVE i \in 1 .. n
    <3>1. ~(i > n)
      BY <2>3, <2>6, Bounds DEF ByRespondent, Respondent, Takes
    <3>2. QED
      BY <2>4, <3>1
  <2>7. QED
    BY <2>4, <2>5, <2>6
<1>4. QED
  BY <1>2, <1>3

\* What is typed stays.
TypedStays ==
    \A i \in 1 .. Len(answer) :
        ByRespondent(answer[i]) => i <= Len(answer') /\ answer'[i] = answer[i]

\* What is put behind the answer leaves all before it.
LEMMA AppendStays ==
    ASSUME DictationTypeOK, NEW x, answer' = Append(answer, x)
    PROVE  TypedStays
<1>1. answer \in Seq(Words)
  BY DEF DictationTypeOK
<1>2. QED
  BY <1>1 DEF TypedStays

\* The respondent's steps: only Clear takes typed words away.
LEMMA FlowsByHand ==
    ASSUME DictationTypeOK, Flows, ByHand
    PROVE  Flows' /\ (Clear \/ TypedStays)
<1>0. /\ take \in [Takes -> TakeRecord] /\ line \in [Takes -> LineRecord]
      /\ card \in CardRecord /\ answer \in Seq(Words)
  BY DEF DictationTypeOK
<1>1. {card.recorder, card.finishing, card.starting} \subseteq Takes \cup {None}
  BY <1>0 DEF CardRecord
<1>2. CASE UNCHANGED <<engine, take, line, answer>>
  BY <1>2, LineNone, FewerSame, UnmovedKeeps DEF Unmoved, Same, TypedStays
<1>3. CASE Stop
  <2>1. card.recorder \in Takes /\ FinishTake(card.recorder) /\ UNCHANGED <<engine, answer>>
    BY <1>1, <1>3 DEF Stop
  <2>2. QED
    BY <2>1, UnmovedParts, FewerSame, UnmovedKeeps DEF Unmoved, TypedStays
<1>4. CASE Dictate
  BY <1>4, StartUnmoved, LineNone, FewerSame, UnmovedKeeps DEF Dictate, Unmoved, TypedStays
<1>5. CASE Accept
  <2>1. PICK kept \in {card.consented, TRUE} :
          Start([card EXCEPT !.dialogs = @ - 1, !.consented = kept], "toggle")
    BY <1>5 DEF Accept
  <2>2. \A u \in Takes : Same(take'[u], take[u])
    BY <2>1, StartUnmoved
  <2>3. QED
    BY <1>5, <2>2, LineNone, FewerSame, UnmovedKeeps DEF Accept, Unmoved, TypedStays
<1>6. CASE Hold
  <2>1. \A u \in Takes : Same(take'[u], take[u])
    BY <1>6, StartUnmoved DEF Hold, Same
  <2>2. QED
    BY <1>6, <2>1, LineNone, FewerSame, UnmovedKeeps DEF Hold, Unmoved, TypedStays
<1>7. CASE Release
  <2>1. ASSUME NEW u \in Takes PROVE Same(take'[u], take[u]) /\ LineLess(line'[u], line[u], u)
    <3>1. CASE take' = CancelledIn(take, "released") /\ UNCHANGED line
      BY <1>0, <3>1, TakesSameCancelled, LineNone
    <3>2. CASE card.recorder # None /\ FinishTake(card.recorder)
      BY <1>1, <3>2, UnmovedParts
    <3>3. CASE UNCHANGED <<take, line>>
      BY <3>3, LineNone DEF Same
    <3>4. QED
      BY <1>7, <3>1, <3>2, <3>3 DEF Release
  <2>2. QED
    BY <1>7, <2>1, FewerSame, UnmovedKeeps DEF Release, Unmoved, TypedStays
<1>8. CASE Clear
  <2> DEFINE live == IF card.recorder # None THEN card.recorder ELSE card.finishing
             f == CancelledIn(take, "cleared")
  <2>1. live \in Takes \cup {None}
    BY <1>1
  <2>2. f \in [Takes -> TakeRecord] /\ \A u \in Takes : Same(f[u], take[u])
    BY <1>0, TakesCancelled, TakesSameCancelled
  <2>3. /\ take' = AbortedIn(f, live) /\ line' = HungIn(line, live) /\ answer' = <<>>
        /\ UNCHANGED engine
    BY <1>8 DEF Clear
  <2> HIDE DEF live, f
  <2>4. \A u \in Takes : Same(AbortedIn(f, live)[u], f[u]) /\ LineLess(line'[u], line[u], u)
    BY <1>0, <2>1, <2>2, <2>3, TakesSameAborted, LinesUnmovedHung
  <2>5. QED
    BY <1>8, <2>2, <2>3, <2>4, FewerNone, UnmovedKeeps DEF Unmoved, Same
<1>9. CASE Cancel
  <2> DEFINE called == IF card.finishing # None THEN card.finishing ELSE card.recorder
  <2>1. called \in Takes
    BY <1>1, <1>9 DEF Cancel
  <2>2. /\ take' = AbortedIn(take, called) /\ line' = HungIn(line, called)
        /\ answer' = TakenBack(called) /\ UNCHANGED engine
    BY <1>9 DEF Cancel
  <2> HIDE DEF called
  <2>3. \A u \in Takes : Same(take'[u], take[u]) /\ LineLess(line'[u], line[u], u)
    BY <1>0, <2>1, <2>2, TakesSameAborted, LinesUnmovedHung
  <2>4. QED
    BY <2>1, <2>2, <2>3, TakenBackIs, UnmovedKeeps DEF Unmoved, TypedStays
<1>10. CASE Hide
  <2> DEFINE f == CancelledIn(take, "cleared")
             r == card.recorder
  <2>1. f \in [Takes -> TakeRecord] /\ \A u \in Takes : Same(f[u], take[u])
    BY <1>0, TakesCancelled, TakesSameCancelled
  <2>2. CASE r = None \/ engine = "local"
    <3>1. take' = f /\ UNCHANGED <<line, answer, engine>>
      BY <1>10, <2>2 DEF Hide
    <3> HIDE DEF f
    <3>2. QED
      BY <2>1, <3>1, LineNone, FewerSame, UnmovedKeeps DEF Unmoved, TypedStays
  <2>3. CASE ~(r = None \/ engine = "local")
    <3> DEFINE g == [f[r] EXCEPT !.timer = FALSE, !.mic = FALSE]
    <3>1. r \in Takes
      BY <1>1, <2>3
    <3>2. /\ take' = [f EXCEPT ![r] = g] /\ line' = [line EXCEPT ![r] = StopSent(line[r])]
          /\ UNCHANGED <<answer, engine>>
      BY <1>10, <2>3 DEF Hide
    <3> HIDE DEF f, r
    <3>3. Same(g, f[r])
      <4>1. f[r] \in TakeRecord
        BY <2>1, <3>1
      <4>2. QED
        BY <4>1 DEF Same, TakeRecord
    <3> HIDE DEF g
    <3>4. ASSUME NEW u \in Takes PROVE Same(take'[u], take[u]) /\ LineLess(line'[u], line[u], u)
      BY <1>0, <2>1, <3>1, <3>2, <3>3, LineStopped, LineNone DEF Same
    <3>5. QED
      BY <3>2, <3>4, FewerSame, UnmovedKeeps DEF Unmoved, TypedStays
  <2>4. QED
    BY <2>2, <2>3
<1>11. CASE Type
  <2>1. PICK n \in 1 .. MaxTyped : answer' = Append(answer, <<Respondent, n>>)
    BY <1>11 DEF Type
  <2>2. UNCHANGED <<engine, take, line>>
    BY <1>11 DEF Type
  <2>3. <<Respondent, n>> \in Words /\ <<Respondent, n>> \notin TakeWords
    BY Bounds DEF Words, TakeWords, Respondent, Takes
  <2>4. \A u \in Takes : Fewer(answer', answer, u)
    BY <1>0, <2>1, <2>3, FewerAppend, OfTakes
  <2>5. QED
    BY <2>1, <2>2, <2>4, LineNone, AppendStays, UnmovedKeeps DEF Unmoved, Same
<1>12. QED
  BY <1>2, <1>3, <1>4, <1>5, <1>6, <1>7, <1>8, <1>9, <1>10, <1>11
     DEF ByHand, Decline, PressSpace, Show
\* The page's own steps, of the take that speaks, recognises, settles or fails.
LEMMA FlowsByBrowser ==
    ASSUME DictationTypeOK, Flows, NEW t \in Takes, ByBrowser(t)
    PROVE  Flows' /\ TypedStays
<1>0. /\ take \in [Takes -> TakeRecord] /\ line \in [Takes -> LineRecord]
      /\ answer \in Seq(Words) /\ take[t] \in TakeRecord /\ line[t] \in LineRecord
      /\ take[t].words \in Nat /\ engine \in {"server", "local"}
  BY Bounds, Engined DEF DictationTypeOK, TakeRecord
<1>1. ASSUME NEW g, Same(g, take[t]), take' = [take EXCEPT ![t] = g], UNCHANGED <<engine, answer>>,
             \A u \in Takes : LineLess(line'[u], line[u], u)
      PROVE  Flows' /\ TypedStays
  BY <1>0, <1>1, FewerSame, UnmovedKeeps DEF Unmoved, Same, TypedStays
<1>2. CASE MicrophoneOpens(t)
  <2>1. CASE engine = "server"
    <3> DEFINE g == [take[t] EXCEPT !.phase = "capturing", !.mic = TRUE, !.timer = TRUE]
               km == [line[t] EXCEPT !.wire = "connecting"]
    <3>1. /\ take' = [take EXCEPT ![t] = g] /\ line' = [line EXCEPT ![t] = km]
          /\ UNCHANGED <<engine, answer>>
      BY <1>0, <1>2, <2>1 DEF MicrophoneOpens
    <3>2. Same(g, take[t])
      BY <1>0 DEF Same, TakeRecord
    <3>3. LineLess(km, line[t], t)
      BY <1>0, FewerSame DEF LineLess, LineRecord
    <3> HIDE DEF g, km
    <3>4. \A u \in Takes : LineLess(line'[u], line[u], u)
      BY <1>0, <3>1, <3>3, LineNone
    <3>5. QED
      BY <1>1, <3>1, <3>2, <3>4
  <2>2. CASE engine # "server"
    <3> DEFINE g == [take[t] EXCEPT !.phase = "capturing", !.mic = TRUE, !.opened = "yes"]
    <3>1. take' = [take EXCEPT ![t] = g] /\ UNCHANGED <<engine, answer, line>>
      BY <1>0, <1>2, <2>2 DEF MicrophoneOpens
    <3>2. Same(g, take[t])
      BY <1>0 DEF Same, TakeRecord
    <3> HIDE DEF g
    <3>3. QED
      BY <1>1, <3>1, <3>2, LineNone
  <2>3. QED
    BY <2>1, <2>2
<1>3. CASE MicrophoneRefused(t)
  <2> DEFINE g == [take[t] EXCEPT !.phase = "settled", !.over = TRUE]
  <2>1. take' = [take EXCEPT ![t] = g] /\ UNCHANGED <<engine, answer, line>>
    BY <1>0, <1>3 DEF MicrophoneRefused
  <2>2. Same(g, take[t])
    BY <1>0 DEF Same, TakeRecord
  <2> HIDE DEF g
  <2>3. QED
    BY <1>1, <2>1, <2>2, LineNone
<1>4. ASSUME take' = [take EXCEPT ![t].phase = "settled"], UNCHANGED <<engine, answer, line>>
      PROVE  Flows' /\ TypedStays
  <2> DEFINE g == [take[t] EXCEPT !.phase = "settled"]
  <2>1. take' = [take EXCEPT ![t] = g]
    BY <1>4
  <2>2. Same(g, take[t])
    BY <1>0 DEF Same, TakeRecord
  <2> HIDE DEF g
  <2>3. QED
    BY <1>1, <1>4, <2>1, <2>2, LineNone
<1>5. CASE Settle(t)
  <2>1. CASE take' = [take EXCEPT ![t].phase = "settled"] /\ UNCHANGED line
    BY <1>4, <1>5, <2>1 DEF Settle
  <2>2. CASE /\ take' = AbortedIn([take EXCEPT ![t].phase = "settled"], t)
             /\ line' = HungIn(line, t)
    <3> DEFINE g == [take[t] EXCEPT !.phase = "settled"]
               f == [take EXCEPT ![t] = g]
    <3>1. g \in TakeRecord /\ Same(g, take[t])
      BY <1>0 DEF Same, TakeRecord
    <3>2. take' = AbortedIn(f, t) /\ UNCHANGED <<engine, answer>>
      BY <1>5, <2>2 DEF Settle
    <3> HIDE DEF g
    <3>3. f \in [Takes -> TakeRecord] /\ \A u \in Takes : Same(f[u], take[u])
      BY <1>0, <3>1 DEF Same
    <3> HIDE DEF f
    <3>4. \A u \in Takes : Same(take'[u], f[u]) /\ LineLess(line'[u], line[u], u)
      BY <1>0, <2>2, <3>2, <3>3, TakesSameAborted, LinesUnmovedHung
    <3>5. QED
      BY <3>2, <3>3, <3>4, FewerSame, UnmovedKeeps DEF Unmoved, Same, TypedStays
  <2>3. QED
    BY <1>5, <2>1, <2>2 DEF Settle
<1>6. CASE CaptureFails(t)
  BY <1>4, <1>6 DEF CaptureFails
<1>7. CASE StopTimer(t)
  BY <1>7, UnmovedParts, FewerSame, UnmovedKeeps DEF StopTimer, Unmoved, TypedStays
<1>8. ASSUME Speak(t) \/ Recognise(t)
      PROVE  /\ take'[t].words = take[t].words + 1 /\ take'[t].written = take[t].written
             /\ \A u \in Takes \ {t} : take'[u] = take[u]
             /\ take[t].words + 1 \in 1 .. MaxWords
  <2> DEFINE n == take[t].words + 1
  <2>1. take' = [take EXCEPT ![t].words = n] /\ take[t].words < MaxWords
    BY <1>8 DEF Speak, Recognise
  <2>2. n \in 1 .. MaxWords
    BY <1>0, <2>1, Bounds
  <2> HIDE DEF n
  <2>3. QED
    BY <1>0, <2>1, <2>2 DEF TakeRecord, n
<1>9. CASE Speak(t)
  <2> DEFINE n == take[t].words
  <2>1. UNCHANGED <<engine, answer>>
    BY <1>9 DEF Speak
  <2>2. ASSUME NEW u \in Takes, u # t PROVE Flow(u)'
    <3>1. take'[u] = take[u] /\ line'[u] = line[u]
      BY <1>0, <1>8, <1>9, <2>2 DEF Speak
    <3>2. QED
      BY <2>1, <3>1, FewerSame, LineNone, FlowUnmoved DEF Flows, Unmoved, Same
  <2>3. CASE line[t].wire = "open"
    <3> DEFINE km == [line[t] EXCEPT !.up = Append(line[t].up, <<t, n + 1>>)]
    <3>1. line' = [line EXCEPT ![t] = km]
      BY <1>9, <2>3 DEF Speak
    <3>2. km.down = line[t].down /\ km.heard = line[t].heard
          /\ km.up = Append(line[t].up, <<t, n + 1>>)
      BY <1>0 DEF LineRecord
    <3> HIDE DEF km
    <3>3. Orderly(t, answer, km, n + 1) /\ Own(km.up, t)
      BY <1>0, <1>8, <1>9, <3>2, OrderlySpoken DEF Flows, Flow, Owned
    <3>4. Owned(t, km, take[t].written)
      BY <3>2, <3>3 DEF Flows, Flow, Owned
    <3>5. NoneCarried(engine, t, km)
      BY <1>9 DEF Speak, NoneCarried
    <3>6. Flow(t)'
      BY <1>0, <1>8, <1>9, <2>1, <3>1, <3>3, <3>4, <3>5 DEF Flow
    <3>7. QED
      BY <2>1, <2>2, <3>6 DEF Flows, TypedStays
  <2>4. CASE line[t].wire # "open"
    <3>1. line' = line
      BY <1>9, <2>4 DEF Speak
    <3>2. Orderly(t, answer, line[t], n + 1)
      <4>1. Orderly(t, answer, line[t], n)
        BY <1>8, <1>9 DEF Flows, Flow
      <4>2. n \in Nat /\ n + 1 \in Nat /\ n <= n + 1
        BY <1>0, <1>8, <1>9 DEF TakeRecord, Words
      <4>3. Fewer(answer, answer, t) /\ LineLess(line[t], line[t], t)
        BY FewerSame DEF LineLess
      <4> HIDE DEF n
      <4>4. QED
        BY <4>1, <4>2, <4>3, OrderlyFewer
    <3>3. Flow(t)'
      BY <1>8, <1>9, <2>1, <3>1, <3>2 DEF Flows, Flow
    <3>4. QED
      BY <2>1, <2>2, <3>3 DEF Flows, TypedStays
  <2>5. QED
    BY <2>3, <2>4
<1>10. CASE Recognise(t)
  <2> DEFINE n == take[t].words
             w == <<t, n + 1>>
  <2>1. answer' = Append(answer, w) /\ UNCHANGED <<engine, line>> /\ engine = "local"
    BY <1>10 DEF Recognise
  <2>2. w \in Of(t) /\ w \in Words /\ \A u \in Takes : u # t => w \notin Of(u)
    BY <1>8, <1>10, OfTakes DEF Of
  <2>3. Orderly(t, answer', line[t], n + 1)
    BY <1>0, <1>8, <1>10, <2>1, OrderlyRecognised DEF Flows, Flow, NoneCarried
  <2>4. Flow(t)'
    BY <1>8, <1>10, <2>1, <2>3 DEF Flows, Flow
  <2> HIDE DEF w
  <2>5. ASSUME NEW u \in Takes, u # t PROVE Flow(u)'
    <3>1. Said(answer', u) = Said(answer, u) /\ (Rising(answer, u) => Rising(answer', u))
      BY <1>0, <2>1, <2>2, <2>5, FewerAppend
    <3>2. Orderly(u, answer', line[u], take[u].words)
      BY <3>1 DEF Flows, Flow, Orderly
    <3>3. QED
      BY <1>8, <1>10, <2>1, <2>5, <3>2 DEF Flows, Flow
  <2>6. QED
    BY <2>1, <2>4, <2>5, AppendStays DEF Flows
<1>11. CASE RecogniserEnds(t)
  <2> DEFINE g == [take[t] EXCEPT !.mic = FALSE, !.over = TRUE]
  <2>1. take' = [take EXCEPT ![t] = g] /\ UNCHANGED <<engine, answer, line>>
    BY <1>0, <1>11 DEF RecogniserEnds
  <2>2. Same(g, take[t])
    BY <1>0 DEF Same, TakeRecord
  <2> HIDE DEF g
  <2>3. QED
    BY <1>1, <2>1, <2>2, LineNone
<1>12. QED
  BY <1>2, <1>3, <1>5, <1>6, <1>7, <1>9, <1>10, <1>11 DEF ByBrowser

\* A line moves, and the take behind it does not.
LEMMA LineMoves ==
    ASSUME DictationTypeOK, Flows, NEW t \in Takes, NEW km, line' = [line EXCEPT ![t] = km],
           UNCHANGED <<engine, take, answer>>,
           Orderly(t, answer, km, take[t].words), Owned(t, km, take[t].written),
           NoneCarried(engine, t, km)
    PROVE  Flows'
<1>1. line \in [Takes -> LineRecord]
  BY DEF DictationTypeOK
<1>2. Flow(t)'
  BY <1>1 DEF Flow
<1>3. \A u \in Takes : u # t => Flow(u)'
  BY <1>1 DEF Flows, Flow
<1>4. QED
  BY <1>2, <1>3 DEF Flows

\* What the network and the server do with a socket, and what the page makes of a frame.
LEMMA FlowsByWire ==
    ASSUME DictationTypeOK, Shape, Flows, NEW t \in Takes, ByWire(t)
    PROVE  Flows' /\ TypedStays
<1>0. /\ take \in [Takes -> TakeRecord] /\ line \in [Takes -> LineRecord]
      /\ answer \in Seq(Words) /\ take[t] \in TakeRecord /\ line[t] \in LineRecord
      /\ take[t].words \in Nat /\ engine \in {"server", "local"}
  BY Bounds, Engined DEF DictationTypeOK, TakeRecord
<1> DEFINE old == line[t]
<1>1. /\ Orderly(t, answer, old, take[t].words) /\ Own(old.down, t) /\ Own(old.heard, t)
      /\ Own(old.up, t) /\ Own(take[t].written, t)
      /\ old.up \in Seq(UpMessages) /\ old.down \in Seq(DownFrames) /\ old.heard \in Seq(TakeWords)
  BY <1>0, LineTypes DEF Flows, Flow, Owned
<1>2. engine = "server"
  BY <1>0 DEF Shape, Fits, ByWire, Connect, ConnectFails, Retry, LineLost, Deliver, ServerReceives,
              ServerTells
<1>3. \A km : NoneCarried(engine, t, km)
  BY <1>2 DEF NoneCarried
<1>4. ASSUME NEW km, line' = [line EXCEPT ![t] = km], UNCHANGED <<engine, take, answer>>,
             LineLess(km, old, t)
      PROVE  Flows' /\ TypedStays
  <2>1. \A u \in Takes : LineLess(line'[u], line[u], u)
    BY <1>0, <1>4, LineNone
  <2>2. QED
    BY <1>4, <2>1, FewerSame, UnmovedKeeps DEF Unmoved, Same, TypedStays
<1>5. CASE Connect(t)
  <2> DEFINE km == [NoLine EXCEPT !.wire = "open", !.hung = old.hung, !.up = Greeting(old),
                                  !.session = "greeted"]
             g == [take[t] EXCEPT !.opened = IF take[t].opened = "pending" THEN "yes"
                                             ELSE take[t].opened]
  <2>1. /\ line' = [line EXCEPT ![t] = km] /\ take' = [take EXCEPT ![t] = g]
        /\ UNCHANGED <<engine, answer>>
    BY <1>0, <1>5 DEF Connect
  <2>2. LineLess(km, old, t)
    BY <1>0, LineGreeting
  <2>3. Same(g, take[t])
    BY <1>0 DEF Same, TakeRecord
  <2> HIDE DEF km, g
  <2>4. \A u \in Takes : Same(take'[u], take[u]) /\ LineLess(line'[u], line[u], u)
    BY <1>0, <2>1, <2>2, <2>3, LineNone DEF Same
  <2>5. QED
    BY <2>1, <2>4, FewerSame, UnmovedKeeps DEF Unmoved, TypedStays
<1>6. CASE ConnectFails(t)
  BY <1>6, UnmovedParts, FewerSame, UnmovedKeeps DEF ConnectFails, Unmoved, TypedStays
<1>7. CASE Retry(t)
  <2> DEFINE km == [old EXCEPT !.wire = "connecting"]
  <2>1. line' = [line EXCEPT ![t] = km] /\ UNCHANGED <<engine, take, answer>>
    BY <1>7 DEF Retry
  <2>2. LineLess(km, old, t)
    BY <1>0, FewerSame DEF LineLess, LineRecord
  <2> HIDE DEF km
  <2>3. QED
    BY <1>4, <2>1, <2>2
<1>8. CASE LineLost(t)
  BY <1>8, UnmovedParts, FewerSame, UnmovedKeeps DEF LineLost, Unmoved, TypedStays
<1>9. CASE Deliver(t)
  <2> DEFINE frame == Head(old.down)
  <2>1. CASE ~take[t].dropped /\ Ends(frame)
    <3>1. Cleanup(t) /\ UNCHANGED <<engine, answer>>
      BY <1>9, <2>1 DEF Deliver, Hears
    <3>2. QED
      BY <3>1, UnmovedParts, FewerSame, UnmovedKeeps DEF Unmoved, TypedStays
  <2>2. CASE ~take[t].dropped /\ ~Ends(frame)
    <3> DEFINE km == [old EXCEPT !.down = Tail(old.down)]
               g == [take[t] EXCEPT !.written = Append(take[t].written, frame)]
    <3>1. /\ answer' = Append(answer, frame) /\ line' = [line EXCEPT ![t] = km]
          /\ take' = [take EXCEPT ![t] = g] /\ UNCHANGED engine
      BY <1>0, <1>9, <2>2 DEF Deliver, Hears
    <3>2. km.down = Tail(old.down) /\ km.heard = old.heard /\ km.up = old.up
      BY <1>0 DEF LineRecord
    <3>3. g.words = take[t].words /\ g.written = Append(take[t].written, frame)
      BY <1>0 DEF TakeRecord
    <3>4. old.down # <<>>
      BY <1>9 DEF Deliver
    <3>5. frame \in TakeWords
      <4>1. frame \in DownFrames
        BY <1>1, <3>4, HeadTailProperties
      <4>2. QED
        BY <2>2, <4>1 DEF DownFrames, Ends
    <3> HIDE DEF km, g
    <3>6. Orderly(t, Append(answer, frame), km, take[t].words) /\ Own(km.down, t)
      BY <1>0, <1>1, <3>2, <3>4, <3>5, OrderlyWritten
    <3>7. frame \in Of(t)
      BY <1>1, <3>4, <3>5, SaidTail
    <3> HIDE DEF frame
    <3>8. Own(g.written, t)
      <4>1. take[t].written \in Seq(TakeWords)
        BY <1>0 DEF TakeRecord, TakeWords
      <4>2. QED
        BY <1>1, <3>3, <3>5, <3>7, <4>1, OwnAppend
    <3>9. Owned(t, km, g.written)
      BY <1>1, <3>2, <3>6, <3>8 DEF Owned
    <3>10. Flow(t)'
      <4>1. line'[t] = km /\ take'[t] = g
        BY <1>0, <3>1
      <4>2. QED
        BY <1>3, <3>1, <3>3, <3>6, <3>9, <4>1 DEF Flow
    <3>11. ASSUME NEW u \in Takes, u # t PROVE Flow(u)'
      <4>1. frame \notin Of(u) /\ frame \in Words
        BY <3>7, <3>11, OfTakes DEF Of
      <4>2. Said(answer', u) = Said(answer, u) /\ (Rising(answer, u) => Rising(answer', u))
        BY <1>0, <3>1, <4>1, FewerAppend
      <4>3. Orderly(u, answer', line[u], take[u].words)
        BY <4>2 DEF Flows, Flow, Orderly
      <4>4. QED
        BY <1>0, <3>1, <3>11, <4>3 DEF Flows, Flow
    <3>12. QED
      BY <3>1, <3>10, <3>11, AppendStays DEF Flows
  <2>3. CASE take[t].dropped
    <3>1. /\ \/ line' = [line EXCEPT ![t] = Hung(old)]
             \/ line' = [line EXCEPT ![t] = [old EXCEPT !.down = Tail(old.down)]]
          /\ old.down # <<>> /\ UNCHANGED <<engine, take, answer>>
      BY <1>9, <2>3 DEF Deliver
    <3>2. LineLess(Hung(old), old, t)
      BY <1>0, LineHung
    <3> DEFINE km == [old EXCEPT !.down = Tail(old.down)]
    <3>3. km.down = Tail(old.down) /\ km.heard = old.heard /\ km.up = old.up
      BY <1>0 DEF LineRecord
    <3> HIDE DEF km
    <3>4. LineLess(km, old, t)
      <4>1. Fewer(Tail(old.down), old.down, t)
        BY <1>1, <3>1, SaidTail
      <4>2. QED
        BY <3>3, <4>1, FewerSame DEF LineLess
    <3>5. QED
      BY <1>4, <3>1, <3>2, <3>4 DEF km
  <2>4. QED
    BY <2>1, <2>2, <2>3
<1>10. CASE ServerReceives(t)
  <2> DEFINE message == Head(old.up)
             ln == [old EXCEPT !.up = Tail(old.up)]
  <2>1. /\ old.up # <<>> /\ UNCHANGED <<engine, take, answer>>
        /\ \/ \E next \in Started(ln) : line' = [line EXCEPT ![t] = next]
           \/ line' = [line EXCEPT ![t] = Stopped(ln)]
           \/ /\ message \notin {<<"start">>, <<"stop">>}
              /\ line' = [line EXCEPT ![t] = Heard(ln, message)]
    BY <1>10 DEF ServerReceives
  <2>2. /\ ln \in LineRecord /\ ln.down = old.down /\ ln.heard = old.heard
        /\ ln.up = Tail(old.up)
    <3>1. ln \in LineRecord
      BY <1>0, <2>1, LinesMoved
    <3>2. ln.down = old.down /\ ln.heard = old.heard /\ ln.up = Tail(old.up)
      BY <1>0 DEF LineRecord
    <3>3. QED
      BY <3>1, <3>2
  <2>3. LineLess(ln, old, t)
    <3>1. Fewer(Tail(old.up), old.up, t)
      BY <1>1, <2>1, SaidTail
    <3> HIDE DEF ln
    <3>2. QED
      BY <2>2, <3>1, FewerSame DEF LineLess
  <2> HIDE DEF ln
  <2>4. \A km : LineLess(km, ln, t) => LineLess(km, old, t)
    BY <2>3 DEF LineLess, Fewer
  <2>5. LineLess(Refused(ln), ln, t)
    <3>1. /\ Refused(ln).down = Append(ln.down, <<"error">>)
          /\ Refused(ln).heard = ln.heard /\ Refused(ln).up = ln.up
      BY <2>2 DEF Refused, LineRecord
    <3>2. Fewer(Append(ln.down, <<"error">>), ln.down, t)
      BY <1>1, <2>2, ControlIsNoWord, FewerAppend DEF DownFrames
    <3>3. QED
      BY <3>1, <3>2, FewerSame DEF LineLess
  <2>6. \A s \in {"greeted", "started", "telling", "over"} :
           LineLess([ln EXCEPT !.session = s], ln, t)
    BY <2>2, FewerSame DEF LineLess, LineRecord
  <2>7. LineLess([ln EXCEPT !.session = "started", !.heard = <<>>], ln, t)
    BY <2>2, FewerSame, FewerNone DEF LineLess, LineRecord
  <2>8. ASSUME NEW next \in Started(ln), line' = [line EXCEPT ![t] = next]
        PROVE  Flows' /\ TypedStays
    BY <1>4, <2>1, <2>4, <2>5, <2>7, <2>8 DEF Started
  <2>9. CASE line' = [line EXCEPT ![t] = Stopped(ln)]
    <3>1. LineLess(Stopped(ln), ln, t)
      BY <2>5, <2>6 DEF Stopped
    <3>2. QED
      BY <1>4, <2>1, <2>4, <2>9, <3>1
  <2>10. CASE /\ message \notin {<<"start">>, <<"stop">>}
              /\ line' = [line EXCEPT ![t] = Heard(ln, message)]
    <3>1. message \in TakeWords
      <4>1. message \in UpMessages
        BY <1>1, <2>1, HeadTailProperties
      <4>2. QED
        BY <2>10, <4>1 DEF UpMessages
    <3>2. CASE ln.session = "started" /\ Len(ln.heard) < CapWords
      <4> DEFINE km == [ln EXCEPT !.heard = Append(ln.heard, message)]
      <4>1. Heard(ln, message) = km
        BY <3>2 DEF Heard
      <4>2. km.down = old.down /\ km.up = Tail(old.up) /\ km.heard = Append(old.heard, message)
        BY <2>2 DEF LineRecord
      <4> HIDE DEF km
      <4>3. Orderly(t, answer, km, take[t].words) /\ Own(km.up, t) /\ Own(km.heard, t)
        BY <1>0, <1>1, <2>1, <3>1, <4>2, OrderlyHeard
      <4>4. Owned(t, km, take[t].written)
        BY <1>1, <4>2, <4>3 DEF Owned
      <4>5. Flows'
        BY <1>3, <2>1, <2>10, <4>1, <4>3, <4>4, LineMoves
      <4>6. QED
        BY <2>1, <4>5 DEF TypedStays
    <3>3. CASE ~(ln.session = "started" /\ Len(ln.heard) < CapWords)
      <4>1. LineLess(Heard(ln, message), ln, t)
        BY <2>6, <3>3, LineNone DEF Heard
      <4>2. QED
        BY <1>4, <2>1, <2>4, <2>10, <4>1
    <3>4. QED
      BY <3>2, <3>3
  <2>11. QED
    BY <2>1, <2>8, <2>9, <2>10
<1>11. CASE ServerTells(t)
  <2>1. UNCHANGED <<engine, take, answer>>
    BY <1>11 DEF ServerTells
  <2>2. CASE /\ old.heard # <<>>
             /\ line' = [line EXCEPT ![t].down = Append(@, Head(old.heard)),
                                     ![t].heard = Tail(@), ![t].told = TRUE]
    <3> DEFINE km == [old EXCEPT !.down = Append(old.down, Head(old.heard)),
                                 !.heard = Tail(old.heard), !.told = TRUE]
    <3>1. line' = [line EXCEPT ![t] = km]
      BY <1>0, <2>2 DEF LineRecord
    <3>2. km.up = old.up /\ km.heard = Tail(old.heard)
          /\ km.down = Append(old.down, Head(old.heard))
      BY <1>0 DEF LineRecord
    <3> HIDE DEF km
    <3>3. Orderly(t, answer, km, take[t].words) /\ Own(km.heard, t) /\ Own(km.down, t)
      BY <1>0, <1>1, <2>2, <3>2, OrderlyTold
    <3>4. Owned(t, km, take[t].written)
      BY <1>1, <3>2, <3>3 DEF Owned
    <3>5. Flows'
      BY <1>3, <2>1, <3>1, <3>3, <3>4, LineMoves
    <3>6. QED
      BY <2>1, <3>5 DEF TypedStays
  <2>3. CASE line' = [line EXCEPT ![t].session = "over", ![t].down = Append(@, <<"done">>)]
    <3> DEFINE km == [old EXCEPT !.session = "over", !.down = Append(old.down, <<"done">>)]
    <3>1. line' = [line EXCEPT ![t] = km]
      BY <1>0, <2>3 DEF LineRecord
    <3>2. km.up = old.up /\ km.heard = old.heard /\ km.down = Append(old.down, <<"done">>)
      BY <1>0 DEF LineRecord
    <3> HIDE DEF km
    <3>3. Fewer(Append(old.down, <<"done">>), old.down, t)
      BY <1>1, ControlIsNoWord, FewerAppend DEF DownFrames
    <3>4. LineLess(km, old, t)
      BY <3>2, <3>3, FewerSame DEF LineLess
    <3>5. QED
      BY <1>4, <2>1, <3>1, <3>4
  <2>4. CASE line' = [line EXCEPT ![t] = Refused(old)]
    <3>1. /\ Refused(old).down = Append(old.down, <<"error">>)
          /\ Refused(old).heard = old.heard /\ Refused(old).up = old.up
      BY <1>0 DEF Refused, LineRecord
    <3>2. Fewer(Append(old.down, <<"error">>), old.down, t)
      BY <1>1, ControlIsNoWord, FewerAppend DEF DownFrames
    <3>3. LineLess(Refused(old), old, t)
      BY <3>1, <3>2, FewerSame DEF LineLess
    <3>4. QED
      BY <1>4, <2>1, <2>4, <3>3
  <2>5. QED
    BY <1>11, <2>2, <2>3, <2>4 DEF ServerTells
<1>12. QED
  BY <1>5, <1>6, <1>7, <1>8, <1>9, <1>10, <1>11 DEF ByWire

\* Initially nothing is spoken.
LEMMA FlowsInit == Init => Flows
<1> SUFFICES ASSUME Init, NEW t \in Takes PROVE Flow(t)
  BY DEF Flows
<1>1. /\ answer = <<>> /\ line[t].up = <<>> /\ line[t].down = <<>> /\ line[t].heard = <<>>
      /\ take[t].written = <<>>
  BY DEF Init, Unused, NoLine
<1>2. QED
  BY <1>1, SaidNone DEF Flow, Orderly, Owned, NoneCarried, Before

\* Every step keeps the flows.
LEMMA FlowsStep ==
    DictationTypeOK /\ Parts /\ Flows /\ [Next]_vars =>
        Flows' /\ (Clear \/ TypedStays)
<1> SUFFICES ASSUME DictationTypeOK, Parts, Flows, [Next]_vars
             PROVE  Flows' /\ (Clear \/ TypedStays)
  OBVIOUS
<1>1. CASE ByHand
  BY <1>1, FlowsByHand
<1>2. ASSUME NEW t \in Takes, ByBrowser(t) PROVE Flows' /\ TypedStays
  BY <1>2, FlowsByBrowser
<1>3. ASSUME NEW t \in Takes, ByWire(t) PROVE Flows' /\ TypedStays
  BY <1>3, FlowsByWire DEF Parts
<1>4. CASE UNCHANGED vars
  BY <1>4, LineNone, FewerSame, UnmovedKeeps DEF vars, Unmoved, Same, TypedStays
<1>5. QED
  BY <1>1, <1>2, <1>3, <1>4 DEF Next

\* The order of what is in the answer.
LEMMA FlowsInOrder == DictationTypeOK /\ Flows => \A t \in Takes : InOrder(answer, t)
<1> SUFFICES ASSUME DictationTypeOK, Flows, NEW t \in Takes PROVE InOrder(answer, t)
  OBVIOUS
<1>1. answer \in Seq(Words) /\ Rising(answer, t)
  BY DEF DictationTypeOK, Flows, Flow, Orderly
<1>2. ASSUME NEW i \in 1 .. Len(answer), answer[i][1] = t PROVE answer[i] \in Of(t)
  <2>1. answer[i] \in Words
    BY <1>1
  <2>2. QED
    BY <1>2, <2>1, Bounds DEF Words, Of, Takes, Respondent
<1>3. QED
  BY <1>1, <1>2 DEF InOrder, Rising

(***************************************************************************)
(* Whatever becomes of the connections, a take's words come into the       *)
(* answer in the order they were spoken, and what was typed stays.         *)
(***************************************************************************)
THEOREM WordsAreKept == Spec => WordsKept
<1>1. DictationTypeOK /\ Parts /\ Flows /\ [Next]_vars /\ DictationTypeOK' =>
        [/\ \A t \in Takes : InOrder(answer', t)
         /\ Clear \/ \A i \in 1 .. Len(answer) :
               ByRespondent(answer[i]) => i <= Len(answer') /\ answer'[i] = answer[i]]_vars
  <2> SUFFICES ASSUME DictationTypeOK, Parts, Flows, [Next]_vars, DictationTypeOK'
               PROVE  /\ \A t \in Takes : InOrder(answer', t)
                      /\ Clear \/ TypedStays
    BY DEF TypedStays
  <2>1. Flows' /\ (Clear \/ TypedStays)
    BY FlowsStep
  <2>2. (\A t \in Takes : InOrder(answer, t))'
    BY <2>1, FlowsInOrder, PTL
  <2>3. QED
    BY <2>1, <2>2
<1>2. DictationTypeOK /\ Parts /\ Flows /\ [Next]_vars => Flows'
  BY FlowsStep
<1>3. QED
  BY <1>1, <1>2, FlowsInit, TypeInit, TypeStep, PartsInit, PartsStep, PTL DEF Spec, WordsKept

-----------------------------------------------------------------------------
(* Every take gets on.                                                      *)

\* A take after a step that leaves its phase: its promise settles at most.
Kept(g, f) ==
    /\ g.phase = f.phase
    /\ \/ g.opened = f.opened
       \/ f.opened = "pending" /\ g.opened \in {"yes", "no"}
    /\ g.mic => f.mic /\ g.timer = f.timer

Tried(km, ln) == km.wire = ln.wire /\ km.attempts = ln.attempts

\* What a step makes of a take that is not stranded.
Onward(t) ==
    /\ take'[t].phase \in AtOrAfter(take[t].phase)
    /\ take'[t].mic => take[t].mic \/ take[t].phase = "opening"
    /\ engine = "server" /\ take'[t].mic => take'[t].timer
    /\ take[t].opened # "pending" => take'[t].opened = take[t].opened
    /\ Awaits(t)' => line'[t].wire \in {"connecting", "backoff"}
    /\ Awaits(t) /\ Awaits(t)' =>
          \/ Chances(t)' < Chances(t)
          \/ Chances(t)' = Chances(t) /\ line'[t].wire = line[t].wire

LEMMA KeptSame == \A f : Kept(f, f)
BY DEF Kept

LEMMA KeptAlike == \A g, f : Alike(g, f) => Kept(g, f)
BY DEF Kept, Alike

LEMMA PhaseAfterItself ==
    DictationTypeOK => \A t \in Takes : take[t].phase \in AtOrAfter(take[t].phase)
BY DEF DictationTypeOK, TakeRecord, AtOrAfter

LEMMA KeptThrough ==
    ASSUME NEW f, NEW g, NEW h, Kept(h, g), Kept(g, f)
    PROVE  Kept(h, f)
BY DEF Kept

LEMMA TriedStopped ==
    ASSUME NEW ln \in LineRecord
    PROVE  Tried(StopSent(ln), ln)
<1>1. [ln EXCEPT !.up = Append(@, <<"stop">>)].wire = ln.wire
      /\ [ln EXCEPT !.up = Append(@, <<"stop">>)].attempts = ln.attempts
  BY DEF LineRecord
<1>2. [ln EXCEPT !.queued = TRUE].wire = ln.wire
      /\ [ln EXCEPT !.queued = TRUE].attempts = ln.attempts
  BY DEF LineRecord
<1>3. QED
  BY <1>1, <1>2 DEF StopSent, Tried

LEMMA KeptEnded ==
    ASSUME NEW tk \in TakeRecord
    PROVE  Kept(Ended(tk), tk) /\ ~Ended(tk).mic /\ Ended(tk).opened # "pending"
BY DEF TakeRecord, Ended, Kept

\* abort: the promise has settled after it, or the take was not the server's.
LEMMA KeptAborted ==
    ASSUME NEW f \in [Takes -> TakeRecord], NEW t \in Takes \cup {None}, NEW u \in Takes
    PROVE  Kept(AbortedIn(f, t)[u], f[u])
<1>1. CASE u # t
  BY <1>1, TakesAborted, KeptSame
<1>2. CASE u = t /\ engine = "server"
  <2> DEFINE g == [Ended(f[u]) EXCEPT !.dropped = TRUE, !.timer = FALSE]
  <2>1. f[u] \in TakeRecord /\ Ended(f[u]) \in TakeRecord
    BY TakesEnded
  <2>2. /\ g.phase = Ended(f[u]).phase /\ g.opened = Ended(f[u]).opened
        /\ g.mic = Ended(f[u]).mic
    BY <2>1 DEF TakeRecord
  <2>3. Kept(g, f[u])
    BY <2>1, <2>2, KeptEnded DEF Kept
  <2>4. AbortedIn(f, t) = [f EXCEPT ![u] = g]
    BY <1>2, Bounds DEF AbortedIn
  <2> HIDE DEF g
  <2>5. QED
    BY <2>3, <2>4
<1>3. CASE u = t /\ engine # "server"
  BY <1>3, TakesAborted DEF Kept
<1>4. QED
  BY <1>1, <1>2, <1>3

\* A take whose phase stays gets on, if its socket is left or it does not wait for it.
LEMMA OnwardKept ==
    ASSUME DictationTypeOK, NoTakeStranded, NEW t \in Takes, Kept(take'[t], take[t]),
           Tried(line'[t], line[t]) \/ take'[t].opened # "pending" \/ take[t].phase # "capturing"
    PROVE  Onward(t)
<1>1. take'[t].phase \in AtOrAfter(take[t].phase)
  BY PhaseAfterItself DEF Kept
<1>2. Awaits(t)' => /\ Awaits(t) /\ line'[t].wire \in {"connecting", "backoff"}
                    /\ Chances(t)' = Chances(t) /\ line'[t].wire = line[t].wire
  BY DEF NoTakeStranded, Kept, Awaits, Tried, Chances
<1>3. QED
  BY <1>1, <1>2 DEF Onward, Kept, NoTakeStranded

\* Its microphone is what it was, and its timer, and it waits for nothing.
LEMMA OnwardSettled ==
    ASSUME NoTakeStranded, NEW t \in Takes, take[t].phase \in {"opening", "capturing"},
           take'[t].phase = "settled",
           take'[t].mic => take[t].mic /\ take'[t].timer = take[t].timer,
           take[t].opened # "pending" => take'[t].opened = take[t].opened
    PROVE  Onward(t)
BY DEF Onward, NoTakeStranded, AtOrAfter, Awaits

LEMMA OnwardFinished ==
    ASSUME DictationTypeOK, NoTakeStranded, NEW t \in Takes, FinishTake(t), NEW u \in Takes
    PROVE  Onward(u)
<1>1. take[t] \in TakeRecord /\ line[t] \in LineRecord
      /\ take \in [Takes -> TakeRecord] /\ line \in [Takes -> LineRecord]
  BY DEF DictationTypeOK
<1>2. CASE engine = "server"
  <2> DEFINE g == [take[t] EXCEPT !.timer = FALSE, !.mic = FALSE]
  <2>1. Kept(g, take[t])
    BY <1>1 DEF Kept, TakeRecord
  <2>2. take' = [take EXCEPT ![t] = g] /\ line' = [line EXCEPT ![t] = StopSent(line[t])]
    BY <1>2 DEF FinishTake
  <2> HIDE DEF g
  <2>3. Kept(take'[u], take[u]) /\ Tried(line'[u], line[u])
    BY <1>1, <2>1, <2>2, TriedStopped, KeptSame DEF Tried
  <2>4. QED
    BY <2>3, OnwardKept
<1>3. CASE engine # "server"
  <2>1. Kept(take'[u], take[u]) /\ Tried(line'[u], line[u])
    BY <1>3, KeptSame DEF FinishTake, Tried
  <2>2. QED
    BY <2>1, OnwardKept
<1>4. QED
  BY <1>2, <1>3

LEMMA OnwardCleaned ==
    ASSUME DictationTypeOK, NoTakeStranded, NEW t \in Takes, Cleanup(t), NEW u \in Takes
    PROVE  Onward(u)
<1>1. take[t] \in TakeRecord
      /\ take \in [Takes -> TakeRecord] /\ line \in [Takes -> LineRecord]
  BY DEF DictationTypeOK
<1>2. take' = [take EXCEPT ![t] = Ended(take[t])] /\ line' = [line EXCEPT ![t] = Hung(line[t])]
  BY DEF Cleanup
<1>3. CASE u = t
  BY <1>1, <1>2, <1>3, KeptEnded, OnwardKept
<1>4. CASE u # t
  <2>1. Kept(take'[u], take[u]) /\ Tried(line'[u], line[u])
    BY <1>1, <1>2, <1>4, KeptSame DEF Tried
  <2>2. QED
    BY <2>1, OnwardKept
<1>5. QED
  BY <1>3, <1>4

\* A socket that goes down has one chance less, or its take is over.
LEMMA OnwardDown ==
    ASSUME DictationTypeOK, Shape, NoTakeStranded, NEW t \in Takes, LineDown(t),
           NEW u \in Takes, line[t].wire \in {"connecting", "open"}
    PROVE  Onward(u)
<1>1. CASE Cleanup(t)
  BY <1>1, OnwardCleaned
<1>2. CASE ~line[t].hung /\ ~Cleanup(t)
  <2> DEFINE km == [NoLine EXCEPT !.wire = "backoff", !.attempts = line[t].attempts + 1,
                                  !.queued = line[t].queued]
  <2>1. line' = [line EXCEPT ![t] = km] /\ take' = take /\ line \in [Takes -> LineRecord]
    BY <1>2 DEF LineDown, DictationTypeOK
  <2>2. km.wire = "backoff" /\ km.attempts = line[t].attempts + 1
    BY DEF NoLine
  <2> HIDE DEF km
  <2>3. CASE u # t
    <3>1. Kept(take'[u], take[u]) /\ Tried(line'[u], line[u])
      BY <2>1, <2>3, KeptSame DEF Tried
    <3>2. QED
      BY <3>1, OnwardKept
  <2>4. CASE u = t
    <3>1. line'[u] = km
      BY <2>1, <2>4
    <3>2. line[t].attempts \in Nat /\ MaxAttempts \in Nat
      BY <2>1, Bounds DEF LineRecord
    <3>3. Chances(u)' < Chances(u)
      BY <2>2, <2>4, <3>1, <3>2 DEF Chances
    <3>4. take'[u].phase \in AtOrAfter(take[u].phase)
      BY <2>1, PhaseAfterItself
    <3>5. QED
      BY <2>1, <2>2, <3>1, <3>3, <3>4 DEF Onward, NoTakeStranded
  <2>5. QED
    BY <2>3, <2>4
<1>3. CASE line[t].hung
  <2>1. line' = [line EXCEPT ![t] = Hung(line[t])] /\ take' = take
    BY <1>3 DEF LineDown
  <2>2. take[t].opened # "pending"
    BY <1>3 DEF Shape, Fits
  <2>3. u # t => Tried(line'[u], line[u])
    BY <2>1 DEF DictationTypeOK, Tried
  <2>4. QED
    BY <2>1, <2>2, <2>3, KeptSame, OnwardKept
<1>4. QED
  BY <1>1, <1>2, <1>3

LEMMA OnwardStart ==
    ASSUME DictationTypeOK, Shape, NoTakeStranded, UNCHANGED line,
           NEW c, NEW mode, Start(c, mode), NEW u \in Takes
    PROVE  Onward(u)
<1>1. PICK t \in Takes :
        /\ take[t].phase = "unused"
        /\ take' = [take EXCEPT ![t].phase = "opening", ![t].mode = mode]
  BY DEF Start
<1>2. take[t] \in TakeRecord /\ take \in [Takes -> TakeRecord]
  BY DEF DictationTypeOK
<1>3. CASE u # t
  <2>1. Kept(take'[u], take[u]) /\ Tried(line'[u], line[u])
    BY <1>1, <1>2, <1>3, KeptSame DEF Tried
  <2>2. QED
    BY <2>1, OnwardKept
<1>4. CASE u = t
  <2> DEFINE g == [take[t] EXCEPT !.phase = "opening", !.mode = mode]
  <2>1. g.phase = "opening" /\ g.mic = take[t].mic /\ g.opened = take[t].opened
    BY <1>2 DEF TakeRecord
  <2>2. take' = [take EXCEPT ![t] = g]
    BY <1>1
  <2> HIDE DEF g
  <2>3. take'[u] = g
    BY <1>2, <1>4, <2>2
  <2>4. ~take[t].mic
    BY <1>1 DEF Shape, Fits
  <2>5. QED
    BY <1>1, <1>4, <2>1, <2>3, <2>4 DEF Onward, AtOrAfter, Awaits
<1>5. QED
  BY <1>3, <1>4

LEMMA OnwardByHand ==
    ASSUME DictationTypeOK, Shape, Named, NoTakeStranded, ByHand, NEW u \in Takes
    PROVE  Onward(u)
<1>0. /\ take \in [Takes -> TakeRecord] /\ line \in [Takes -> LineRecord]
      /\ card \in CardRecord
  BY DEF DictationTypeOK
<1>1. {card.recorder, card.finishing, card.starting} \subseteq Takes \cup {None}
  BY <1>0 DEF CardRecord
<1>2. ASSUME Kept(take'[u], take[u]), UNCHANGED line PROVE Onward(u)
  BY <1>2, OnwardKept DEF Tried
<1>3. UNCHANGED <<take, line>> => Onward(u)
  BY <1>2, KeptSame
<1>4. \A mode : AskConsent(mode) /\ UNCHANGED line => Onward(u)
  BY <1>3, OnwardStart DEF AskConsent
<1>5. ASSUME NEW f \in [Takes -> TakeRecord], Kept(f[u], take[u]), NEW t \in Takes \cup {None},
             take' = AbortedIn(f, t), line' = HungIn(line, t),
             t \in Takes => f[t].phase # "capturing" /\ take[t].phase # "capturing"
      PROVE  Onward(u)
  <2>1. Kept(take'[u], take[u])
    BY <1>5, KeptAborted, KeptThrough
  <2>2. u # t => line'[u] = line[u]
    BY <1>0, <1>5, LinesHungIn
  <2>3. QED
    BY <1>5, <2>1, <2>2, OnwardKept DEF Tried
<1>6. CASE Stop
  BY <1>1, <1>6, OnwardFinished DEF Stop
<1>7. CASE Dictate
  BY <1>4, <1>7 DEF Dictate
<1>8. CASE Accept
  <2>1. PICK kept \in {card.consented, TRUE} :
          Start([card EXCEPT !.dialogs = @ - 1, !.consented = kept], "toggle")
    BY <1>8 DEF Accept
  <2>2. UNCHANGED line
    BY <1>8 DEF Accept
  <2>3. QED
    BY <2>1, <2>2, OnwardStart
<1>9. CASE Decline \/ PressSpace \/ Show \/ Type
  BY <1>3, <1>9 DEF Decline, PressSpace, Show, Type
<1>10. CASE Hold
  BY <1>3, <1>4, <1>10 DEF Hold
<1>11. CASE Release
  <2>1. CASE take' = CancelledIn(take, "released") /\ UNCHANGED line
    BY <1>0, <1>2, <2>1, TakesCancelled, KeptAlike
  <2>2. CASE card.recorder # None /\ FinishTake(card.recorder)
    BY <1>1, <2>2, OnwardFinished
  <2>3. QED
    BY <1>3, <1>11, <2>1, <2>2 DEF Release
<1>12. CASE Hide
  <2> DEFINE f == CancelledIn(take, "cleared")
             r == card.recorder
  <2>1. f \in [Takes -> TakeRecord] /\ Kept(f[u], take[u])
    BY <1>0, TakesCancelled, KeptAlike
  <2>2. CASE r = None \/ engine = "local"
    BY <1>2, <1>12, <2>1, <2>2 DEF Hide
  <2>3. CASE ~(r = None \/ engine = "local")
    <3> DEFINE g == [f[r] EXCEPT !.timer = FALSE, !.mic = FALSE]
    <3>1. r \in Takes
      BY <1>1, <2>3
    <3>2. take' = [f EXCEPT ![r] = g] /\ line' = [line EXCEPT ![r] = StopSent(line[r])]
      BY <1>12, <2>3 DEF Hide
    <3> HIDE DEF f, r
    <3>3. Kept(g, f[r])
      <4>1. f[r] \in TakeRecord
        BY <2>1, <3>1
      <4>2. QED
        BY <4>1 DEF Kept, TakeRecord
    <3> HIDE DEF g
    <3>4. Kept(take'[u], f[u]) /\ Tried(line'[u], line[u])
      BY <1>0, <2>1, <3>1, <3>2, <3>3, TriedStopped, KeptSame DEF Tried
    <3>5. QED
      BY <2>1, <3>4, KeptThrough, OnwardKept
  <2>4. QED
    BY <2>2, <2>3
<1>13. CASE Clear
  <2> DEFINE live == IF card.recorder # None THEN card.recorder ELSE card.finishing
             f == CancelledIn(take, "cleared")
  <2>1. live \in Takes \cup {None} /\ live \in {card.recorder, card.finishing}
    BY <1>1
  <2>2. f \in [Takes -> TakeRecord] /\ \A v \in Takes : Alike(f[v], take[v])
    BY <1>0, TakesCancelled
  <2>3. take' = AbortedIn(f, live) /\ line' = HungIn(line, live)
    BY <1>13 DEF Clear
  <2> HIDE DEF live, f
  <2>4. live \in Takes => f[live].phase = "settled" /\ take[live].phase = "settled"
    BY <2>1, <2>2 DEF Named, Alike
  <2>5. QED
    BY <1>5, <2>1, <2>2, <2>3, <2>4, KeptAlike
<1>14. CASE Cancel
  <2> DEFINE called == IF card.finishing # None THEN card.finishing ELSE card.recorder
  <2>1. called \in Takes \cup {None} /\ called \in {card.recorder, card.finishing}
    BY <1>1
  <2>2. take' = AbortedIn(take, called) /\ line' = HungIn(line, called)
    BY <1>14 DEF Cancel
  <2> HIDE DEF called
  <2>3. called \in Takes => take[called].phase = "settled"
    BY <2>1 DEF Named
  <2>4. QED
    BY <1>0, <1>5, <2>1, <2>2, <2>3, KeptSame
<1>15. QED
  BY <1>6, <1>7, <1>8, <1>9, <1>10, <1>11, <1>12, <1>13, <1>14 DEF ByHand

LEMMA OnwardByBrowser ==
    ASSUME DictationTypeOK, Shape, NoTakeStranded, NEW t \in Takes, ByBrowser(t), NEW u \in Takes
    PROVE  Onward(u)
<1>0. /\ take \in [Takes -> TakeRecord] /\ line \in [Takes -> LineRecord]
      /\ take[t] \in TakeRecord /\ line[t] \in LineRecord
  BY DEF DictationTypeOK
<1>1. ASSUME Kept(take'[u], take[u]), Tried(line'[u], line[u]) PROVE Onward(u)
  BY <1>1, OnwardKept
<1>2. ASSUME NEW g, take' = [take EXCEPT ![t] = g], u # t, line'[u] = line[u] PROVE Onward(u)
  BY <1>0, <1>1, <1>2, KeptSame DEF Tried
<1>3. CASE MicrophoneOpens(t)
  <2>1. take[t].phase = "opening" /\ take[t].opened = "pending"
    BY <1>3 DEF MicrophoneOpens, Shape, Fits
  <2>2. CASE engine = "server"
    <3> DEFINE g == [take[t] EXCEPT !.phase = "capturing", !.mic = TRUE, !.timer = TRUE]
               km == [line[t] EXCEPT !.wire = "connecting"]
    <3>1. take' = [take EXCEPT ![t] = g] /\ line' = [line EXCEPT ![t] = km]
      BY <1>0, <1>3, <2>2 DEF MicrophoneOpens
    <3>2. g.phase = "capturing" /\ g.timer /\ km.wire = "connecting"
      BY <1>0 DEF TakeRecord, LineRecord
    <3> HIDE DEF g, km
    <3>3. CASE u = t
      <4>1. take'[u] = g /\ line'[u] = km
        BY <1>0, <3>1, <3>3
      <4>2. QED
        BY <2>1, <3>2, <3>3, <4>1 DEF Onward, AtOrAfter, Awaits
    <3>4. CASE u # t
      BY <1>0, <1>2, <3>1, <3>4
    <3>5. QED
      BY <3>3, <3>4
  <2>3. CASE engine # "server"
    <3> DEFINE g == [take[t] EXCEPT !.phase = "capturing", !.mic = TRUE, !.opened = "yes"]
    <3>1. take' = [take EXCEPT ![t] = g] /\ line' = line
      BY <1>0, <1>3, <2>3 DEF MicrophoneOpens
    <3>2. g.phase = "capturing" /\ g.opened = "yes"
      BY <1>0 DEF TakeRecord
    <3> HIDE DEF g
    <3>3. CASE u = t
      <4>1. take'[u] = g
        BY <1>0, <3>1, <3>3
      <4>2. QED
        BY <2>1, <2>3, <3>2, <3>3, <4>1 DEF Onward, AtOrAfter, Awaits
    <3>4. CASE u # t
      BY <1>2, <3>1, <3>4
    <3>5. QED
      BY <3>3, <3>4
  <2>4. QED
    BY <2>2, <2>3
<1>4. ASSUME NEW g, take' = [take EXCEPT ![t] = g], UNCHANGED line,
             take[t].phase \in {"opening", "capturing"}, g.phase = "settled",
             g.mic = take[t].mic, g.timer = take[t].timer, g.opened = take[t].opened
      PROVE  Onward(u)
  BY <1>0, <1>2, <1>4, OnwardSettled
<1>5. CASE MicrophoneRefused(t)
  <2> DEFINE g == [take[t] EXCEPT !.phase = "settled", !.over = TRUE]
  <2>1. take' = [take EXCEPT ![t] = g] /\ UNCHANGED line /\ take[t].phase = "opening"
    BY <1>0, <1>5 DEF MicrophoneRefused
  <2>2. /\ g.phase = "settled" /\ g.mic = take[t].mic
        /\ g.timer = take[t].timer /\ g.opened = take[t].opened
    BY <1>0 DEF TakeRecord
  <2> HIDE DEF g
  <2>3. QED
    BY <1>4, <2>1, <2>2
<1> DEFINE settled == [take[t] EXCEPT !.phase = "settled"]
<1>6. /\ settled \in TakeRecord /\ settled.phase = "settled" /\ settled.mic = take[t].mic
      /\ settled.timer = take[t].timer /\ settled.opened = take[t].opened
  BY <1>0 DEF TakeRecord
<1>7. CASE CaptureFails(t)
  <2>1. take' = [take EXCEPT ![t] = settled] /\ UNCHANGED line /\ take[t].phase = "capturing"
    BY <1>0, <1>7 DEF CaptureFails
  <2> HIDE DEF settled
  <2>2. QED
    BY <1>4, <1>6, <2>1
<1>8. CASE Settle(t)
  <2> DEFINE f == [take EXCEPT ![t] = settled]
  <2>0. take[t].phase = "capturing"
    BY <1>8 DEF Settle
  <2>1. CASE take' = f /\ UNCHANGED line
    <3> HIDE DEF settled
    <3>1. QED
      BY <1>4, <1>6, <2>0, <2>1
  <2>2. CASE take' = AbortedIn(f, t) /\ line' = HungIn(line, t)
    <3> HIDE DEF settled
    <3>1. f \in [Takes -> TakeRecord] /\ f[t] = settled /\ (u # t => f[u] = take[u])
      BY <1>0, <1>6
    <3> HIDE DEF f
    <3>2. Kept(take'[u], f[u]) /\ (u # t => line'[u] = line[u])
      BY <1>0, <2>2, <3>1, KeptAborted, LinesHungIn
    <3>3. CASE u # t
      BY <1>1, <3>1, <3>2, <3>3 DEF Tried
    <3>4. CASE u = t
      <4>1. /\ take'[t].phase = "settled"
            /\ take'[t].mic => take[t].mic /\ take'[t].timer = take[t].timer
            /\ take[t].opened # "pending" => take'[t].opened = take[t].opened
        BY <1>6, <3>1, <3>2, <3>4 DEF Kept
      <4>2. QED
        BY <2>0, <3>4, <4>1, OnwardSettled
    <3>5. QED
      BY <3>3, <3>4
  <2>3. QED
    BY <1>8, <2>1, <2>2 DEF Settle
<1>9. CASE StopTimer(t)
  BY <1>9, OnwardFinished DEF StopTimer
<1>10. CASE Speak(t) \/ Recognise(t)
  <2> DEFINE g == [take[t] EXCEPT !.words = @ + 1]
  <2>1. take' = [take EXCEPT ![t] = g]
    BY <1>10 DEF Speak, Recognise
  <2>2. Kept(g, take[t])
    BY <1>0 DEF TakeRecord, Kept
  <2>3. Tried(line'[u], line[u])
    <3>1. /\ [line[t] EXCEPT !.up = Append(@, <<t, take[t].words + 1>>)].wire = line[t].wire
          /\ [line[t] EXCEPT !.up = Append(@, <<t, take[t].words + 1>>)].attempts
               = line[t].attempts
      BY <1>0 DEF LineRecord
    <3>2. QED
      BY <1>0, <1>10, <3>1 DEF Speak, Recognise, Tried
  <2> HIDE DEF g
  <2>4. Kept(take'[u], take[u])
    BY <1>0, <2>1, <2>2, KeptSame
  <2>5. QED
    BY <1>1, <2>3, <2>4
<1>11. CASE RecogniserEnds(t)
  <2> DEFINE g == [take[t] EXCEPT !.mic = FALSE, !.over = TRUE]
  <2>1. take' = [take EXCEPT ![t] = g] /\ UNCHANGED line
    BY <1>0, <1>11 DEF RecogniserEnds
  <2>2. Kept(g, take[t])
    BY <1>0 DEF TakeRecord, Kept
  <2> HIDE DEF g
  <2>3. Kept(take'[u], take[u])
    BY <1>0, <2>1, <2>2, KeptSame
  <2>4. QED
    BY <1>1, <2>1, <2>3 DEF Tried
<1>12. QED
  BY <1>3, <1>5, <1>7, <1>8, <1>9, <1>10, <1>11 DEF ByBrowser

LEMMA OnwardByWire ==
    ASSUME DictationTypeOK, Shape, NoTakeStranded, NEW t \in Takes, ByWire(t), NEW u \in Takes
    PROVE  Onward(u)
<1>0. /\ take \in [Takes -> TakeRecord] /\ line \in [Takes -> LineRecord]
      /\ take[t] \in TakeRecord /\ line[t] \in LineRecord
  BY DEF DictationTypeOK
<1>1. ASSUME NEW km, line' = [line EXCEPT ![t] = km], Tried(km, line[t]),
             Kept(take'[u], take[u])
      PROVE  Onward(u)
  BY <1>0, <1>1, OnwardKept DEF Tried
<1>2. CASE Connect(t)
  <2> DEFINE g == [take[t] EXCEPT !.opened = IF take[t].opened = "pending" THEN "yes"
                                             ELSE take[t].opened]
  <2>1. take' = [take EXCEPT ![t] = g] /\ (u # t => line'[u] = line[u])
    BY <1>0, <1>2 DEF Connect
  <2>2. Kept(g, take[t]) /\ g.opened # "pending"
    BY <1>0 DEF TakeRecord, Kept
  <2> HIDE DEF g
  <2>3. Kept(take'[u], take[u]) /\ (u = t => take'[u].opened # "pending")
    BY <1>0, <2>1, <2>2, KeptSame
  <2>4. QED
    BY <2>1, <2>3, OnwardKept DEF Tried
<1>3. CASE ConnectFails(t)
  BY <1>3, OnwardDown DEF ConnectFails
<1>4. CASE Retry(t)
  <2> DEFINE km == [line[t] EXCEPT !.wire = "connecting"]
  <2>1. line' = [line EXCEPT ![t] = km] /\ UNCHANGED take /\ line[t].wire = "backoff"
    BY <1>4 DEF Retry
  <2>2. km.wire = "connecting" /\ km.attempts = line[t].attempts
    BY <1>0 DEF LineRecord
  <2> HIDE DEF km
  <2>3. CASE u # t
    <3>1. Kept(take'[u], take[u]) /\ Tried(line'[u], line[u])
      BY <1>0, <2>1, <2>3, KeptSame DEF Tried
    <3>2. QED
      BY <3>1, OnwardKept
  <2>4. CASE u = t
    <3>1. line'[u] = km
      BY <1>0, <2>1, <2>4
    <3>2. line[t].attempts \in Nat /\ MaxAttempts \in Nat
      BY <1>0, Bounds DEF LineRecord
    <3>3. Chances(u)' < Chances(u)
      BY <2>1, <2>2, <2>4, <3>1, <3>2 DEF Chances
    <3>4. take'[u].phase \in AtOrAfter(take[u].phase)
      BY <2>1, PhaseAfterItself
    <3>5. QED
      BY <2>1, <2>2, <3>1, <3>3, <3>4 DEF Onward, NoTakeStranded
  <2>5. QED
    BY <2>3, <2>4
<1>5. CASE LineLost(t)
  BY <1>5, OnwardDown DEF LineLost
<1>6. CASE Deliver(t)
  <2>1. CASE Cleanup(t)
    BY <2>1, OnwardCleaned
  <2>2. CASE /\ take' = [take EXCEPT ![t].written = Append(@, Head(line[t].down))]
             /\ line' = [line EXCEPT ![t].down = Tail(@)]
    <3> DEFINE g == [take[t] EXCEPT !.written = Append(@, Head(line[t].down))]
               km == [line[t] EXCEPT !.down = Tail(@)]
    <3>1. take' = [take EXCEPT ![t] = g] /\ line' = [line EXCEPT ![t] = km]
      BY <2>2
    <3>2. Kept(g, take[t])
      BY <1>0 DEF TakeRecord, Kept
    <3>3. Tried(km, line[t])
      BY <1>0 DEF LineRecord, Tried
    <3> HIDE DEF g, km
    <3>4. Kept(take'[u], take[u])
      BY <1>0, <3>1, <3>2, KeptSame
    <3>5. QED
      BY <1>1, <3>1, <3>3, <3>4
  <2>3. CASE take[t].dropped
    <3>1. UNCHANGED take /\ engine \in {"server", "local"} /\ line[t].wire = "open"
      BY <1>6, <2>3, Engined DEF Deliver
    <3>2. take[t].opened # "pending"
      BY <2>3, <3>1 DEF Shape, Fits
    <3>3. u # t => Tried(line'[u], line[u])
      BY <1>0, <1>6, <2>3 DEF Deliver, Tried
    <3>4. QED
      BY <3>1, <3>2, <3>3, KeptSame, OnwardKept
  <2>4. QED
    BY <1>6, <2>1, <2>2, <2>3 DEF Deliver, Hears
\* The server's steps leave the socket as it was.
<1>7. ASSUME NEW km, line' = [line EXCEPT ![t] = km], UNCHANGED take, Tried(km, line[t])
      PROVE  Onward(u)
  BY <1>1, <1>7, KeptSame
<1>8. CASE ServerReceives(t)
  <2> DEFINE ln == [line[t] EXCEPT !.up = Tail(@)]
             message == Head(line[t].up)
  <2>1. PICK km \in Started(ln) \cup {Stopped(ln), Heard(ln, message)} :
          line' = [line EXCEPT ![t] = km]
    BY <1>8 DEF ServerReceives
  <2>2. /\ ln.wire = line[t].wire /\ ln.attempts = line[t].attempts
        /\ DOMAIN ln = DOMAIN line[t] /\ ln = [x \in DOMAIN ln |-> ln[x]]
        /\ {"wire", "attempts", "session", "heard", "down"} \subseteq DOMAIN ln
    BY <1>0 DEF LineRecord
  <2> HIDE DEF ln, message
  <2>3. Tried(Refused(ln), ln)
    BY <2>2 DEF Refused, Tried
  <2>4. \A next \in Started(ln) : Tried(next, ln)
    BY <2>2, <2>3 DEF Started, Tried
  <2>5. Tried(Stopped(ln), ln)
    BY <2>2, <2>3 DEF Stopped, Tried
  <2>6. Tried(Heard(ln, message), ln)
    BY <2>2 DEF Heard, Tried
  <2>7. Tried(km, line[t])
    BY <2>1, <2>2, <2>4, <2>5, <2>6 DEF Tried
  <2>8. UNCHANGED take
    BY <1>8 DEF ServerReceives
  <2>9. QED
    BY <1>7, <2>1, <2>7, <2>8
<1>9. CASE ServerTells(t)
  <2>1. \/ line' = [line EXCEPT ![t] = [line[t] EXCEPT !.down = Append(@, Head(line[t].heard)),
                                                       !.heard = Tail(@), !.told = TRUE]]
        \/ line' = [line EXCEPT ![t] = [line[t] EXCEPT !.session = "over",
                                                       !.down = Append(@, <<"done">>)]]
        \/ line' = [line EXCEPT ![t] = Refused(line[t])]
    BY <1>9 DEF ServerTells
  <2>2. /\ Tried([line[t] EXCEPT !.down = Append(@, Head(line[t].heard)),
                                 !.heard = Tail(@), !.told = TRUE], line[t])
        /\ Tried([line[t] EXCEPT !.session = "over", !.down = Append(@, <<"done">>)], line[t])
        /\ Tried(Refused(line[t]), line[t])
    BY <1>0 DEF LineRecord, Tried, Refused
  <2>3. UNCHANGED take
    BY <1>9 DEF ServerTells
  <2>4. QED
    BY <1>7, <2>1, <2>2, <2>3
<1>10. QED
  BY <1>2, <1>3, <1>4, <1>5, <1>6, <1>8, <1>9 DEF ByWire

LEMMA EngineStays == [Next]_vars => engine' = engine
<1>1. ByHand => engine' = engine
  BY DEF ByHand, Stop, Dictate, Accept, Decline, PressSpace, Hold, Release, Clear, Cancel,
         Hide, Show, Type
<1>2. \A t \in Takes : ByBrowser(t) => engine' = engine
  BY DEF ByBrowser, MicrophoneOpens, MicrophoneRefused, Settle, CaptureFails, StopTimer,
         Speak, Recognise, RecogniserEnds
<1>3. \A t \in Takes : ByWire(t) => engine' = engine
  BY DEF ByWire, Connect, ConnectFails, Retry, LineLost, Deliver, ServerReceives, ServerTells
<1>4. QED
  BY <1>1, <1>2, <1>3 DEF Next, vars

LEMMA OnwardStep ==
    DictationTypeOK /\ Parts /\ NoTakeStranded /\ [Next]_vars => \A u \in Takes : Onward(u)
<1> SUFFICES ASSUME DictationTypeOK, Parts, NoTakeStranded, [Next]_vars, NEW u \in Takes
             PROVE  Onward(u)
  OBVIOUS
<1>1. CASE ByHand
  BY <1>1, OnwardByHand DEF Parts
<1>2. ASSUME NEW t \in Takes, ByBrowser(t) PROVE Onward(u)
  BY <1>2, OnwardByBrowser DEF Parts
<1>3. ASSUME NEW t \in Takes, ByWire(t) PROVE Onward(u)
  BY <1>3, OnwardByWire DEF Parts
<1>4. CASE UNCHANGED vars
  BY <1>4, KeptSame, OnwardKept DEF vars, Tried
<1>5. QED
  BY <1>1, <1>2, <1>3, <1>4 DEF Next

LEMMA StrandedInit == Init => NoTakeStranded
BY DEF Init, NoTakeStranded, Awaits, Unused

LEMMA StrandedStep ==
    DictationTypeOK /\ Parts /\ NoTakeStranded /\ [Next]_vars => NoTakeStranded'
BY OnwardStep, EngineStays DEF Onward, NoTakeStranded

\* Whoever ends a take, and wherever its socket is lost: as long as it has not
\* come to its end, the callback that brings it there is on its way.
THEOREM NobodyStranded == Spec => []NoTakeStranded
BY TypeInit, TypeStep, PartsInit, PartsStep, StrandedInit, StrandedStep, PTL DEF Spec

LEMMA GoingOn ==
    DictationTypeOK /\ Parts /\ NoTakeStranded /\ [Next]_vars =>
        [\A t \in Takes :
            /\ take'[t].phase \in AtOrAfter(take[t].phase)
            /\ take'[t].mic => take[t].mic \/ take[t].phase = "opening"
            /\ take[t].opened # "pending" => take'[t].opened = take[t].opened
            /\ Awaits(t) /\ Awaits(t)' =>
                  \/ Chances(t)' < Chances(t)
                  \/ Chances(t)' = Chances(t) /\ line'[t].wire = line[t].wire]_vars
BY OnwardStep DEF Onward

\* And each such callback brings it nearer: no step of anyone sets a take back.
THEOREM TakesGoOn == Spec => TakesOnlyGoOn
BY TypeInit, TypeStep, PartsInit, PartsStep, StrandedInit, StrandedStep, GoingOn, PTL
   DEF Spec, TakesOnlyGoOn

=============================================================================
