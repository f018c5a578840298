------------------------------ MODULE Dictation ------------------------------
(***************************************************************************)
(* One dictation card of a questionnaire: the script in the browser        *)
(* (web/static/js/voice.js), its socket (web/static/js/wsclient.js) and    *)
(* the server's session on the other end (internal/http/voice.go).         *)
(*                                                                         *)
(* Everything on the page is a callback, and nothing waits for another: a  *)
(* take is opened by a promise that settles later, stopped by a button, a  *)
(* key, a closed card or a timer, ended by a frame of the server or by a   *)
(* lost connection, and all of them write the one card.  A take is its     *)
(* own closure (startRecording, startLocalRecognition), with a microphone, *)
(* a timer and a socket; the card only holds up to three of them by name:  *)
(* the one starting, the one recording and the one being transcribed.      *)
(*                                                                         *)
(* A word is <<t, n>>, the n-th spoken in take t; <<Respondent, n>> is     *)
(* typed.  Spaces between words are left out.  A control message or frame  *)
(* is <<"stop">>, a sequence of one, where a word is a pair.               *)
(***************************************************************************)
EXTENDS Naturals, Sequences, FiniteSets, SequencesExt

CONSTANTS
    Engines,      \* what chooseEngine may answer on this page
    MaxTakes,     \* takes begun on the card
    MaxWords,     \* words spoken in one take
    CapWords,     \* the server's buffer: words of one session it keeps
    MaxTyped,     \* words typed
    MaxDialogs,   \* consent dialogs open at once
    MaxLost,      \* connections lost after they opened
    MaxAttempts   \* MAX_ATTEMPTS of the socket

ASSUME DictationAssumption ==
    /\ Engines \subseteq {"server", "local"}
    /\ MaxTakes \in Nat /\ MaxWords \in Nat /\ CapWords \in Nat \ {0}
    /\ MaxTyped \in Nat /\ MaxDialogs \in Nat /\ MaxLost \in Nat
    /\ MaxAttempts \in Nat

Takes == 1 .. MaxTakes
None == 0
Respondent == 0

VARIABLES
    engine,       \* where speech is recognised, the same for the whole page
    card,         \* the closure of attachMic
    press,        \* the Space key: up, down, or down long enough to be a hold
    take,         \* the closure of each take
    line,         \* the socket of each take, and the session at its far end
    answer,       \* the words in the field
    lost,         \* connections lost so far
    overlapped    \* history: a take was begun while another went on

vars == <<engine, card, press, take, line, answer, lost, overlapped>>

Idle == [recorder |-> None, finishing |-> None, starting |-> None,
         collapsed |-> FALSE, disabled |-> FALSE, consented |-> FALSE,
         dialogs |-> 0, shown |-> "idle"]

Unused == [phase |-> "unused", mode |-> "toggle", cancelled |-> "no",
           mic |-> FALSE, timer |-> FALSE, opened |-> "pending",
           dropped |-> FALSE, over |-> FALSE, words |-> 0, written |-> <<>>]

\* `hung`: closedByUs; `queued`: a stop kept until the socket opens.
NoLine == [wire |-> "none", attempts |-> 0, queued |-> FALSE, hung |-> FALSE,
           up |-> <<>>, down |-> <<>>, session |-> "none",
           heard |-> <<>>, told |-> FALSE]

Init ==
    /\ engine \in Engines
    /\ \E consented \in BOOLEAN : card = [Idle EXCEPT !.consented = consented]
    /\ press = "up"
    /\ take = [t \in Takes |-> Unused]
    /\ line = [t \in Takes |-> NoLine]
    /\ answer = <<>>
    /\ lost = 0
    /\ overlapped = FALSE

Running(t) == take[t].phase # "unused" /\ ~take[t].over
Held(t) == t \in {card.starting, card.recorder, card.finishing}
Going(t) == Running(t) \/ Held(t)

-----------------------------------------------------------------------------
(* The parts the handlers share.                                            *)

\* reset: the card forgets its takes, whichever called for it.
ResetCard(c) ==
    [c EXCEPT !.recorder = None, !.finishing = None, !.shown = "idle"]

\* disable, after reset: for good, until the page is loaded again.
DisabledCard(c) ==
    [ResetCard(c) EXCEPT !.disabled = TRUE, !.shown = "unavailable"]

\* Fault: cleanup without announceOpen(false).
EndedSilently(tk) == [tk EXCEPT !.over = TRUE, !.mic = FALSE]

\* cleanup, what it does to the take: the timer is not stopped.
Ended(tk) ==
    [tk EXCEPT !.over = TRUE, !.mic = FALSE,
               !.opened = IF @ = "pending" THEN "no" ELSE @]

\* socket.close(): of a socket that is opening or open nothing more is heard.  One that
\* waits to try again does so all the same, since the timer is not cleared.
Hung(ln) ==
    IF ln.wire = "backoff"
    THEN [ln EXCEPT !.hung = TRUE]
    ELSE [NoLine EXCEPT !.wire = "closed", !.attempts = ln.attempts, !.hung = TRUE]

\* cleanup, the whole of it, ending in the card's reset; it is called once for a take.
Cleanup(t) ==
    /\ take' = [take EXCEPT ![t] = Ended(@)]
    /\ line' = [line EXCEPT ![t] = Hung(@)]
    /\ card' = ResetCard(card)

\* abort: a recogniser on the device says later that it has ended.
AbortedIn(f, t) ==
    CASE t = None -> f
      [] t # None /\ engine = "server" ->
           [f EXCEPT ![t] = [Ended(@) EXCEPT !.dropped = TRUE, !.timer = FALSE]]
      [] OTHER -> [f EXCEPT ![t].dropped = TRUE]

HungIn(f, t) ==
    IF t = None \/ engine = "local" THEN f ELSE [f EXCEPT ![t] = Hung(@)]

\* rawSend of a stop: sent, kept for when the socket opens, or thrown away.
StopSent(ln) ==
    CASE ln.wire = "open" -> [ln EXCEPT !.up = Append(@, <<"stop">>)]
      [] ln.wire \in {"connecting", "backoff"} /\ ~ln.hung -> [ln EXCEPT !.queued = TRUE]
      [] OTHER -> ln

\* finish of the server's engine; the device's recogniser is asked to stop.
FinishTake(t) ==
    IF engine = "server"
    THEN /\ take' = [take EXCEPT ![t].timer = FALSE, ![t].mic = FALSE]
         /\ line' = [line EXCEPT ![t] = StopSent(@)]
    ELSE UNCHANGED <<take, line>>

\* Fault: the take being transcribed is let go of.
StoppedAndForgotten(c) == [c EXCEPT !.recorder = None, !.shown = "transcribing"]

\* stop: the take recording becomes the one being transcribed.
StoppedCard(c) ==
    [c EXCEPT !.recorder = None, !.finishing = c.recorder, !.shown = "transcribing"]

\* start: the take is named at once, its microphone opens later.
Start(c, mode) ==
    \E t \in Takes :
        /\ take[t].phase = "unused"
        /\ \A u \in Takes : u < t => take[u].phase # "unused"
        /\ take' = [take EXCEPT ![t].phase = "opening", ![t].mode = mode]
        /\ card' = [c EXCEPT !.starting = t]
        /\ overlapped' = (overlapped \/ \E u \in Takes : Going(u))

\* askConsent: asked again until it was given once.
AskConsent(mode) ==
    IF card.consented
    THEN Start(card, mode)
    ELSE /\ card.dialogs < MaxDialogs
         /\ card' = [card EXCEPT !.dialogs = @ + 1]
         /\ UNCHANGED <<take, overlapped>>

CancelledIn(f, why) ==
    IF card.starting = None THEN f ELSE [f EXCEPT ![card.starting].cancelled = why]

-----------------------------------------------------------------------------
(* The respondent.                                                          *)

\* The button while a take is recording, and another microphone picked.
Stop ==
    /\ ~card.disabled /\ card.recorder # None
    /\ card' = StoppedCard(card)
    /\ FinishTake(card.recorder)
    /\ UNCHANGED <<engine, press, answer, lost, overlapped>>

\* The button otherwise, and Shift+Space, which presses it unseen.
Dictate ==
    /\ ~card.disabled /\ card.recorder = None
    /\ card.starting = None /\ ~card.collapsed
    /\ AskConsent("toggle")
    /\ UNCHANGED <<engine, press, line, answer, lost>>

\* Accepting starts a take, whatever happened since the dialog was opened.  Where
\* the browser keeps nothing, consent is not remembered.
Accept ==
    /\ card.dialogs > 0
    /\ \E kept \in {card.consented, TRUE} :
          Start([card EXCEPT !.dialogs = @ - 1, !.consented = kept], "toggle")
    /\ UNCHANGED <<engine, press, line, answer, lost>>

Decline ==
    /\ card.dialogs > 0
    /\ card' = [card EXCEPT !.dialogs = @ - 1]
    /\ UNCHANGED <<engine, press, take, line, answer, lost, overlapped>>

PressSpace ==
    /\ press = "up" /\ ~card.disabled /\ ~card.collapsed
    /\ press' = "down"
    /\ UNCHANGED <<engine, card, take, line, answer, lost, overlapped>>

\* hold, when the key has been down for HOLD_MS.
Hold ==
    /\ press = "down"
    /\ press' = "held"
    /\ IF card.recorder # None \/ card.starting # None \/ card.collapsed
       THEN UNCHANGED <<card, take, overlapped>>
       ELSE AskConsent("hold")
    /\ UNCHANGED <<engine, line, answer, lost>>

\* release, when the key comes up or the window loses it.
Release ==
    /\ press # "up"
    /\ press' = "up"
    /\ IF press = "held" /\ card.starting # None
       THEN /\ take' = CancelledIn(take, "released")
            /\ UNCHANGED <<card, line>>
       ELSE IF press = "held" /\ card.recorder # None
               /\ take[card.recorder].mode = "hold"
       THEN /\ card' = StoppedCard(card)
            /\ FinishTake(card.recorder)
       ELSE UNCHANGED <<card, take, line>>
    /\ UNCHANGED <<engine, answer, lost, overlapped>>

\* Reset and Shift+Esc: the answer is emptied, the take thrown away.
Clear ==
    LET live == IF card.recorder # None THEN card.recorder ELSE card.finishing
    IN  /\ ~card.disabled /\ ~card.collapsed
        /\ take' = AbortedIn(CancelledIn(take, "cleared"), live)
        /\ line' = HungIn(line, live)
        /\ card' = ResetCard(card)
        /\ answer' = <<>>
        /\ UNCHANGED <<engine, press, lost, overlapped>>

\* Fault: as many words go as the take wrote, whoever's they are.
TakenBackBlindly(t) ==
    LET written == take[t].written
    IN  IF Len(written) <= Len(answer)
        THEN SubSeq(answer, 1, Len(answer) - Len(written))
        ELSE answer

\* What is left of the answer when a take is called off: its words go, while
\* they are still the end of it.
TakenBack(t) ==
    LET written == take[t].written
    IN  IF engine = "server" /\ IsSuffix(written, answer)
        THEN SubSeq(answer, 1, Len(answer) - Len(written))
        ELSE answer

\* The link beside "Transcribing".
Cancel ==
    LET called == IF card.finishing # None THEN card.finishing ELSE card.recorder
    IN  /\ card.shown = "transcribing" /\ ~card.collapsed
        /\ called # None
        /\ take' = AbortedIn(take, called)
        /\ line' = HungIn(line, called)
        /\ card' = ResetCard(card)
        /\ answer' = TakenBack(called)
        /\ UNCHANGED <<engine, press, lost, overlapped>>

\* collapse(true): a take recording is stopped, one still starting called off.
Hide ==
    /\ ~card.collapsed
    /\ LET c == IF card.recorder = None THEN card ELSE StoppedCard(card)
       IN  card' = [c EXCEPT !.collapsed = TRUE]
    /\ LET f == CancelledIn(take, "cleared")
           r == card.recorder
       IN  IF r = None \/ engine = "local"
           THEN take' = f /\ UNCHANGED line
           ELSE /\ take' = [f EXCEPT ![r].timer = FALSE, ![r].mic = FALSE]
                /\ line' = [line EXCEPT ![r] = StopSent(@)]
    /\ UNCHANGED <<engine, press, answer, lost, overlapped>>

Show ==
    /\ card.collapsed
    /\ card' = [card EXCEPT !.collapsed = FALSE]
    /\ UNCHANGED <<engine, press, take, line, answer, lost, overlapped>>

ByRespondent(w) == w[1] = Respondent
Typed(a) == SelectSeq(a, ByRespondent)

Type ==
    /\ \E n \in 1 .. MaxTyped :
          n = Len(Typed(answer)) + 1 /\ answer' = Append(answer, <<Respondent, n>>)
    /\ UNCHANGED <<engine, card, press, take, line, lost, overlapped>>

-----------------------------------------------------------------------------
(* The browser.                                                             *)

\* The microphone opens.  The server's engine sets the timer and opens a
\* socket; the recogniser on the device is listening already.
MicrophoneOpens(t) ==
    /\ take[t].phase = "opening"
    /\ IF engine = "server"
       THEN /\ take' = [take EXCEPT ![t].phase = "capturing",
                                    ![t].mic = TRUE, ![t].timer = TRUE]
            /\ line' = [line EXCEPT ![t].wire = "connecting"]
       ELSE /\ take' = [take EXCEPT ![t].phase = "capturing",
                                    ![t].mic = TRUE, ![t].opened = "yes"]
            /\ UNCHANGED line
    /\ UNCHANGED <<engine, card, press, answer, lost, overlapped>>

\* Permission refused, no device, or a recogniser that does not start.
MicrophoneRefused(t) ==
    /\ take[t].phase = "opening"
    /\ take' = [take EXCEPT ![t].phase = "settled", ![t].over = TRUE]
    /\ card' = [DisabledCard(card) EXCEPT !.starting = None]
    /\ UNCHANGED <<engine, press, line, answer, lost, overlapped>>

\* The promise of start settles: the socket has opened, or the take ended
\* first; the capture graph or the device's meter is ready.
Settle(t) ==
    LET over == [ResetCard(card) EXCEPT !.starting = None]
    IN  /\ take[t].phase = "capturing" /\ take[t].opened # "pending"
        /\ CASE take[t].opened = "no" ->
                  /\ take' = [take EXCEPT ![t].phase = "settled"]
                  /\ card' = over
                  /\ UNCHANGED line
             [] take[t].opened = "yes" /\ take[t].cancelled # "no" ->
                  /\ take' = AbortedIn([take EXCEPT ![t].phase = "settled"], t)
                  /\ card' = over
                  /\ line' = HungIn(line, t)
             [] OTHER ->
                  /\ take' = [take EXCEPT ![t].phase = "settled"]
                  /\ card' = [card EXCEPT !.starting = None, !.recorder = t,
                                          !.shown = "recording"]
                  /\ UNCHANGED line
        /\ UNCHANGED <<engine, press, answer, lost, overlapped>>

\* The capture graph cannot be built on the microphone that was opened.
CaptureFails(t) ==
    /\ engine = "server" /\ take[t].phase = "capturing"
    /\ take' = [take EXCEPT ![t].phase = "settled"]
    /\ card' = [DisabledCard(card) EXCEPT !.starting = None]
    /\ UNCHANGED <<engine, press, line, answer, lost, overlapped>>

\* The longest take is over: the timer ends it past the card.
StopTimer(t) ==
    /\ take[t].timer
    /\ FinishTake(t)
    /\ card' = [card EXCEPT !.shown = "transcribing"]
    /\ UNCHANGED <<engine, press, answer, lost, overlapped>>

\* Sound is sent while the socket is open, and never kept for later.
Speak(t) ==
    /\ engine = "server" /\ take[t].mic /\ take[t].words < MaxWords
    /\ take' = [take EXCEPT ![t].words = @ + 1]
    /\ line' = IF line[t].wire = "open"
               THEN [line EXCEPT ![t].up = Append(@, <<t, take[t].words + 1>>)]
               ELSE line
    /\ UNCHANGED <<engine, card, press, answer, lost, overlapped>>

\* onresult of the device's recogniser.
Recognise(t) ==
    /\ engine = "local" /\ take[t].mic /\ ~take[t].dropped
    /\ take[t].words < MaxWords
    /\ take' = [take EXCEPT ![t].words = @ + 1]
    /\ answer' = Append(answer, <<t, take[t].words + 1>>)
    /\ UNCHANGED <<engine, card, press, line, lost, overlapped>>

\* onend of the device's recogniser, asked for or not.
RecogniserEnds(t) ==
    /\ engine = "local" /\ take[t].mic
    /\ take' = [take EXCEPT ![t].mic = FALSE, ![t].over = TRUE]
    /\ card' = ResetCard(card)
    /\ UNCHANGED <<engine, press, line, answer, lost, overlapped>>

-----------------------------------------------------------------------------
(* The socket.                                                              *)

\* onopen: the opening message first, then what was kept.
Greeting(ln) ==
    IF ln.queued THEN << <<"start">>, <<"stop">> >> ELSE << <<"start">> >>

Connect(t) ==
    /\ line[t].wire = "connecting"
    /\ line' = [line EXCEPT ![t] = [NoLine EXCEPT !.wire = "open", !.hung = line[t].hung,
                        !.up = Greeting(line[t]), !.session = "greeted"]]
    /\ take' = [take EXCEPT ![t].opened = IF @ = "pending" THEN "yes" ELSE @]
    /\ UNCHANGED <<engine, card, press, answer, lost, overlapped>>

\* onclose: of a socket that was closed, nothing; else another attempt, or giveUp.
LineDown(t) ==
    \/ /\ line[t].hung
       /\ line' = [line EXCEPT ![t] = Hung(@)]
       /\ UNCHANGED <<take, card>>
    \/ ~line[t].hung /\ line[t].attempts = MaxAttempts /\ Cleanup(t)
    \/ /\ ~line[t].hung /\ line[t].attempts < MaxAttempts
       /\ line' = [line EXCEPT ![t] = [NoLine EXCEPT !.wire = "backoff",
                        !.attempts = line[t].attempts + 1, !.queued = line[t].queued]]
       /\ UNCHANGED <<take, card>>

\* The handshake fails, or serveVoice refuses it before the upgrade.
ConnectFails(t) ==
    /\ line[t].wire = "connecting"
    /\ LineDown(t)
    /\ UNCHANGED <<engine, press, answer, lost, overlapped>>

\* connect, when the wait is over: it does not ask whether the socket was closed.
Retry(t) ==
    /\ line[t].wire = "backoff"
    /\ line' = [line EXCEPT ![t].wire = "connecting"]
    /\ UNCHANGED <<engine, card, press, take, answer, lost, overlapped>>

\* An open connection is lost, or closed at the end of its lifetime, with
\* whatever was under way in either direction and the session behind it.
LineLost(t) ==
    /\ line[t].wire = "open" /\ lost < MaxLost
    /\ lost' = lost + 1
    /\ LineDown(t)
    /\ UNCHANGED <<engine, press, answer, overlapped>>

Ends(frame) == frame \in {<<"done">>, <<"error">>}

Hears(t, frame) ==
    \/ Ends(frame) /\ Cleanup(t) /\ UNCHANGED answer
    \/ /\ ~Ends(frame)
       /\ answer' = Append(answer, frame)
       /\ take' = [take EXCEPT ![t].written = Append(@, frame)]
       /\ line' = [line EXCEPT ![t].down = Tail(@)]
       /\ UNCHANGED card

\* Fault: a take that was called off hears what comes for it.
HeardAllTheSame(t) ==
    /\ line[t].wire = "open" /\ line[t].down # <<>>
    /\ Hears(t, Head(line[t].down))
    /\ UNCHANGED <<engine, press, lost, overlapped>>

\* onmessage: a word for the answer, or the end of the take.  What comes for a
\* take that was called off is not heard, and ends its session all the same.
Deliver(t) ==
    /\ line[t].wire = "open" /\ line[t].down # <<>>
    /\ LET frame == Head(line[t].down)
       IN  \/ /\ take[t].dropped
              /\ line' = [line EXCEPT ![t] = IF Ends(frame) THEN Hung(@)
                                             ELSE [@ EXCEPT !.down = Tail(line[t].down)]]
              /\ UNCHANGED <<take, card, answer>>
           \/ ~take[t].dropped /\ Hears(t, frame)
    /\ UNCHANGED <<engine, press, lost, overlapped>>

-----------------------------------------------------------------------------
(* The server's session (runVoiceSession, finishVoiceTake).                 *)

Refused(ln) == [ln EXCEPT !.session = "over", !.down = Append(@, <<"error">>)]

\* Start message: the page's form token is still good, or it is not.
Started(ln) == {Refused(ln), [ln EXCEPT !.session = "started", !.heard = <<>>]}

\* Audio: dropped before a start; past the cap the take is transcribed.
Heard(ln, word) ==
    CASE ln.session = "greeted" -> ln
      [] ln.session = "started" /\ Len(ln.heard) < CapWords ->
           [ln EXCEPT !.heard = Append(@, word)]
      [] OTHER -> [ln EXCEPT !.session = "telling"]

Stopped(ln) ==
    CASE ln.session = "greeted" -> [ln EXCEPT !.session = "over"]
      [] ln.heard = <<>> -> Refused(ln)
      [] OTHER -> [ln EXCEPT !.session = "telling"]

ServerReceives(t) ==
    /\ line[t].wire = "open" /\ line[t].up # <<>>
    /\ line[t].session \in {"greeted", "started"}
    /\ LET message == Head(line[t].up)
           ln == [line[t] EXCEPT !.up = Tail(@)]
       IN  \/ /\ message = <<"start">>
              /\ \E next \in Started(ln) : line' = [line EXCEPT ![t] = next]
           \/ message = <<"stop">> /\ line' = [line EXCEPT ![t] = Stopped(ln)]
           \/ /\ message \notin {<<"start">>, <<"stop">>}
              /\ line' = [line EXCEPT ![t] = Heard(ln, message)]
    /\ UNCHANGED <<engine, card, press, take, answer, lost, overlapped>>

\* Fault: a transcription that breaks off is asked for again from its beginning.
ServerTellsAgain(t) ==
    /\ line[t].wire = "open" /\ line[t].session = "telling"
    /\ \/ /\ line[t].heard # <<>>
          /\ line' = [line EXCEPT ![t].down = Append(@, Head(line[t].heard))]
       \/ line' = [line EXCEPT ![t].session = "over", ![t].down = Append(@, <<"done">>)]
    /\ UNCHANGED <<engine, card, press, take, answer, lost, overlapped>>

\* A word of the transcript, the end of it, or a refusal: an allowance used
\* up, a model that fails before it said anything.
ServerTells(t) ==
    /\ line[t].wire = "open" /\ line[t].session = "telling"
    /\ \/ /\ line[t].heard # <<>>
          /\ line' = [line EXCEPT ![t].down = Append(@, Head(line[t].heard)),
                                  ![t].heard = Tail(@), ![t].told = TRUE]
       \/ line' = [line EXCEPT ![t].session = "over", ![t].down = Append(@, <<"done">>)]
       \/ ~line[t].told /\ line' = [line EXCEPT ![t] = Refused(@)]
    /\ UNCHANGED <<engine, card, press, take, answer, lost, overlapped>>

-----------------------------------------------------------------------------
ByHand ==
    \/ Stop \/ Dictate \/ Accept \/ Decline
    \/ PressSpace \/ Hold \/ Release
    \/ Clear \/ Cancel \/ Hide \/ Show \/ Type

ByBrowser(t) ==
    \/ MicrophoneOpens(t) \/ MicrophoneRefused(t) \/ Settle(t) \/ CaptureFails(t)
    \/ StopTimer(t) \/ Speak(t) \/ Recognise(t) \/ RecogniserEnds(t)

ByWire(t) ==
    \/ Connect(t) \/ ConnectFails(t) \/ Retry(t) \/ LineLost(t) \/ Deliver(t)
    \/ ServerReceives(t) \/ ServerTells(t)

Next == ByHand \/ \E t \in Takes : ByBrowser(t) \/ ByWire(t)

Spec == Init /\ [][Next]_vars

\* The browser runs its callbacks and timers and builds the capture graph, a
\* handshake ends one way or the other, a session goes on while its connection
\* stands.  Nothing is asked of the respondent, and so nothing of getUserMedia,
\* which asks them for the microphone: neither that a take's microphone opens
\* or is refused, nor that a recogniser's promise settles, which waits for a
\* second one (openMonitor).
Fairness ==
    \A t \in Takes :
        /\ WF_vars(engine = "server" /\ Settle(t)) /\ WF_vars(StopTimer(t))
        /\ WF_vars(Connect(t) \/ ConnectFails(t)) /\ WF_vars(Retry(t))
        /\ WF_vars(Deliver(t)) /\ WF_vars(ServerReceives(t)) /\ WF_vars(ServerTells(t))

FairSpec == Spec /\ Fairness

-----------------------------------------------------------------------------
(* Type invariant.                                                          *)

Words == ({Respondent} \X (1 .. MaxTyped)) \cup (Takes \X (1 .. MaxWords))

TakeRecord ==
    [phase : {"unused", "opening", "capturing", "settled"},
     mode : {"toggle", "hold"}, cancelled : {"no", "released", "cleared"},
     mic : BOOLEAN, timer : BOOLEAN, opened : {"pending", "yes", "no"},
     dropped : BOOLEAN, over : BOOLEAN, words : 0 .. MaxWords,
     written : Seq(Takes \X (1 .. MaxWords))]

LineRecord ==
    [wire : {"none", "connecting", "open", "backoff", "closed"},
     attempts : 0 .. MaxAttempts, queued : BOOLEAN, hung : BOOLEAN,
     up : Seq({<<"start">>, <<"stop">>} \cup (Takes \X (1 .. MaxWords))),
     down : Seq({<<"done">>, <<"error">>} \cup (Takes \X (1 .. MaxWords))),
     session : {"none", "greeted", "started", "telling", "over"},
     heard : Seq(Takes \X (1 .. MaxWords)), told : BOOLEAN]

CardRecord ==
    [recorder : Takes \cup {None}, finishing : Takes \cup {None},
     starting : Takes \cup {None}, collapsed : BOOLEAN, disabled : BOOLEAN,
     consented : BOOLEAN, dialogs : 0 .. MaxDialogs,
     shown : {"idle", "recording", "transcribing", "unavailable"}]

\* Types: the card, the takes and the sockets have the shape their closures have.
DictationTypeOK ==
    /\ engine \in Engines
    /\ card \in CardRecord
    /\ press \in {"up", "down", "held"}
    /\ take \in [Takes -> TakeRecord]
    /\ line \in [Takes -> LineRecord]
    /\ answer \in Seq(Words)
    /\ lost \in 0 .. MaxLost
    /\ overlapped \in BOOLEAN

-----------------------------------------------------------------------------
(* Safety.                                                                  *)

InOrder(a, t) ==
    \A i, j \in 1 .. Len(a) : i < j /\ a[i][1] = t /\ a[j][1] = t => a[i][2] < a[j][2]

\* Through a connection lost and opened again, a session that begins anew, the
\* server's cap and a transcript that breaks off, a take's words come into the
\* answer in the order they were spoken and none of them twice; and what the
\* respondent typed stays where it is, and leaves it by Reset alone: a take that is
\* called off takes back words of its own, and only from the end.
WordsKept ==
    [][/\ \A t \in Takes : InOrder(answer', t)
       /\ Clear \/ \A i \in 1 .. Len(answer) :
             ByRespondent(answer[i]) => i <= Len(answer') /\ answer'[i] = answer[i]]_vars

\* As long as the respondent begins no take while another is going on or the card
\* still holds one, and the microphone was not given up, a take that goes on is
\* one the card holds: the button, the key, Reset or Cancel can reach it.
TakeInHand ==
    ~overlapped /\ ~card.disabled =>
        \A t \in Takes :
            Running(t) /\ ~take[t].dropped => Held(t)

-----------------------------------------------------------------------------
(* Liveness.                                                                *)

\* A take whose microphone streams to the server gets somewhere, whatever becomes
\* of the card and the socket and whatever else the respondent does: its promise
\* settles, and the microphone is closed again.  Before the microphone opens, no
\* end is promised: a prompt that is never answered leaves "Starting" for good.
EveryTakeComesToAnEnd ==
    \A t \in Takes :
        engine = "server" /\ take[t].phase = "capturing" ~>
            take[t].phase = "settled" /\ ~take[t].mic

\* A take whose promise waits for its socket.
Awaits(t) == take[t].phase = "capturing" /\ take[t].opened = "pending"

\* What is left of the socket's attempts: two steps for each, a wait and a try.
Chances(t) ==
    2 * (MaxAttempts - line[t].attempts) + (IF line[t].wire = "backoff" THEN 1 ELSE 0)

\* Where a take can be found after it was at a phase.
AtOrAfter(phase) ==
    CASE phase = "unused" -> {"unused", "opening", "capturing", "settled"}
      [] phase = "opening" -> {"opening", "capturing", "settled"}
      [] phase = "capturing" -> {"capturing", "settled"}
      [] OTHER -> {"settled"}

\* No end of a take rests on a callback that will not come: while its promise
\* waits, its socket connects or will try again, and while its microphone streams
\* to the server, its timer runs.
NoTakeStranded ==
    \A t \in Takes :
        /\ Awaits(t) => line[t].wire \in {"connecting", "backoff"}
        /\ engine = "server" /\ take[t].mic => take[t].timer

\* And nothing goes round in circles before that end: a take never goes back a
\* phase or opens its microphone again, a promise is settled once, and every turn
\* of a socket that it waits for uses up a chance.
TakesOnlyGoOn ==
    [][\A t \in Takes :
        /\ take'[t].phase \in AtOrAfter(take[t].phase)
        /\ take'[t].mic => take[t].mic \/ take[t].phase = "opening"
        /\ take[t].opened # "pending" => take'[t].opened = take[t].opened
        /\ Awaits(t) /\ Awaits(t)' =>
              \/ Chances(t)' < Chances(t)
              \/ Chances(t)' = Chances(t) /\ line'[t].wire = line[t].wire]_vars

-----------------------------------------------------------------------------
(* What the code does not keep; see README.                                 *)

\* voice.js: "The microphone is never left open behind a closed card".
NothingHeardBehindClosedCard ==
    card.collapsed /\ ~card.disabled =>
        \A t \in Takes : take[t].mic => t \in {card.starting, card.finishing}

\* SPEC.md: Shift+Esc "while recording or transcribing": "a take is dropped".
ClearDropsEveryTake ==
    [][Clear => \A t \in Takes :
          Running(t) => take'[t].dropped \/ take'[t].cancelled # "no"]_vars

\* voice.js: "Every way a take ends comes through here".
TranscribingIsTrue ==
    card.shown = "transcribing" => \E t \in Takes : Running(t)

\* The card says that it listens while a microphone is open.
ListeningIsTrue ==
    card.shown = "recording" => \E t \in Takes : take[t].mic

\* voice.js: "a toggle and pays the key no attention".
ToggleIgnoresKey ==
    [][Release => \A t \in Takes :
          take[t].mode = "toggle" => take'[t].cancelled = take[t].cancelled]_vars

\* voice.js, of every way a take ends: "the socket goes with it", since one left
\* open "would reconnect and send start again".
SocketGoesWithTake ==
    \A t \in Takes : take[t].over => line[t].wire \in {"none", "closed"}

\* voice.js, of a take that is begun: it settles, and the card is done with it.
EveryStartSettles ==
    \A t \in Takes : take[t].phase # "unused" ~> take[t].phase = "settled"

\* wsclient.js: failing to connect is "never ... a dead-end".
TranscribingEnds ==
    \A t \in Takes :
        (card.finishing = t /\ Running(t)) ~> (card.finishing # t)
=============================================================================
