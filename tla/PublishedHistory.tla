-------------------------- MODULE PublishedHistory --------------------------
(***************************************************************************)
(* What publishing promises, whatever requests, locks and evictions go on  *)
(* underneath: a survey's versions are an append-only history in which     *)
(* each version is numbered next and says something new, and every picture *)
(* that any version shows stays within reach (ADR-0001, ADR-0018).         *)
(***************************************************************************)
EXTENDS Naturals, Sequences

CONSTANTS
    Survey,
    Content,       \* what a respondent is shown: wording and look
    Picture,
    PicturesOf(_)  \* the pictures a content shows

VARIABLES
    history,       \* each survey's versions, oldest first
    stored         \* each survey's pictures

ShownIn(h) == UNION {PicturesOf(h[i].content) : i \in DOMAIN h}

Init ==
    /\ history = [s \in Survey |-> <<>>]
    /\ stored = [s \in Survey |-> {}]

\* Pictures come and go, but none that a version shows.
Arrange(s) ==
    /\ \E new \in SUBSET Picture :
          /\ ShownIn(history[s]) \subseteq new
          /\ stored' = [stored EXCEPT ![s] = new]
    /\ UNCHANGED history

Publish(s) ==
    /\ \E c \in Content, new \in SUBSET Picture :
          /\ history[s] # <<>> => c # history[s][Len(history[s])].content
          /\ ShownIn(history[s]) \cup PicturesOf(c) \subseteq new
          /\ history' = [history EXCEPT
                           ![s] = Append(@, [number |-> Len(@) + 1, content |-> c])]
          /\ stored' = [stored EXCEPT ![s] = new]

Next == \E s \in Survey : Arrange(s) \/ Publish(s)

Spec == Init /\ [][Next]_<<history, stored>>

=============================================================================
