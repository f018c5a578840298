--------------------------- MODULE InvitesProofs ---------------------------
(***************************************************************************)
(* Proofs about Invites, for any surveys and addresses, any number of runs *)
(* at once, and any cap and window of the limiter.                         *)
(***************************************************************************)
EXTENDS Invites, FiniteSetTheorems, SequenceTheorems, WellFoundedInduction, TLAPS

Runs == {Idle} \cup Between \cup At

\* A run has to do with participants who were imported, and mails a link it minted.
ListedOf(k) ==
    /\ k # Idle => \A p \in k.todo : row[p].imported
    /\ k.pc \in {"sending", "clearing"} => row[k.at].imported

Listed == \A r \in Run : ListedOf(run[r])

Base == TypeOK /\ Listed

\* The run r is at p, with the link that works.
Carries(r, p) ==
    run[r].pc \in {"sending", "clearing"} /\ run[r].at = p /\ run[r].token = row[p].token

\* Whoever is left as invited was mailed the link that works, or is being mailed it.
Answerable ==
    \A p \in Participant : row[p].imported /\ row[p].invited =>
        Contains(mailed[p], row[p].token) \/ \E r \in Run : Carries(r, p)

\* Where in `allowed` the invitations of the bucket's window begin.
First == Len(allowed) - bucket.count + 1

\* The bucket counts the latest invitations, which came since it started; those that
\* are a whole cap before them came a window before it; and so all along.
Paced ==
    /\ bucket.count <= Len(allowed)
    /\ bucket.count = 0 => allowed = <<>>
    /\ bucket.count > 0 => allowed[First] = bucket.start
    /\ \A i, j \in 1..Len(allowed) : i <= j => allowed[i] <= allowed[j]
    /\ \A i \in 1..Len(allowed) : allowed[i] <= now
    /\ \A i \in 1..Len(allowed) : i + Cap <= First => allowed[i] + Window <= bucket.start
    /\ \A i, j \in 1..Len(allowed) : i + 2 * Cap <= j + 1 => allowed[i] + Window <= allowed[j]

-----------------------------------------------------------------------------
(* Types.                                                                  *)

LEMMA Numbers ==
    /\ Cap \in Nat /\ Cap > 0 /\ Window \in Nat /\ Window > 0
    /\ MaxTime \in Nat /\ MaxTokens \in Nat /\ MaxInterruptions \in Nat
    /\ 0 \in Token
BY CapAssumption, BoundsAssumption DEF Token

LEMMA BaseInit == Init => Base
<1> SUFFICES ASSUME Init PROVE Base
  OBVIOUS
<1>1. TypeOK
  BY Numbers DEF Init, TypeOK, Token
<1>2. Listed
  BY DEF Init, Listed, ListedOf, Idle
<1>3. QED
  BY <1>1, <1>2 DEF Base

\* What a run that is at work looks like.
LEMMA RunShape ==
    ASSUME TypeOK, NEW r \in Run
    PROVE  /\ run[r].pc = "next" => run[r] \in Between
           /\ run[r].pc \in {"sending", "clearing"} => run[r] \in At
           /\ run[r].pc = "idle" => run[r] = Idle
BY DEF TypeOK, Idle, Between, At

\* The row of somebody imported.
LEMMA RowShape ==
    ASSUME TypeOK, NEW p \in Participant, row[p].imported
    PROVE  row[p] \in Row
BY DEF TypeOK, Absent

\* What the limiter does to its bucket keeps it one.
LEMMA CountTyped ==
    ASSUME TypeOK, Allow, Count
    PROVE  bucket' \in [start : 0..MaxTime, count : 0..Cap]
<1>1. bucket.start \in 0..MaxTime /\ bucket.count \in 0..Cap /\ now \in 0..MaxTime
  BY DEF TypeOK
<1>2. CASE WindowOver
  BY <1>1, <1>2, Numbers DEF Count
<1>3. CASE ~WindowOver
  <2>1. bucket.count + 1 \in 0..Cap
    BY <1>1, <1>3, Numbers DEF Allow
  <2>2. QED
    BY <1>1, <1>3, <2>1 DEF Count
<1>4. QED
  BY <1>2, <1>3

-----------------------------------------------------------------------------
(* Each action, what it does to types and lists.                           *)

LEMMA ImportBase ==
    ASSUME Base, NEW p \in Participant, ImportParticipant(p)
    PROVE  Base'
<1>1. row' \in [Participant -> {Absent} \cup Row]
  BY Numbers DEF Base, TypeOK, ImportParticipant, Row
<1>2. \A q \in Participant : row[q].imported => row'[q].imported
  BY DEF Base, TypeOK, ImportParticipant
<1>3. TypeOK'
  BY <1>1 DEF Base, TypeOK, ImportParticipant, limiter
<1>4. \A r \in Run : ListedOf(run[r])'
  <2> TAKE r \in Run
  <2>1. ListedOf(run[r]) /\ run'[r] = run[r]
    BY DEF Base, Listed, ImportParticipant
  <2>2. run[r] # Idle => run[r].todo \subseteq Participant
    BY DEF Base, TypeOK, Between, At
  <2>3. run[r].pc \in {"sending", "clearing"} => run[r].at \in Participant
    BY RunShape DEF Base, At
  <2>4. QED
    BY <1>2, <2>1, <2>2, <2>3 DEF ListedOf
<1>5. QED
  BY <1>3, <1>4 DEF Base, Listed

LEMMA SendPendingBase ==
    ASSUME Base, NEW r \in Run, NEW s \in Survey, SendPending(r, s)
    PROVE  Base'
<1> DEFINE k == [pc |-> "next", todo |-> Pending(s)]
<1>1. Pending(s) \subseteq Participant /\ \A p \in Pending(s) : row[p].imported
  BY DEF Pending
<1>2. k \in Between
  BY <1>1 DEF Between
<1>3. run' = [run EXCEPT ![r] = k] /\ row' = row
  BY DEF SendPending, Goes, recipients
<1>4. TypeOK'
  BY <1>2, <1>3 DEF Base, TypeOK, SendPending, recipients, limiter
<1>5. Listed'
  BY <1>1, <1>3 DEF Base, TypeOK, Listed, ListedOf
<1>6. QED
  BY <1>4, <1>5 DEF Base

\* A run whose record changes, while the rows keep what they are asked for here.
LEMMA RunListed ==
    ASSUME Base, NEW r \in Run, NEW k \in Runs,
           run' = [run EXCEPT ![r] = k],
           \A p \in Participant : row[p].imported => row'[p].imported,
           k # Idle => \A p \in k.todo : row'[p].imported,
           k.pc \in {"sending", "clearing"} => row'[k.at].imported
    PROVE  run' \in [Run -> Runs] /\ Listed'
<1>1. run' \in [Run -> Runs]
  BY DEF Base, TypeOK, Runs
<1>2. ASSUME NEW q \in Run
      PROVE  ListedOf(run[q])'
  <2>1. CASE q = r
    BY <2>1 DEF Base, TypeOK, ListedOf
  <2>2. CASE q # r
    <3>1. ListedOf(run[q]) /\ run'[q] = run[q]
      BY <2>2 DEF Base, TypeOK, Listed
    <3>2. run[q] # Idle => run[q].todo \subseteq Participant
      BY DEF Base, TypeOK, Between, At
    <3>3. run[q].pc \in {"sending", "clearing"} => run[q].at \in Participant
      BY RunShape DEF Base, At
    <3>4. QED
      BY <3>1, <3>2, <3>3 DEF ListedOf
  <2>3. QED
    BY <2>1, <2>2
<1>3. QED
  BY <1>1, <1>2 DEF Listed

\* What a run may become: idle, past its participant, at one, or taking one back.
LEMMA RunKinds ==
    ASSUME TypeOK, NEW r \in Run
    PROVE  /\ Idle \in Runs
           /\ run[r].pc \in {"sending", "clearing"} =>
                /\ [pc |-> "next", todo |-> run[r].todo] \in Runs
                /\ run[r].at \in Participant /\ run[r].token \in Token
                /\ run[r].todo \subseteq Participant
           /\ run[r].pc = "sending" => [run[r] EXCEPT !.pc = "clearing"] \in Runs
           /\ run[r].pc = "next" => run[r].todo \subseteq Participant
<1>1. run[r].pc \in {"sending", "clearing"} => run[r] \in At
  BY RunShape
<1>2. run[r].pc = "next" => run[r] \in Between
  BY RunShape
<1>3. QED
  BY <1>1, <1>2 DEF Runs, Between, At, Idle

LEMMA IssueBase ==
    ASSUME Base, NEW r \in Run, NEW p \in Participant, Issue(r, p)
    PROVE  Base'
<1> DEFINE k == [pc |-> "sending", todo |-> run[r].todo \ {p}, at |-> p,
                 token |-> row[p].token + 1]
<1>0. run[r].pc = "next" /\ p \in run[r].todo /\ TypeOK
  BY DEF Issue, Base
<1>1. run[r].todo \subseteq Participant /\ p \in run[r].todo /\ run[r] # Idle
  <2>1. run[r].todo \subseteq Participant
    BY <1>0, RunKinds
  <2>2. run[r] # Idle
    BY <1>0 DEF Idle
  <2>3. QED
    BY <1>0, <2>1, <2>2
<1>2. \A q \in run[r].todo : row[q].imported
  BY <1>1 DEF Base, Listed, ListedOf
<1>3. row[p] \in Row
  BY <1>1, <1>2, RowShape DEF Base
<1>4. row[p].token + 1 \in Token /\ row' = [row EXCEPT ![p].token = row[p].token + 1, ![p].invited = TRUE]
  BY DEF Issue
<1>5. row'[p] \in Row /\ \A q \in Participant : q # p => row'[q] = row[q]
  BY <1>3, <1>4 DEF Base, TypeOK, Row
<1>6. row' \in [Participant -> {Absent} \cup Row]
  BY <1>4, <1>5 DEF Base, TypeOK
<1>7. \A q \in Participant : row[q].imported => row'[q].imported
  BY <1>5 DEF Row
<1>8. k \in Runs
  BY <1>1, <1>4 DEF Runs, At
<1>9. run' = [run EXCEPT ![r] = k]
  BY DEF Issue, Goes
<1>10. row'[p].imported /\ \A q \in k.todo : row'[q].imported
  BY <1>1, <1>2, <1>5, <1>7 DEF Row
<1>11. run' \in [Run -> Runs] /\ Listed'
  BY <1>7, <1>8, <1>9, <1>10, RunListed
<1>12. bucket' \in [start : 0..MaxTime, count : 0..Cap]
  BY CountTyped DEF Issue, Base
<1>13. allowed' \in Seq(0..MaxTime)
  BY DEF Issue, Base, TypeOK
<1>14. TypeOK'
  BY <1>6, <1>11, <1>12, <1>13 DEF Base, TypeOK, Issue, Runs
<1>15. QED
  BY <1>11, <1>14 DEF Base

LEMMA RunEndsBase ==
    ASSUME Base, NEW r \in Run, RunEnds(r) \/ Cancel(r)
    PROVE  Base'
<1>1. run' = [run EXCEPT ![r] = Idle] /\ row' = row
  BY DEF RunEnds, Cancel, Goes, recipients
<1>2. Idle \in Runs /\ Idle.pc \notin {"sending", "clearing"}
  BY DEF Runs, Idle
<1>3. run' \in [Run -> Runs] /\ Listed'
  BY <1>1, <1>2, RunListed
<1>4. interrupted' \in 0..MaxInterruptions
  BY Numbers DEF Base, TypeOK, RunEnds, Cancel
<1>5. TypeOK'
  BY <1>3, <1>4 DEF Base, TypeOK, RunEnds, Cancel, recipients, limiter, Runs
<1>6. QED
  BY <1>3, <1>5 DEF Base

LEMMA SendBase ==
    ASSUME Base, NEW r \in Run, Send(r) \/ SendFails(r)
    PROVE  Base'
<1> DEFINE on == [pc |-> "next", todo |-> run[r].todo]
           back == [run[r] EXCEPT !.pc = "clearing"]
<1>1. run[r].pc = "sending"
  BY DEF Send, SendFails
<1>2. /\ on \in Runs /\ back \in Runs /\ run[r].todo \subseteq Participant
      /\ run[r].at \in Participant /\ run[r].token \in Token
  BY <1>1, RunKinds DEF Base
<1>3. run[r] \in At
  BY <1>1, RunShape DEF Base
<1>4. /\ on.pc = "next" /\ on.todo = run[r].todo
      /\ back.pc = "clearing" /\ back.todo = run[r].todo /\ back.at = run[r].at
  BY <1>3 DEF At
<1>5. row' = row /\ (run' = [run EXCEPT ![r] = on] \/ run' = [run EXCEPT ![r] = back])
  BY DEF Send, SendFails, MovesOn, Goes, recipients
<1>6. (\A p \in run[r].todo : row[p].imported) /\ row[run[r].at].imported
  BY <1>1 DEF Base, Listed, ListedOf, Idle
<1> HIDE DEF on, back
<1>7. run' \in [Run -> Runs] /\ Listed'
  <2>1. CASE run' = [run EXCEPT ![r] = on]
    BY <1>2, <1>4, <1>5, <1>6, <2>1, RunListed
  <2>2. CASE run' = [run EXCEPT ![r] = back]
    BY <1>2, <1>4, <1>5, <1>6, <2>2, RunListed
  <2>3. QED
    BY <1>5, <2>1, <2>2
<1>8. mailed' \in [Participant -> Seq(Token)]
  <2>1. mailed' \in {mailed, [mailed EXCEPT ![run[r].at] = Append(@, run[r].token)]}
    BY DEF Send, SendFails
  <2>2. Append(mailed[run[r].at], run[r].token) \in Seq(Token)
    BY <1>2 DEF Base, TypeOK
  <2>3. QED
    BY <1>2, <2>1, <2>2 DEF Base, TypeOK
<1>9. TypeOK'
  BY <1>7, <1>8 DEF Base, TypeOK, Send, SendFails, recipients, limiter, Runs
<1>10. QED
  BY <1>7, <1>9 DEF Base

LEMMA RollBackBase ==
    ASSUME Base, NEW r \in Run, RollBack(r)
    PROVE  Base'
<1> DEFINE on == [pc |-> "next", todo |-> run[r].todo]
           p == run[r].at
<1>1. run[r].pc = "clearing"
  BY DEF RollBack
<1>2. on \in Runs /\ run[r].todo \subseteq Participant /\ p \in Participant
  BY <1>1, RunKinds DEF Base
<1>3. on.pc = "next" /\ on.todo = run[r].todo
  OBVIOUS
<1>4. row' = [row EXCEPT ![p].invited = FALSE] /\ run' = [run EXCEPT ![r] = on]
  BY DEF RollBack, Clear, MovesOn, Goes
<1>5. (\A q \in run[r].todo : row[q].imported) /\ row[p].imported
  BY <1>1 DEF Base, Listed, ListedOf, Idle
<1>6. row[p] \in Row
  BY <1>2, <1>5, RowShape DEF Base
<1> HIDE DEF on, p
<1>7. row'[p] \in Row /\ \A q \in Participant : q # p => row'[q] = row[q]
  BY <1>2, <1>4, <1>6 DEF Base, TypeOK, Row
<1>8. row' \in [Participant -> {Absent} \cup Row]
  BY <1>4, <1>7 DEF Base, TypeOK
<1>9. \A q \in Participant : row[q].imported => row'[q].imported
  BY <1>7 DEF Row
<1>10. run' \in [Run -> Runs] /\ Listed'
  BY <1>2, <1>3, <1>4, <1>5, <1>9, RunListed
<1>11. TypeOK'
  BY <1>8, <1>10 DEF Base, TypeOK, RollBack, limiter, Runs
<1>12. QED
  BY <1>10, <1>11 DEF Base

\* Steps that leave the runs, and who is imported, alone.
LEMMA ListedKept ==
    ASSUME Base, run' = run, \A p \in Participant : row[p].imported => row'[p].imported
    PROVE  Listed'
<1> SUFFICES ASSUME NEW q \in Run PROVE ListedOf(run[q])'
  BY DEF Listed
<1>1. ListedOf(run[q]) /\ run'[q] = run[q]
  BY DEF Base, Listed
<1>2. run[q] # Idle => run[q].todo \subseteq Participant
  BY DEF Base, TypeOK, Between, At
<1>3. run[q].pc \in {"sending", "clearing"} => run[q].at \in Participant
  BY RunShape DEF Base, At
<1>4. QED
  BY <1>1, <1>2, <1>3 DEF ListedOf

LEMMA SuppressBase ==
    ASSUME Base, NEW a \in Address, AddSuppression(a) \/ MarkBounced(a) \/ MarkFails(a)
    PROVE  Base'
<1>1. row' \in [Participant -> {Absent} \cup Row]
  <2>1. CASE MarkBounced(a)
    <3>1. \A p \in Participant : row[p].imported => [row[p] EXCEPT !.bounced = TRUE] \in Row
      BY RowShape DEF Base, Row
    <3>2. QED
      BY <2>1, <3>1 DEF Base, TypeOK, MarkBounced
  <2>2. CASE ~MarkBounced(a)
    BY <2>2 DEF Base, TypeOK, AddSuppression, MarkFails
  <2>3. QED
    BY <2>1, <2>2
<1>2. \A p \in Participant : row[p].imported => row'[p].imported
  <2>1. CASE MarkBounced(a)
    <3>1. \A p \in Participant : row[p].imported => [row[p] EXCEPT !.bounced = TRUE].imported
      BY RowShape DEF Base, Row
    <3>2. QED
      BY <2>1, <3>1 DEF MarkBounced
  <2>2. CASE ~MarkBounced(a)
    BY <2>2 DEF AddSuppression, MarkFails
  <2>3. QED
    BY <2>1, <2>2
<1>3. run' = run
  BY DEF AddSuppression, MarkBounced, MarkFails
<1>4. suppressed' \subseteq Address /\ marking' \subseteq suppressed'
  BY DEF Base, TypeOK, AddSuppression, MarkBounced, MarkFails
<1>5. TypeOK'
  BY <1>1, <1>3, <1>4 DEF Base, TypeOK, AddSuppression, MarkBounced, MarkFails, limiter
<1>6. Listed'
  BY <1>2, <1>3, ListedKept
<1>7. QED
  BY <1>5, <1>6 DEF Base

LEMMA TickBase == Base /\ Tick => Base'
<1> SUFFICES ASSUME Base, Tick PROVE Base'
  OBVIOUS
<1>1. run' = run /\ row' = row
  BY DEF Tick, recipients
<1>2. now' \in 0..MaxTime
  BY Numbers DEF Base, TypeOK, Tick
<1>3. TypeOK'
  BY <1>1, <1>2 DEF Base, TypeOK, Tick, recipients, limiter
<1>4. Listed'
  BY <1>1, ListedKept
<1>5. QED
  BY <1>3, <1>4 DEF Base

LEMMA BaseStep == Base /\ [Next]_vars => Base'
<1> SUFFICES ASSUME Base, [Next]_vars PROVE Base'
  OBVIOUS
<1>1. CASE UNCHANGED vars
  <2>1. TypeOK'
    BY <1>1 DEF Base, TypeOK, vars, limiter, recipients
  <2>2. Listed'
    BY <1>1, ListedKept DEF vars
  <2>3. QED
    BY <2>1, <2>2 DEF Base
<1>2. ASSUME NEW p \in Participant, ImportParticipant(p) PROVE Base'
  BY <1>2, ImportBase
<1>3. ASSUME NEW r \in Run, NEW s \in Survey, SendPending(r, s) PROVE Base'
  BY <1>3, SendPendingBase
<1>4. ASSUME NEW r \in Run, NEW p \in Participant, Issue(r, p) PROVE Base'
  BY <1>4, IssueBase
<1>5. ASSUME NEW r \in Run, RunEnds(r) \/ Cancel(r) PROVE Base'
  BY <1>5, RunEndsBase
<1>6. ASSUME NEW r \in Run, Send(r) \/ SendFails(r) PROVE Base'
  BY <1>6, SendBase
<1>7. ASSUME NEW r \in Run, RollBack(r) PROVE Base'
  BY <1>7, RollBackBase
<1>8. ASSUME NEW a \in Address, AddSuppression(a) \/ MarkBounced(a) \/ MarkFails(a)
      PROVE  Base'
  BY <1>8, SuppressBase
<1>9. CASE Tick
  BY <1>9, TickBase
<1>10. QED
  BY <1>1, <1>2, <1>3, <1>4, <1>5, <1>6, <1>7, <1>8, <1>9 DEF Next

\* Types: rows, runs, the bucket and the bounds stay what they are declared to be.
THEOREM InviteTypes == Spec => []TypeOK
<1>1. Spec => []Base
  BY BaseInit, BaseStep, PTL DEF Spec
<1>2. Base => TypeOK
  BY DEF Base
<1>3. QED
  BY <1>1, <1>2, PTL

-----------------------------------------------------------------------------
(* Whoever is invited has a link that works.                               *)

\* One participant's case.
AnswerableAt(p) ==
    row[p].imported /\ row[p].invited =>
        Contains(mailed[p], row[p].token) \/ \E r \in Run : Carries(r, p)

\* A link in the mailbox stays there when another arrives, which is there as well.
LEMMA MailStays ==
    ASSUME NEW s \in Seq(Token), NEW new \in Token, NEW old \in Token
    PROVE  /\ Contains(Append(s, new), new)
           /\ Contains(s, old) => Contains(Append(s, new), old)
<1> DEFINE t == Append(s, new)
<1>1. Len(t) = Len(s) + 1 /\ t[Len(s) + 1] = new /\ \A i \in 1..Len(s) : t[i] = s[i]
  OBVIOUS
<1>2. Len(s) \in Nat
  OBVIOUS
<1>3. Len(s) + 1 \in 1..Len(t) /\ \A i \in 1..Len(s) : i \in 1..Len(t)
  BY <1>1, <1>2
<1> HIDE DEF t
<1>4. Contains(t, new) /\ (Contains(s, old) => Contains(t, old))
  BY <1>1, <1>3 DEF Contains
<1>5. QED
  BY <1>4 DEF t

\* A participant whose row stays, while what carried the link goes on or has mailed it.
LEMMA StaysAnswerable ==
    ASSUME NEW p \in Participant, AnswerableAt(p),
           row'[p].imported /\ row'[p].invited =>
               row[p].imported /\ row[p].invited /\ row'[p].token = row[p].token,
           Contains(mailed[p], row[p].token) => Contains(mailed'[p], row[p].token),
           \A r \in Run : Carries(r, p) =>
               Contains(mailed'[p], row[p].token) \/
               (/\ run'[r].pc \in {"sending", "clearing"}
                /\ run'[r].at = p /\ run'[r].token = row[p].token)
    PROVE  AnswerableAt(p)'
<1> SUFFICES ASSUME row'[p].imported, row'[p].invited,
                    ~Contains(mailed'[p], row'[p].token)
             PROVE  \E r \in Run : Carries(r, p)'
  BY DEF AnswerableAt
<1>1. row[p].imported /\ row[p].invited /\ row'[p].token = row[p].token
  OBVIOUS
<1>2. PICK r \in Run : Carries(r, p)
  BY <1>1 DEF AnswerableAt
<1>3. /\ run'[r].pc \in {"sending", "clearing"}
      /\ run'[r].at = p /\ run'[r].token = row[p].token
  BY <1>1, <1>2
<1>4. Carries(r, p)'
  BY <1>1, <1>3 DEF Carries
<1>5. QED
  BY <1>4

LEMMA IssueAnswerable ==
    ASSUME Base, Answerable, NEW r \in Run, NEW p \in Participant, Issue(r, p)
    PROVE  Answerable'
<1>1. run[r].pc = "next" /\ run[r] # Idle /\ p \in run[r].todo
  BY DEF Issue, Idle
<1>2. row[p].imported
  BY <1>1 DEF Base, Listed, ListedOf
<1>3. row[p] \in Row
  BY <1>2, RowShape DEF Base
<1>4. row' = [row EXCEPT ![p].token = row[p].token + 1, ![p].invited = TRUE] /\ mailed' = mailed
  BY DEF Issue
<1>5. run' = [run EXCEPT ![r] = [pc |-> "sending", todo |-> run[r].todo \ {p}, at |-> p,
                                 token |-> row[p].token + 1]]
  BY DEF Issue, Goes
<1>6. row'[p].token = row[p].token + 1 /\ \A q \in Participant : q # p => row'[q] = row[q]
  BY <1>3, <1>4 DEF Base, TypeOK, Row
<1>7. /\ run'[r].pc = "sending" /\ run'[r].at = p /\ run'[r].token = row[p].token + 1
      /\ \A o \in Run : o # r => run'[o] = run[o]
  BY <1>5 DEF Base, TypeOK
<1>8. ASSUME NEW q \in Participant PROVE AnswerableAt(q)'
  <2>1. CASE q = p
    <3>1. Carries(r, p)'
      BY <1>6, <1>7 DEF Carries
    <3>2. QED
      BY <2>1, <3>1 DEF AnswerableAt
  <2>2. CASE q # p
    <3>1. AnswerableAt(q)
      BY DEF Answerable, AnswerableAt
    <3>2. \A o \in Run : Carries(o, q) => run'[o] = run[o]
      BY <1>1, <1>7 DEF Carries
    <3>3. row'[q] = row[q]
      BY <1>6, <2>2
    <3>4. \A o \in Run : Carries(o, q) =>
            /\ run'[o].pc \in {"sending", "clearing"}
            /\ run'[o].at = q /\ run'[o].token = row[q].token
      BY <3>2 DEF Carries
    <3>5. QED
      BY <1>4, <3>1, <3>3, <3>4, StaysAnswerable
  <2>3. QED
    BY <2>1, <2>2
<1>9. QED
  BY <1>8 DEF Answerable, AnswerableAt

LEMMA SendAnswerable ==
    ASSUME Base, Answerable, NEW r \in Run, Send(r) \/ SendFails(r)
    PROVE  Answerable'
<1> DEFINE p == run[r].at
           token == run[r].token
<1>1. run[r].pc = "sending" /\ run[r] \in At
  BY RunShape DEF Send, SendFails, Base
<1>2. p \in Participant /\ token \in Token
  BY <1>1 DEF At
<1>3. row' = row /\ \A o \in Run : o # r => run'[o] = run[o]
  BY DEF Base, TypeOK, Send, SendFails, MovesOn, Goes, recipients
<1>4. SendFails(r) => /\ run'[r].pc = "clearing" /\ run'[r].at = p /\ run'[r].token = token
  BY <1>1 DEF Base, TypeOK, SendFails, Goes, At
<1>5. Send(r) => mailed' = [mailed EXCEPT ![p] = Append(@, token)]
  BY DEF Send
<1>6. mailed' \in {mailed, [mailed EXCEPT ![p] = Append(@, token)]}
  BY DEF Send, SendFails
<1>7. mailed \in [Participant -> Seq(Token)]
  BY DEF Base, TypeOK
<1> HIDE DEF p, token
<1>8. ASSUME NEW q \in Participant PROVE AnswerableAt(q)'
  <2>1. AnswerableAt(q)
    BY DEF Answerable, AnswerableAt
  <2>2. CASE ~row[q].imported
    BY <1>3, <2>2 DEF AnswerableAt
  <2>3. CASE row[q].imported
    <3>1. row[q].token \in Token
      BY <2>3, RowShape DEF Base, Row
    <3>2. Contains(mailed[q], row[q].token) => Contains(mailed'[q], row[q].token)
      <4>1. mailed'[q] = mailed[q] \/ mailed'[q] = Append(mailed[q], token)
        BY <1>6, <1>7
      <4>2. mailed[q] \in Seq(Token)
        BY <1>7
      <4>3. QED
        BY <1>2, <3>1, <4>1, <4>2, MailStays
    <3>3. ASSUME NEW o \in Run, Carries(o, q), o = r, Send(r)
          PROVE  Contains(mailed'[q], row[q].token)
      <4>1. q = p /\ row[q].token = token
        BY <3>3 DEF Carries, p, token
      <4>2. mailed'[q] = Append(mailed[q], token) /\ mailed[q] \in Seq(Token)
        BY <1>5, <1>7, <3>3, <4>1
      <4>3. QED
        BY <1>2, <4>1, <4>2, MailStays
    <3>4. ASSUME NEW o \in Run, Carries(o, q), o # r \/ SendFails(r)
          PROVE  /\ run'[o].pc \in {"sending", "clearing"}
                 /\ run'[o].at = q /\ run'[o].token = row[q].token
      <4>1. CASE o # r
        BY <1>3, <3>4, <4>1 DEF Carries
      <4>2. CASE o = r /\ SendFails(r)
        BY <1>4, <3>4, <4>2 DEF Carries, p, token
      <4>3. QED
        BY <3>4, <4>1, <4>2
    <3>5. \A o \in Run : Carries(o, q) =>
            Contains(mailed'[q], row[q].token) \/
            (/\ run'[o].pc \in {"sending", "clearing"}
             /\ run'[o].at = q /\ run'[o].token = row[q].token)
      BY <3>3, <3>4
    <3>6. QED
      BY <1>3, <2>1, <3>2, <3>5, StaysAnswerable
  <2>4. QED
    BY <2>2, <2>3
<1>9. QED
  BY <1>8 DEF Answerable, AnswerableAt

LEMMA RollBackAnswerable ==
    ASSUME Base, Answerable, NEW r \in Run, RollBack(r)
    PROVE  Answerable'
<1> DEFINE p == run[r].at
<1>1. run[r].pc = "clearing" /\ run[r] # Idle
  BY DEF RollBack, Idle
<1>2. p \in Participant /\ row[p].imported
  BY <1>1, RunKinds DEF Base, Listed, ListedOf
<1>3. row' = [row EXCEPT ![p].invited = FALSE] /\ mailed' = mailed
  BY DEF RollBack, Clear
<1>4. \A o \in Run : o # r => run'[o] = run[o]
  BY DEF Base, TypeOK, RollBack, MovesOn, Goes
<1>5. row[p] \in Row
  BY <1>2, RowShape DEF Base
<1>6. \A o \in Run : \A q \in Participant : q # p /\ Carries(o, q) => o # r
  BY DEF Carries
<1> HIDE DEF p
<1>7. ~row'[p].invited /\ \A q \in Participant : q # p => row'[q] = row[q]
  BY <1>2, <1>3, <1>5 DEF Base, TypeOK, Row
<1>8. ASSUME NEW q \in Participant PROVE AnswerableAt(q)'
  <2>1. CASE q = p
    BY <1>7, <2>1 DEF AnswerableAt
  <2>2. CASE q # p
    <3>1. AnswerableAt(q) /\ row'[q] = row[q]
      BY <1>7, <2>2 DEF Answerable, AnswerableAt
    <3>2. \A o \in Run : Carries(o, q) =>
            /\ run'[o].pc \in {"sending", "clearing"}
            /\ run'[o].at = q /\ run'[o].token = row[q].token
      BY <1>4, <1>6, <2>2 DEF Carries
    <3>3. QED
      BY <1>3, <3>1, <3>2, StaysAnswerable
  <2>3. QED
    BY <2>1, <2>2
<1>9. QED
  BY <1>8 DEF Answerable, AnswerableAt

\* Steps that touch no link, and no run that is at somebody.
LEMMA CalmAnswerable ==
    ASSUME Answerable, mailed' = mailed,
           \A p \in Participant : row'[p].imported /\ row'[p].invited =>
               row[p].imported /\ row[p].invited /\ row'[p].token = row[p].token,
           \A o \in Run : run[o].pc \in {"sending", "clearing"} => run'[o] = run[o]
    PROVE  Answerable'
<1>1. ASSUME NEW p \in Participant PROVE AnswerableAt(p)'
  <2>1. AnswerableAt(p)
    BY DEF Answerable, AnswerableAt
  <2>2. \A o \in Run : Carries(o, p) =>
          /\ run'[o].pc \in {"sending", "clearing"}
          /\ run'[o].at = p /\ run'[o].token = row[p].token
    BY DEF Carries
  <2>3. QED
    BY <2>1, <2>2, StaysAnswerable
<1>2. QED
  BY <1>1 DEF Answerable, AnswerableAt

LEMMA AnswerableStep ==
    ASSUME Base, interrupted = 0 => Answerable, [Next]_vars
    PROVE  interrupted' = 0 => Answerable'
<1> SUFFICES ASSUME interrupted' = 0 PROVE Answerable'
  OBVIOUS
<1>1. \A r \in Run : ~Cancel(r)
  BY DEF Cancel, Base, TypeOK
<1>2. interrupted = 0
  BY <1>1 DEF Next, vars, ImportParticipant, SendPending, Issue, RunEnds, Send, SendFails,
              RollBack, AddSuppression, MarkBounced, MarkFails, Tick
<1>3. Answerable
  BY <1>2
<1>4. ASSUME NEW r \in Run, NEW p \in Participant, Issue(r, p) PROVE Answerable'
  BY <1>3, <1>4, IssueAnswerable
<1>5. ASSUME NEW r \in Run, Send(r) \/ SendFails(r) PROVE Answerable'
  BY <1>3, <1>5, SendAnswerable
<1>6. ASSUME NEW r \in Run, RollBack(r) PROVE Answerable'
  BY <1>3, <1>6, RollBackAnswerable
<1>7. ASSUME NEW p \in Participant, ImportParticipant(p) PROVE Answerable'
  <2>1. mailed' = mailed /\ run' = run
    BY <1>7 DEF ImportParticipant
  <2>2. ~row'[p].invited /\ \A q \in Participant : q # p => row'[q] = row[q]
    BY <1>7 DEF ImportParticipant, Base, TypeOK
  <2>3. QED
    BY <1>3, <2>1, <2>2, CalmAnswerable
<1>8. ASSUME NEW r \in Run, NEW s \in Survey, SendPending(r, s) PROVE Answerable'
  <2>1. mailed' = mailed /\ row' = row /\ run[r].pc = "idle"
    BY <1>8 DEF SendPending, recipients, Idle
  <2>2. \A o \in Run : o # r => run'[o] = run[o]
    BY <1>8 DEF SendPending, Goes, Base, TypeOK
  <2>3. QED
    BY <1>3, <2>1, <2>2, CalmAnswerable
<1>9. ASSUME NEW r \in Run, RunEnds(r) PROVE Answerable'
  <2>1. mailed' = mailed /\ row' = row /\ run[r].pc = "next"
    BY <1>9 DEF RunEnds, recipients
  <2>2. \A o \in Run : o # r => run'[o] = run[o]
    BY <1>9 DEF RunEnds, Goes, Base, TypeOK
  <2>3. QED
    BY <1>3, <2>1, <2>2, CalmAnswerable
<1>10. ASSUME NEW a \in Address, MarkBounced(a) PROVE Answerable'
  <2>1. mailed' = mailed /\ run' = run
    BY <1>10 DEF MarkBounced
  <2>2. ASSUME NEW p \in Participant, row'[p].imported, row'[p].invited
        PROVE  row[p].imported /\ row[p].invited /\ row'[p].token = row[p].token
    <3>1. CASE AddressOf(p) = a /\ row[p].imported
      <4>1. row[p] \in Row
        BY <3>1, RowShape DEF Base
      <4>2. row'[p] = [row[p] EXCEPT !.bounced = TRUE]
        BY <1>10, <3>1 DEF MarkBounced
      <4>3. QED
        BY <2>2, <3>1, <4>1, <4>2 DEF Row
    <3>2. CASE ~(AddressOf(p) = a /\ row[p].imported)
      BY <1>10, <2>2, <3>2 DEF MarkBounced
    <3>3. QED
      BY <3>1, <3>2
  <2>3. QED
    BY <1>3, <2>1, <2>2, CalmAnswerable
<1>11. ASSUME NEW a \in Address, AddSuppression(a) \/ MarkFails(a) PROVE Answerable'
  <2>1. mailed' = mailed /\ run' = run /\ row' = row
    BY <1>11 DEF AddSuppression, MarkFails
  <2>2. QED
    BY <1>3, <2>1, CalmAnswerable
<1>12. CASE Tick \/ UNCHANGED vars
  <2>1. mailed' = mailed /\ run' = run /\ row' = row
    BY <1>12 DEF Tick, vars, recipients
  <2>2. QED
    BY <1>3, <2>1, CalmAnswerable
<1>13. QED
  BY <1>1, <1>4, <1>5, <1>6, <1>7, <1>8, <1>9, <1>10, <1>11, <1>12 DEF Next

\* Whoever is left as invited was mailed the link that works, as long as no run was cut
\* off: however many runs mint links for one participant, and whichever of their mails
\* fail or come late.
THEOREM InvitedHaveTheirLink == Spec => []InvitedCanAnswer
<1> DEFINE Inv == interrupted = 0 => Answerable
<1>1. Init => Inv
  BY DEF Init, Answerable, Absent
<1>2. Base /\ Inv /\ [Next]_vars => Inv'
  BY AnswerableStep
<1>3. Inv => InvitedCanAnswer
  BY DEF InvitedCanAnswer, FailedSendsRetried, Answerable, Carries, Working
<1> HIDE DEF Inv
<1>4. Spec => []Base
  BY BaseInit, BaseStep, PTL DEF Spec
<1>5. QED
  BY <1>1, <1>2, <1>3, <1>4, PTL DEF Spec

-----------------------------------------------------------------------------
(* What a run takes up.                                                    *)

\* No run takes up an address that is suppressed, marked or not.
THEOREM SuppressedStayAlone == Spec => SuppressedLeftAlone
<1> DEFINE A == \A r \in Run : run[r] = Idle /\ run'[r] # Idle
                    => \A p \in run'[r].todo : AddressOf(p) \notin suppressed
<1>1. ASSUME Base, [Next]_vars PROVE A
  <2> SUFFICES ASSUME NEW r \in Run, run[r] = Idle, run'[r] # Idle
               PROVE  \A p \in run'[r].todo : AddressOf(p) \notin suppressed
    OBVIOUS
  <2>1. PICK o \in Run, s \in Survey : SendPending(o, s)
    <3>1. run[r].pc = "idle"
      BY DEF Idle
    <3>2. ASSUME NEW o \in Run,
                 \/ \E p \in Participant : Issue(o, p)
                 \/ RunEnds(o) \/ Send(o) \/ SendFails(o) \/ RollBack(o) \/ Cancel(o)
          PROVE  FALSE
      <4>1. run[o] # Idle /\ \E k : Goes(o, k)
        <5>1. ASSUME NEW p \in Participant, Issue(o, p)
              PROVE  run[o] # Idle /\ \E k : Goes(o, k)
          BY <5>1 DEF Issue, Idle
        <5>2. CASE RunEnds(o) \/ Cancel(o)
          BY <5>2 DEF RunEnds, Cancel, Idle
        <5>3. CASE Send(o) \/ SendFails(o)
          BY <5>3 DEF Send, SendFails, MovesOn, Idle
        <5>4. CASE RollBack(o)
          BY <5>4 DEF RollBack, MovesOn, Idle
        <5>5. QED
          BY <3>2, <5>1, <5>2, <5>3, <5>4
      <4>2. \A q \in Run : q # o => run'[q] = run[q]
        BY <1>1, <4>1 DEF Goes, Base, TypeOK
      <4>3. QED
        BY <4>1, <4>2
    <3>3. run' # run
      OBVIOUS
    <3>4. QED
      BY <1>1, <3>2, <3>3 DEF Next, vars, ImportParticipant, AddSuppression, MarkBounced,
                               MarkFails, Tick
  <2>2. run' = [run EXCEPT ![o] = [pc |-> "next", todo |-> Pending(s)]]
    BY <2>1 DEF SendPending, Goes
  <2>3. o = r
    BY <2>2 DEF Base, TypeOK
  <2>4. run'[r].todo = Pending(s)
    BY <2>2, <2>3 DEF Base, TypeOK
  <2>5. QED
    BY <2>4 DEF Pending
<1>2. Spec => []Base
  BY BaseInit, BaseStep, PTL DEF Spec
<1>3. Base /\ [Next]_vars => [A]_vars
  BY <1>1
<1>4. QED
  BY <1>2, <1>3, PTL DEF Spec, SuppressedLeftAlone

-----------------------------------------------------------------------------
(* The cap.                                                                *)

\* One more invitation is let through, and counted.
LEMMA CountPaced ==
    ASSUME TypeOK, Paced, Allow, Count, allowed' = Append(allowed, now), now' = now
    PROVE  Paced'
<1> DEFINE n == Len(allowed)
           c == bucket.count
           s == bucket.start
           at == allowed'
<1>1. n \in Nat /\ c \in Nat /\ c <= Cap /\ s \in Nat /\ now \in Nat
  BY Numbers DEF TypeOK
<1>2. allowed \in Seq(Nat)
  BY Numbers DEF TypeOK
<1>3. Len(at) = n + 1 /\ at[n + 1] = now /\ \A i \in 1..n : at[i] = allowed[i] /\ at[i] \in Nat
  BY <1>1, <1>2
<1>4. /\ c <= n
      /\ c = 0 => n = 0
      /\ c > 0 => allowed[n - c + 1] = s
      /\ \A i, j \in 1..n : i <= j => allowed[i] <= allowed[j]
      /\ \A i \in 1..n : allowed[i] <= now
      /\ \A i \in 1..n : i + Cap <= n - c + 1 => allowed[i] + Window <= s
      /\ \A i, j \in 1..n : i + 2 * Cap <= j + 1 => allowed[i] + Window <= allowed[j]
  BY DEF Paced, First
<1> DEFINE c2 == bucket'.count
           s2 == bucket'.start
<1>5. \/ (c = 0 \/ now - s >= Window) /\ s2 = now /\ c2 = 1
      \/ c > 0 /\ c < Cap /\ s2 = s /\ c2 = c + 1
  BY <1>1 DEF Count, Allow, WindowOver
<1>9. /\ c2 <= n + 1 /\ c2 # 0 /\ at[n + 1 - c2 + 1] = s2
      /\ \A i, j \in 1..(n + 1) : i <= j => at[i] <= at[j]
      /\ \A i \in 1..(n + 1) : at[i] <= now
      /\ \A i \in 1..(n + 1) : i + Cap <= n + 1 - c2 + 1 => at[i] + Window <= s2
      /\ \A i, j \in 1..(n + 1) : i + 2 * Cap <= j + 1 => at[i] + Window <= at[j]
      => Paced'
  <2>1. Len(allowed') = n + 1 /\ First' = n + 1 - c2 + 1 /\ c2 \in Nat
    <3>1. Len(allowed') = n + 1
      BY <1>3
    <3>2. c2 \in Nat
      <4> HIDE DEF n, c, s, at, c2, s2
      <4>1. QED
        BY <1>1, <1>5
    <3>3. First' = Len(allowed') - bucket'.count + 1
      BY DEF First
    <3>4. QED
      BY <3>1, <3>2, <3>3
  <2> HIDE DEF n, c, s
  <2>2. QED
    BY <2>1 DEF Paced
<1> HIDE DEF n, c, s, at, c2, s2
<1>10. /\ \A i, j \in 1..(n + 1) : i <= j => at[i] <= at[j]
       /\ \A i \in 1..(n + 1) : at[i] <= now
  <2>1. \A i \in 1..(n + 1) : at[i] <= now
    <3> SUFFICES ASSUME NEW i \in 1..(n + 1) PROVE at[i] <= now
      OBVIOUS
    <3>1. CASE i \in 1..n
      BY <1>3, <1>4, <3>1
    <3>2. CASE i = n + 1
      BY <1>1, <1>3, <3>2
    <3>3. QED
      BY <1>1, <3>1, <3>2
  <2>2. ASSUME NEW i \in 1..(n + 1), NEW j \in 1..(n + 1), i <= j PROVE at[i] <= at[j]
    <3>1. CASE j \in 1..n
      <4>1. i \in 1..n
        BY <1>1, <2>2, <3>1
      <4>2. QED
        BY <1>3, <1>4, <2>2, <3>1, <4>1
    <3>2. CASE j = n + 1
      BY <1>3, <2>1, <3>2
    <3>3. QED
      BY <1>1, <3>1, <3>2
  <2>3. QED
    BY <2>1, <2>2
\* What is a cap before the new one's predecessor is a window before it: the last part.
<1>11. (\A i \in 1..(n + 1) : i + 2 * Cap <= n + 2 => at[i] + Window <= now)
       => \A i, j \in 1..(n + 1) : i + 2 * Cap <= j + 1 => at[i] + Window <= at[j]
  <2> SUFFICES ASSUME \A i \in 1..(n + 1) : i + 2 * Cap <= n + 2 => at[i] + Window <= now,
                      NEW i \in 1..(n + 1), NEW j \in 1..(n + 1), i + 2 * Cap <= j + 1
               PROVE  at[i] + Window <= at[j]
    OBVIOUS
  <2>1. CASE j \in 1..n
    <3>1. i \in 1..n
      BY <1>1, <2>1, Numbers
    <3>2. QED
      BY <1>3, <1>4, <2>1, <3>1
  <2>2. CASE j = n + 1
    <3>1. i + 2 * Cap <= n + 2
      BY <1>1, <2>2, Numbers
    <3>2. QED
      BY <1>3, <2>2, <3>1
  <2>3. QED
    BY <1>1, <2>1, <2>2
\* The new window's first, or one more of the window's.
<1>6. CASE (c = 0 \/ now - s >= Window) /\ s2 = now /\ c2 = 1
  <2>1. \A i \in 1..n : i <= n - c + 1 => allowed[i] + Window <= now
    <3> SUFFICES ASSUME NEW i \in 1..n, i <= n - c + 1 PROVE allowed[i] + Window <= now
      OBVIOUS
    <3>1. c > 0 /\ now - s >= Window
      BY <1>1, <1>4, <1>6
    <3>2. n - c + 1 \in 1..n
      BY <1>1, <1>4, <3>1
    <3>3. allowed[i] <= s /\ allowed[i] \in Nat
      BY <1>3, <1>4, <3>1, <3>2
    <3>4. QED
      BY <1>1, <3>1, <3>3, Numbers
  <2>2. \A i \in 1..(n + 1) : i + Cap <= n + 1 => at[i] + Window <= now
    <3> SUFFICES ASSUME NEW i \in 1..(n + 1), i + Cap <= n + 1 PROVE at[i] + Window <= now
      OBVIOUS
    <3>1. i \in 1..n /\ i <= n - c + 1
      BY <1>1, Numbers
    <3>2. QED
      BY <1>3, <2>1, <3>1
  <2>3. \A i \in 1..(n + 1) : i + 2 * Cap <= n + 2 => at[i] + Window <= now
    <3> SUFFICES ASSUME NEW i \in 1..(n + 1), i + 2 * Cap <= n + 2 PROVE at[i] + Window <= now
      OBVIOUS
    <3>1. i \in 1..n /\ i <= n - c + 1
      BY <1>1, Numbers
    <3>2. QED
      BY <1>3, <2>1, <3>1
  <2>4. n + 1 - c2 + 1 = n + 1 /\ c2 <= n + 1 /\ c2 # 0
    BY <1>1, <1>6
  <2>5. at[n + 1 - c2 + 1] = s2
    BY <1>3, <1>6, <2>4
  <2>6. \A i \in 1..(n + 1) : i + Cap <= n + 1 - c2 + 1 => at[i] + Window <= s2
    BY <1>6, <2>2, <2>4
  <2>7. QED
    BY <1>9, <1>10, <1>11, <2>3, <2>4, <2>5, <2>6
<1>7. CASE c > 0 /\ c < Cap /\ s2 = s /\ c2 = c + 1
  <2>1. n + 1 - c2 + 1 = n - c + 1 /\ n - c + 1 \in 1..n
    BY <1>1, <1>4, <1>7
  <2>2. at[n - c + 1] = s /\ s <= now
    BY <1>3, <1>4, <1>7, <2>1
  <2>3. \A i \in 1..(n + 1) : i + Cap <= n - c + 1 => at[i] + Window <= s
    <3> SUFFICES ASSUME NEW i \in 1..(n + 1), i + Cap <= n - c + 1 PROVE at[i] + Window <= s
      OBVIOUS
    <3>1. i \in 1..n
      BY <1>1, <1>7, Numbers
    <3>2. QED
      BY <1>3, <1>4, <3>1
  <2>4. \A i \in 1..(n + 1) : i + 2 * Cap <= n + 2 => at[i] + Window <= now
    <3> SUFFICES ASSUME NEW i \in 1..(n + 1), i + 2 * Cap <= n + 2 PROVE at[i] + Window <= now
      OBVIOUS
    <3>1. i + Cap <= n - c + 1 /\ i \in 1..n
      BY <1>1, <1>7, Numbers
    <3>2. at[i] + Window <= s /\ at[i] \in Nat
      BY <1>3, <2>3, <3>1
    <3>3. QED
      BY <1>1, <2>2, <3>2, Numbers
  <2>5. c2 <= n + 1 /\ c2 # 0
    BY <1>1, <1>4, <1>7
  <2>6. at[n + 1 - c2 + 1] = s2
    BY <1>7, <2>1, <2>2
  <2>7. \A i \in 1..(n + 1) : i + Cap <= n + 1 - c2 + 1 => at[i] + Window <= s2
    BY <1>7, <2>1, <2>3
  <2>8. QED
    BY <1>9, <1>10, <1>11, <2>4, <2>5, <2>6, <2>7
<1>8. QED
  BY <1>5, <1>6, <1>7

LEMMA PacedStep == Base /\ Paced /\ [Next]_vars => Paced'
<1> SUFFICES ASSUME Base, Paced, [Next]_vars PROVE Paced'
  OBVIOUS
<1>1. ASSUME NEW r \in Run, NEW p \in Participant, Issue(r, p) PROVE Paced'
  BY <1>1, CountPaced DEF Issue, Base
<1>2. CASE /\ bucket' = bucket /\ allowed' = allowed
           /\ now' = now \/ now' = now + 1
  <2>1. \A i \in 1..Len(allowed) : allowed[i] <= now'
    <3> SUFFICES ASSUME NEW i \in 1..Len(allowed) PROVE allowed[i] <= now'
      OBVIOUS
    <3>1. allowed[i] <= now /\ now \in Nat /\ allowed[i] \in Nat
      BY Numbers DEF Base, TypeOK, Paced
    <3>2. QED
      BY <1>2, <3>1
  <2>2. QED
    BY <1>2, <2>1 DEF Paced, First
<1>3. ASSUME ~\E r \in Run : \E p \in Participant : Issue(r, p)
      PROVE  /\ bucket' = bucket /\ allowed' = allowed
             /\ now' = now \/ now' = now + 1
  BY <1>3 DEF Next, vars, ImportParticipant, SendPending, RunEnds, Send, SendFails,
              RollBack, Cancel, AddSuppression, MarkBounced, MarkFails, Tick, limiter
<1>4. QED
  BY <1>1, <1>2, <1>3

\* A set of naturals that is not empty has a least member.
LEMMA Least ==
    ASSUME NEW S \in SUBSET Nat, S # {}
    PROVE  \E m \in S : \A k \in S : m <= k
<1>1. PICK m \in S : \A k \in S : <<k, m>> \notin OpToRel(<, Nat)
  BY NatLessThanWellFounded, WFMin, Zenon
<1>2. \A k \in S : ~(k < m)
  BY <1>1 DEF OpToRel
<1>3. QED
  BY <1>2

\* Invitations that far apart in the list are a window apart: fewer than two caps of
\* them fit into one window's length.
LEMMA PacedBursts == TypeOK /\ Paced => NoBurst
<1> SUFFICES ASSUME TypeOK, Paced, NEW i \in DOMAIN allowed
             PROVE  Cardinality({j \in DOMAIN allowed :
                        allowed[j] \in allowed[i]..(allowed[i] + Window - 1)}) < 2 * Cap
  BY DEF NoBurst
<1> DEFINE S == {j \in DOMAIN allowed : allowed[j] \in allowed[i]..(allowed[i] + Window - 1)}
<1>1. DOMAIN allowed = 1..Len(allowed) /\ Len(allowed) \in Nat
      /\ \A j \in 1..Len(allowed) : allowed[j] \in Nat
  BY Numbers DEF TypeOK
<1>2. S \in SUBSET Nat
  BY <1>1
<1>3. i \in S
  BY <1>1, Numbers
<1>4. PICK m \in S : \A k \in S : m <= k
  BY <1>2, <1>3, Least
<1>5. ASSUME NEW k \in S PROVE k \in m..(m + 2 * Cap - 2)
  <2>1. m \in 1..Len(allowed) /\ k \in 1..Len(allowed) /\ m <= k
    BY <1>1, <1>4
  <2>2. allowed[k] < allowed[m] + Window
    <3>1. allowed[k] <= allowed[i] + Window - 1 /\ allowed[i] <= allowed[m]
      BY <1>1, <2>1
    <3>2. QED
      BY <1>1, <2>1, <3>1, Numbers
  <2>3. ~(m + 2 * Cap <= k + 1)
    <3>1. m + 2 * Cap <= k + 1 => allowed[m] + Window <= allowed[k]
      BY <2>1 DEF Paced
    <3>2. QED
      BY <1>1, <2>1, <2>2, <3>1, Numbers
  <2>4. QED
    BY <2>1, <2>3, Numbers
<1>6. m \in Nat /\ 2 * Cap - 2 \in Nat
  BY <1>2, Numbers
<1> HIDE DEF S
<1>7. /\ IsFiniteSet(m..(m + 2 * Cap - 2))
      /\ Cardinality(m..(m + 2 * Cap - 2)) = 2 * Cap - 1
  <2>1. m \in Int /\ m + 2 * Cap - 2 \in Int /\ ~(m > m + 2 * Cap - 2)
    BY <1>6, Numbers
  <2>2. (m + 2 * Cap - 2) - m + 1 = 2 * Cap - 1
    BY <1>6, Numbers
  <2>3. QED
    BY <2>1, <2>2, FS_Interval
<1>8. IsFiniteSet(S) /\ Cardinality(S) <= 2 * Cap - 1
  <2>1. S \in SUBSET (m..(m + 2 * Cap - 2))
    BY <1>5
  <2>2. QED
    BY <1>7, <2>1, FS_Subset
<1>9. Cardinality(S) \in Nat
  BY <1>8, FS_CardinalityType
<1>10. QED
  BY <1>8, <1>9, Numbers DEF S

\* No stretch of a window's length sees twice the cap, whatever runs share it.
THEOREM BurstsAreBounded == Spec => []NoBurst
<1>1. Init => Paced
  BY Numbers DEF Init, Paced, First
<1>2. Base /\ Paced => NoBurst
  BY PacedBursts DEF Base
<1>3. Spec => []Base
  BY BaseInit, BaseStep, PTL DEF Spec
<1>4. QED
  BY <1>1, <1>2, <1>3, PacedStep, PTL DEF Spec
=============================================================================
