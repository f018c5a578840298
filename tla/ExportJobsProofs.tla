-------------------------- MODULE ExportJobsProofs --------------------------
(***************************************************************************)
(* Proofs about ExportJobs, for any number of requests and jobs, any       *)
(* windows in the code's order and any number of faults.                   *)
(***************************************************************************)
EXTENDS ExportJobs, WellFoundedInduction, TLAPS

Leaving == {"closing", "removing", "leaving"}

Requests == {Idle}
    \cup [pc : {"creating"}, at : Time]
    \cup [pc : {"queueing"}]
    \cup [pc : Leaving, copy : BOOLEAN, job : Job \cup {NoJob}]

\* The archive is there, for as long as it was promised for.
Kept(j) == job[j].status = "ready" /\ (now < job[j].expires => job[j].archive)

\* A build and its row: how far they are, and that a closure's is not written about yet.
BuilderFits(j) ==
    builder[j] # NoBuilder =>
        /\ job[j] \in Rows
        /\ builder[j].pc = "claiming" => job[j].status = "pending"
        /\ builder[j].pc \in {"building", "storing", "failing"} => job[j].status = "running"
        /\ builder[j].pc = "linking" => job[j].kind = "closure" /\ Kept(j)
        /\ builder[j].pc = "explaining" =>
               job[j].kind = "closure" /\ job[j].status \in {"running", "failed"}
        /\ job[j].kind = "closure" => closed /\ \A m \in mails : m.job # j

\* The request that has queued a closure export has it alone, until it starts the build
\* or removes the job.
Owns(r, j) == req[r].pc \in Leaving /\ req[r].job = j

OwnerFits(r) ==
    req[r].pc \in Leaving =>
        /\ req[r].pc = "removing" => req[r].job # NoJob
        /\ req[r].pc = "leaving" => closed
        /\ req[r].job # NoJob =>
               /\ job[req[r].job] \in Rows
               /\ job[req[r].job].status = "pending" /\ job[req[r].job].kind = "closure"
               /\ builder[req[r].job] = NoBuilder
               /\ \A m \in mails : m.job # req[r].job
               /\ \A s \in Request : Owns(s, req[r].job) => s = r

\* What was written about is over, and a link's archive is kept.
MailFits(m) ==
    /\ closed
    /\ job[m.job] \in Rows /\ job[m.job].kind = "closure" /\ Stored(m.job)
    /\ builder[m.job] = NoBuilder
    /\ m.says = "link" => Kept(m.job)

Closure(j) == Stored(j) /\ job[j].kind = "closure"

OneClosure == \A i, j \in Job : Closure(i) /\ Closure(j) => i = j

Ledger ==
    /\ \A j \in Job : BuilderFits(j)
    /\ \A r \in Request : OwnerFits(r)
    /\ \A m \in mails : MailFits(m)
    /\ \A m, n \in mails : m = n
    /\ OneClosure

Base == TypeOK /\ Ledger

-----------------------------------------------------------------------------
(* Numbers, rows and the next row.                                         *)

LEMMA Numbers ==
    /\ BuildTimeout \in Nat /\ StaleAfter \in Nat /\ TTL \in Nat /\ ClosureTTL \in Nat
    /\ BuildTimeout > 0 /\ BuildTimeout < StaleAfter
    /\ MaxJobs \in Nat /\ MaxTime \in Nat /\ MaxFaults \in Nat
    /\ Asker \subseteq Request
BY WindowsAssumption, BoundsAssumption

LEMMA RequestsTyped == TypeOK <=> /\ now \in Time
                                  /\ job \in [Job -> {Free} \cup Rows]
                                  /\ builder \in [Job -> {NoBuilder} \cup Builders]
                                  /\ closed \in BOOLEAN
                                  /\ req \in [Request -> Requests]
                                  /\ mails \subseteq [job : Job, says : {"link", "reason"}]
                                  /\ promised \in BOOLEAN
                                  /\ faults \in 0..MaxFaults
BY DEF TypeOK, Requests, Leaving

\* A row in one of the states of a row is one.
LEMMA RowShape ==
    ASSUME TypeOK, NEW j \in Job
    PROVE  /\ job[j].status # "free" => job[j] \in Rows
           /\ job[j] \in Rows => job[j].status # "free"
           /\ job[j] \notin Rows => job[j] = Free
BY DEF TypeOK, Free, Rows

LEMMA BuilderShape ==
    ASSUME TypeOK, NEW j \in Job
    PROVE  /\ builder[j].pc # "none" => builder[j] \in Builders /\ builder[j] # NoBuilder
           /\ builder[j] # NoBuilder => builder[j] \in Builders /\ builder[j].pc # "none"
BY DEF TypeOK, NoBuilder, Builders

LEMMA OwnerShape ==
    ASSUME TypeOK, NEW r \in Request, req[r].pc \in Leaving
    PROVE  req[r] \in [pc : Leaving, copy : BOOLEAN, job : Job \cup {NoJob}]
BY RequestsTyped DEF Requests, Idle, Leaving

LEMMA NextIsFree ==
    ASSUME Room
    PROVE  NextJob \in Job /\ job[NextJob] = Free /\ \A i \in 1..(NextJob - 1) : job[i] # Free
<1> DEFINE S == {j \in Job : job[j] = Free}
<1>1. S \in SUBSET Nat /\ S # {}
  BY DEF Room, Job
<1>2. PICK m \in S : \A j \in S : <<j, m>> \notin OpToRel(<, Nat)
  BY <1>1, NatLessThanWellFounded, WFMin, Zenon
<1>3. \A j \in S : ~(j < m)
  BY <1>1, <1>2 DEF OpToRel
<1>4. m \in Job /\ job[m] = Free /\ \A i \in 1..(m - 1) : job[i] # Free
  <2>1. ASSUME NEW i \in 1..(m - 1) PROVE job[i] # Free
    <3>1. i \in Job /\ i < m
      BY Numbers DEF Job
    <3>2. QED
      BY <1>3, <3>1
  <2>2. QED
    BY <2>1
<1>5. QED
  BY <1>4 DEF NextJob

LEMMA BaseInit == Init => Base
<1> SUFFICES ASSUME Init PROVE Base
  OBVIOUS
<1>1. TypeOK
  <2>1. 0 \in Time /\ 0 \in 0..MaxFaults
    BY Numbers DEF Time
  <2>2. req \in [Request -> Requests]
    BY DEF Init, Requests
  <2>3. /\ job \in [Job -> {Free} \cup Rows]
        /\ builder \in [Job -> {NoBuilder} \cup Builders]
    BY DEF Init
  <2>4. QED
    BY <2>1, <2>2, <2>3, RequestsTyped DEF Init
<1>2. Ledger
  BY DEF Init, Ledger, BuilderFits, OwnerFits, OneClosure, Closure, Stored, Free, Idle, Leaving
<1>3. QED
  BY <1>1, <1>2 DEF Base

-----------------------------------------------------------------------------
(* Kinds of step.                                                          *)

\* A request that goes on, with the job it had or with none.
LEMMA RequestStep ==
    ASSUME Base, NEW r \in Request, NEW q \in Requests,
           req' = [req EXCEPT ![r] = q],
           UNCHANGED <<now, job, builder, mails>>, promised' \in BOOLEAN,
           closed' \in BOOLEAN, closed => closed', faults' \in 0..MaxFaults,
           q.pc \in Leaving =>
               /\ q.job # NoJob => Owns(r, q.job)
               /\ q.pc = "removing" => q.job # NoJob
               /\ q.pc = "leaving" => closed'
    PROVE  Base'
<1>1. TypeOK'
  BY RequestsTyped DEF Base, TypeOK, Requests, Leaving
<1>2. \A j \in Job : BuilderFits(j)'
  BY DEF Base, Ledger, BuilderFits, Kept
<1>3. \A m \in mails : MailFits(m)'
  BY DEF Base, Ledger, MailFits, Kept, Stored
<1>4. OneClosure'
  BY DEF Base, Ledger, OneClosure, Closure, Stored
<1>5. /\ req'[r] = q /\ \A s \in Request : s # r => req'[s] = req[s]
  BY DEF Base, TypeOK
<1>6. ASSUME NEW s \in Request, NEW j \in Job, Owns(s, j)' PROVE Owns(s, j)
  BY <1>5, <1>6 DEF Owns, Job, NoJob
<1>7. ASSUME NEW s \in Request PROVE OwnerFits(s)'
  <2> SUFFICES ASSUME req'[s].pc \in Leaving PROVE OwnerFits(s)'
    BY DEF OwnerFits
  <2>1. /\ req'[s].pc = "removing" => req'[s].job # NoJob
        /\ req'[s].pc = "leaving" => closed'
    BY <1>5 DEF Base, Ledger, OwnerFits
  <2>2. ASSUME req'[s].job # NoJob
        PROVE  /\ req'[s].job = req[s].job /\ req[s].job \in Job /\ req[s].pc \in Leaving
    <3>1. req[s].pc \in Leaving /\ req'[s].job = req[s].job
      BY <1>5, <2>2 DEF Owns
    <3>2. QED
      BY <2>2, <3>1, OwnerShape DEF Base
  <2>3. ASSUME req'[s].job # NoJob
        PROVE  /\ job[req[s].job] \in Rows
               /\ job[req[s].job].status = "pending" /\ job[req[s].job].kind = "closure"
               /\ builder[req[s].job] = NoBuilder
               /\ \A m \in mails : m.job # req[s].job
               /\ \A o \in Request : Owns(o, req[s].job) => o = s
    BY <2>2, <2>3 DEF Base, Ledger, OwnerFits
  <2>4. ASSUME req'[s].job # NoJob, NEW o \in Request,
               req'[o].pc \in Leaving, req'[o].job = req'[s].job
        PROVE  o = s
    <3>1. Owns(o, req[s].job)
      <4>1. req'[o].pc \in Leaving /\ req'[o].job = req[s].job
        BY <2>2, <2>4
      <4>2. req[s].job \in Job
        BY <2>2, <2>4
      <4>3. req'[o].job # NoJob
        BY <4>1, <4>2 DEF Job, NoJob
      <4>4. req[o].pc \in Leaving /\ req[o].job = req'[o].job
        BY <1>5, <4>1, <4>3 DEF Owns
      <4>5. QED
        BY <4>1, <4>4 DEF Owns
    <3>2. QED
      BY <2>3, <2>4, <3>1
  <2>5. QED
    BY <2>1, <2>2, <2>3, <2>4 DEF OwnerFits, Owns
<1>8. Ledger'
  BY <1>2, <1>3, <1>4, <1>7 DEF Ledger, Base
<1>9. QED
  BY <1>1, <1>8 DEF Base

\* A build that goes on, and its row with it.
LEMMA BuilderStep ==
    ASSUME Base, NEW j \in Job, builder[j] # NoBuilder,
           NEW k \in Rows, k.kind = job[j].kind, Stored(j) \/ k.status = "removed",
           NEW b \in {NoBuilder} \cup Builders,
           job' = [job EXCEPT ![j] = k], builder' = [builder EXCEPT ![j] = b],
           UNCHANGED <<now, closed, req, mails, promised>>, faults' \in 0..MaxFaults,
           BuilderFits(j)'
    PROVE  Base'
<1>1. TypeOK'
  BY DEF Base, TypeOK
<1>2. /\ job'[j] = k /\ \A i \in Job : i # j => job'[i] = job[i] /\ builder'[i] = builder[i]
  BY DEF Base, TypeOK
<1>3. \A i \in Job : BuilderFits(i)'
  <2> TAKE i \in Job
  <2>1. CASE i = j
    BY <2>1
  <2>2. CASE i # j
    BY <1>2, <2>2 DEF Base, Ledger, BuilderFits, Kept
  <2>3. QED
    BY <2>1, <2>2
<1>4. \A r \in Request : OwnerFits(r)'
  <2> TAKE r \in Request
  <2>1. OwnerFits(r)
    BY DEF Base, Ledger
  <2>2. req[r].pc \in Leaving /\ req[r].job # NoJob => req[r].job \in Job /\ req[r].job # j
    BY <2>1, OwnerShape DEF OwnerFits, Base
  <2>3. QED
    BY <1>2, <2>1, <2>2 DEF OwnerFits, Owns
<1>5. \A m \in mails : MailFits(m)'
  <2> TAKE m \in mails
  <2>1. MailFits(m) /\ m.job \in Job
    BY DEF Base, Ledger, TypeOK
  <2>2. m.job # j
    BY <2>1 DEF MailFits
  <2>3. QED
    BY <1>2, <2>1, <2>2 DEF MailFits, Kept, Stored
<1>6. \A i \in Job : Closure(i)' => Closure(i)
  BY <1>2 DEF Closure, Stored
<1>7. OneClosure'
  BY <1>6 DEF OneClosure, Base, Ledger
<1>8. QED
  BY <1>1, <1>3, <1>4, <1>5, <1>7 DEF Base, Ledger

-----------------------------------------------------------------------------
(* The actions of a request.                                               *)

LEMMA AskForExportBase ==
    ASSUME Base, NEW r \in Request, AskForExport(r)
    PROVE  Base'
<1> DEFINE q == [pc |-> "creating", at |-> now]
<1>1. q \in Requests /\ q.pc \notin Leaving
  BY DEF Base, TypeOK, Requests, Leaving
<1>2. req' = [req EXCEPT ![r] = q]
  BY DEF AskForExport, Goes
<1>3. /\ UNCHANGED <<now, job, builder, mails>> /\ promised' \in BOOLEAN
      /\ closed' \in BOOLEAN /\ (closed => closed') /\ faults' \in 0..MaxFaults
  BY DEF AskForExport, Base, TypeOK
<1> HIDE DEF q
<1>4. QED
  BY <1>1, <1>2, <1>3, RequestStep

LEMMA AskToCloseBase ==
    ASSUME Base, NEW r \in Request, NEW copy \in BOOLEAN, AskToClose(r, copy)
    PROVE  Base'
<1>1. PICK q \in {[pc |-> "queueing"], [pc |-> "closing", copy |-> FALSE, job |-> NoJob]} :
         req' = [req EXCEPT ![r] = q]
  BY DEF AskToClose, Goes
<1>2. q \in Requests /\ (q.pc \in Leaving => q.pc = "closing" /\ q.job = NoJob)
  <2>1. CASE q = [pc |-> "queueing"]
    BY <2>1 DEF Requests, Leaving
  <2>2. CASE q = [pc |-> "closing", copy |-> FALSE, job |-> NoJob]
    <3>1. q \in [pc : Leaving, copy : BOOLEAN, job : Job \cup {NoJob}]
      BY <2>2 DEF Leaving
    <3>2. QED
      BY <2>2, <3>1 DEF Requests
  <2>3. QED
    BY <2>1, <2>2
<1>3. /\ UNCHANGED <<now, job, builder, mails>> /\ promised' \in BOOLEAN
      /\ closed' \in BOOLEAN /\ (closed => closed') /\ faults' \in 0..MaxFaults
  BY DEF AskToClose, Base, TypeOK
<1>4. QED
  BY <1>1, <1>2, <1>3, RequestStep

LEMMA DeleteAccountBase ==
    ASSUME Base, NEW r \in Request, DeleteAccount(r)
    PROVE  Base'
<1> DEFINE q == [req[r] EXCEPT !.pc = "leaving"]
<1>1. req[r].pc = "closing" /\ req[r] \in [pc : Leaving, copy : BOOLEAN, job : Job \cup {NoJob}]
  BY OwnerShape DEF DeleteAccount, Base, Leaving
<1>2. q \in Requests /\ q.pc = "leaving" /\ q.job = req[r].job
  BY <1>1 DEF Requests, Leaving
<1>3. Owns(r, q.job)
  BY <1>1, <1>2 DEF Owns
<1>4. req' = [req EXCEPT ![r] = q] /\ closed' = TRUE
  BY DEF DeleteAccount, Goes
<1>5. /\ UNCHANGED <<now, job, builder, mails>> /\ promised' \in BOOLEAN
      /\ faults' \in 0..MaxFaults
  BY DEF DeleteAccount, Base, TypeOK
<1> HIDE DEF q
<1>6. QED
  BY <1>2, <1>3, <1>4, <1>5, RequestStep

LEMMA FaultTyped == TypeOK /\ Fault => faults' \in 0..MaxFaults
BY Numbers DEF TypeOK, Fault

LEMMA DeleteAccountFailsBase ==
    ASSUME Base, NEW r \in Request, DeleteAccountFails(r)
    PROVE  Base'
<1> DEFINE q == IF req[r].job = NoJob THEN Idle ELSE [req[r] EXCEPT !.pc = "removing"]
<1>1. req[r].pc = "closing" /\ req[r] \in [pc : Leaving, copy : BOOLEAN, job : Job \cup {NoJob}]
  BY OwnerShape DEF DeleteAccountFails, Base, Leaving
<1>2. q \in Requests /\ (q.pc \in Leaving => q.pc = "removing" /\ q.job = req[r].job /\ q.job # NoJob)
  BY <1>1 DEF Requests, Leaving, Idle
<1>3. Owns(r, req[r].job)
  BY <1>1 DEF Owns
<1>4. req' = [req EXCEPT ![r] = q]
  BY DEF DeleteAccountFails, Goes
<1>5. /\ UNCHANGED <<now, job, builder, mails>> /\ promised' \in BOOLEAN
      /\ closed' \in BOOLEAN /\ (closed => closed') /\ faults' \in 0..MaxFaults
  BY FaultTyped DEF DeleteAccountFails, Base, TypeOK
<1> HIDE DEF q
<1>6. QED
  BY <1>2, <1>3, <1>4, <1>5, RequestStep

LEMMA RequestFailsBase ==
    ASSUME Base, NEW r \in Request, RequestFails(r)
    PROVE  Base'
<1>1. Idle \in Requests /\ Idle.pc \notin Leaving
  BY DEF Requests, Idle, Leaving
<1>2. req' = [req EXCEPT ![r] = Idle]
  BY DEF RequestFails, Goes
<1>3. /\ UNCHANGED <<now, job, builder, mails>> /\ promised' \in BOOLEAN
      /\ closed' \in BOOLEAN /\ (closed => closed') /\ faults' \in 0..MaxFaults
  BY FaultTyped DEF RequestFails, Base, TypeOK
<1>4. QED
  BY <1>1, <1>2, <1>3, RequestStep

\* A row that is free is nobody's.
LEMMA FreeIsNobodys ==
    ASSUME Base, NEW n \in Job, job[n] = Free
    PROVE  /\ builder[n] = NoBuilder
           /\ \A m \in mails : m.job # n
           /\ \A r \in Request : ~Owns(r, n)
<1>1. job[n] \notin Rows
  BY DEF Free, Rows
<1>2. n # NoJob
  BY DEF Job, NoJob
<1>3. QED
  BY <1>1, <1>2 DEF Base, Ledger, BuilderFits, MailFits, OwnerFits, Owns

\* A row that appears, its build begun if it is the workspace's export.
LEMMA NewRow ==
    ASSUME Base, NEW r \in Request, NEW n \in Job, job[n] = Free,
           NEW k \in Rows, k.status = "pending", k.kind = "closure" => ~\E j \in Job : Closure(j),
           NEW q \in Requests, NEW b \in {NoBuilder} \cup Builders,
           req[r].pc \notin Leaving,
           job' = [job EXCEPT ![n] = k], req' = [req EXCEPT ![r] = q],
           builder' = [builder EXCEPT ![n] = b],
           UNCHANGED <<now, closed, mails, promised, faults>>,
           b # NoBuilder => b.pc = "claiming" /\ k.kind = "account",
           q.pc \in Leaving => q.pc = "closing" /\ q.job = n /\ k.kind = "closure" /\ b = NoBuilder
    PROVE  Base'
<1>1. TypeOK'
  BY RequestsTyped DEF Base, TypeOK, Requests, Leaving
<1>2. /\ job'[n] = k /\ builder'[n] = b /\ req'[r] = q
      /\ \A i \in Job : i # n => job'[i] = job[i] /\ builder'[i] = builder[i]
      /\ \A s \in Request : s # r => req'[s] = req[s]
  BY DEF Base, TypeOK
<1>3. \A i \in Job : BuilderFits(i)'
  <2> TAKE i \in Job
  <2>1. CASE i = n
    BY <1>2, <2>1 DEF BuilderFits
  <2>2. CASE i # n
    BY <1>2, <2>2 DEF Base, Ledger, BuilderFits, Kept
  <2>3. QED
    BY <2>1, <2>2
<1>4. \A s \in Request : OwnerFits(s)'
  <2> TAKE s \in Request
  <2> SUFFICES ASSUME req'[s].pc \in Leaving PROVE OwnerFits(s)'
    BY DEF OwnerFits
  <2>1. CASE s = r
    <3>1. /\ req'[s].pc = "closing" /\ req'[s].job = n /\ job'[n] = k /\ builder'[n] = NoBuilder
          /\ k.kind = "closure" /\ mails' = mails
      BY <1>2, <2>1
    <3>2. ASSUME NEW o \in Request, req'[o].pc \in Leaving, req'[o].job = n PROVE o = s
      BY <1>2, <2>1, <3>2, FreeIsNobodys DEF Owns
    <3>3. \A m \in mails : m.job # n
      BY FreeIsNobodys
    <3>4. QED
      BY <3>1, <3>2, <3>3 DEF OwnerFits, Owns
  <2>2. CASE s # r
    <3>1. OwnerFits(s) /\ req'[s] = req[s] /\ req[s].pc \in Leaving
      BY <1>2, <2>2 DEF Base, Ledger
    <3>2. req[s].job # NoJob => req[s].job \in Job /\ req[s].job # n
      BY <3>1, OwnerShape, FreeIsNobodys DEF Base, Owns
    <3>3. ASSUME req[s].job # NoJob, NEW o \in Request,
                 req'[o].pc \in Leaving, req'[o].job = req[s].job
          PROVE  o = s
      <4>1. o # r
        BY <1>2, <3>2, <3>3
      <4>2. QED
        BY <1>2, <3>1, <3>3, <4>1 DEF OwnerFits, Owns
    <3>4. QED
      BY <1>2, <3>1, <3>2, <3>3 DEF OwnerFits, Owns
  <2>3. QED
    BY <2>1, <2>2
<1>5. \A m \in mails : MailFits(m)'
  <2> TAKE m \in mails
  <2>1. MailFits(m) /\ m.job \in Job /\ m.job # n
    BY FreeIsNobodys DEF Base, Ledger, TypeOK
  <2>2. QED
    BY <1>2, <2>1 DEF MailFits, Kept, Stored
<1>6. \A i \in Job : Closure(i)' => (i = n /\ k.kind = "closure") \/ Closure(i)
  BY <1>2 DEF Closure, Stored
<1>7. OneClosure'
  BY <1>6 DEF OneClosure, Base, Ledger
<1>8. QED
  BY <1>1, <1>3, <1>4, <1>5, <1>7 DEF Base, Ledger

LEMMA CreateExportJobBase ==
    ASSUME Base, NEW r \in Request, CreateExportJob(r)
    PROVE  Base'
<1> DEFINE k == [status |-> "pending", kind |-> "account", created |-> req[r].at,
                 expires |-> 0, archive |-> FALSE]
           b == [pc |-> "claiming", until |-> now + BuildTimeout]
<1>1. NextJob \in Job /\ job[NextJob] = Free
  BY NextIsFree DEF CreateExportJob
<1>2. req[r].pc = "creating" /\ req[r].at \in Time
  BY RequestsTyped DEF CreateExportJob, Base, Requests, Leaving, Idle
<1>3. k \in Rows /\ k.status = "pending" /\ k.kind = "account"
  BY <1>2, Numbers DEF Rows
<1>4. b \in Builders /\ b.pc = "claiming"
  BY Numbers DEF Builders, Base, TypeOK, Time
<1>5. Idle \in Requests /\ Idle.pc \notin Leaving /\ req[r].pc \notin Leaving
  BY <1>2 DEF Requests, Idle, Leaving
<1>6. /\ job' = [job EXCEPT ![NextJob] = k] /\ builder' = [builder EXCEPT ![NextJob] = b]
      /\ req' = [req EXCEPT ![r] = Idle]
      /\ UNCHANGED <<now, closed, mails, promised, faults>>
  BY DEF CreateExportJob, Builds, Goes
<1> HIDE DEF k, b
<1>7. QED
  BY <1>1, <1>3, <1>4, <1>5, <1>6, NewRow

\* Nothing is queued but where no closure export is stored.
LEMMA QueuesAlone ==
    ASSUME Base, MayQueue
    PROVE  ~\E j \in Job : Closure(j)
<1> SUFFICES ASSUME NEW j \in Job, Closure(j) PROVE FALSE
  OBVIOUS
<1>1. \A i \in Job : Stored(i) /\ job[i].kind = "closure" => i <= j
  BY Numbers DEF Base, Ledger, OneClosure, Closure, Job
<1>2. j \in Latest("closure")
  BY <1>1 DEF Latest, Closure
<1>3. QED
  BY <1>2 DEF MayQueue

LEMMA QueueClosureBase ==
    ASSUME Base, NEW r \in Request, QueueClosure(r)
    PROVE  Base'
<1>1. req[r].pc = "queueing" /\ req[r].pc \notin Leaving
  BY DEF QueueClosure, Leaving
<1>2. CASE MayQueue
  <2> DEFINE k == [status |-> "pending", kind |-> "closure", created |-> now,
                   expires |-> now + ClosureTTL, archive |-> FALSE]
             q == [pc |-> "closing", copy |-> TRUE, job |-> NextJob]
  <2>1. /\ NextJob \in Job /\ job[NextJob] = Free
        /\ job' = [job EXCEPT ![NextJob] = k] /\ req' = [req EXCEPT ![r] = q]
        /\ UNCHANGED <<now, builder, closed, mails, promised, faults>>
    BY <1>2, NextIsFree DEF QueueClosure, Goes
  <2>2. k \in Rows /\ k.status = "pending" /\ k.kind = "closure"
    BY Numbers DEF Rows, Base, TypeOK, Time
  <2>3. q \in Requests /\ q.pc = "closing" /\ q.job = NextJob
    BY <2>1 DEF Requests, Leaving
  <2>4. builder[NextJob] = NoBuilder /\ builder' = [builder EXCEPT ![NextJob] = NoBuilder]
    BY <2>1, FreeIsNobodys DEF Base, TypeOK
  <2>5. ~\E j \in Job : Closure(j)
    BY <1>2, QueuesAlone
  <2> HIDE DEF k, q
  <2>6. QED
    BY <1>1, <2>1, <2>2, <2>3, <2>4, <2>5, NewRow
<1>3. CASE ~MayQueue
  <2> DEFINE q == [pc |-> "closing", copy |-> TRUE, job |-> NoJob]
  <2>1. q \in Requests /\ q.pc = "closing" /\ q.job = NoJob
    BY DEF Requests, Leaving
  <2>2. /\ req' = [req EXCEPT ![r] = q]
        /\ UNCHANGED <<now, job, builder, closed, mails, promised, faults>>
    BY <1>3 DEF QueueClosure, Goes
  <2>3. closed' \in BOOLEAN /\ faults' \in 0..MaxFaults /\ promised' \in BOOLEAN
    BY <2>2 DEF Base, TypeOK
  <2> HIDE DEF q
  <2>4. QED
    BY <2>1, <2>2, <2>3, RequestStep
<1>4. QED
  BY <1>2, <1>3

\* The request's own job, which it lets go of: removed, or taken over by its build.
LEMMA LetsGo ==
    ASSUME Base, NEW r \in Request, NEW j \in Job, Owns(r, j),
           NEW k \in Rows, k.kind = "closure", k.status \in {"pending", "removed"},
           NEW b \in {NoBuilder} \cup Builders,
           job' = [job EXCEPT ![j] = k], builder' = [builder EXCEPT ![j] = b],
           req' = [req EXCEPT ![r] = Idle], promised' \in BOOLEAN,
           UNCHANGED <<now, closed, mails, faults>>,
           b # NoBuilder => b.pc = "claiming" /\ k.status = "pending" /\ closed
    PROVE  Base'
<1>1. TypeOK'
  BY RequestsTyped DEF Base, TypeOK, Requests, Leaving
<1>2. /\ job'[j] = k /\ builder'[j] = b /\ req'[r] = Idle
      /\ \A i \in Job : i # j => job'[i] = job[i] /\ builder'[i] = builder[i]
      /\ \A s \in Request : s # r => req'[s] = req[s]
  BY DEF Base, TypeOK
<1>3. /\ job[j] \in Rows /\ job[j].kind = "closure" /\ job[j].status = "pending"
      /\ builder[j] = NoBuilder
      /\ \A m \in mails : m.job # j
      /\ \A s \in Request : Owns(s, j) => s = r
  BY DEF Base, Ledger, OwnerFits, Owns, Job, NoJob
<1>4. \A i \in Job : BuilderFits(i)'
  <2> TAKE i \in Job
  <2>1. CASE i = j
    BY <1>2, <1>3, <2>1 DEF BuilderFits
  <2>2. CASE i # j
    BY <1>2, <2>2 DEF Base, Ledger, BuilderFits, Kept
  <2>3. QED
    BY <2>1, <2>2
<1>5. \A s \in Request : OwnerFits(s)'
  <2> TAKE s \in Request
  <2> SUFFICES ASSUME req'[s].pc \in Leaving PROVE OwnerFits(s)'
    BY DEF OwnerFits
  <2>1. s # r
    BY <1>2 DEF Idle, Leaving
  <2>2. OwnerFits(s) /\ req'[s] = req[s] /\ req[s].pc \in Leaving
    BY <1>2, <2>1 DEF Base, Ledger
  <2>3. req[s].job # NoJob => req[s].job \in Job /\ req[s].job # j
    BY <1>3, <2>1, <2>2, OwnerShape DEF Base, Owns
  <2>4. ASSUME req[s].job # NoJob, NEW o \in Request,
               req'[o].pc \in Leaving, req'[o].job = req[s].job
        PROVE  o = s
    <3>1. o # r
      BY <1>2, <2>4 DEF Idle, Leaving
    <3>2. QED
      BY <1>2, <2>2, <2>4, <3>1 DEF OwnerFits, Owns
  <2>5. QED
    BY <1>2, <2>2, <2>3, <2>4 DEF OwnerFits, Owns
<1>6. \A m \in mails : MailFits(m)'
  <2> TAKE m \in mails
  <2>1. MailFits(m) /\ m.job \in Job /\ m.job # j
    BY <1>3 DEF Base, Ledger, TypeOK
  <2>2. QED
    BY <1>2, <2>1 DEF MailFits, Kept, Stored
<1>7. \A i \in Job : Closure(i)' => Closure(i)
  BY <1>2, <1>3 DEF Closure, Stored
<1>8. OneClosure'
  BY <1>7 DEF OneClosure, Base, Ledger
<1>9. QED
  BY <1>1, <1>4, <1>5, <1>6, <1>8 DEF Base, Ledger

LEMMA RemoveUnusedBase ==
    ASSUME Base, NEW r \in Request, RemoveUnused(r)
    PROVE  Base'
<1> DEFINE j == req[r].job
           k == [job[j] EXCEPT !.status = "removed"]
<1>1. req[r].pc = "removing" /\ req[r].pc \in Leaving
  BY DEF RemoveUnused, Leaving
<1>2. j \in Job /\ Owns(r, j)
  BY <1>1, OwnerShape DEF Base, Ledger, OwnerFits, Owns
<1>3. job[j] \in Rows /\ job[j].kind = "closure" /\ builder[j] = NoBuilder
  BY <1>1, <1>2 DEF Base, Ledger, OwnerFits, Job, NoJob
<1>4. k \in Rows /\ k.kind = "closure" /\ k.status = "removed"
  BY <1>3 DEF Rows
<1>5. job' = [job EXCEPT ![j] = k]
  BY <1>2 DEF RemoveUnused
<1>6. builder' = [builder EXCEPT ![j] = NoBuilder]
  BY <1>2, <1>3 DEF RemoveUnused, Base, TypeOK
<1>7. /\ req' = [req EXCEPT ![r] = Idle] /\ promised' \in BOOLEAN
      /\ UNCHANGED <<now, closed, mails, faults>>
  BY DEF RemoveUnused, Goes, Base, TypeOK
<1> HIDE DEF j, k
<1>8. QED
  BY <1>2, <1>4, <1>5, <1>6, <1>7, LetsGo

LEMMA SayGoodbyeBase ==
    ASSUME Base, NEW r \in Request, SayGoodbye(r)
    PROVE  Base'
<1> DEFINE j == req[r].job
           b == [pc |-> "claiming", until |-> now + BuildTimeout]
<1>1. req[r].pc = "leaving" /\ req[r].pc \in Leaving /\ closed
  BY DEF SayGoodbye, Leaving, Base, Ledger, OwnerFits
<1>2. /\ req' = [req EXCEPT ![r] = Idle] /\ promised' \in BOOLEAN
      /\ UNCHANGED <<now, job, closed, mails, faults>>
  <2>1. req[r].copy \in BOOLEAN
    BY <1>1, OwnerShape DEF Base
  <2>2. QED
    BY <2>1 DEF SayGoodbye, Goes, Base, TypeOK
<1>3. CASE j = NoJob
  <2>1. Idle \in Requests /\ Idle.pc \notin Leaving /\ UNCHANGED builder
    BY <1>3 DEF Requests, Idle, Leaving, SayGoodbye
  <2>2. closed' \in BOOLEAN /\ faults' \in 0..MaxFaults
    BY <1>2 DEF Base, TypeOK
  <2>3. QED
    BY <1>2, <2>1, <2>2, RequestStep
<1>4. CASE j # NoJob
  <2>1. j \in Job /\ Owns(r, j)
    BY <1>1, <1>4, OwnerShape DEF Base, Owns
  <2>2. job[j] \in Rows /\ job[j].kind = "closure" /\ job[j].status = "pending"
    BY <1>1, <1>4 DEF Base, Ledger, OwnerFits
  <2>3. job' = [job EXCEPT ![j] = job[j]]
    BY <1>2, <2>1 DEF Base, TypeOK
  <2>4. b \in Builders /\ b.pc = "claiming"
    BY Numbers DEF Builders, Base, TypeOK, Time
  <2>5. builder' = [builder EXCEPT ![j] = b]
    BY <1>4 DEF SayGoodbye, Builds
  <2> HIDE DEF j, b
  <2>6. QED
    BY <1>1, <1>2, <2>1, <2>2, <2>3, <2>4, <2>5, LetsGo
<1>5. QED
  BY <1>3, <1>4

-----------------------------------------------------------------------------
(* The actions of a build.                                                 *)

\* What a builder at work may become, and what is known of its row.
LEMMA AtWork ==
    ASSUME Base, NEW j \in Job, builder[j].pc # "none"
    PROVE  /\ builder[j] # NoBuilder /\ builder[j].until \in 0..(MaxTime + BuildTimeout)
           /\ job[j] \in Rows /\ BuilderFits(j)
           /\ job' = job => job' = [job EXCEPT ![j] = job[j]]
<1>1. builder[j] # NoBuilder /\ builder[j] \in Builders
  BY BuilderShape DEF Base
<1>2. BuilderFits(j)
  BY DEF Base, Ledger
<1>3. job[j] \in Rows
  BY <1>1, <1>2 DEF BuilderFits
<1>4. QED
  BY <1>1, <1>2, <1>3 DEF Builders, Base, TypeOK

LEMMA ClaimBase ==
    ASSUME Base, NEW j \in Job, Claim(j)
    PROVE  Base'
<1> DEFINE k == [job[j] EXCEPT !.status = "running"]
           b == [pc |-> "building", until |-> builder[j].until]
<1>1. builder[j].pc = "claiming" /\ job[j].status = "pending"
  BY DEF Claim
<1>2. builder[j] # NoBuilder /\ job[j] \in Rows /\ BuilderFits(j) /\ b \in Builders
  BY <1>1, AtWork DEF Builders
<1>3. k \in Rows /\ k.kind = job[j].kind /\ k.status = "running" /\ Stored(j)
  BY <1>1, <1>2 DEF Rows, Stored
<1>4. /\ job' = [job EXCEPT ![j] = k] /\ builder' = [builder EXCEPT ![j] = b]
      /\ UNCHANGED <<now, closed, req, mails, promised>> /\ faults' \in 0..MaxFaults
  BY DEF Claim, BuilderGoes, Base, TypeOK
<1>5. b.pc = "building"
  OBVIOUS
<1> HIDE DEF k, b
<1>6. BuilderFits(j)'
  <2>1. job'[j] = k /\ builder'[j] = b
    BY <1>4 DEF Base, TypeOK
  <2>2. QED
    BY <1>2, <1>3, <1>4, <1>5, <2>1 DEF BuilderFits
<1>7. QED
  BY <1>2, <1>3, <1>4, <1>6, BuilderStep

LEMMA BuildBase ==
    ASSUME Base, NEW j \in Job, Build(j)
    PROVE  Base'
<1>1. PICK pc \in {"storing", "failing"} : BuilderGoes(j, pc)
  BY DEF Build
<1> DEFINE b == [pc |-> pc, until |-> builder[j].until]
<1>2. builder[j].pc = "building"
  BY DEF Build
<1>3. /\ builder[j] # NoBuilder /\ job[j] \in Rows /\ BuilderFits(j) /\ b \in Builders
      /\ job' = [job EXCEPT ![j] = job[j]]
  BY <1>2, AtWork DEF Builders, Build
<1>4. job[j].status = "running" /\ Stored(j)
  BY <1>2, <1>3 DEF BuilderFits, Stored
<1>5. /\ builder' = [builder EXCEPT ![j] = b]
      /\ UNCHANGED <<now, closed, req, mails, promised>> /\ faults' \in 0..MaxFaults
      /\ b.pc \in {"storing", "failing"}
  BY <1>1 DEF Build, BuilderGoes, Base, TypeOK
<1> HIDE DEF b
<1>6. BuilderFits(j)'
  <2>1. job'[j] = job[j] /\ builder'[j] = b
    BY <1>3, <1>5 DEF Base, TypeOK
  <2>2. QED
    BY <1>3, <1>4, <1>5, <2>1 DEF BuilderFits
<1>7. QED
  BY <1>3, <1>4, <1>5, <1>6, BuilderStep

LEMMA StoreBase ==
    ASSUME Base, NEW j \in Job, Store(j)
    PROVE  Base'
<1> DEFINE k == [job[j] EXCEPT !.status = "ready", !.archive = TRUE,
                     !.expires = IF job[j].kind = "account" THEN now + TTL ELSE job[j].expires]
           b == IF job[j].kind = "account" THEN NoBuilder
                ELSE [pc |-> "linking", until |-> builder[j].until]
<1>1. builder[j].pc = "storing"
  BY DEF Store
<1>2. builder[j] # NoBuilder /\ job[j] \in Rows /\ BuilderFits(j) /\ b \in {NoBuilder} \cup Builders
  BY <1>1, AtWork DEF Builders
<1>3. job[j].status = "running" /\ Stored(j)
  BY <1>1, <1>2 DEF BuilderFits, Stored
<1>4. k \in Rows /\ k.kind = job[j].kind /\ k.status = "ready" /\ k.archive
  <2>1. now + TTL \in 0..(MaxTime + TTL + ClosureTTL)
    BY Numbers DEF Base, TypeOK, Time
  <2>2. QED
    BY <1>2, <2>1 DEF Rows
<1>5. job' = [job EXCEPT ![j] = k]
  BY <1>3 DEF Store, Finish
<1>6. /\ builder' = [builder EXCEPT ![j] = b]
      /\ UNCHANGED <<now, closed, req, mails, promised>> /\ faults' \in 0..MaxFaults
  BY DEF Store, BuilderGoes, BuilderEnds, Base, TypeOK
<1>7. b = NoBuilder \/ (b.pc = "linking" /\ job[j].kind = "closure")
  BY <1>2 DEF Rows
<1> HIDE DEF k, b
<1>8. BuilderFits(j)'
  <2>1. job'[j] = k /\ builder'[j] = b
    BY <1>5, <1>6 DEF Base, TypeOK
  <2>2. QED
    BY <1>2, <1>4, <1>6, <1>7, <2>1 DEF BuilderFits, Kept
<1>9. QED
  BY <1>2, <1>3, <1>4, <1>5, <1>6, <1>8, BuilderStep

LEMMA FailBase ==
    ASSUME Base, NEW j \in Job, Fail(j) \/ StoreFails(j)
    PROVE  Base'
<1> DEFINE b == IF job[j].kind = "account" THEN NoBuilder
                ELSE [pc |-> "explaining", until |-> builder[j].until]
<1>1. builder[j].pc \in {"failing", "storing"}
  BY DEF Fail, StoreFails
<1>2. /\ builder[j] # NoBuilder /\ job[j] \in Rows /\ BuilderFits(j) /\ b \in {NoBuilder} \cup Builders
      /\ job' = job => job' = [job EXCEPT ![j] = job[j]]
  BY <1>1, AtWork DEF Builders
<1>3. job[j].status = "running" /\ Stored(j)
  BY <1>1, <1>2 DEF BuilderFits, Stored
<1>4. PICK k \in {job[j], [job[j] EXCEPT !.status = "failed"]} : job' = [job EXCEPT ![j] = k]
  <2>1. job' = job \/ job' = [job EXCEPT ![j].status = "failed"]
    BY DEF Fail, StoreFails
  <2>2. QED
    BY <1>2, <2>1
<1>5. k \in Rows /\ k.kind = job[j].kind /\ k.status \in {"running", "failed"}
  BY <1>2, <1>3 DEF Rows
<1>6. /\ builder' = [builder EXCEPT ![j] = b]
      /\ UNCHANGED <<now, closed, req, mails, promised>>
  BY DEF Fail, StoreFails, BuilderGoes, BuilderEnds
<1>7. faults' \in 0..MaxFaults
  BY FaultTyped DEF Fail, StoreFails, Base, TypeOK
<1>8. b = NoBuilder \/ (b.pc = "explaining" /\ job[j].kind = "closure")
  BY <1>2 DEF Rows
<1> HIDE DEF b
<1>9. BuilderFits(j)'
  <2>1. job'[j] = k /\ builder'[j] = b
    BY <1>4, <1>6 DEF Base, TypeOK
  <2>2. QED
    BY <1>2, <1>5, <1>6, <1>8, <2>1 DEF BuilderFits
<1>10. QED
  BY <1>2, <1>3, <1>4, <1>5, <1>6, <1>7, <1>9, BuilderStep

LEMMA BuilderGivesUpBase ==
    ASSUME Base, NEW j \in Job, BuilderGivesUp(j)
    PROVE  Base'
<1>1. builder[j].pc \in {"claiming", "linking", "explaining"}
  BY DEF BuilderGivesUp
<1>2. /\ builder[j] # NoBuilder /\ job[j] \in Rows /\ BuilderFits(j)
      /\ job' = [job EXCEPT ![j] = job[j]]
  BY <1>1, AtWork DEF BuilderGivesUp
<1>3. Stored(j)
  BY <1>1, <1>2 DEF BuilderFits, Kept, Stored
<1>4. /\ builder' = [builder EXCEPT ![j] = NoBuilder]
      /\ UNCHANGED <<now, closed, req, mails, promised>>
  BY DEF BuilderGivesUp, BuilderEnds
<1>5. faults' \in 0..MaxFaults
  BY FaultTyped DEF BuilderGivesUp, Base, TypeOK
<1>6. BuilderFits(j)'
  BY <1>4 DEF BuilderFits, Base, TypeOK
<1>7. QED
  BY <1>2, <1>3, <1>4, <1>5, <1>6, BuilderStep

\* The one mail: its job has had none, and there is no other closure export.
LEMMA SendClosureEmailBase ==
    ASSUME Base, NEW j \in Job, SendClosureEmail(j)
    PROVE  Base' /\ mails = {}
<1>1. builder[j].pc \in {"linking", "explaining"}
  BY DEF SendClosureEmail
<1>2. builder[j] # NoBuilder /\ job[j] \in Rows /\ BuilderFits(j)
  BY <1>1, AtWork
<1>3. /\ job[j].kind = "closure" /\ Closure(j) /\ closed
      /\ \A m \in mails : m.job # j
      /\ builder[j].pc = "linking" => Kept(j)
  BY <1>1, <1>2 DEF BuilderFits, Kept, Closure, Stored
<1>4. mails = {}
  <2>1. ASSUME NEW m \in mails PROVE FALSE
    <3>1. MailFits(m) /\ m.job \in Job
      BY DEF Base, Ledger, TypeOK
    <3>2. Closure(m.job)
      BY <3>1 DEF MailFits, Closure
    <3>3. m.job = j
      BY <1>3, <3>1, <3>2 DEF Base, Ledger, OneClosure
    <3>4. QED
      BY <1>3, <3>3
  <2>2. QED
    BY <2>1
<1>5. PICK mail \in [job : Job, says : {"link", "reason"}] :
         /\ mails' = {mail} /\ mail.job = j
         /\ mail.says = "link" => builder[j].pc = "linking"
  <2> DEFINE new == [job |-> j, says |-> Says(j)]
  <2>1. new \in [job : Job, says : {"link", "reason"}] /\ new.job = j
    BY DEF Says
  <2>2. new.says = "link" => builder[j].pc = "linking"
    BY DEF Says
  <2>3. mails' = {new}
    BY <1>4 DEF SendClosureEmail
  <2> HIDE DEF new
  <2>4. QED
    BY <2>1, <2>2, <2>3
<1>6. /\ builder' = [builder EXCEPT ![j] = NoBuilder]
      /\ UNCHANGED <<now, job, closed, req, promised, faults>>
  BY DEF SendClosureEmail, BuilderEnds
<1>7. TypeOK'
  BY <1>5, <1>6 DEF Base, TypeOK
<1>8. builder'[j] = NoBuilder /\ \A i \in Job : i # j => builder'[i] = builder[i]
  BY <1>6 DEF Base, TypeOK
<1>9. \A i \in Job : BuilderFits(i)'
  <2> TAKE i \in Job
  <2>1. CASE i = j
    BY <1>8, <2>1 DEF BuilderFits
  <2>2. CASE i # j
    BY <1>5, <1>6, <1>8, <2>2 DEF Base, Ledger, BuilderFits, Kept
  <2>3. QED
    BY <2>1, <2>2
<1>10. \A r \in Request : OwnerFits(r)'
  <2> TAKE r \in Request
  <2>1. OwnerFits(r)
    BY DEF Base, Ledger
  <2>2. req[r].pc \in Leaving /\ req[r].job # NoJob => req[r].job \in Job /\ req[r].job # j
    BY <1>2, <2>1, OwnerShape DEF OwnerFits, Base
  <2>3. QED
    BY <1>5, <1>6, <1>8, <2>1, <2>2 DEF OwnerFits, Owns
<1>11. MailFits(mail)'
  <2>1. /\ job'[j] = job[j] /\ builder'[j] = NoBuilder /\ now' = now /\ closed' = closed
    BY <1>6, <1>8 DEF SendClosureEmail
  <2>2. QED
    BY <1>2, <1>3, <1>5, <2>1 DEF MailFits, Closure, Stored, Kept
<1>12. OneClosure'
  BY <1>6 DEF Base, Ledger, OneClosure, Closure, Stored
<1>13. (\A m \in mails' : MailFits(m)') /\ \A m, n \in mails' : m = n
  BY <1>5, <1>11
<1>14. QED
  BY <1>4, <1>7, <1>9, <1>10, <1>12, <1>13 DEF Base, Ledger

-----------------------------------------------------------------------------
(* Crashes, the purge, time.                                               *)

LEMMA CrashBase == Base /\ Crash => Base'
<1> SUFFICES ASSUME Base, Crash PROVE Base'
  OBVIOUS
<1>1. /\ \A r \in Request : req'[r] = Idle
      /\ \A j \in Job : builder'[j] = NoBuilder
      /\ UNCHANGED <<now, job, closed, mails, promised>>
  BY DEF Crash
<1>2. TypeOK'
  <2>1. req' \in [Request -> Requests]
    BY DEF Crash, Requests
  <2>2. builder' \in [Job -> {NoBuilder} \cup Builders]
    BY DEF Crash
  <2>3. faults' \in 0..MaxFaults
    BY FaultTyped DEF Crash, Base
  <2>4. QED
    BY <1>1, <2>1, <2>2, <2>3, RequestsTyped DEF Base, TypeOK, Requests, Leaving
<1>3. \A r \in Request : OwnerFits(r)'
  BY <1>1 DEF OwnerFits, Idle, Leaving
<1>4. \A j \in Job : BuilderFits(j)'
  BY <1>1 DEF BuilderFits
<1>5. \A m \in mails : MailFits(m)'
  <2> TAKE m \in mails
  <2>1. MailFits(m) /\ m.job \in Job
    BY DEF Base, Ledger, TypeOK
  <2>2. QED
    BY <1>1, <2>1 DEF MailFits, Kept, Stored
<1>6. OneClosure'
  BY <1>1 DEF Base, Ledger, OneClosure, Closure, Stored
<1>7. QED
  BY <1>1, <1>2, <1>3, <1>4, <1>5, <1>6 DEF Base, Ledger

\* A row keeps all but its archive, and that until it expires.
LEMMA PurgeArchivesBase == Base /\ PurgeArchives => Base'
<1> SUFFICES ASSUME Base, PurgeArchives PROVE Base'
  OBVIOUS
<1>1. UNCHANGED <<now, builder, closed, req, mails, promised, faults>>
  BY DEF PurgeArchives
<1>2. ASSUME NEW j \in Job
      PROVE  /\ job'[j] \in Rows <=> job[j] \in Rows
             /\ job'[j].status = job[j].status
             /\ job[j] \in Rows => job'[j].kind = job[j].kind /\ job'[j].expires = job[j].expires
             /\ job[j] \in Rows /\ job'[j].archive # job[j].archive => job[j].expires < now
             /\ job'[j] \in {Free} \cup Rows
  <2>1. CASE Stored(j) /\ Expired(j)
    <3>1. job[j] \in Rows
      BY <2>1, RowShape DEF Base, Stored
    <3>2. job'[j] = [job[j] EXCEPT !.archive = FALSE]
      BY <2>1 DEF PurgeArchives
    <3>3. QED
      BY <2>1, <3>1, <3>2 DEF Rows, Expired
  <2>2. CASE ~(Stored(j) /\ Expired(j))
    <3>1. job'[j] = job[j]
      BY <2>2 DEF PurgeArchives
    <3>2. QED
      BY <3>1 DEF Base, TypeOK
  <2>3. QED
    BY <2>1, <2>2
<1>3. TypeOK'
  <2>1. job' \in [Job -> {Free} \cup Rows]
    BY <1>2 DEF PurgeArchives
  <2>2. QED
    BY <1>1, <2>1 DEF Base, TypeOK
<1>4. ASSUME NEW j \in Job, job[j] \in Rows, Kept(j) PROVE Kept(j)'
  <2>1. job[j].expires \in Nat /\ now \in Nat /\ job[j].archive \in BOOLEAN
    BY <1>4, Numbers DEF Rows, Base, TypeOK, Time
  <2>2. now' = now /\ job'[j].status = "ready" /\ job'[j].expires = job[j].expires
    BY <1>1, <1>2, <1>4 DEF Kept
  <2>3. ASSUME now < job[j].expires PROVE job'[j].archive
    <3>1. job[j].archive
      BY <1>4, <2>3 DEF Kept
    <3>2. ~(job[j].expires < now)
      BY <2>1, <2>3
    <3>3. job'[j].archive = job[j].archive
      BY <1>2, <1>4, <3>2
    <3>4. QED
      BY <3>1, <3>3
  <2>4. QED
    BY <2>2, <2>3 DEF Kept
<1>5. \A j \in Job : BuilderFits(j)'
  <2> TAKE j \in Job
  <2>1. CASE builder[j] = NoBuilder
    BY <1>1, <2>1 DEF BuilderFits
  <2>2. CASE builder[j] # NoBuilder
    <3>1. BuilderFits(j) /\ job[j] \in Rows
      BY <2>2 DEF Base, Ledger, BuilderFits
    <3>2. QED
      BY <1>1, <1>2, <1>4, <2>2, <3>1 DEF BuilderFits
  <2>3. QED
    BY <2>1, <2>2
<1>6. \A r \in Request : OwnerFits(r)'
  <2> TAKE r \in Request
  <2>1. OwnerFits(r)
    BY DEF Base, Ledger
  <2>2. req[r].pc \in Leaving /\ req[r].job # NoJob => req[r].job \in Job
    BY OwnerShape DEF Base
  <2>3. QED
    BY <1>1, <1>2, <2>1, <2>2 DEF OwnerFits, Owns
<1>7. \A m \in mails : MailFits(m)'
  <2> TAKE m \in mails
  <2>1. MailFits(m) /\ m.job \in Job
    BY DEF Base, Ledger, TypeOK
  <2>2. QED
    BY <1>1, <1>2, <1>4, <2>1 DEF MailFits, Stored
<1>8. \A i \in Job : Closure(i)' => Closure(i)
  <2> TAKE i \in Job
  <2>1. CASE job[i] \in Rows
    BY <1>2, <2>1 DEF Closure, Stored
  <2>2. CASE job[i] \notin Rows
    BY <1>2, <2>2, RowShape DEF Closure, Stored, Base, Free
  <2>3. QED
    BY <2>1, <2>2
<1>9. OneClosure'
  BY <1>8 DEF OneClosure, Base, Ledger
<1>10. QED
  BY <1>1, <1>3, <1>5, <1>6, <1>7, <1>9 DEF Base, Ledger

LEMMA TickBase == Base /\ Tick => Base'
<1> SUFFICES ASSUME Base, Tick PROVE Base'
  OBVIOUS
<1>1. UNCHANGED <<job, builder, closed, req, mails, promised, faults>> /\ now' = now + 1
  BY DEF Tick
<1>2. now \in Nat /\ now' \in Time
  BY Numbers DEF Tick, Base, TypeOK, Time
<1>3. TypeOK'
  BY <1>1, <1>2 DEF Base, TypeOK
<1>4. ASSUME NEW j \in Job, job[j] \in Rows, Kept(j) PROVE Kept(j)'
  <2>1. job[j].expires \in Nat
    BY <1>4, Numbers DEF Rows
  <2>2. QED
    BY <1>1, <1>2, <1>4, <2>1 DEF Kept
<1>5. \A j \in Job : BuilderFits(j)'
  BY <1>1, <1>4 DEF Base, Ledger, BuilderFits
<1>6. \A r \in Request : OwnerFits(r)'
  BY <1>1 DEF Base, Ledger, OwnerFits, Owns
<1>7. \A m \in mails : MailFits(m)'
  <2> TAKE m \in mails
  <2>1. MailFits(m) /\ m.job \in Job
    BY DEF Base, Ledger, TypeOK
  <2>2. QED
    BY <1>1, <1>4, <2>1 DEF MailFits, Stored
<1>8. OneClosure'
  BY <1>1 DEF Base, Ledger, OneClosure, Closure, Stored
<1>9. QED
  BY <1>1, <1>3, <1>5, <1>6, <1>7, <1>8 DEF Base, Ledger

LEMMA StutterBase == Base /\ UNCHANGED vars => Base'
BY DEF vars, Base, TypeOK, Ledger, BuilderFits, OwnerFits, Owns, MailFits, Kept, OneClosure,
       Closure, Stored

LEMMA BaseStep == Base /\ [Next]_vars => Base'
<1> SUFFICES ASSUME Base, [Next]_vars PROVE Base'
  OBVIOUS
<1>1. CASE UNCHANGED vars
  BY <1>1, StutterBase
<1>2. ASSUME NEW r \in Request, AskForExport(r) \/ CreateExportJob(r) PROVE Base'
  BY <1>2, AskForExportBase, CreateExportJobBase
<1>3. ASSUME NEW r \in Request, NEW copy \in BOOLEAN, AskToClose(r, copy) PROVE Base'
  BY <1>3, AskToCloseBase
<1>4. ASSUME NEW r \in Request,
             QueueClosure(r) \/ DeleteAccount(r) \/ DeleteAccountFails(r)
      PROVE  Base'
  BY <1>4, QueueClosureBase, DeleteAccountBase, DeleteAccountFailsBase
<1>5. ASSUME NEW r \in Request, RemoveUnused(r) \/ SayGoodbye(r) \/ RequestFails(r) PROVE Base'
  BY <1>5, RemoveUnusedBase, SayGoodbyeBase, RequestFailsBase
<1>6. ASSUME NEW j \in Job, Claim(j) \/ Build(j) \/ Store(j) \/ StoreFails(j) \/ Fail(j)
      PROVE  Base'
  BY <1>6, ClaimBase, BuildBase, StoreBase, FailBase
<1>7. ASSUME NEW j \in Job, SendClosureEmail(j) \/ BuilderGivesUp(j) PROVE Base'
  BY <1>7, SendClosureEmailBase, BuilderGivesUpBase
<1>8. CASE Crash \/ PurgeArchives \/ Tick
  BY <1>8, CrashBase, PurgeArchivesBase, TickBase
<1>9. QED
  BY <1>1, <1>2, <1>3, <1>4, <1>5, <1>6, <1>7, <1>8 DEF Next

\* Types: rows, builds, requests and mails stay what they are declared to be.
THEOREM ExportTypes == Spec => []TypeOK
<1>1. Base => TypeOK
  BY DEF Base
<1>2. QED
  BY <1>1, BaseInit, BaseStep, PTL DEF Spec

\* A closed account is written to once about its copy, an open one not at all.
THEOREM OneMail == Spec => []OneMailOnceClosed
<1>1. Base => OneMailOnceClosed
  BY DEF Base, Ledger, MailFits, OneMailOnceClosed
<1>2. QED
  BY <1>1, BaseInit, BaseStep, PTL DEF Spec

\* A link that was mailed works until the moment it says.
THEOREM LinksWork == Spec => []MailedLinkWorks
<1>1. Base => MailedLinkWorks
  BY DEF Base, Ledger, MailFits, Kept, MailedLinkWorks
<1>2. QED
  BY <1>1, BaseInit, BaseStep, PTL DEF Spec

-----------------------------------------------------------------------------
(* One archive at a time.                                                  *)

\* The creator asks one request at a time.
OneAsker == \A r, s \in Asker : r = s

Account(j) == Stored(j) /\ job[j].kind = "account"

\* A workspace's export that is being built, and has time left.
Alive(j) == builder[j] # NoBuilder /\ job[j].kind = "account" /\ InTime(j)

\* Rows appear in order; a build of an export ends before its job counts as dead; only
\* the latest export is being built; and none, while another is about to be queued.
Guarded ==
    /\ \A i, j \in Job : job[i] = Free /\ i <= j => job[j] = Free
    /\ \A j \in Job : builder[j] # NoBuilder /\ job[j].kind = "account" =>
           builder[j].until <= job[j].created + BuildTimeout
    /\ \A r \in Request : req[r].pc = "creating" => r \in Asker /\ req[r].at = now
    /\ \A r \in Request : req[r].pc = "creating" => \A j \in Job : ~Alive(j)
    /\ \A i, j \in Job : Alive(i) /\ Account(j) => j <= i

\* A step in which rows only change, and builds of exports only end.
LEMMA CalmGuarded ==
    ASSUME Base, Guarded, now' \in Nat, now' >= now,
           \A j \in Job : job'[j] = Free <=> job[j] = Free,
           \A j \in Job : Account(j)' => Account(j),
           \A j \in Job : builder'[j] # NoBuilder /\ job'[j].kind = "account" =>
               /\ builder[j] # NoBuilder /\ job[j].kind = "account"
               /\ builder'[j].until = builder[j].until /\ job'[j].created = job[j].created,
           \A r \in Request : req'[r].pc = "creating" =>
               req[r].pc = "creating" /\ req'[r] = req[r] /\ now' = now
    PROVE  Guarded'
<1>1. ASSUME NEW j \in Job, Alive(j)' PROVE Alive(j)
  <2>1. builder[j] # NoBuilder /\ job[j].kind = "account" /\ now' < builder[j].until
    BY <1>1 DEF Alive, InTime
  <2>2. builder[j].until \in Nat /\ now \in Nat /\ now' \in Nat /\ now' >= now
    BY <2>1, BuilderShape, Numbers DEF Base, Builders, TypeOK, Time
  <2>3. now < builder[j].until
    BY <2>1, <2>2
  <2>4. QED
    BY <2>1, <2>3 DEF Alive, InTime
<1>2. \A i, j \in Job : job'[i] = Free /\ i <= j => job'[j] = Free
  BY DEF Guarded
<1>3. \A j \in Job : builder'[j] # NoBuilder /\ job'[j].kind = "account" =>
          builder'[j].until <= job'[j].created + BuildTimeout
  BY DEF Guarded
<1>4. \A r \in Request : req'[r].pc = "creating" => r \in Asker /\ req'[r].at = now'
  BY DEF Guarded
<1>5. \A r \in Request : req'[r].pc = "creating" => \A j \in Job : ~Alive(j)'
  BY <1>1 DEF Guarded
<1>6. \A i, j \in Job : Alive(i)' /\ Account(j)' => j <= i
  BY <1>1 DEF Guarded
<1>7. QED
  BY <1>2, <1>3, <1>4, <1>5, <1>6 DEF Guarded

\* What is being built is stored, and in progress.
LEMMA AliveInProgress ==
    ASSUME Base, NEW j \in Job, Alive(j)
    PROVE  Account(j) /\ InProgress(j) /\ job[j] \in Rows
<1>1. BuilderFits(j) /\ builder[j] \in Builders
  BY BuilderShape DEF Base, Ledger, Alive
<1>2. builder[j].pc \notin {"linking", "explaining"}
  BY <1>1 DEF BuilderFits, Alive
<1>3. QED
  BY <1>1, <1>2 DEF BuilderFits, Alive, Account, Stored, InProgress, Builders

LEMMA AskGuarded ==
    ASSUME Base, Guarded, NEW r \in Request, AskForExport(r)
    PROVE  Guarded'
<1>1. /\ UNCHANGED <<now, job, builder>> /\ r \in Asker
      /\ req' = [req EXCEPT ![r] = [pc |-> "creating", at |-> now]]
  BY DEF AskForExport, Goes
<1>2. ASSUME NEW j \in Job, Alive(j) PROVE FALSE
  <2>1. Account(j) /\ InProgress(j) /\ job[j] \in Rows
    BY <1>2, AliveInProgress
  <2>2. \A i \in Job : Stored(i) /\ job[i].kind = "account" => i <= j
    BY <1>2 DEF Guarded, Account
  <2>3. j \in Latest("account")
    BY <2>1, <2>2 DEF Latest, Account
  <2>4. Dead(j)
    BY <2>1, <2>3 DEF AskForExport
  <2>5. now < builder[j].until /\ builder[j].until <= job[j].created + BuildTimeout
    BY <1>2 DEF Alive, InTime, Guarded
  <2>6. now \in Nat /\ builder[j].until \in Nat /\ job[j].created \in Nat
    BY <1>2, <2>1, BuilderShape, Numbers DEF Alive, Base, TypeOK, Time, Rows, Builders
  <2>7. QED
    BY <2>4, <2>5, <2>6, Numbers DEF Dead
<1>3. req'[r].at = now /\ \A s \in Request : s # r => req'[s] = req[s]
  BY <1>1 DEF Base, TypeOK
<1>4. QED
  BY <1>1, <1>2, <1>3 DEF Guarded, Alive, InTime, Account, Stored

LEMMA CreateGuarded ==
    ASSUME OneAsker, Base, Guarded, NEW r \in Request, CreateExportJob(r)
    PROVE  Guarded'
<1> DEFINE n == NextJob
           k == [status |-> "pending", kind |-> "account", created |-> req[r].at,
                 expires |-> 0, archive |-> FALSE]
           b == [pc |-> "claiming", until |-> now + BuildTimeout]
<1>1. n \in Job /\ job[n] = Free /\ \A i \in 1..(n - 1) : job[i] # Free
  BY NextIsFree DEF CreateExportJob
<1>2. /\ job' = [job EXCEPT ![n] = k] /\ builder' = [builder EXCEPT ![n] = b]
      /\ req' = [req EXCEPT ![r] = Idle] /\ now' = now
  BY DEF CreateExportJob, Builds, Goes
<1>3. req[r].pc = "creating"
  BY DEF CreateExportJob
<1>4. k.created = now /\ b.until = now + BuildTimeout /\ k # Free /\ k.kind = "account"
  BY <1>3 DEF Guarded, Free
<1> HIDE DEF n, k, b
<1>5. /\ job'[n] = k /\ builder'[n] = b /\ req'[r] = Idle
      /\ \A i \in Job : i # n => job'[i] = job[i] /\ builder'[i] = builder[i]
      /\ \A s \in Request : s # r => req'[s] = req[s]
  BY <1>1, <1>2 DEF Base, TypeOK
<1>6. ASSUME NEW s \in Request, req'[s].pc = "creating" PROVE FALSE
  <2>1. s # r /\ req[s].pc = "creating"
    BY <1>5, <1>6 DEF Idle
  <2>2. s \in Asker /\ r \in Asker
    BY <1>3, <2>1 DEF Guarded
  <2>3. QED
    BY <2>1, <2>2 DEF OneAsker
<1>7. ASSUME NEW i \in Job, Alive(i)' PROVE i = n
  <2> SUFFICES ASSUME i # n PROVE FALSE
    OBVIOUS
  <2>1. Alive(i)
    BY <1>2, <1>5, <1>7 DEF Alive, InTime
  <2>2. QED
    BY <1>3, <2>1 DEF Guarded
<1>8. ASSUME NEW j \in Job, Account(j)' PROVE j <= n
  <2> SUFFICES ASSUME ~(j <= n) PROVE FALSE
    OBVIOUS
  <2>1. n <= j /\ j # n
    BY <1>1, Numbers DEF Job
  <2>2. job[j] = Free
    BY <1>1, <2>1 DEF Guarded
  <2>3. QED
    BY <1>5, <1>8, <2>1, <2>2 DEF Account, Stored, Free
<1>9. ASSUME NEW i \in Job, NEW j \in Job, job'[i] = Free, i <= j PROVE job'[j] = Free
  <2>1. i # n /\ job[i] = Free
    BY <1>4, <1>5, <1>9
  <2>2. ~(i < n)
    <3>1. i < n => i \in 1..(n - 1)
      BY <1>1, Numbers DEF Job
    <3>2. QED
      BY <1>1, <2>1, <3>1
  <2>3. j # n
    BY <1>1, <1>9, <2>1, <2>2, Numbers DEF Job
  <2>4. QED
    BY <1>5, <1>9, <2>1, <2>3 DEF Guarded
<1>10. ASSUME NEW j \in Job, builder'[j] # NoBuilder, job'[j].kind = "account"
       PROVE  builder'[j].until <= job'[j].created + BuildTimeout
  <2>1. CASE j = n
    <3>1. now + BuildTimeout \in Nat
      BY Numbers DEF Base, TypeOK, Time
    <3>2. QED
      BY <1>4, <1>5, <2>1, <3>1
  <2>2. CASE j # n
    BY <1>5, <1>10, <2>2 DEF Guarded
  <2>3. QED
    BY <2>1, <2>2
<1>11. QED
  BY <1>6, <1>7, <1>8, <1>9, <1>10 DEF Guarded

\* A closure export that appears, and the build of one.
LEMMA ClosureGuarded ==
    ASSUME Base, Guarded, NEW r \in Request, QueueClosure(r)
    PROVE  Guarded'
<1>1. req[r].pc = "queueing" /\ UNCHANGED <<now, builder>>
  BY DEF QueueClosure
<1>2. \A s \in Request : req'[s].pc = "creating" => req[s].pc = "creating" /\ req'[s] = req[s]
  BY DEF QueueClosure, Goes, Base, TypeOK
<1>3. CASE MayQueue
  <2> DEFINE k == [status |-> "pending", kind |-> "closure", created |-> now,
                   expires |-> now + ClosureTTL, archive |-> FALSE]
             n == NextJob
  <2>1. n \in Job /\ job[n] = Free /\ (\A i \in 1..(n - 1) : job[i] # Free)
        /\ job' = [job EXCEPT ![n] = k]
    BY <1>3, NextIsFree DEF QueueClosure
  <2>2. k # Free /\ k.kind = "closure"
    BY DEF Free
  <2> HIDE DEF n, k
  <2>3. job'[n] = k /\ \A i \in Job : i # n => job'[i] = job[i]
    BY <2>1 DEF Base, TypeOK
  <2>4. ASSUME NEW j \in Job, Alive(j)' PROVE Alive(j)
    <3>1. j # n
      BY <2>2, <2>3, <2>4 DEF Alive
    <3>2. QED
      BY <1>1, <2>3, <2>4, <3>1 DEF Alive, InTime
  <2>5. ASSUME NEW j \in Job, Account(j)' PROVE Account(j)
    <3>1. j # n
      BY <2>2, <2>3, <2>5 DEF Account
    <3>2. QED
      BY <2>3, <2>5, <3>1 DEF Account, Stored
  <2>6. ASSUME NEW i \in Job, NEW j \in Job, job'[i] = Free, i <= j PROVE job'[j] = Free
    <3>1. i # n /\ job[i] = Free
      BY <2>2, <2>3, <2>6
    <3>2. ~(i < n)
      <4>1. i < n => i \in 1..(n - 1)
        BY <2>1, Numbers DEF Job
      <4>2. QED
        BY <2>1, <3>1, <4>1
    <3>3. j # n
      BY <2>1, <2>6, <3>1, <3>2, Numbers DEF Job
    <3>4. QED
      BY <2>3, <2>6, <3>1, <3>3 DEF Guarded
  <2>7. ASSUME NEW j \in Job, builder'[j] # NoBuilder, job'[j].kind = "account"
        PROVE  builder'[j].until <= job'[j].created + BuildTimeout
    <3>1. j # n
      BY <2>2, <2>3, <2>7
    <3>2. QED
      BY <1>1, <2>3, <2>7, <3>1 DEF Guarded
  <2>8. QED
    BY <1>1, <1>2, <2>4, <2>5, <2>6, <2>7 DEF Guarded
<1>4. CASE ~MayQueue
  <2>1. job' = job
    BY <1>4 DEF QueueClosure
  <2>2. now' \in Nat /\ now' >= now
    BY <1>1, Numbers DEF Base, TypeOK, Time
  <2>3. QED
    BY <1>1, <1>2, <2>1, <2>2, CalmGuarded DEF Account, Stored
<1>5. QED
  BY <1>3, <1>4

LEMMA GoodbyeGuarded ==
    ASSUME Base, Guarded, NEW r \in Request, SayGoodbye(r)
    PROVE  Guarded'
<1>1. req[r].pc = "leaving" /\ req[r].pc \in Leaving /\ UNCHANGED <<now, job>>
  BY DEF SayGoodbye, Leaving
<1>2. \A s \in Request : req'[s].pc = "creating" => req[s].pc = "creating" /\ req'[s] = req[s]
  BY DEF SayGoodbye, Goes, Base, TypeOK, Idle
<1>3. req[r].job # NoJob => job[req[r].job].kind = "closure"
  BY <1>1 DEF Base, Ledger, OwnerFits
<1>4. ASSUME NEW j \in Job, job[j].kind = "account" PROVE builder'[j] = builder[j]
  <2>1. CASE req[r].job = NoJob
    BY <2>1 DEF SayGoodbye
  <2>2. CASE req[r].job # NoJob
    <3>1. j # req[r].job
      BY <1>3, <1>4, <2>2
    <3>2. QED
      BY <2>2, <3>1 DEF SayGoodbye, Builds, Base, TypeOK
  <2>3. QED
    BY <2>1, <2>2
<1>5. now' \in Nat /\ now' >= now
  BY <1>1, Numbers DEF Base, TypeOK, Time
<1>6. \A j \in Job : builder'[j] # NoBuilder /\ job'[j].kind = "account" =>
          /\ builder[j] # NoBuilder /\ job[j].kind = "account"
          /\ builder'[j].until = builder[j].until /\ job'[j].created = job[j].created
  BY <1>1, <1>4
<1>7. QED
  BY <1>1, <1>2, <1>5, <1>6, CalmGuarded DEF Account, Stored

\* A request's other steps: no row appears, no build begins.
LEMMA RequestGuarded ==
    ASSUME Base, Guarded, NEW r \in Request,
           \/ \E copy \in BOOLEAN : AskToClose(r, copy)
           \/ DeleteAccount(r) \/ DeleteAccountFails(r) \/ RemoveUnused(r) \/ RequestFails(r)
    PROVE  Guarded'
<1>1. UNCHANGED <<now, builder>>
  BY DEF AskToClose, DeleteAccount, DeleteAccountFails, RemoveUnused, RequestFails
<1>2. \E q : Goes(r, q) /\ q.pc # "creating"
  <2>1. ASSUME NEW copy \in BOOLEAN, AskToClose(r, copy) PROVE \E q : Goes(r, q) /\ q.pc # "creating"
    BY <2>1 DEF AskToClose
  <2>2. CASE DeleteAccount(r) \/ DeleteAccountFails(r)
    <3>1. req[r] \in [pc : Leaving, copy : BOOLEAN, job : Job \cup {NoJob}]
      BY <2>2, OwnerShape DEF DeleteAccount, DeleteAccountFails, Leaving, Base
    <3>2. /\ [req[r] EXCEPT !.pc = "leaving"].pc # "creating"
          /\ [req[r] EXCEPT !.pc = "removing"].pc # "creating"
      BY <3>1
    <3>3. CASE DeleteAccount(r)
      <4>1. Goes(r, [req[r] EXCEPT !.pc = "leaving"])
        BY <3>3 DEF DeleteAccount
      <4>2. QED
        BY <3>2, <4>1
    <3>4. CASE DeleteAccountFails(r)
      <4>1. Goes(r, Idle) \/ Goes(r, [req[r] EXCEPT !.pc = "removing"])
        BY <3>4 DEF DeleteAccountFails
      <4>2. Idle.pc # "creating"
        BY DEF Idle
      <4>3. QED
        BY <3>2, <4>1, <4>2
    <3>5. QED
      BY <2>2, <3>3, <3>4
  <2>3. CASE RemoveUnused(r) \/ RequestFails(r)
    BY <2>3 DEF RemoveUnused, RequestFails, Idle
  <2>4. QED
    BY <2>1, <2>2, <2>3
<1>3. \A s \in Request : req'[s].pc = "creating" => req[s].pc = "creating" /\ req'[s] = req[s]
  BY <1>2 DEF Goes, Base, TypeOK
<1>4. CASE RemoveUnused(r)
  <2> DEFINE n == req[r].job
  <2>1. req[r].pc = "removing" /\ req[r].pc \in Leaving
    BY <1>4 DEF RemoveUnused, Leaving
  <2>2. n \in Job /\ job[n] \in Rows
    BY <2>1, OwnerShape DEF Base, Ledger, OwnerFits
  <2>3. job' = [job EXCEPT ![n].status = "removed"]
    BY <1>4 DEF RemoveUnused
  <2> HIDE DEF n
  <2>4. /\ job'[n].status = "removed" /\ job[n].status # "free" /\ job'[n].kind = job[n].kind
        /\ job'[n].created = job[n].created
        /\ \A i \in Job : i # n => job'[i] = job[i]
    BY <2>2, <2>3 DEF Base, TypeOK, Rows
  <2>5. \A j \in Job : job'[j] = Free <=> job[j] = Free
    BY <2>4 DEF Free
  <2>6. \A j \in Job : Account(j)' => Account(j)
    BY <2>4 DEF Account, Stored
  <2>7. now' \in Nat /\ now' >= now
    BY <1>1, Numbers DEF Base, TypeOK, Time
  <2>8. \A j \in Job : job'[j].kind = job[j].kind /\ job'[j].created = job[j].created
    BY <2>4
  <2>9. QED
    BY <1>1, <1>3, <2>5, <2>6, <2>7, <2>8, CalmGuarded
<1>5. CASE ~RemoveUnused(r)
  <2>1. job' = job
    BY <1>5 DEF AskToClose, DeleteAccount, DeleteAccountFails, RequestFails
  <2>2. now' \in Nat /\ now' >= now
    BY <1>1, Numbers DEF Base, TypeOK, Time
  <2>3. QED
    BY <1>1, <1>3, <2>1, <2>2, CalmGuarded DEF Account, Stored
<1>6. QED
  BY <1>4, <1>5

\* A build's steps: it goes on within the limit it has, or ends.
LEMMA BuildGuarded ==
    ASSUME Base, Guarded, NEW j \in Job,
           \/ Claim(j) \/ Build(j) \/ Store(j) \/ StoreFails(j) \/ Fail(j)
           \/ SendClosureEmail(j) \/ BuilderGivesUp(j)
    PROVE  Guarded'
<1>1. UNCHANGED <<now, req>>
  BY DEF Claim, Build, Store, StoreFails, Fail, SendClosureEmail, BuilderGivesUp
<1>2. builder[j].pc # "none"
  BY DEF Claim, Build, Store, StoreFails, Fail, SendClosureEmail, BuilderGivesUp
<1>3. builder[j] # NoBuilder /\ job[j] \in Rows /\ BuilderFits(j)
  BY <1>2, AtWork
<1>4. BuilderEnds(j) \/ \E pc : BuilderGoes(j, pc)
  <2>1. CASE Claim(j) \/ Build(j)
    BY <2>1 DEF Claim, Build
  <2>2. CASE Store(j) \/ StoreFails(j) \/ Fail(j)
    <3>1. BuilderEnds(j) \/ BuilderGoes(j, "linking") \/ BuilderGoes(j, "explaining")
      BY <2>2 DEF Store, StoreFails, Fail
    <3>2. QED
      BY <3>1
  <2>3. CASE SendClosureEmail(j) \/ BuilderGivesUp(j)
    BY <2>3 DEF SendClosureEmail, BuilderGivesUp
  <2>4. QED
    BY <2>1, <2>2, <2>3
<1>5. \A i \in Job : builder'[i] # NoBuilder =>
          builder[i] # NoBuilder /\ builder'[i].until = builder[i].until
  BY <1>3, <1>4 DEF BuilderEnds, BuilderGoes, Base, TypeOK
<1>6. /\ job'[j] # Free /\ job'[j].kind = job[j].kind /\ job'[j].created = job[j].created
      /\ Account(j)' => Account(j)
      /\ \A i \in Job : i # j => job'[i] = job[i]
  <2>1. CASE job' = job
    BY <1>3, <2>1, RowShape DEF Base, Account, Stored, Free
  <2>2. CASE Claim(j)
    <3>1. job' = [job EXCEPT ![j].status = "running"] /\ job[j].status = "pending"
      BY <2>2 DEF Claim
    <3>2. job'[j] = [job[j] EXCEPT !.status = "running"]
      BY <3>1 DEF Base, TypeOK
    <3>3. QED
      BY <1>3, <3>1, <3>2 DEF Base, TypeOK, Rows, Account, Stored, Free
  <2>3. CASE Store(j)
    <3>1. job[j].status = "running" /\ Stored(j)
      BY <1>3, <2>3 DEF Store, BuilderFits, Stored
    <3>2. PICK e : job' = [job EXCEPT ![j].status = "ready", ![j].archive = TRUE, ![j].expires = e]
      BY <2>3, <3>1 DEF Store, Finish
    <3>3. job'[j] = [job[j] EXCEPT !.status = "ready", !.archive = TRUE, !.expires = e]
      BY <3>2 DEF Base, TypeOK
    <3>4. job'[j].status = "ready" /\ job'[j].kind = job[j].kind /\ job'[j].created = job[j].created
      BY <1>3, <3>3 DEF Rows
    <3>5. \A i \in Job : i # j => job'[i] = job[i]
      BY <3>2 DEF Base, TypeOK
    <3>6. job'[j] # Free /\ (Account(j)' => Account(j))
      BY <3>1, <3>4 DEF Account, Stored, Free
    <3>7. QED
      BY <3>4, <3>5, <3>6
  <2>4. CASE Fail(j) /\ job' # job
    <3>1. job[j].status = "running"
      BY <1>3, <2>4 DEF Fail, BuilderFits
    <3>2. job' = [job EXCEPT ![j].status = "failed"]
      BY <2>4 DEF Fail
    <3>3. job'[j] = [job[j] EXCEPT !.status = "failed"]
      BY <3>2 DEF Base, TypeOK
    <3>4. QED
      BY <1>3, <3>1, <3>2, <3>3 DEF Base, TypeOK, Rows, Account, Stored, Free
  <2>5. QED
    BY <2>1, <2>2, <2>3, <2>4 DEF Build, StoreFails, SendClosureEmail, BuilderGivesUp
<1>7. job[j] # Free
  BY <1>3 DEF Rows, Free
<1>8. \A i \in Job : (job'[i] = Free <=> job[i] = Free) /\ (Account(i)' => Account(i))
  BY <1>6, <1>7 DEF Account, Stored
<1>9. now' \in Nat /\ now' >= now
  BY <1>1, Numbers DEF Base, TypeOK, Time
<1>10. \A i \in Job : job'[i].kind = job[i].kind /\ job'[i].created = job[i].created
  BY <1>6
<1>11. QED
  BY <1>1, <1>5, <1>8, <1>9, <1>10, CalmGuarded

LEMMA OtherGuarded ==
    ASSUME Base, Guarded, Crash \/ PurgeArchives \/ Tick \/ UNCHANGED vars
    PROVE  Guarded'
<1>1. now' \in Nat /\ now' >= now
  BY Numbers DEF Base, TypeOK, Time, Crash, PurgeArchives, Tick, vars
<1>2. CASE Crash
  BY <1>1, <1>2, CalmGuarded DEF Crash, Idle, Account, Stored
<1>3. CASE PurgeArchives
  <2>1. ASSUME NEW j \in Job
        PROVE  /\ job'[j] = Free <=> job[j] = Free
               /\ Account(j)' => Account(j)
               /\ builder[j] # NoBuilder =>
                    job'[j].kind = job[j].kind /\ job'[j].created = job[j].created
    <3>1. CASE Stored(j) /\ Expired(j)
      <4>1. job[j] \in Rows
        BY <3>1, RowShape DEF Base, Stored
      <4>2. job'[j] = [job[j] EXCEPT !.archive = FALSE]
        BY <1>3, <3>1 DEF PurgeArchives
      <4>3. /\ job'[j].status = job[j].status /\ job'[j].kind = job[j].kind
            /\ job'[j].created = job[j].created /\ job[j].status # "free"
        BY <4>1, <4>2 DEF Rows
      <4>4. QED
        BY <4>3 DEF Free, Account, Stored
    <3>2. CASE ~(Stored(j) /\ Expired(j))
      <4>1. job'[j] = job[j]
        BY <1>3, <3>2 DEF PurgeArchives
      <4>2. QED
        BY <4>1 DEF Account, Stored
    <3>3. QED
      BY <3>1, <3>2
  <2>2. UNCHANGED <<now, req, builder>>
    BY <1>3 DEF PurgeArchives
  <2>3. QED
    BY <1>1, <2>1, <2>2, CalmGuarded
<1>4. CASE Tick
  <2>1. \A r \in Request : req'[r].pc # "creating"
    BY <1>4 DEF Tick, Idle
  <2>2. UNCHANGED <<job, builder>>
    BY <1>4 DEF Tick
  <2>3. QED
    BY <1>1, <2>1, <2>2, CalmGuarded DEF Account, Stored
<1>5. CASE UNCHANGED vars
  BY <1>1, <1>5, CalmGuarded DEF vars, Account, Stored
<1>6. QED
  BY <1>2, <1>3, <1>4, <1>5

LEMMA GuardedStep ==
    ASSUME OneAsker
    PROVE  Base /\ Guarded /\ [Next]_vars => Guarded'
<1> SUFFICES ASSUME Base, Guarded, [Next]_vars PROVE Guarded'
  OBVIOUS
<1>1. ASSUME NEW r \in Request, AskForExport(r) \/ CreateExportJob(r) PROVE Guarded'
  BY <1>1, AskGuarded, CreateGuarded
<1>2. ASSUME NEW r \in Request, QueueClosure(r) \/ SayGoodbye(r) PROVE Guarded'
  BY <1>2, ClosureGuarded, GoodbyeGuarded
<1>3. ASSUME NEW r \in Request,
             \/ \E copy \in BOOLEAN : AskToClose(r, copy)
             \/ DeleteAccount(r) \/ DeleteAccountFails(r) \/ RemoveUnused(r) \/ RequestFails(r)
      PROVE  Guarded'
  BY <1>3, RequestGuarded
<1>4. ASSUME NEW j \in Job,
             \/ Claim(j) \/ Build(j) \/ Store(j) \/ StoreFails(j) \/ Fail(j)
             \/ SendClosureEmail(j) \/ BuilderGivesUp(j)
      PROVE  Guarded'
  BY <1>4, BuildGuarded
<1>5. CASE Crash \/ PurgeArchives \/ Tick \/ UNCHANGED vars
  BY <1>5, OtherGuarded
<1>6. QED
  BY <1>1, <1>2, <1>3, <1>4, <1>5 DEF Next

\* One archive of a creator who asks one request at a time is being built at once.
THEOREM OneBuild ==
    ASSUME OneAsker
    PROVE  Spec => []OneBuildAtATime
<1>1. Init => Guarded
  BY DEF Init, Guarded, Alive, Idle
<1>2. Base /\ Guarded => OneBuildAtATime
  <2> SUFFICES ASSUME Base, Guarded, NEW i \in Job, NEW j \in Job, BeingBuilt(i), BeingBuilt(j),
                      job[i].kind = "account", job[j].kind = "account"
               PROVE  i = j
    BY DEF OneBuildAtATime
  <2>1. Alive(i) /\ Alive(j)
    BY DEF BeingBuilt, Alive, NoBuilder
  <2>2. Account(i) /\ Account(j)
    BY <2>1, AliveInProgress
  <2>3. i <= j /\ j <= i
    BY <2>1, <2>2 DEF Guarded
  <2>4. QED
    BY <2>3, Numbers DEF Job
<1>3. Base /\ Guarded /\ [Next]_vars => Guarded'
  BY GuardedStep
<1>4. QED
  BY <1>1, <1>2, <1>3, BaseInit, BaseStep, PTL DEF Spec
=============================================================================
