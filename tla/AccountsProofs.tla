--------------------------- MODULE AccountsProofs ---------------------------
(***************************************************************************)
(* Proofs about Accounts, and about Retention, which is the accounts       *)
(* beside the purge, for any number of accounts, workspaces, links, codes, *)
(* participants, responses and requests, any window and any number of      *)
(* days.  First what the accounts keep by themselves: no two live ones     *)
(* share an address or a Google identity, each has one live workspace, and *)
(* in the beta each comes of an invite code of its own.  Then the          *)
(* invariant of the purge: what it has removed is due, what is due has     *)
(* been removed by the statement it is for, and nothing is left below.     *)
(***************************************************************************)
EXTENDS Retention, FiniteSetTheorems, TLAPS

(***************************************************************************)
(* What a request knows at each of its stages.                             *)
(***************************************************************************)
Located == {"backfill", "home", "consume", "commit", "space", "session", "rename", "revoke",
            "close"}

ShapeOf(k) ==
    /\ k.pc \in {"sub", "email", "insert", "backfill", "code", "rename"} => k.address # None
    /\ k.pc \in Located => k.user # None
    /\ k.fresh \/ k.linked => k.pc \in {"consume", "home", "commit"}
    /\ k.fresh => k.address # None /\ ~k.linked
    /\ k.linked => k.sub # None
    /\ k.pc = "backfill" => k.sub # None
    /\ k.pc = "code" => k.code # None
    /\ k.pc = "consume" => k.fresh /\ k.code # None
    /\ k.space # None => k.pc = "commit"
    /\ k.pc = "commit" /\ k.fresh => k.space # None
    /\ k.code # None => k.pc \in {"code", "insert", "consume", "commit", "session"}
    /\ BetaMode /\ (k.pc = "insert" \/ k.fresh) => k.code # None

Holds(k) == k.code # None /\ k.pc \in {"insert", "consume", "commit"}

(***************************************************************************)
(* What a request counts on of the rows: the account it is about to make   *)
(* is not there, nor is any with its keys; the workspace it is about to    *)
(* make is not there, and is a new account's or a closed one's; its code   *)
(* is unused.                                                              *)
(***************************************************************************)
ClaimsOf(k) ==
    /\ k.fresh =>
          /\ ~There(user[k.user])
          /\ \A v \in Account : Live(user[v]) =>
                user[v].address # k.address /\ (k.sub # None => user[v].sub # k.sub)
    /\ k.linked =>
          /\ Live(user[k.user]) /\ held[k.user] = "free"
          /\ \A v \in Account : Live(user[v]) /\ user[v].sub = k.sub => v = k.user
    /\ k.space # None =>
          /\ ~There(space[k.space])
          /\ ~k.fresh => /\ There(user[k.user]) /\ ~Live(user[k.user])
                         /\ held[k.user] # "removed"
    /\ Holds(k) => Usable(k.code)

(***************************************************************************)
(* No two requests are about to write the same.                            *)
(***************************************************************************)
Keyed(k) == k.fresh \/ k.linked

ApartOf(k, m) ==
    /\ k.fresh \/ m.fresh => k.user # m.user
    /\ k.fresh /\ m.fresh => k.address # m.address
    /\ Keyed(k) /\ Keyed(m) /\ k.sub # None => k.sub # m.sub
    /\ k.space # None => k.space # m.space
    /\ Holds(k) /\ Holds(m) => k.code # m.code

Shapes == \A r \in Request : ShapeOf(req[r])
Claims == \A r \in Request : ClaimsOf(req[r])
Apart == \A r, q \in Request : r # q => ApartOf(req[r], req[q])

LinksFit == \A l \in Link : link[l].state = "sent" => link[l].address # None

Keys ==
    \A u, v \in Account :
        Live(user[u]) /\ Live(user[v]) =>
            /\ user[u].address = user[v].address => u = v
            /\ user[u].sub = user[v].sub /\ user[u].sub # None => u = v

Owned == \A w \in Space : There(space[w]) =>
             space[w].owner # None /\ There(user[space[w].owner])

Homes ==
    \A u \in Account : Live(user[u]) =>
        \E w \in Space : \A x \in Space :
            Live(space[x]) /\ space[x].owner = u <=> x = w

Made ==
    /\ \A u \in Account : user[u].made # None =>
          code[user[u].made].used /\ ~code[user[u].made].revoked
    /\ \A u, v \in Account : user[u].made = user[v].made /\ user[u].made # None => u = v
    /\ BetaMode => \A u \in Account : There(user[u]) => user[u].made # None

IInv ==
    /\ TypeOK
    /\ Shapes /\ Claims /\ Apart
    /\ LinksFit /\ Keys /\ Owned /\ Homes /\ Made

-----------------------------------------------------------------------------
(* The rows and the requests, field by field.                              *)

LEMMA ReqFields ==
    ASSUME TypeOK, NEW r \in Request
    PROVE  /\ req[r] \in Req
           /\ req[r].pc \in Stage /\ req[r].address \in Address \cup {None}
           /\ req[r].sub \in Sub \cup {None} /\ req[r].code \in Code \cup {None}
           /\ req[r].user \in Account \cup {None} /\ req[r].space \in Space \cup {None}
           /\ req[r].password \in 0..MaxPassword
           /\ req[r].fresh \in BOOLEAN /\ req[r].linked \in BOOLEAN
<1>1. req[r] \in Req
  BY DEF TypeOK
<1>2. QED
  BY <1>1 DEF Req

LEMMA IdleFits == Idle \in Req /\ ShapeOf(Idle)
<1>1. Idle \in Req
  BY NoneAssumption, BoundsAssumption DEF Idle, Req, Stage
<1>2. ShapeOf(Idle)
  BY DEF Idle, ShapeOf, Located
<1>3. QED
  BY <1>1, <1>2

LEMMA UserFields ==
    ASSUME TypeOK, NEW u \in Account
    PROVE  /\ user[u] \in User
           /\ user[u].row \in {"none", "there"} /\ user[u].address \in Address \cup {None}
           /\ user[u].sub \in Sub \cup {None} /\ user[u].password \in 0..MaxPassword
           /\ user[u].deleted \in When /\ user[u].made \in Code \cup {None}
           /\ There(user[u]) => user[u].address # None
<1>1. user[u] \in User
  BY DEF TypeOK
<1>2. QED
  BY <1>1 DEF User, There

LEMMA SpaceFields ==
    ASSUME TypeOK, NEW w \in Space
    PROVE  /\ space[w] \in Workspace
           /\ space[w].row \in {"none", "there"} /\ space[w].owner \in Account \cup {None}
           /\ space[w].deleted \in When
<1>1. space[w] \in Workspace
  BY DEF TypeOK
<1>2. QED
  BY <1>1 DEF Workspace

-----------------------------------------------------------------------------
(* A step of one request that writes no row.                               *)

\* What the accounts, the workspaces and the codes are known to be.
Rows == Keys /\ Owned /\ Homes /\ Made

\* What the requests are known to be.
Requests == req \in [Request -> Req] /\ Shapes /\ Claims /\ Apart

LEMMA RowsStay ==
    ASSUME Rows, UNCHANGED <<user, space, code>>
    PROVE  Rows'
<1>1. Keys'
  BY DEF Rows, Keys, Live, There
<1>2. Owned'
  BY DEF Rows, Owned, There
<1>3. Homes'
  BY DEF Rows, Homes, Live, There
<1>4. Made'
  BY DEF Rows, Made, There
<1>5. QED
  BY <1>1, <1>2, <1>3, <1>4 DEF Rows

\* A request that comes to what fits the rows and the other requests.
LEMMA GoesKeeps ==
    ASSUME Requests, UNCHANGED <<user, space, code, held>>,
           NEW r \in Request, NEW k \in Req, Goes(r, k),
           ShapeOf(k), ClaimsOf(k), \A q \in Request \ {r} : ApartOf(k, req[q])
    PROVE  Requests'
<1>1. /\ req' \in [Request -> Req] /\ req'[r] = k
      /\ \A q \in Request \ {r} : req'[q] = req[q]
  BY DEF Requests, Goes
<1>2. Shapes'
  BY <1>1 DEF Requests, Shapes, ShapeOf, Located
<1>3. ASSUME NEW q \in Request
      PROVE  ClaimsOf(req[q])'
  <2>1. ClaimsOf(req'[q])
    BY <1>1 DEF Requests, Claims
  <2>2. QED
    BY <2>1 DEF ClaimsOf, There, Live, Holds, Usable
<1>4. ASSUME NEW p \in Request, NEW q \in Request, p # q
      PROVE  ApartOf(req'[p], req'[q])
  <2>1. CASE p = r
    BY <1>1, <1>4, <2>1
  <2>2. CASE q = r
    <3>1. ApartOf(k, req[p])
      BY <1>4, <2>2
    <3>2. ApartOf(req[p], k)
      BY <3>1 DEF ApartOf, Keyed, Holds
    <3>3. QED
      BY <1>1, <1>4, <2>2, <3>2
  <2>3. CASE p # r /\ q # r
    BY <1>1, <1>4, <2>3 DEF Requests, Apart
  <2>4. QED
    BY <2>1, <2>2, <2>3
<1>5. Claims'
  BY <1>3 DEF Claims
<1>6. Apart'
  BY <1>4 DEF Apart, ApartOf, Keyed, Holds
<1>7. QED
  BY <1>1, <1>2, <1>5, <1>6 DEF Requests

LEMMA ApartNow ==
    ASSUME Requests, NEW r \in Request, NEW q \in Request \ {r}
    PROVE  /\ ApartOf(req[r], req[q]) /\ ShapeOf(req[q]) /\ ClaimsOf(req[q])
           /\ req[q].fresh \/ req[q].linked => Writing(q)
BY DEF Requests, Apart, Shapes, Claims, ShapeOf, Writing

\* One that is about to write nothing of its own.
Quiet(k) == ~k.fresh /\ ~k.linked /\ k.space = None /\ ~Holds(k)

LEMMA QuietGoes ==
    ASSUME TypeOK, Requests, UNCHANGED <<user, space, code, held>>,
           NEW r \in Request, NEW k \in Req, Goes(r, k),
           ShapeOf(k), Quiet(k),
           k.user \in {None, req[r].user} \/ There(user[k.user])
    PROVE  Requests'
<1>1. ClaimsOf(k)
  BY DEF ClaimsOf, Quiet
<1>2. ASSUME NEW q \in Request \ {r}
      PROVE  ApartOf(k, req[q])
  <2>1. ShapeOf(req[q]) /\ ClaimsOf(req[q]) /\ ApartOf(req[r], req[q])
    BY ApartNow
  <2>2. req[q].fresh => /\ req[q].user # None /\ ~There(user[req[q].user])
                        /\ req[q].user # req[r].user
    BY <2>1 DEF ShapeOf, ClaimsOf, ApartOf, Located
  <2>3. req[q].fresh => req[q].user # k.user
    BY <2>2
  <2>4. QED
    BY <2>3 DEF ApartOf, Quiet, Keyed
<1>3. QED
  BY <1>1, <1>2, GoesKeeps

LEMMA EndsKeeps ==
    ASSUME TypeOK, Requests, UNCHANGED <<user, space, code, held>>,
           NEW r \in Request, Ends(r)
    PROVE  Requests'
<1>1. Quiet(Idle) /\ Idle.user = None
  BY DEF Quiet, Idle, Holds
<1>2. QED
  BY <1>1, IdleFits, QuietGoes DEF Ends

LEMMA OwnFields ==
    ASSUME TypeOK, Requests, NEW r \in Request
    PROVE  ShapeOf(req[r]) /\ ClaimsOf(req[r])
BY DEF Requests, Shapes, Claims

LEMMA QuietSteps ==
    ASSUME TypeOK, Requests, LinksFit, NEW r \in Request, UNCHANGED <<user, space, code, held>>,
           \/ \E l \in Link : ConsumeMagicToken(r, l)
           \/ \E x \in Sub, a \in Address : GoogleCallback(r, x, a)
           \/ \E c \in Code, a \in Address : SubmitSignup(r, c, a)
           \/ \E a \in Address : CheckPassword(r, a)
           \/ FindBySub(r) \/ FindByEmail(r) \/ ReadSpace(r)
           \/ \E u \in Account, a \in Address : SubmitEmail(r, u, a)
           \/ \E u \in Account : SubmitClose(r, u)
    PROVE  Requests'
<1> DEFINE Fits(k) == /\ k \in Req /\ ShapeOf(k) /\ Quiet(k)
                      /\ k.user \in {None, req[r].user} \/ There(user[k.user])
<1> USE NoneAssumption, BoundsAssumption, IdleFits
<1>0. ASSUME NEW k, Fits(k), Goes(r, k)
      PROVE  Requests'
  BY <1>0, QuietGoes
<1>a. ShapeOf(req[r])
  BY OwnFields
<1>b. req[r].pc \notin {"consume", "home", "commit"} =>
         ~req[r].fresh /\ ~req[r].linked /\ req[r].space = None
  BY <1>a DEF ShapeOf
<1>1. ASSUME NEW l \in Link, ConsumeMagicToken(r, l)
      PROVE  Requests'
  <2>1. CASE UNCHANGED req
    <3>1. Requests' <=> Requests
      BY <2>1 DEF Requests, Shapes, Claims, Apart, ClaimsOf, ApartOf, ShapeOf, Keyed, Holds,
                  There, Live, Usable
    <3>2. QED
      BY <3>1
  <2>2. CASE Goes(r, [Idle EXCEPT !.pc = "email", !.address = link[l].address])
    <3>1. link[l].address \in Address
      BY <1>1 DEF ConsumeMagicToken, LinksFit, TypeOK
    <3>2. Fits([Idle EXCEPT !.pc = "email", !.address = link[l].address])
      BY <3>1 DEF Idle, Req, Stage, ShapeOf, Quiet, Holds, Located
    <3>3. QED
      BY <1>0, <2>2, <3>2
  <2>3. QED
    BY <1>1, <2>1, <2>2 DEF ConsumeMagicToken
<1>2. ASSUME NEW x \in Sub, NEW a \in Address, GoogleCallback(r, x, a)
      PROVE  Requests'
  <2>1. Fits([Idle EXCEPT !.pc = "sub", !.sub = x, !.address = a])
    BY DEF Idle, Req, Stage, ShapeOf, Quiet, Holds, Located
  <2>2. QED
    BY <1>0, <1>2, <2>1 DEF GoogleCallback
<1>3. ASSUME NEW c \in Code, NEW a \in Address, SubmitSignup(r, c, a)
      PROVE  Requests'
  <2> DEFINE k == [Idle EXCEPT !.pc = "code", !.code = c, !.address = a, !.password = 1]
  <2>d. MaxPassword > 0
    BY <1>3 DEF SubmitSignup
  <2>a. 1 \in 0..MaxPassword
    BY <2>d
  <2>b. k \in Req
    BY <2>a DEF Idle, Req, Stage
  <2>c. ShapeOf(k) /\ Quiet(k) /\ k.user = None
    BY DEF Idle, ShapeOf, Quiet, Holds, Located
  <2>1. Fits(k)
    BY <2>b, <2>c
  <2>2. QED
    BY <1>0, <1>3, <2>1 DEF SubmitSignup
<1>4. ASSUME NEW a \in Address, CheckPassword(r, a)
      PROVE  Requests'
  <2>1. PICK u \in WithAddress(a) :
           Goes(r, [Idle EXCEPT !.pc = "space", !.user = u, !.password = user[u].password])
    BY <1>4 DEF CheckPassword
  <2>2. u \in Account /\ There(user[u]) /\ user[u].password \in 0..MaxPassword
    BY UserFields DEF WithAddress, LiveUsers, Live
  <2>3. Fits([Idle EXCEPT !.pc = "space", !.user = u, !.password = user[u].password])
    BY <2>2 DEF Idle, Req, Stage, ShapeOf, Quiet, Holds, Located
  <2>4. QED
    BY <1>0, <2>1, <2>3
<1>5. CASE FindBySub(r)
  <2>1. ASSUME NEW u \in WithSub(req[r].sub)
        PROVE  Fits([req[r] EXCEPT !.pc = "home", !.user = u])
    <3>1. u \in Account /\ There(user[u])
      BY DEF WithSub, LiveUsers, Live
    <3>2. QED
      BY <1>5, <1>a, <1>b, <3>1, ReqFields
         DEF FindBySub, AtStage, Req, Stage, ShapeOf, Quiet, Holds, Located
  <2>2. Fits([req[r] EXCEPT !.pc = "email"])
    BY <1>5, <1>a, <1>b, ReqFields
       DEF FindBySub, AtStage, Req, Stage, ShapeOf, Quiet, Holds, Located
  <2>3. QED
    BY <1>0, <1>5, <2>1, <2>2 DEF FindBySub, Moves
<1>6. CASE FindByEmail(r)
  <2>1. ASSUME NEW u \in WithAddress(req[r].address)
        PROVE  Fits([req[r] EXCEPT !.pc = IF req[r].sub # None /\ user[u].sub = None
                                          THEN "backfill" ELSE "home",
                                   !.user = u])
    <3>1. u \in Account /\ There(user[u])
      BY DEF WithAddress, LiveUsers, Live
    <3>2. ASSUME NEW pc \in {"backfill", "home"}, pc = "backfill" => req[r].sub # None
          PROVE  Fits([req[r] EXCEPT !.pc = pc, !.user = u])
      <4> DEFINE k == [req[r] EXCEPT !.pc = pc, !.user = u]
      <4>1. req[r].pc = "email"
        BY <1>6 DEF FindByEmail, AtStage
      <4>2. k \in Req
        BY <3>1, ReqFields DEF Req, Stage
      <4>3. /\ k.pc = pc /\ k.user = u /\ k.sub = req[r].sub /\ k.code = req[r].code
            /\ k.address = req[r].address /\ k.space = req[r].space
            /\ k.fresh = req[r].fresh /\ k.linked = req[r].linked
        BY ReqFields DEF Req
      <4>4. req[r].code = None /\ req[r].address # None
        BY <4>1, <1>a DEF ShapeOf
      <4> HIDE DEF k
      <4>5. ShapeOf(k) /\ Quiet(k)
        BY <4>1, <4>3, <4>4, <1>b, <3>1, <3>2 DEF ShapeOf, Quiet, Holds, Located
      <4>6. k.user = u
        BY <4>3
      <4>7. QED
        BY <4>2, <4>5, <4>6, <3>1 DEF k
    <3>3. CASE req[r].sub # None /\ user[u].sub = None
      BY <3>2, <3>3
    <3>4. CASE ~(req[r].sub # None /\ user[u].sub = None)
      BY <3>2, <3>4
    <3>5. QED
      BY <3>3, <3>4
  <2>2. ASSUME ~BetaMode
        PROVE  Fits([req[r] EXCEPT !.pc = "insert"])
    <3> DEFINE k == [req[r] EXCEPT !.pc = "insert"]
    <3>1. req[r].pc = "email"
      BY <1>6 DEF FindByEmail, AtStage
    <3>2. k \in Req
      BY ReqFields DEF Req, Stage
    <3>3. /\ k.pc = "insert" /\ k.user = req[r].user /\ k.sub = req[r].sub
          /\ k.code = req[r].code /\ k.address = req[r].address
          /\ k.space = req[r].space /\ k.fresh = req[r].fresh /\ k.linked = req[r].linked
      BY ReqFields DEF Req
    <3>4. req[r].code = None /\ req[r].address # None
      BY <3>1, <1>a DEF ShapeOf
    <3> HIDE DEF k
    <3>5. ShapeOf(k) /\ Quiet(k)
      BY <2>2, <3>1, <3>3, <3>4, <1>b DEF ShapeOf, Quiet, Holds, Located
    <3>6. QED
      BY <3>2, <3>3, <3>5 DEF k
  <2>3. QED
    BY <1>0, <1>6, <2>1, <2>2, EndsKeeps DEF FindByEmail, Moves
<1>7. CASE ReadSpace(r)
  <2>1. Fits([req[r] EXCEPT !.pc = "session"])
    BY <1>7, <1>a, <1>b, ReqFields
       DEF ReadSpace, AtStage, Req, Stage, ShapeOf, Quiet, Holds, Located
  <2>2. QED
    BY <1>0, <1>7, <2>1, EndsKeeps DEF ReadSpace, Moves
<1>8. ASSUME NEW u \in Account, NEW a \in Address, SubmitEmail(r, u, a)
      PROVE  Requests'
  <2>1. Fits([Idle EXCEPT !.pc = "rename", !.user = u, !.address = a])
    BY <1>8 DEF SubmitEmail, Authenticated, Live, Idle, Req, Stage, ShapeOf, Quiet, Holds,
                Located
  <2>2. QED
    BY <1>0, <1>8, <2>1 DEF SubmitEmail
<1>9. ASSUME NEW u \in Account, SubmitClose(r, u)
      PROVE  Requests'
  <2>1. Fits([Idle EXCEPT !.pc = "close", !.user = u])
    BY <1>9 DEF SubmitClose, Authenticated, Live, Idle, Req, Stage, ShapeOf, Quiet, Holds,
                Located
  <2>2. QED
    BY <1>0, <1>9, <2>1 DEF SubmitClose
<1>10. QED
  BY <1>1, <1>2, <1>3, <1>4, <1>5, <1>6, <1>7, <1>8, <1>9

LEMMA BackfillKeeps ==
    ASSUME TypeOK, Requests, NEW r \in Request, Backfill(r)
    PROVE  Requests'
<1> DEFINE u == req[r].user
<1> USE NoneAssumption
<1>1. UNCHANGED <<user, space, code, held>> /\ req[r].pc = "backfill"
  BY DEF Backfill, AtStage, rows
<1>2. /\ ShapeOf(req[r]) /\ u \in Account
      /\ ~req[r].fresh /\ ~req[r].linked /\ req[r].space = None
      /\ req[r].code = None /\ req[r].sub # None
  BY <1>1, OwnFields, ReqFields DEF ShapeOf, Located
<1>3. CASE Moves(r, "home")
  <2> DEFINE k == [req[r] EXCEPT !.pc = "home"]
  <2>1. k \in Req
    BY ReqFields DEF Req, Stage
  <2>2. ShapeOf(k) /\ Quiet(k) /\ k.user = u
    BY <1>2, ReqFields DEF Req, ShapeOf, Quiet, Holds, Located
  <2>3. QED
    BY <1>1, <1>2, <1>3, <2>1, <2>2, QuietGoes DEF Moves
<1>4. CASE /\ Live(user[u]) /\ WithSub(req[r].sub) \subseteq {u}
           /\ Goes(r, [req[r] EXCEPT !.pc = "home", !.linked = TRUE])
  <2> DEFINE k == [req[r] EXCEPT !.pc = "home", !.linked = TRUE]
  <2>1. k \in Req
    BY ReqFields DEF Req, Stage
  <2>2. /\ k.pc = "home" /\ k.user = u /\ k.sub = req[r].sub /\ k.code = None
        /\ k.space = None /\ ~k.fresh /\ k.linked
    BY <1>2, ReqFields DEF Req
  <2> HIDE DEF k
  <2>3. ShapeOf(k)
    BY <1>2, <2>2 DEF ShapeOf, Located
  <2>4. ClaimsOf(k)
    BY <1>2, <1>4, <2>2 DEF ClaimsOf, Holds, WithSub, LiveUsers, Backfill, RowFree
  <2>5. ASSUME NEW q \in Request \ {r}
        PROVE  ApartOf(k, req[q])
    <3>1. req[q].fresh => req[q].user # u
      BY <1>2, ApartNow DEF ApartOf
    <3>2. Keyed(req[q]) => req[q].sub # req[r].sub
      BY <1>2, ApartNow DEF Backfill, Awaited, Keyed
    <3>3. QED
      BY <2>2, <3>1, <3>2 DEF ApartOf, Keyed, Holds
  <2>6. QED
    BY <1>1, <1>4, <2>1, <2>3, <2>4, <2>5, GoesKeeps DEF k
<1>5. CASE Ends(r)
  BY <1>1, <1>5, EndsKeeps
<1>6. QED
  BY <1>3, <1>4, <1>5 DEF Backfill

LEMMA CreateUserKeeps ==
    ASSUME TypeOK, Requests, NEW r \in Request, CreateUser(r)
    PROVE  Requests'
<1> USE NoneAssumption
<1>1. UNCHANGED <<user, space, code, held>> /\ req[r].pc = "insert"
  BY DEF CreateUser, AtStage, rows
<1>2. /\ ShapeOf(req[r]) /\ ClaimsOf(req[r]) /\ ~req[r].linked /\ req[r].space = None
      /\ req[r].address # None
  BY <1>1, OwnFields DEF ShapeOf
<1>3. CASE Ends(r)
  BY <1>1, <1>3, EndsKeeps
<1>4. ASSUME ~Taken(req[r].address, req[r].sub),
             NEW u \in FreeAccounts, NEW pc \in {"home", "consume"},
             pc = "home" <=> req[r].code = None,
             Goes(r, [req[r] EXCEPT !.pc = pc, !.user = u, !.fresh = TRUE])
      PROVE  Requests'
  <2> DEFINE k == [req[r] EXCEPT !.pc = pc, !.user = u, !.fresh = TRUE]
  <2>1. /\ u \in Account /\ u # None /\ ~There(user[u])
        /\ \A q \in Request : req[q].user # u
    BY DEF FreeAccounts
  <2>2. k \in Req
    BY <2>1, ReqFields DEF Req, Stage
  <2>3. /\ k.pc = pc /\ k.user = u /\ k.sub = req[r].sub /\ k.code = req[r].code
        /\ k.address = req[r].address /\ k.space = None /\ k.fresh /\ ~k.linked
    BY <1>2, ReqFields DEF Req
  <2> HIDE DEF k
  <2>4. ShapeOf(k)
    BY <1>1, <1>2, <1>4, <2>1, <2>3 DEF ShapeOf, Located
  <2>5. Holds(k) => Holds(req[r])
    BY <1>1, <2>3 DEF Holds
  <2>6. ASSUME NEW v \in Account, Live(user[v])
        PROVE  user[v].address # k.address /\ (k.sub # None => user[v].sub # k.sub)
    BY <1>4, <2>3, <2>6 DEF Taken, WithAddress, WithSub, LiveUsers
  <2>7. ClaimsOf(k)
    BY <1>2, <2>1, <2>3, <2>5, <2>6 DEF ClaimsOf
  <2>8. ASSUME NEW q \in Request \ {r}
        PROVE  ApartOf(k, req[q])
    <3>1. req[q].fresh => req[q].address # k.address
      BY <2>3, ApartNow DEF CreateUser, Awaited
    <3>2. Keyed(req[q]) /\ k.sub # None => req[q].sub # k.sub
      BY <2>3, ApartNow DEF CreateUser, Awaited, Keyed
    <3>3. Holds(k) /\ Holds(req[q]) => k.code # req[q].code
      BY <2>3, <2>5, ApartNow DEF ApartOf
    <3>4. QED
      BY <2>1, <2>3, <3>1, <3>2, <3>3 DEF ApartOf
  <2>9. QED
    BY <1>1, <1>4, <2>2, <2>4, <2>7, <2>8, GoesKeeps DEF k
<1>5. CASE ~Taken(req[r].address, req[r].sub) /\ ~Ends(r)
  <2>1. PICK u \in FreeAccounts :
           Goes(r, [req[r] EXCEPT !.pc = IF req[r].code = None THEN "home" ELSE "consume",
                                  !.user = u, !.fresh = TRUE])
    BY <1>5 DEF CreateUser
  <2>2. CASE req[r].code = None
    BY <1>4, <1>5, <2>1, <2>2
  <2>3. CASE req[r].code # None
    BY <1>4, <1>5, <2>1, <2>3
  <2>4. QED
    BY <2>2, <2>3
<1>6. QED
  BY <1>3, <1>5 DEF CreateUser

LEMMA HoldCodeKeeps ==
    ASSUME TypeOK, Requests, NEW r \in Request, HoldCode(r)
    PROVE  Requests'
<1>1. UNCHANGED <<user, space, code, held>> /\ req[r].pc = "code"
  BY DEF HoldCode, AtStage, rows
<1>2. /\ ShapeOf(req[r]) /\ ClaimsOf(req[r]) /\ ~req[r].fresh /\ ~req[r].linked
      /\ req[r].space = None /\ req[r].address # None /\ req[r].code # None
  BY <1>1, OwnFields DEF ShapeOf
<1>3. CASE Ends(r)
  BY <1>1, <1>3, EndsKeeps
<1>4. CASE Usable(req[r].code) /\ Moves(r, "insert")
  <2> DEFINE k == [req[r] EXCEPT !.pc = "insert"]
  <2>1. k \in Req
    BY ReqFields DEF Req, Stage
  <2>2. /\ k.pc = "insert" /\ k.user = req[r].user /\ k.sub = req[r].sub
        /\ k.code = req[r].code /\ k.address = req[r].address
        /\ k.space = None /\ ~k.fresh /\ ~k.linked
    BY <1>2, ReqFields DEF Req
  <2> HIDE DEF k
  <2>3. ShapeOf(k)
    BY <1>2, <2>2 DEF ShapeOf, Located
  <2>4. ClaimsOf(k)
    BY <1>2, <1>4, <2>2 DEF ClaimsOf
  <2>5. ASSUME NEW q \in Request \ {r}
        PROVE  ApartOf(k, req[q])
    <3>1. req[q].fresh => req[q].user # k.user
      BY <2>2, ApartNow DEF ApartOf
    <3>2. Holds(req[q]) => req[q].code # k.code
      BY <2>2 DEF HoldCode, CodeFree, Holds
    <3>3. QED
      BY <2>2, <3>1, <3>2 DEF ApartOf, Keyed
  <2>6. QED
    BY <1>1, <1>4, <2>1, <2>3, <2>4, <2>5, GoesKeeps DEF k, Moves
<1>5. QED
  BY <1>3, <1>4 DEF HoldCode

LEMMA ConsumeBetaCodeKeeps ==
    ASSUME TypeOK, Requests, NEW r \in Request, ConsumeBetaCode(r)
    PROVE  Requests'
<1> USE NoneAssumption
<1>1. UNCHANGED <<user, space, code, held>> /\ req[r].pc = "consume"
  BY DEF ConsumeBetaCode, AtStage, rows
<1>2. /\ ShapeOf(req[r]) /\ ClaimsOf(req[r]) /\ req[r].fresh /\ ~req[r].linked
      /\ req[r].space = None /\ req[r].address # None /\ req[r].code # None
      /\ req[r].user # None
  BY <1>1, OwnFields DEF ShapeOf, Located
<1>3. CASE Ends(r)
  BY <1>1, <1>3, EndsKeeps
<1>4. ASSUME NEW w \in FreeSpaces, Goes(r, [req[r] EXCEPT !.pc = "commit", !.space = w])
      PROVE  Requests'
  <2> DEFINE k == [req[r] EXCEPT !.pc = "commit", !.space = w]
  <2>1. w \in Space /\ w # None /\ ~There(space[w]) /\ \A q \in Request : req[q].space # w
    BY DEF FreeSpaces
  <2>2. k \in Req
    BY <2>1, ReqFields DEF Req, Stage
  <2>3. /\ k.pc = "commit" /\ k.user = req[r].user /\ k.sub = req[r].sub
        /\ k.code = req[r].code /\ k.address = req[r].address
        /\ k.space = w /\ k.fresh /\ ~k.linked
    BY <1>2, ReqFields DEF Req
  <2> HIDE DEF k
  <2>4. ShapeOf(k)
    BY <1>2, <2>1, <2>3 DEF ShapeOf, Located
  <2>5. Holds(k) <=> Holds(req[r])
    BY <1>1, <2>3 DEF Holds
  <2>6. ClaimsOf(k)
    BY <1>2, <2>1, <2>3, <2>5 DEF ClaimsOf
  <2>7. ASSUME NEW q \in Request \ {r}
        PROVE  ApartOf(k, req[q])
    BY <1>2, <2>1, <2>3, <2>5, ApartNow DEF ApartOf, Keyed
  <2>8. QED
    BY <1>1, <1>4, <2>2, <2>4, <2>6, <2>7, GoesKeeps DEF k
<1>5. QED
  BY <1>3, <1>4 DEF ConsumeBetaCode

LEMMA FindHomeKeeps ==
    ASSUME TypeOK, Requests, Rows, NEW r \in Request, FindHome(r)
    PROVE  Requests'
<1> DEFINE u == req[r].user
<1> USE NoneAssumption
<1>1. UNCHANGED <<user, space, code, held>> /\ req[r].pc = "home"
  BY DEF FindHome, AtStage, rows
<1>2. /\ ShapeOf(req[r]) /\ ClaimsOf(req[r]) /\ u \in Account /\ u # None
      /\ req[r].space = None /\ req[r].code = None
  BY <1>1, OwnFields, ReqFields DEF ShapeOf, Located
<1>3. CASE Ends(r)
  BY <1>1, <1>3, EndsKeeps
<1>4. CASE LiveSpacesOf(u) # {} /\ Moves(r, "commit")
  <2> DEFINE k == [req[r] EXCEPT !.pc = "commit"]
  <2>1. ~req[r].fresh
    BY <1>2, <1>4 DEF Rows, Owned, LiveSpacesOf, Live, ClaimsOf
  <2>2. k \in Req
    BY ReqFields DEF Req, Stage
  <2>3. /\ k.pc = "commit" /\ k.user = u /\ k.sub = req[r].sub
        /\ k.code = None /\ k.address = req[r].address
        /\ k.space = None /\ ~k.fresh /\ k.linked = req[r].linked
    BY <1>2, <2>1, ReqFields DEF Req
  <2> HIDE DEF k
  <2>4. ShapeOf(k)
    BY <1>2, <2>3 DEF ShapeOf, Located
  <2>5. ClaimsOf(k)
    BY <1>2, <2>1, <2>3 DEF ClaimsOf, Holds
  <2>6. ASSUME NEW q \in Request \ {r}
        PROVE  ApartOf(k, req[q])
    BY <2>1, <2>3, ApartNow DEF ApartOf, Keyed, Holds
  <2>7. QED
    BY <1>1, <1>4, <2>2, <2>4, <2>5, <2>6, GoesKeeps DEF k, Moves
<1>5. ASSUME LiveSpacesOf(u) = {}, Refers(r), NEW w \in FreeSpaces,
             Goes(r, [req[r] EXCEPT !.pc = "commit", !.space = w])
      PROVE  Requests'
  <2> DEFINE k == [req[r] EXCEPT !.pc = "commit", !.space = w]
  <2>1. w \in Space /\ w # None /\ ~There(space[w]) /\ \A q \in Request : req[q].space # w
    BY DEF FreeSpaces
  <2>2. ~Live(user[u])
    BY <1>2, <1>5 DEF Rows, Homes, LiveSpacesOf
  <2>3. k \in Req
    BY <2>1, ReqFields DEF Req, Stage
  <2>4. /\ k.pc = "commit" /\ k.user = u /\ k.sub = req[r].sub
        /\ k.code = None /\ k.address = req[r].address
        /\ k.space = w /\ k.fresh = req[r].fresh /\ k.linked = req[r].linked
    BY <1>2, ReqFields DEF Req
  <2> HIDE DEF k
  <2>5. ShapeOf(k)
    BY <1>1, <1>2, <2>1, <2>4 DEF ShapeOf, Located
  <2>6. ClaimsOf(k)
    BY <1>2, <1>5, <2>1, <2>2, <2>4 DEF ClaimsOf, Holds, Refers
  <2>7. ASSUME NEW q \in Request \ {r}
        PROVE  ApartOf(k, req[q])
    BY <2>1, <2>4, ApartNow DEF ApartOf, Keyed, Holds
  <2>8. QED
    BY <1>1, <1>5, <2>3, <2>5, <2>6, <2>7, GoesKeeps DEF k
<1>6. QED
  BY <1>3, <1>4, <1>5 DEF FindHome

-----------------------------------------------------------------------------
(* Steps that write rows.                                                  *)

LEMMA RequestsStay ==
    ASSUME Requests, UNCHANGED <<user, space, code, req, held>>
    PROVE  Requests'
BY DEF Requests, Shapes, Claims, Apart, ClaimsOf, ApartOf, ShapeOf, Keyed, Holds, There, Live,
       Usable

\* A request that writes rows which the others do not count on, and then holds nothing.
LEMMA QuietChanges ==
    ASSUME TypeOK, Requests, NEW r \in Request, NEW k \in Req, Goes(r, k),
           ShapeOf(k), Quiet(k),
           \A q \in Request \ {r} : req[q].fresh => req[q].user # k.user,
           \A q \in Request \ {r} : ClaimsOf(req[q])'
    PROVE  Requests'
<1>1. /\ req' \in [Request -> Req] /\ req'[r] = k
      /\ \A q \in Request \ {r} : req'[q] = req[q]
  BY DEF Requests, Goes
<1>2. Shapes'
  BY <1>1 DEF Requests, Shapes, ShapeOf, Located
<1>3. ClaimsOf(req[r])'
  BY <1>1 DEF ClaimsOf, Quiet, Holds, There
<1>4. Claims'
  BY <1>3 DEF Claims
<1>5. ASSUME NEW q \in Request \ {r}
      PROVE  ApartOf(k, req[q]) /\ ApartOf(req[q], k)
  BY DEF ApartOf, Quiet, Keyed
<1>6. ASSUME NEW p \in Request, NEW q \in Request, p # q
      PROVE  ApartOf(req'[p], req'[q])
  BY <1>1, <1>5, <1>6 DEF Requests, Apart
<1>7. Apart'
  BY <1>6 DEF Apart, ApartOf, Keyed, Holds
<1>8. QED
  BY <1>1, <1>2, <1>4, <1>7 DEF Requests

LEMMA UpdateUserEmailKeeps ==
    ASSUME TypeOK, Requests, Rows, NEW r \in Request, UpdateUserEmail(r)
    PROVE  Requests' /\ Rows' /\ user' \in [Account -> User]
<1> DEFINE u == req[r].user
           a == req[r].address
<1> USE NoneAssumption
<1>1. UNCHANGED <<space, code, held>> /\ req[r].pc = "rename" /\ Ends(r) /\ ~Awaited(r, a, None)
  BY DEF UpdateUserEmail, AtStage
<1>2. ShapeOf(req[r]) /\ u \in Account /\ a \in Address
  BY <1>1, OwnFields, ReqFields DEF ShapeOf, Located
<1>3. CASE UNCHANGED user
  <2>1. Requests' /\ Rows'
    BY <1>1, <1>3, EndsKeeps, RowsStay
  <2>2. QED
    BY <1>3, <2>1 DEF TypeOK
<1>4. CASE /\ Live(user[u]) /\ WithAddress(a) \subseteq {u}
           /\ user' = [user EXCEPT ![u].address = a]
  <2>1. user \in [Account -> User]
    BY DEF TypeOK
  <2>2. /\ user'[u].address = a /\ user'[u].row = user[u].row
        /\ user'[u].sub = user[u].sub /\ user'[u].deleted = user[u].deleted
        /\ user'[u].made = user[u].made
        /\ \A v \in Account \ {u} : user'[v] = user[v]
    BY <1>2, <1>4, <2>1 DEF User
  <2>3. [user[u] EXCEPT !.address = a] \in User
    BY <1>2, <2>1 DEF User
  <2>4. user' \in [Account -> User]
    BY <1>2, <1>4, <2>1, <2>3
  <2>5. /\ \A v \in Account : /\ There(user'[v]) <=> There(user[v])
                              /\ Live(user'[v]) <=> Live(user[v])
                              /\ user'[v].sub = user[v].sub /\ user'[v].made = user[v].made
        /\ \A v \in Account \ {u} : Live(user[v]) => user[v].address # a
    BY <1>4, <2>2 DEF There, Live, WithAddress, LiveUsers
  <2>6. ASSUME NEW q \in Request \ {r}
        PROVE  ClaimsOf(req[q])'
    <3>1. req'[q] = req[q] /\ ClaimsOf(req[q]) /\ req[q].user \in Account \cup {None}
      BY <1>1, ApartNow, ReqFields DEF TypeOK, Ends, Goes
    <3>2. req[q].fresh => req[q].address # a
      BY <1>1, ApartNow DEF Awaited
    <3>3. req[q].fresh => req[q].user \in Account
      BY <3>1, ApartNow DEF ShapeOf, Located, Writing
    <3>4. req[q].space # None /\ ~req[q].fresh => req[q].user \in Account
      BY <3>1, ApartNow DEF ShapeOf, Located
    <3>5. \A v \in Account : v # u => user'[v].address = user[v].address
      BY <2>2
    <3>6. ASSUME req[q].fresh
          PROVE  /\ ~There(user'[req[q].user])
                 /\ \A v \in Account : Live(user'[v]) =>
                       /\ user'[v].address # req[q].address
                       /\ req[q].sub # None => user'[v].sub # req[q].sub
      <4>1. ~There(user'[req[q].user])
        BY <2>5, <3>1, <3>3, <3>6 DEF ClaimsOf
      <4>2. ASSUME NEW v \in Account, Live(user'[v])
            PROVE  /\ user'[v].address # req[q].address
                   /\ req[q].sub # None => user'[v].sub # req[q].sub
        BY <2>2, <2>5, <3>1, <3>2, <3>5, <3>6, <4>2 DEF ClaimsOf
      <4>3. QED
        BY <4>1, <4>2
    <3>7. req[q].linked => req[q].user \in Account
      BY <3>1, ApartNow DEF ShapeOf, Located, Writing
    <3>8. req[q].linked =>
            /\ Live(user'[req[q].user]) /\ held[req[q].user] = "free"
            /\ \A v \in Account : Live(user'[v]) /\ user'[v].sub = req[q].sub => v = req[q].user
      BY <2>5, <3>1, <3>7 DEF ClaimsOf
    <3>9. req[q].space # None =>
            /\ ~There(space[req[q].space])
            /\ ~req[q].fresh => /\ There(user'[req[q].user]) /\ ~Live(user'[req[q].user])
                                /\ held[req[q].user] # "removed"
      BY <2>5, <3>1, <3>4 DEF ClaimsOf
    <3>10. Holds(req[q]) => Usable(req[q].code)
      BY <3>1 DEF ClaimsOf
    <3>11. QED
      BY <1>1, <3>1, <3>6, <3>8, <3>9, <3>10 DEF ClaimsOf, There, Live, Holds, Usable
  <2>7. Requests'
    <3>1. Quiet(Idle) /\ Idle.user = None
      BY DEF Quiet, Idle, Holds
    <3>2. \A q \in Request \ {r} : req[q].fresh => req[q].user # None
      BY ApartNow DEF ShapeOf, Located
    <3>3. QED
      BY <1>1, <2>6, <3>1, <3>2, IdleFits, QuietChanges DEF Ends
  <2>8. Keys'
    <3>1. ASSUME NEW v \in Account, NEW x \in Account, Live(user'[v]), Live(user'[x])
          PROVE  /\ user'[v].address = user'[x].address => v = x
                 /\ user'[v].sub = user'[x].sub /\ user'[v].sub # None => v = x
      BY <2>2, <2>5, <3>1 DEF Rows, Keys
    <3>2. QED
      BY <3>1 DEF Keys, Live, There
  <2>9. Owned'
    BY <1>1, <2>2 DEF Rows, Owned, There, TypeOK, Workspace
  <2>10. Homes'
    BY <1>1, <2>2 DEF Rows, Homes, Live, There
  <2>11. Made'
    BY <1>1, <2>2 DEF Rows, Made, There
  <2>12. QED
    BY <2>4, <2>7, <2>8, <2>9, <2>10, <2>11 DEF Rows
<1>5. QED
  BY <1>3, <1>4 DEF UpdateUserEmail

LEMMA SetUserPasswordKeeps ==
    ASSUME TypeOK, Requests, Rows, NEW r \in Request, NEW u \in Account, SetUserPassword(r, u)
    PROVE  Requests' /\ Rows' /\ user' \in [Account -> User]
<1> DEFINE k == [Idle EXCEPT !.pc = "revoke", !.user = u]
<1> USE NoneAssumption, BoundsAssumption
<1>1. /\ UNCHANGED <<space, code, held>> /\ Goes(r, k) /\ Live(user[u])
      /\ user' = [user EXCEPT ![u] = [user[u] EXCEPT !.password = user[u].password + 1]]
  BY DEF SetUserPassword
<1>2. user \in [Account -> User]
  BY DEF TypeOK
<1>3. user[u].password + 1 \in 0..MaxPassword
  BY UserFields DEF SetUserPassword
<1>4. user' \in [Account -> User]
  <2>1. [user[u] EXCEPT !.password = user[u].password + 1] \in User
    BY <1>2, <1>3 DEF User
  <2>2. QED
    BY <1>1, <1>2, <2>1
<1>5. \A v \in Account :
         /\ user'[v].row = user[v].row /\ user'[v].address = user[v].address
         /\ user'[v].sub = user[v].sub /\ user'[v].deleted = user[v].deleted
         /\ user'[v].made = user[v].made
  BY <1>1, <1>2 DEF User
<1>6. k \in Req /\ ShapeOf(k) /\ Quiet(k) /\ k.user = u
  BY IdleFits DEF Idle, Req, Stage, ShapeOf, Quiet, Holds, Located
<1>7. ASSUME NEW q \in Request \ {r}
      PROVE  ClaimsOf(req[q])'
  <2>1. /\ req'[q] = req[q] /\ ClaimsOf(req[q]) /\ ShapeOf(req[q])
        /\ req[q].user \in Account \cup {None}
    BY <1>1, ApartNow, ReqFields DEF TypeOK, Goes
  <2>2. req[q].fresh \/ req[q].linked \/ req[q].space # None => req[q].user \in Account
    BY <2>1 DEF ShapeOf, Located
  <2>3. QED
    BY <1>1, <1>5, <2>1, <2>2 DEF ClaimsOf, There, Live, Holds, Usable
<1>8. \A q \in Request \ {r} : req[q].fresh => req[q].user # u
  BY <1>1, ApartNow DEF ClaimsOf, Live
<1>9. Requests'
  <2>1. There(user'[u])
    BY <1>1, <1>5 DEF Live, There
  <2> HIDE DEF k
  <2>2. QED
    BY <1>1, <1>6, <1>7, <1>8, <2>1, QuietChanges
<1>10. Rows'
  <2>1. Keys'
    BY <1>5 DEF Rows, Keys, Live, There
  <2>2. Owned'
    BY <1>1, <1>5 DEF Rows, Owned, There, TypeOK, Workspace
  <2>3. Homes'
    BY <1>1, <1>5 DEF Rows, Homes, Live, There
  <2>4. Made'
    BY <1>1, <1>5 DEF Rows, Made, There
  <2>5. QED
    BY <2>1, <2>2, <2>3, <2>4 DEF Rows
<1>11. QED
  BY <1>4, <1>9, <1>10

LEMMA DeleteAccountKeeps ==
    ASSUME TypeOK, Requests, Rows, NEW r \in Request, DeleteAccount(r)
    PROVE  /\ Requests' /\ Rows' /\ user' \in [Account -> User]
           /\ space' \in [Space -> Workspace]
<1> DEFINE u == req[r].user
<1> USE NoneAssumption, BoundsAssumption
<1>1. /\ UNCHANGED <<code, held>> /\ req[r].pc = "close" /\ Ends(r) /\ RowFree(r, u)
      /\ space' = [w \in Space |-> IF w \in LiveSpacesOf(u)
                                   THEN [space[w] EXCEPT !.deleted = day] ELSE space[w]]
      /\ user' = IF Live(user[u]) THEN [user EXCEPT ![u] = [user[u] EXCEPT !.deleted = day]]
                 ELSE user
  BY DEF DeleteAccount, AtStage
<1>2. ShapeOf(req[r]) /\ u \in Account
  BY <1>1, OwnFields, ReqFields DEF ShapeOf, Located
<1>3. user \in [Account -> User] /\ space \in [Space -> Workspace]
  BY DEF TypeOK
<1>4. day \in When /\ day # Never
  BY DEF TypeOK, When, Never
<1>5. user' \in [Account -> User]
  <2>1. [user[u] EXCEPT !.deleted = day] \in User
    BY <1>2, <1>3, <1>4 DEF User
  <2>2. QED
    BY <1>1, <1>2, <1>3, <2>1
<1>6. space' \in [Space -> Workspace]
  <2>1. ASSUME NEW w \in Space
        PROVE  [space[w] EXCEPT !.deleted = day] \in Workspace
    BY <1>3, <1>4 DEF Workspace
  <2>2. QED
    BY <1>1, <1>3, <2>1
<1>7. ASSUME NEW v \in Account
      PROVE  /\ user'[v].row = user[v].row /\ user'[v].address = user[v].address
             /\ user'[v].sub = user[v].sub /\ user'[v].made = user[v].made
             /\ v # u => user'[v].deleted = user[v].deleted
             /\ Live(user'[v]) <=> Live(user[v]) /\ v # u
  <2>1. CASE v = u /\ Live(user[u])
    <3>1. user'[v] = [user[u] EXCEPT !.deleted = day]
      BY <1>1, <1>2, <1>3, <2>1
    <3>2. QED
      BY <1>2, <1>3, <1>4, <2>1, <3>1 DEF User, Live
  <2>2. CASE v # u \/ ~Live(user[u])
    <3>1. user'[v] = user[v]
      BY <1>1, <1>2, <1>3, <2>2
    <3>2. QED
      BY <2>2, <3>1
  <2>3. QED
    BY <2>1, <2>2
<1>8. ASSUME NEW w \in Space
      PROVE  /\ space'[w].row = space[w].row /\ space'[w].owner = space[w].owner
             /\ Live(space'[w]) <=> Live(space[w]) /\ space[w].owner # u
  <2>1. CASE w \in LiveSpacesOf(u)
    <3>1. space'[w] = [space[w] EXCEPT !.deleted = day] /\ space[w].owner = u
      BY <1>1, <2>1 DEF LiveSpacesOf
    <3>2. QED
      BY <1>3, <1>4, <3>1 DEF Workspace, Live
  <2>2. CASE w \notin LiveSpacesOf(u)
    BY <1>1, <2>2 DEF LiveSpacesOf
  <2>3. QED
    BY <2>1, <2>2
<1>9. ASSUME NEW q \in Request \ {r}
      PROVE  ClaimsOf(req[q])'
  <2>1. /\ req'[q] = req[q] /\ ClaimsOf(req[q]) /\ ShapeOf(req[q])
        /\ req[q].user \in Account \cup {None} /\ req[q].space \in Space \cup {None}
    BY <1>1, ApartNow, ReqFields DEF TypeOK, Ends, Goes
  <2>2. /\ req[q].fresh \/ req[q].linked \/ req[q].space # None => req[q].user \in Account
        /\ req[q].linked => req[q].user # u
    BY <1>1, <2>1, ApartNow DEF ShapeOf, Located, RowFree
  <2>3. \A v \in Account : There(user'[v]) <=> There(user[v])
    BY <1>7 DEF There
  <2>4. \A w \in Space : There(space'[w]) <=> There(space[w])
    BY <1>8 DEF There
  <2>5. Holds(req[q])' => Usable(req[q].code)'
    BY <1>1, <2>1 DEF ClaimsOf, Holds, Usable
  <2>6. req[q].fresh =>
          /\ ~There(user'[req[q].user])
          /\ \A v \in Account : Live(user'[v]) =>
                /\ user'[v].address # req[q].address
                /\ req[q].sub # None => user'[v].sub # req[q].sub
    BY <1>7, <2>1, <2>2, <2>3 DEF ClaimsOf
  <2>7. req[q].linked =>
          /\ Live(user'[req[q].user]) /\ held[req[q].user] = "free"
          /\ \A v \in Account : Live(user'[v]) /\ user'[v].sub = req[q].sub => v = req[q].user
    <3>1. req[q].linked => Live(user'[req[q].user]) /\ held[req[q].user] = "free"
      BY <1>7, <2>1, <2>2 DEF ClaimsOf
    <3>2. \A v \in Account : Live(user'[v]) => Live(user[v]) /\ user'[v].sub = user[v].sub
      BY <1>7
    <3>3. QED
      BY <2>1, <3>1, <3>2 DEF ClaimsOf
  <2>8. req[q].space # None =>
          /\ ~There(space'[req[q].space])
          /\ ~req[q].fresh => /\ There(user'[req[q].user]) /\ ~Live(user'[req[q].user])
                              /\ held[req[q].user] # "removed"
    <3>1. req[q].space # None => ~There(space'[req[q].space])
      BY <2>1, <2>4 DEF ClaimsOf
    <3>2. req[q].space # None /\ ~req[q].fresh =>
             /\ There(user'[req[q].user]) /\ ~Live(user'[req[q].user])
             /\ held[req[q].user] # "removed"
      BY <1>7, <2>1, <2>2, <2>3 DEF ClaimsOf
    <3>3. QED
      BY <3>1, <3>2
  <2> HIDE DEF u
  <2>9. QED
    BY <1>1, <2>1, <2>5, <2>6, <2>7, <2>8 DEF ClaimsOf, There, Live
<1>10. Requests'
  <2>1. Quiet(Idle) /\ Idle.user = None
    BY DEF Quiet, Idle, Holds
  <2>2. \A q \in Request \ {r} : req[q].fresh => req[q].user # None
    BY ApartNow DEF ShapeOf, Located
  <2>3. QED
    BY <1>1, <1>9, <2>1, <2>2, IdleFits, QuietChanges DEF Ends
<1>11. Keys'
  <2>1. ASSUME NEW v \in Account, NEW x \in Account, Live(user'[v]), Live(user'[x])
        PROVE  /\ user'[v].address = user'[x].address => v = x
               /\ user'[v].sub = user'[x].sub /\ user'[v].sub # None => v = x
    BY <1>7, <2>1 DEF Rows, Keys
  <2>2. QED
    BY <2>1 DEF Keys, Live, There
<1>12. Owned'
  BY <1>3, <1>7, <1>8 DEF Rows, Owned, There, Workspace
<1>13. Homes'
  <2>1. ASSUME NEW v \in Account, Live(user'[v])
        PROVE  \E w \in Space : \A x \in Space :
                   Live(space'[x]) /\ space'[x].owner = v <=> x = w
    <3>1. v # u /\ Live(user[v])
      BY <1>7, <2>1
    <3>2. PICK w \in Space : \A x \in Space : Live(space[x]) /\ space[x].owner = v <=> x = w
      BY <3>1 DEF Rows, Homes
    <3>3. QED
      BY <1>8, <3>1, <3>2
  <2>2. QED
    BY <2>1 DEF Homes, Live, There
<1>14. Made'
  <2>1. \A v \in Account : user'[v].made = user[v].made /\ user'[v].row = user[v].row
    BY <1>7
  <2>2. code' = code /\ Made
    BY <1>1 DEF Rows
  <2> HIDE DEF u
  <2>3. QED
    BY <2>1, <2>2 DEF Made, There
<1>15. QED
  BY <1>5, <1>6, <1>10, <1>11, <1>12, <1>13, <1>14 DEF Rows

LEMMA RevokeBetaCodeKeeps ==
    ASSUME TypeOK, Requests, Rows, NEW c \in Code, RevokeBetaCode(c)
    PROVE  /\ Requests' /\ Rows'
           /\ code' \in [Code -> [used : BOOLEAN, revoked : BOOLEAN]]
<1>1. /\ UNCHANGED <<user, space, req, held>> /\ Usable(c)
      /\ code' = [code EXCEPT ![c] = [code[c] EXCEPT !.revoked = TRUE]]
      /\ \A q \in Request : Holds(req[q]) => req[q].code # c
  BY DEF RevokeBetaCode, Holds
<1>2. code \in [Code -> [used : BOOLEAN, revoked : BOOLEAN]]
  BY DEF TypeOK
<1>3. /\ code' \in [Code -> [used : BOOLEAN, revoked : BOOLEAN]]
      /\ \A d \in Code \ {c} : code'[d] = code[d]
      /\ code'[c].used = code[c].used
  BY <1>1, <1>2
<1>4. ASSUME NEW q \in Request
      PROVE  ClaimsOf(req[q])'
  <2>1. ClaimsOf(req[q]) /\ req[q].code \in Code \cup {None}
    BY ReqFields DEF Requests, Claims
  <2>2. Holds(req[q]) => req[q].code \in Code \ {c}
    BY <1>1, <2>1 DEF Holds
  <2>3. QED
    BY <1>1, <1>3, <2>1, <2>2 DEF ClaimsOf, There, Live, Holds, Usable
<1>5. Requests'
  <2>1. Shapes' /\ Apart' /\ req' \in [Request -> Req]
    BY <1>1 DEF Requests, Shapes, ShapeOf, Apart, ApartOf, Keyed, Holds
  <2>2. QED
    BY <1>4, <2>1 DEF Requests, Claims
<1>6. Keys' /\ Owned' /\ Homes'
  BY <1>1 DEF Rows, Keys, Owned, Homes, Live, There
<1>7. Made'
  <2>1. \A u \in Account : user[u].made # None => user[u].made \in Code \ {c}
    BY <1>1, UserFields DEF Rows, Made, Usable
  <2>2. QED
    BY <1>1, <1>3, <2>1 DEF Rows, Made
<1>8. QED
  BY <1>3, <1>5, <1>6, <1>7 DEF Rows

\* What was not committed appears, all of it.
LEMMA CommitLoginKeeps ==
    ASSUME TypeOK, Requests, Rows, NEW r \in Request, CommitLogin(r)
    PROVE  /\ Requests' /\ Rows' /\ user' \in [Account -> User]
           /\ space' \in [Space -> Workspace] /\ surveys' \subseteq SurveyRow
           /\ code' \in [Code -> [used : BOOLEAN, revoked : BOOLEAN]]
<1> DEFINE u == req[r].user
           w == req[r].space
           a == req[r].address
           x == req[r].sub
           c == req[r].code
           new == [row |-> "there", address |-> a, sub |-> x, password |-> req[r].password,
                   deleted |-> Never, made |-> c]
           home == [row |-> "there", owner |-> u, deleted |-> Never]
           k == [req[r] EXCEPT !.pc = "session", !.space = None,
                               !.fresh = FALSE, !.linked = FALSE]
<1> USE NoneAssumption, BoundsAssumption
<1>1. /\ req[r].pc = "commit" /\ Goes(r, k) /\ UNCHANGED held
      /\ user' = IF req[r].fresh THEN [user EXCEPT ![u] = new]
                 ELSE IF req[r].linked THEN [user EXCEPT ![u] = [user[u] EXCEPT !.sub = x]]
                 ELSE user
      /\ IF w = None THEN UNCHANGED <<space, surveys>>
         ELSE /\ space' = [space EXCEPT ![w] = home]
              /\ surveys' = surveys \cup {[of |-> w, by |-> u, origin |-> "starter",
                                           deleted |-> Never]}
      /\ code' = IF c = None THEN code
                 ELSE [code EXCEPT ![c] = [code[c] EXCEPT !.used = TRUE]]
  BY DEF CommitLogin, AtStage
<1>2. /\ ShapeOf(req[r]) /\ ClaimsOf(req[r]) /\ u \in Account /\ w \in Space \cup {None}
      /\ a \in Address \cup {None} /\ x \in Sub \cup {None} /\ c \in Code \cup {None}
      /\ req[r].password \in 0..MaxPassword
      /\ req[r].fresh => a # None /\ w # None /\ ~req[r].linked
      /\ req[r].linked => x # None
  BY <1>1, OwnFields, ReqFields DEF ShapeOf, Located
<1>3. /\ user \in [Account -> User] /\ space \in [Space -> Workspace]
      /\ surveys \subseteq SurveyRow
      /\ code \in [Code -> [used : BOOLEAN, revoked : BOOLEAN]]
  BY DEF TypeOK
<1>4. Never \in When
  BY DEF Never, When
<1> HIDE DEF k
<1>5. user' \in [Account -> User]
  <2>1. req[r].fresh => new \in User
    BY <1>2, <1>4 DEF User
  <2>2. [user[u] EXCEPT !.sub = x] \in User
    BY <1>2, <1>3 DEF User
  <2> HIDE DEF new
  <2>3. QED
    BY <1>1, <1>2, <1>3, <2>1, <2>2
<1>6. space' \in [Space -> Workspace]
  <2>1. home \in Workspace
    BY <1>2, <1>4 DEF Workspace
  <2> HIDE DEF home
  <2>2. QED
    BY <1>1, <1>2, <1>3, <2>1
<1>7. surveys' \subseteq SurveyRow
  <2>1. w # None => [of |-> w, by |-> u, origin |-> "starter", deleted |-> Never] \in SurveyRow
    BY <1>2, <1>4 DEF SurveyRow
  <2>2. QED
    BY <1>1, <1>3, <2>1
<1>8. /\ code' \in [Code -> [used : BOOLEAN, revoked : BOOLEAN]]
      /\ \A d \in Code : code[d].used \/ d = c => code'[d].used
      /\ \A d \in Code : ~code[d].used /\ d # c => ~code'[d].used
      /\ \A d \in Code : ~code[d].revoked => ~code'[d].revoked
  <2>1. CASE c = None
    <3>1. code' = code /\ c \notin Code
      BY <1>1, <2>1
    <3>2. QED
      BY <1>3, <3>1
  <2>2. CASE c # None
    <3>1. c \in Code /\ code' = [code EXCEPT ![c] = [code[c] EXCEPT !.used = TRUE]]
      BY <1>1, <1>2, <2>2
    <3>2. code[c] \in [used : BOOLEAN, revoked : BOOLEAN]
      BY <1>3, <3>1
    <3>3. /\ code'[c] = [code[c] EXCEPT !.used = TRUE]
          /\ \A d \in Code \ {c} : code'[d] = code[d]
          /\ [code[c] EXCEPT !.used = TRUE] \in [used : BOOLEAN, revoked : BOOLEAN]
          /\ code' \in [Code -> [used : BOOLEAN, revoked : BOOLEAN]]
      BY <1>3, <3>1, <3>2
    <3>4. code'[c].used /\ (~code[c].revoked => ~code'[c].revoked)
      <4>1. code'[c].used = TRUE /\ code'[c].revoked = code[c].revoked
        BY <3>2, <3>3
      <4>2. QED
        BY <4>1
    <3> HIDE DEF c
    <3>5. QED
      BY <3>1, <3>3, <3>4
  <2>3. QED
    BY <2>1, <2>2
<1>9. /\ \A v \in Account \ {u} : user'[v] = user[v]
      /\ req[r].fresh => user'[u] = new
      /\ ~req[r].fresh =>
            /\ user'[u].row = user[u].row /\ user'[u].address = user[u].address
            /\ user'[u].deleted = user[u].deleted /\ user'[u].made = user[u].made
            /\ req[r].linked => user'[u].sub = x
            /\ ~req[r].linked => user'[u].sub = user[u].sub
  <2>1. CASE req[r].fresh
    BY <1>1, <1>2, <1>3, <2>1
  <2>2. CASE ~req[r].fresh
    BY <1>1, <1>2, <1>3, <2>2 DEF User
  <2>3. QED
    BY <2>1, <2>2
<1>10. req[r].fresh => /\ There(user'[u]) /\ Live(user'[u])
                       /\ user'[u].address = a /\ user'[u].sub = x /\ user'[u].made = c
  BY <1>9 DEF There, Live
<1>11. ~req[r].fresh => (There(user'[u]) <=> There(user[u])) /\ (Live(user'[u]) <=> Live(user[u]))
  BY <1>9 DEF There, Live
<1>12. /\ \A v \in Account : There(user[v]) => There(user'[v])
       /\ \A v \in Account \ {u} :
             (There(user'[v]) <=> There(user[v])) /\ (Live(user'[v]) <=> Live(user[v]))
  BY <1>9, <1>10, <1>11
<1>13. /\ \A y \in Space : y # w => space'[y] = space[y]
       /\ w # None => /\ space'[w].owner = u /\ There(space'[w]) /\ Live(space'[w])
                      /\ ~There(space[w]) /\ (~req[r].fresh => ~Live(user[u]))
  <2>1. w # None => space'[w] = home
    BY <1>1, <1>2, <1>3
  <2>2. \A y \in Space : y # w => space'[y] = space[y]
    BY <1>1, <1>2, <1>3
  <2>3. QED
    BY <1>2, <2>1, <2>2 DEF There, Live, ClaimsOf
<1>14. c # None => c \in Code /\ Usable(c)
  BY <1>1, <1>2 DEF ClaimsOf, Holds
<1> HIDE DEF u, w, a, x, c, new, home
<1>15. ASSUME req[r].fresh, NEW v \in Account, v # u, Live(user'[v])
       PROVE  user'[v].address # a /\ (x # None => user'[v].sub # x)
  BY <1>2, <1>9, <1>12, <1>15 DEF ClaimsOf, a, x
<1>16. ASSUME req[r].linked, NEW v \in Account, v # u, Live(user'[v])
       PROVE  user'[v].sub # x
  BY <1>2, <1>9, <1>12, <1>16 DEF ClaimsOf, u, x
<1>17. ASSUME NEW q \in Request \ {r}
       PROVE  /\ req[q].fresh => req[q].user # u
              /\ ClaimsOf(req[q])'
  <2>1. /\ req'[q] = req[q] /\ ClaimsOf(req[q]) /\ ShapeOf(req[q])
        /\ req[q].user \in Account \cup {None} /\ req[q].space \in Space \cup {None}
        /\ req[q].code \in Code \cup {None}
    BY <1>1, ApartNow, ReqFields DEF TypeOK, Goes
  <2>2. /\ req[q].fresh \/ req[r].fresh => req[q].user # u
        /\ req[q].fresh /\ req[r].fresh => req[q].address # a
        /\ Keyed(req[q]) /\ Keyed(req[r]) => req[q].sub # x \/ x = None
        /\ req[q].space # None => req[q].space # w
        /\ Holds(req[q]) /\ c # None => req[q].code # c
    BY <1>1, ApartNow DEF ApartOf, Holds, u, a, x, w, c
  <2>3. req[q].fresh \/ req[q].linked \/ req[q].space # None => req[q].user \in Account
    BY <2>1 DEF ShapeOf, Located
  <2>4. ASSUME req[q].fresh
        PROVE  /\ ~There(user'[req[q].user])
               /\ \A v \in Account : Live(user'[v]) =>
                     /\ user'[v].address # req[q].address
                     /\ req[q].sub # None => user'[v].sub # req[q].sub
    <3>1. ~There(user'[req[q].user])
      BY <1>12, <2>1, <2>2, <2>3, <2>4 DEF ClaimsOf
    <3>2. ASSUME NEW v \in Account, Live(user'[v]), v # u
          PROVE  /\ user'[v].address # req[q].address
                 /\ req[q].sub # None => user'[v].sub # req[q].sub
      BY <1>9, <1>12, <2>1, <2>4, <3>2 DEF ClaimsOf
    <3>3. ASSUME Live(user'[u])
          PROVE  /\ user'[u].address # req[q].address
                 /\ req[q].sub # None => user'[u].sub # req[q].sub
      <4>1. CASE req[r].fresh
        BY <1>10, <2>2, <2>4, <4>1 DEF Keyed
      <4>2. CASE ~req[r].fresh
        BY <1>2, <1>9, <1>11, <2>1, <2>2, <2>4, <3>3, <4>2 DEF ClaimsOf, Keyed
      <4>3. QED
        BY <4>1, <4>2
    <3>4. QED
      BY <3>1, <3>2, <3>3
  <2>5. req[q].linked => Live(user'[req[q].user]) /\ held[req[q].user] = "free"
    BY <1>11, <1>12, <2>1, <2>2, <2>3 DEF ClaimsOf
  <2>6. ASSUME req[q].linked, NEW v \in Account, Live(user'[v]), user'[v].sub = req[q].sub
        PROVE  v = req[q].user
    <3>1. req[q].sub # None
      BY <2>1, <2>6 DEF ShapeOf
    <3>2. CASE v # u
      BY <1>9, <1>12, <2>1, <2>6, <3>2 DEF ClaimsOf
    <3>3. CASE v = u /\ Keyed(req[r])
      BY <1>9, <1>10, <2>2, <2>6, <3>1, <3>3 DEF Keyed
    <3>4. CASE v = u /\ ~Keyed(req[r])
      BY <1>2, <1>9, <1>11, <2>1, <2>6, <3>4 DEF ClaimsOf, Keyed
    <3>5. QED
      BY <3>2, <3>3, <3>4
  <2>7. ASSUME req[q].space # None
        PROVE  /\ ~There(space'[req[q].space])
               /\ ~req[q].fresh => /\ There(user'[req[q].user]) /\ ~Live(user'[req[q].user])
                                   /\ held[req[q].user] # "removed"
    <3>1. /\ ~There(space[req[q].space])
          /\ ~req[q].fresh => /\ There(user[req[q].user]) /\ ~Live(user[req[q].user])
                              /\ held[req[q].user] # "removed"
      BY <2>1, <2>7 DEF ClaimsOf
    <3>2. ~There(space'[req[q].space])
      BY <1>13, <2>1, <2>2, <2>7, <3>1
    <3>3. QED
      BY <1>11, <1>12, <2>2, <2>3, <2>7, <3>1, <3>2
  <2>8. Holds(req[q]) => ~code'[req[q].code].used /\ ~code'[req[q].code].revoked
    <3>1. Holds(req[q]) => req[q].code \in Code \ {c} /\ Usable(req[q].code)
      BY <2>1, <2>2 DEF ClaimsOf, Holds
    <3>2. QED
      BY <1>8, <3>1 DEF Usable
  <2>9. QED
    BY <1>1, <2>1, <2>2, <2>4, <2>5, <2>6, <2>7, <2>8 DEF ClaimsOf, Holds, Usable
<1>18. Requests'
  <2>1. k \in Req
    BY ReqFields DEF k, Req, Stage
  <2>2. /\ k.pc = "session" /\ k.user = u /\ k.space = None /\ ~k.fresh /\ ~k.linked
        /\ k.code = req[r].code
    BY ReqFields DEF k, Req, u
  <2>3. ShapeOf(k) /\ Quiet(k)
    BY <1>2, <2>2 DEF ShapeOf, Quiet, Holds, Located
  <2>4. QED
    BY <1>1, <1>17, <2>1, <2>2, <2>3, QuietChanges
<1>19. Keys'
  <2>1. ASSUME NEW v \in Account, NEW y \in Account, Live(user'[v]), Live(user'[y]), v # y
        PROVE  /\ user'[v].address # user'[y].address
               /\ user'[v].sub = user'[y].sub => user'[v].sub = None
    <3>1. CASE v # u /\ y # u
      BY <1>9, <1>12, <2>1, <3>1 DEF Rows, Keys
    <3>2. ASSUME NEW z \in Account, Live(user'[z]), z # u, Live(user'[u])
          PROVE  /\ user'[z].address # user'[u].address
                 /\ user'[z].sub = user'[u].sub => user'[z].sub = None
      <4>1. CASE req[r].fresh
        BY <1>10, <1>15, <3>2, <4>1
      <4>2. CASE ~req[r].fresh
        <5>1. Live(user[u]) /\ Live(user[z]) /\ user'[z] = user[z]
          BY <1>9, <1>11, <1>12, <3>2, <4>2
        <5>2. /\ user[z].address # user[u].address
              /\ user[z].sub = user[u].sub => user[z].sub = None
          BY <1>2, <3>2, <5>1 DEF Rows, Keys
        <5>3. QED
          BY <1>9, <1>16, <3>2, <4>2, <5>1, <5>2
      <4>3. QED
        BY <4>1, <4>2
    <3>3. CASE v = u
      BY <2>1, <3>2, <3>3
    <3>4. CASE y = u
      BY <2>1, <3>2, <3>4
    <3>5. QED
      BY <3>1, <3>3, <3>4
  <2>2. QED
    BY <2>1 DEF Keys, Live, There
<1>20. Owned'
  <2>1. ASSUME NEW y \in Space, There(space'[y])
        PROVE  space'[y].owner # None /\ There(user'[space'[y].owner])
    <3>1. CASE y = w
      <4>1. w # None
        BY <2>1, <3>1, NoneAssumption
      <4>2. There(user'[u])
        BY <1>2, <1>10, <1>11, <4>1 DEF ClaimsOf, u, w
      <4>3. QED
        BY <1>2, <1>13, <3>1, <4>1, <4>2
    <3>2. CASE y # w
      <4>1. space'[y] = space[y]
        BY <1>13, <3>2
      <4>2. space[y].owner # None /\ There(user[space[y].owner]) /\ space[y].owner \in Account
        BY <2>1, <4>1, SpaceFields DEF Rows, Owned
      <4>3. QED
        BY <1>12, <4>1, <4>2
    <3>3. QED
      BY <3>1, <3>2
  <2>2. QED
    BY <2>1 DEF Owned, There
<1>21. Homes'
  <2>1. ASSUME NEW v \in Account, Live(user'[v])
        PROVE  \E z \in Space : \A y \in Space :
                   Live(space'[y]) /\ space'[y].owner = v <=> y = z
    <3>1. CASE v = u /\ req[r].fresh
      <4>1. w \in Space /\ ~There(user[u])
        BY <1>2, <3>1 DEF ClaimsOf, u
      <4>2. ASSUME NEW y \in Space, y # w
            PROVE  ~(Live(space[y]) /\ space[y].owner = u)
        BY <4>1 DEF Rows, Owned, Live
      <4>3. \A y \in Space : Live(space'[y]) /\ space'[y].owner = u <=> y = w
        BY <1>2, <1>13, <3>1, <4>2
      <4>4. QED
        BY <3>1, <4>1, <4>3
    <3>2. CASE ~(v = u /\ req[r].fresh)
      <4>1. Live(user[v])
        BY <1>11, <1>12, <2>1, <3>2
      <4>2. PICK z \in Space : \A y \in Space : Live(space[y]) /\ space[y].owner = v <=> y = z
        BY <4>1 DEF Rows, Homes
      <4>3. w # None => v # u /\ z # w
        BY <1>13, <3>2, <4>1, <4>2 DEF Live
      <4>4. \A y \in Space : Live(space'[y]) /\ space'[y].owner = v <=> y = z
        BY <1>2, <1>13, <4>2, <4>3
      <4>5. QED
        BY <4>4
    <3>3. QED
      BY <3>1, <3>2
  <2>2. QED
    BY <2>1 DEF Homes, Live, There
<1>22. Made'
  <2>1. ASSUME NEW v \in Account, v # u \/ ~req[r].fresh
        PROVE  user'[v].made = user[v].made /\ (There(user'[v]) <=> There(user[v]))
    BY <1>9, <1>11, <1>12, <2>1
  <2>2. req[r].fresh => user'[u].made = c
    BY <1>10
  <2>3. \A v \in Account : user[v].made # None =>
           user[v].made \in Code /\ code[user[v].made].used /\ ~code[user[v].made].revoked
    BY UserFields DEF Rows, Made
  <2>4. \A v \in Account : user[v].made # None => user[v].made # c
    BY <1>14, <2>3 DEF Usable
  <2>5. ASSUME NEW v \in Account, user'[v].made # None
        PROVE  code'[user'[v].made].used /\ ~code'[user'[v].made].revoked
    <3>1. CASE v = u /\ req[r].fresh
      BY <1>8, <1>14, <2>2, <2>5, <3>1 DEF Usable
    <3>2. CASE ~(v = u /\ req[r].fresh)
      BY <1>8, <2>1, <2>3, <2>5, <3>2
    <3>3. QED
      BY <3>1, <3>2
  <2>6. ASSUME NEW v \in Account, NEW y \in Account,
               user'[v].made = user'[y].made, user'[v].made # None
        PROVE  v = y
    <3>1. CASE req[r].fresh
      BY <2>1, <2>2, <2>4, <2>6, <3>1 DEF Rows, Made
    <3>2. CASE ~req[r].fresh
      BY <2>1, <2>6, <3>2 DEF Rows, Made
    <3>3. QED
      BY <3>1, <3>2
  <2>7. ASSUME BetaMode, NEW v \in Account, There(user'[v])
        PROVE  user'[v].made # None
    <3>1. CASE v = u /\ req[r].fresh
      BY <1>2, <2>2, <2>7, <3>1 DEF ShapeOf, c
    <3>2. CASE ~(v = u /\ req[r].fresh)
      BY <2>1, <2>7, <3>2 DEF Rows, Made
    <3>3. QED
      BY <3>1, <3>2
  <2>8. QED
    BY <2>5, <2>6, <2>7 DEF Made, There
<1>23. QED
  BY <1>5, <1>6, <1>7, <1>8, <1>18, <1>19, <1>20, <1>21, <1>22 DEF Rows

-----------------------------------------------------------------------------
(* The accounts by themselves.                                             *)

LEMMA InvParts == IInv <=> TypeOK /\ Requests /\ Rows /\ LinksFit
BY DEF IInv, Requests, Rows, TypeOK

LEMMA InitIInv == Init => IInv
<1> SUFFICES ASSUME Init
             PROVE  IInv
  OBVIOUS
<1> USE NoneAssumption, BoundsAssumption
<1>1. TypeOK
  <2>1. NoUser \in User /\ NoSpace \in Workspace
    BY DEF NoUser, NoSpace, User, Workspace, When, Never
  <2>2. 0 \in 0..MaxDay
    OBVIOUS
  <2>3. QED
    BY <2>1, <2>2, IdleFits DEF Init, TypeOK
<1>2. \A r \in Request : req[r] = Idle
  BY DEF Init
<1>3. Quiet(Idle) /\ Idle.user = None
  BY DEF Quiet, Idle, Holds
<1>4. Shapes /\ Claims /\ Apart
  BY <1>2, <1>3, IdleFits DEF Shapes, Claims, Apart, ClaimsOf, ApartOf, Keyed, Quiet
<1>5. \A u \in Account : ~There(user[u]) /\ ~Live(user[u]) /\ user[u].made = None
  BY DEF Init, NoUser, There, Live
<1>6. \A w \in Space : ~There(space[w])
  BY DEF Init, NoSpace, There
<1>7. LinksFit /\ Keys /\ Owned /\ Homes /\ Made
  BY <1>5, <1>6 DEF Init, LinksFit, Keys, Owned, Homes, Made
<1>8. QED
  BY <1>1, <1>4, <1>7 DEF IInv

LEMMA SignInKeeps ==
    ASSUME TypeOK, Requests, Rows, LinksFit, NEW r \in Request, SignIn(r)
    PROVE  TypeOK' /\ Requests' /\ Rows' /\ LinksFit'
<1>1. CASE \E l \in Link : ConsumeMagicToken(r, l)
  <2>1. UNCHANGED <<user, space, surveys, sessions, code, held, day>>
    BY <1>1 DEF ConsumeMagicToken
  <2>2. Requests' /\ Rows'
    BY <1>1, <2>1, QuietSteps, RowsStay
  <2>3. PICK l \in Link : link' = [link EXCEPT ![l] = [link[l] EXCEPT !.state = "used"]]
    BY <1>1 DEF ConsumeMagicToken
  <2>4. link \in [Link -> [address : Address \cup {None}, state : {"unsent", "sent", "used"}]]
    BY DEF TypeOK
  <2>5. link' \in [Link -> [address : Address \cup {None}, state : {"unsent", "sent", "used"}]]
    BY <2>3, <2>4
  <2>6. LinksFit'
    BY <2>3, <2>4 DEF LinksFit
  <2>7. QED
    BY <2>1, <2>2, <2>5, <2>6 DEF TypeOK, Requests
<1>2. CASE \/ \E x \in Sub, a \in Address : GoogleCallback(r, x, a)
           \/ \E c \in Code, a \in Address : SubmitSignup(r, c, a)
           \/ \E a \in Address : CheckPassword(r, a)
           \/ FindBySub(r) \/ FindByEmail(r) \/ ReadSpace(r)
  <2>1. UNCHANGED <<user, space, surveys, sessions, link, code, held, day>>
    BY <1>2 DEF GoogleCallback, SubmitSignup, CheckPassword, FindBySub, FindByEmail, ReadSpace,
                rows
  <2>2. Requests' /\ Rows'
    BY <1>2, <2>1, QuietSteps, RowsStay
  <2>3. QED
    BY <2>1, <2>2 DEF TypeOK, Requests, LinksFit
<1>3. CASE Backfill(r) \/ CreateUser(r) \/ HoldCode(r) \/ ConsumeBetaCode(r) \/ FindHome(r)
  <2>1. UNCHANGED <<user, space, surveys, sessions, link, code, held, day>>
    BY <1>3 DEF Backfill, CreateUser, HoldCode, ConsumeBetaCode, FindHome, rows
  <2>2. Requests'
    BY <1>3, BackfillKeeps, CreateUserKeeps, HoldCodeKeeps, ConsumeBetaCodeKeeps, FindHomeKeeps
  <2>3. Rows'
    BY <2>1, RowsStay
  <2>4. QED
    BY <2>1, <2>2, <2>3 DEF TypeOK, Requests, LinksFit
<1>4. CASE CommitLogin(r)
  <2>1. UNCHANGED <<sessions, link, held, day>>
    BY <1>4 DEF CommitLogin
  <2>2. QED
    BY <1>4, <2>1, CommitLoginKeeps DEF TypeOK, Requests, LinksFit
<1>5. CASE CreateSession(r)
  <2>1. UNCHANGED <<user, space, surveys, link, code, held, day>> /\ Ends(r)
    BY <1>5 DEF CreateSession
  <2>2. Requests' /\ Rows'
    BY <2>1, EndsKeeps, RowsStay
  <2>3. sessions' \subseteq Session
    <3>1. req[r].user # None
      BY <1>5, OwnFields DEF CreateSession, AtStage, ShapeOf, Located
    <3>2. [user |-> req[r].user, password |-> req[r].password] \in Session
      BY <3>1, ReqFields DEF Session
    <3>3. QED
      BY <1>5, <3>2 DEF CreateSession, TypeOK
  <2>4. QED
    BY <2>1, <2>2, <2>3 DEF TypeOK, Requests, LinksFit
<1>6. QED
  BY <1>1, <1>2, <1>3, <1>4, <1>5 DEF SignIn

LEMMA ManageKeeps ==
    ASSUME TypeOK, Requests, Rows, LinksFit, NEW r \in Request, Manage(r) \/ Abort(r)
    PROVE  TypeOK' /\ Requests' /\ Rows' /\ LinksFit'
<1>1. CASE \/ \E u \in Account, a \in Address : SubmitEmail(r, u, a)
           \/ \E u \in Account : SubmitClose(r, u)
  <2>1. UNCHANGED <<user, space, surveys, sessions, link, code, held, day>>
    BY <1>1 DEF SubmitEmail, SubmitClose, rows
  <2>2. Requests' /\ Rows'
    BY <1>1, <2>1, QuietSteps, RowsStay
  <2>3. QED
    BY <2>1, <2>2 DEF TypeOK, Requests, LinksFit
<1>2. CASE \E u \in Account : SetUserPassword(r, u)
  <2>1. UNCHANGED <<space, surveys, sessions, link, code, held, day>>
    BY <1>2 DEF SetUserPassword
  <2>2. QED
    BY <1>2, <2>1, SetUserPasswordKeeps DEF TypeOK, Requests, LinksFit
<1>3. CASE UpdateUserEmail(r)
  <2>1. UNCHANGED <<space, surveys, sessions, link, code, held, day>>
    BY <1>3 DEF UpdateUserEmail
  <2>2. QED
    BY <1>3, <2>1, UpdateUserEmailKeeps DEF TypeOK, Requests, LinksFit
<1>4. CASE DeleteSessions(r) \/ Abort(r)
  <2>1. UNCHANGED <<user, space, surveys, link, code, held, day>> /\ Ends(r)
    BY <1>4 DEF DeleteSessions, Abort, rows
  <2>2. sessions' \subseteq sessions
    BY <1>4 DEF DeleteSessions, Abort, rows
  <2>3. Requests' /\ Rows'
    BY <2>1, EndsKeeps, RowsStay
  <2>4. QED
    BY <2>1, <2>2, <2>3 DEF TypeOK, Requests, LinksFit
<1>5. CASE DeleteAccount(r)
  <2>1. UNCHANGED <<surveys, link, code, held, day>> /\ sessions' \subseteq sessions
    BY <1>5 DEF DeleteAccount
  <2>2. QED
    BY <1>5, <2>1, DeleteAccountKeeps DEF TypeOK, Requests, LinksFit
<1>6. QED
  BY <1>1, <1>2, <1>3, <1>4, <1>5 DEF Manage

LEMMA NextKeepsIInv == IInv /\ [Next]_vars => IInv'
<1> SUFFICES ASSUME TypeOK, Requests, Rows, LinksFit, [Next]_vars
             PROVE  TypeOK' /\ Requests' /\ Rows' /\ LinksFit'
  BY InvParts DEF IInv, Rows, Requests
<1>1. ASSUME NEW r \in Request, SignIn(r) \/ Manage(r) \/ Abort(r)
      PROVE  TypeOK' /\ Requests' /\ Rows' /\ LinksFit'
  BY <1>1, SignInKeeps, ManageKeeps
<1>2. ASSUME NEW l \in Link, NEW a \in Address, RequestMagicLink(l, a)
      PROVE  TypeOK' /\ Requests' /\ Rows' /\ LinksFit'
  <2>1. /\ UNCHANGED <<user, space, surveys, sessions, code, req, held, day>>
        /\ link' = [link EXCEPT ![l] = [address |-> a, state |-> "sent"]]
    BY <1>2 DEF RequestMagicLink
  <2>2. link' \in [Link -> [address : Address \cup {None}, state : {"unsent", "sent", "used"}]]
    BY <2>1 DEF TypeOK
  <2>3. LinksFit'
    BY <2>1, NoneAssumption DEF LinksFit, TypeOK
  <2>4. QED
    BY <2>1, <2>2, <2>3, RequestsStay, RowsStay DEF TypeOK
<1>3. ASSUME NEW s \in sessions, Logout(s)
      PROVE  TypeOK' /\ Requests' /\ Rows' /\ LinksFit'
  <2>1. /\ UNCHANGED <<user, space, surveys, link, code, req, held, day>>
        /\ sessions' \subseteq sessions
    BY <1>3 DEF Logout
  <2>2. QED
    BY <2>1, RequestsStay, RowsStay DEF TypeOK, LinksFit
<1>4. ASSUME NEW c \in Code, RevokeBetaCode(c)
      PROVE  TypeOK' /\ Requests' /\ Rows' /\ LinksFit'
  <2>1. UNCHANGED <<user, space, surveys, sessions, link, req, held, day>>
    BY <1>4 DEF RevokeBetaCode
  <2>2. QED
    BY <1>4, <2>1, RevokeBetaCodeKeeps DEF TypeOK, Requests, LinksFit
<1>5. CASE UNCHANGED vars
  BY <1>5, RequestsStay, RowsStay DEF vars, TypeOK, LinksFit
<1>6. QED
  BY <1>1, <1>2, <1>3, <1>4, <1>5 DEF Next

LEMMA AlwaysIInv == Spec => []IInv
BY InitIInv, NextKeepsIInv, PTL DEF Spec

-----------------------------------------------------------------------------
(* The theorems.                                                           *)

(***************************************************************************)
(* The rows and the requests keep to their types, in the beta and out of   *)
(* it.                                                                     *)
(***************************************************************************)
THEOREM AccountTypes == Spec => []TypeOK
<1>1. IInv => TypeOK
  BY DEF IInv
<1>2. QED
  BY <1>1, AlwaysIInv, PTL

LEMMA EachHasOne == IInv => OneAccountEach
<1> SUFFICES ASSUME IInv, NEW u \in LiveUsers
             PROVE  /\ WithAddress(user[u].address) = {u}
                    /\ WithSub(user[u].sub) \subseteq {u}
                    /\ Cardinality(LiveSpacesOf(u)) = 1
  BY DEF OneAccountEach
<1>1. u \in Account /\ Live(user[u])
  BY DEF LiveUsers
<1>2. WithAddress(user[u].address) = {u}
  BY <1>1 DEF IInv, Keys, WithAddress, LiveUsers
<1>3. WithSub(user[u].sub) \subseteq {u}
  BY <1>1 DEF IInv, Keys, WithSub, LiveUsers
<1>4. PICK w \in Space : \A x \in Space : Live(space[x]) /\ space[x].owner = u <=> x = w
  BY <1>1 DEF IInv, Homes
<1>5. LiveSpacesOf(u) = {w}
  BY <1>4 DEF LiveSpacesOf
<1>6. QED
  BY <1>2, <1>3, <1>5, FS_Singleton

(***************************************************************************)
(* Whatever windows sign in, sign up, move to another address and close at *)
(* once, no two live accounts share an address or a Google identity, and   *)
(* each has exactly one live workspace (login, SignupWithCode,             *)
(* DeleteAccount).                                                         *)
(***************************************************************************)
THEOREM OneAccountAlways == Spec => []OneAccountEach
BY EachHasOne, AlwaysIInv, PTL

(***************************************************************************)
(* In the beta every account comes of a code that nobody withdrew, and a   *)
(* code makes one account (SignupWithCode, RevokeBetaCode).                *)
(***************************************************************************)
THEOREM InvitedAlways == Spec => []InvitedOnly
<1>1. IInv => InvitedOnly
  BY DEF IInv, Made, InvitedOnly
<1>2. QED
  BY <1>1, AlwaysIInv, PTL

-----------------------------------------------------------------------------
(* Rows and their ids.                                                     *)

LEMMA KindsApart ==
    /\ \A x \in Account : x \notin Space \cup SurveyId \cup Participant \cup Response \cup Session
    /\ \A x \in Space : x \notin Account \cup SurveyId \cup Participant \cup Response \cup Session
    /\ \A x \in SurveyId : x \notin Account \cup Space \cup Participant \cup Response \cup Session
    /\ \A x \in Participant : x \notin Account \cup Space \cup SurveyId \cup Response \cup Session
    /\ \A x \in Response : x \notin Account \cup Space \cup SurveyId \cup Participant \cup Session
<1>1. /\ \A x \in SurveyId : DOMAIN x = {"of", "origin"}
      /\ \A x \in Participant : DOMAIN x = {"in", "address"}
      /\ \A x \in Response : DOMAIN x = {"in", "from", "nth"}
      /\ \A x \in Session : DOMAIN x = {"user", "password"}
  BY DEF SurveyId, Participant, Response, Session
<1>2. /\ {"of", "origin"} # {"in", "address"} /\ {"of", "origin"} # {"in", "from", "nth"}
      /\ {"of", "origin"} # {"user", "password"} /\ {"in", "address"} # {"in", "from", "nth"}
      /\ {"in", "address"} # {"user", "password"} /\ {"in", "from", "nth"} # {"user", "password"}
  OBVIOUS
<1>3. QED
  BY <1>1, <1>2, KindsAssumption

\* What the tables are known to hold, whatever the purge is doing.
Tables ==
    /\ surveys \subseteq SurveyRow
    /\ people \subseteq Participant
    /\ DOMAIN responses \subseteq Response
    /\ \A r \in DOMAIN responses : responses[r] \in When /\ From(r) \in people
    /\ \A p \in people : CreatorsIn(p.in) # {}

\* The survey its creator made in a workspace, by its id.
Asked(w) == [of |-> w, origin |-> "creator"]

\* How the ids stand for the rows.
IdsFit ==
    /\ \A s \in surveys :
          /\ Id(s) \in SurveyId
          /\ s.of \in Space /\ s.by \in Account /\ s.deleted \in When
          /\ \A w \in Space : s \in CreatorsIn(w) <=> Id(s) = Asked(w)
    /\ \A w \in Space : Asked(w) \in SurveyId
    /\ \A p \in people : p.in \in Space /\ \E s \in surveys : Id(s) = Asked(p.in)
    /\ \A r \in DOMAIN responses : r.in \in Space /\ From(r) \in people
                                   /\ From(r).in = r.in /\ From(r).address = r.from

RowsFit ==
    /\ \A u \in Account : u \in AllRows <=> There(user[u])
    /\ \A w \in Space : w \in AllRows <=> There(space[w])
    /\ \A i \in SurveyId : i \in AllRows <=> \E s \in surveys : Id(s) = i
    /\ \A p \in Participant : p \in AllRows <=> p \in people
    /\ \A r \in Response : r \in AllRows <=> r \in DOMAIN responses
    /\ \A x \in Session : x \notin AllRows

LEMMA IdsStand == Tables => IdsFit
<1> SUFFICES ASSUME Tables
             PROVE  IdsFit
  OBVIOUS
<1>1. \A s \in surveys :
          /\ Id(s) \in SurveyId
          /\ s.of \in Space /\ s.by \in Account /\ s.deleted \in When
          /\ \A w \in Space : s \in CreatorsIn(w) <=> Id(s) = Asked(w)
  BY DEF Tables, SurveyRow, Id, SurveyId, CreatorsIn, Asked
<1>2. \A w \in Space : Asked(w) \in SurveyId
  BY DEF Asked, SurveyId
<1>3. \A p \in people : p.in \in Space
  BY DEF Tables, Participant
<1>4. \A p \in people : \E s \in surveys : Id(s) = Asked(p.in)
  <2>1. \A w : CreatorsIn(w) \subseteq surveys
    BY DEF CreatorsIn
  <2>2. QED
    BY <1>1, <1>3, <2>1 DEF Tables
<1>5. \A r \in DOMAIN responses : r.in \in Space /\ From(r) \in people
                                  /\ From(r).in = r.in /\ From(r).address = r.from
  BY DEF Tables, Response, From
<1>6. QED
  BY <1>1, <1>2, <1>3, <1>4, <1>5 DEF IdsFit

LEMMA RowsStand == Tables => RowsFit
<1> SUFFICES ASSUME Tables
             PROVE  RowsFit
  OBVIOUS
<1>1. \A s \in surveys : Id(s) \in SurveyId
  BY IdsStand DEF IdsFit
<1>2. QED
  BY <1>1, KindsApart DEF Tables, AllRows, RowsFit

-----------------------------------------------------------------------------
(* The invariant of the purge.                                             *)

\* A workspace that was deleted was deleted with its owner.
Together ==
    \A w \in Space : There(space[w]) /\ space[w].deleted # Never =>
        user[space[w].owner].deleted = space[w].deleted

\* A workspace made for a closed account has its Starter Survey: nobody is left to delete it.
Starters ==
    \A w \in Space : Live(space[w]) /\ ~Live(user[space[w].owner]) =>
        [of |-> w, by |-> space[w].owner, origin |-> "starter", deleted |-> Never] \in surveys

\* A survey has one row, in a workspace of its author's.
Written ==
    /\ \A s \in surveys :
          There(space[s.of]) /\ space[s.of].owner = s.by /\ There(user[s.by])
    /\ \A s, t \in surveys : Id(s) = Id(t) => s = t

\* The account of a request was live today.
OfToday ==
    \A r \in Request :
        /\ req[r].user # None /\ ~req[r].fresh /\ There(user[req[r].user]) =>
              user[req[r].user].deleted \in {Never, day}
        /\ AtStage(r, "idle") => req[r].user = None

WriterFits ==
    /\ writer \in Writer
    /\ writer.pc = "create" =>
          writer.in \in Space /\ writer.by \in Account /\ CreatorsIn(writer.in) = {}
    /\ writer.pc = "respond" => writer.in \in Space /\ writer.by \in Address

\* What the accounts and the tables are known to be beside a purge.
Base == IInv /\ Tables /\ Together /\ Starters /\ Written /\ OfToday /\ WriterFits

AfterUsers == {"commit"}
AfterSessions == {"users"} \cup AfterUsers
AfterAuthors == {"sessions"} \cup AfterSessions
AfterSpaces == {"authors"} \cup AfterAuthors
AfterSurveys == {"spaces"} \cup AfterSpaces
AfterVersions == {"surveys"} \cup AfterSurveys
AfterContents == {"versions"} \cup AfterVersions
AfterResponses == {"contents"} \cup AfterContents
AfterPeople == {"responses"} \cup AfterResponses
AfterAnswers == {"people"} \cup AfterPeople
UnderWay == {"answers"} \cup AfterAnswers

Job == [pc : JobStage, kind : {"purge", "rehearsal", "erasure"}, address : Address \cup {None},
        dated : SUBSET Row, emptied : SUBSET Row, removed : SUBSET Row, before : SUBSET Row,
        theirs : SUBSET Row, skipped : SUBSET Row, blocked : SUBSET Row]

\* What holds of the purge by itself, at each stage.
JobShape ==
    /\ job \in Job
    /\ job.pc = "idle" => job = NoJob
    /\ job.pc = "refused" =>
          job.dated = {} /\ job.removed = {} /\ job.emptied = {} /\ job.theirs = {}
    /\ job.pc # "refused" => job.blocked = {}
    /\ job.pc \in UnderWay =>
          /\ job.kind # "erasure" => job.dated = {} /\ job.theirs = {}
          /\ job.kind = "erasure" =>
                job.theirs \subseteq job.skipped \cup job.dated
                    \cup {p \in job.before \cap Participant : p.address = job.address}
                    \cup {r \in job.before \cap Response : r.from = job.address}
                    \cup {i \in job.before \cap SurveyId : i.of \in job.dated}
    /\ job.pc \in {"answers", "people"} => job.kind = "erasure"
    /\ job.dated \subseteq Account \cup Space \cup SurveyId

\* While it is under way, none of the rows it met has gone.
BeforeStays ==
    job.pc \in UnderWay => job.before \subseteq AllRows /\ job.dated \subseteq job.before

HeldFits ==
    \A x \in Account \cup Space :
        held[x] = IF x \in job.removed THEN "removed"
                  ELSE IF x \in job.dated THEN "dated" ELSE "free"

\* What an erasure dated is the person's: the live accounts of the address, and all of theirs.
DatedFit ==
    /\ \A u \in Account : u \in job.dated => Live(user[u]) /\ user[u].address = job.address
    /\ \A w \in Space : w \in job.dated =>
          /\ Live(space[w]) /\ user[space[w].owner].address = job.address
          /\ space[w].owner \in job.dated \/ ~Live(user[space[w].owner])
    /\ \A w \in Space : There(space[w]) /\ space[w].owner \in job.dated => w \in job.dated
    /\ \A s \in surveys : Id(s) \in job.dated =>
          /\ user[s.by].address = job.address
          /\ s.by \in job.dated \/ ~Live(user[s.by])
          /\ Live(space[s.of]) => s.of \in job.dated

\* What was removed is due, or the person's.
RemovedDue ==
    /\ \A u \in Account : u \in job.removed => u \in DueUsers /\ job.pc \in AfterUsers
    /\ \A w \in Space : w \in job.removed => w \in DueSpaces /\ job.pc \in AfterSpaces
    /\ \A i \in SurveyId : i \in job.removed => i \in Doomed /\ job.pc \in AfterSurveys
    /\ \A p \in Participant : p \in job.removed =>
          /\ p \in people
          /\ \/ job.kind = "erasure" /\ p.address = job.address
             \/ Has(Doomed, p.in)
    /\ \A r \in Response : r \in job.removed =>
          /\ r \in DOMAIN responses
          /\ \/ job.kind = "erasure" /\ r.from = job.address
             \/ Past(responses[r])
             \/ Has(Doomed, r.in)
    /\ job.emptied \subseteq Doomed

\* What is due is removed, once the statement for it has run; of what may be added to while
\* the purge runs, what was there before.
DueRemoved ==
    /\ job.pc \in UnderWay => \A s \in surveys : Past(s.deleted) => Id(s) \in job.before
    /\ job.kind = "erasure" /\ job.pc \in AfterAnswers =>
          \A r \in job.before \cap Response : r.from = job.address => r \in job.removed
    /\ job.kind = "erasure" /\ job.pc \in AfterPeople =>
          \A p \in job.before \cap Participant : p.address = job.address => p \in job.removed
    /\ job.pc \in AfterResponses => DueResponses \subseteq job.removed
    /\ job.pc \in AfterContents => ResponsesOf(Doomed) \cap job.before \subseteq job.removed
    /\ job.pc \in AfterVersions =>
          /\ Doomed \cap job.before \subseteq job.emptied
          /\ PeopleOf(Doomed) \cap job.before \subseteq job.removed
    /\ job.pc \in AfterSurveys => Doomed \cap job.before \subseteq job.removed
    /\ job.pc \in AfterSpaces => DueSpaces \subseteq job.removed
    /\ job.pc \in AfterUsers => DueUsers \subseteq job.removed

\* Nothing stays below what is removed: who would add to it waits.
NothingBelow ==
    /\ \A p \in people : Asked(p.in) \in job.removed => p \in job.removed
    /\ \A r \in DOMAIN responses : From(r) \in job.removed => r \in job.removed
    /\ \A s \in surveys : s.of \in job.removed \/ s.by \in job.removed => Id(s) \in job.removed
    /\ \A w \in Space : There(space[w]) /\ space[w].owner \in job.removed => w \in job.removed

\* What the purge has done and what it finds.
Swept == BeforeStays /\ HeldFits /\ DatedFit /\ RemovedDue /\ DueRemoved /\ NothingBelow

RInv == Base /\ JobShape /\ Swept

LEMMA Stages ==
    /\ JobStage = UnderWay \cup {"idle", "refused"}
    /\ AfterUsers = {"commit"}
    /\ AfterSessions = {"users", "commit"}
    /\ AfterAuthors = {"sessions", "users", "commit"}
    /\ AfterSpaces = {"authors", "sessions", "users", "commit"}
    /\ AfterSurveys = {"spaces", "authors", "sessions", "users", "commit"}
    /\ AfterVersions = {"surveys", "spaces", "authors", "sessions", "users", "commit"}
    /\ AfterContents = {"versions", "surveys", "spaces", "authors", "sessions", "users", "commit"}
    /\ AfterResponses = {"contents", "versions", "surveys", "spaces", "authors", "sessions", "users",
                         "commit"}
    /\ AfterPeople = {"responses", "contents", "versions", "surveys", "spaces", "authors", "sessions",
                      "users", "commit"}
    /\ AfterAnswers = {"people", "responses", "contents", "versions", "surveys", "spaces", "authors",
                       "sessions", "users", "commit"}
    /\ UnderWay = {"answers", "people", "responses", "contents", "versions", "surveys", "spaces",
                   "authors", "sessions", "users", "commit"}
BY DEF JobStage, UnderWay, AfterAnswers, AfterPeople, AfterResponses, AfterContents,
       AfterVersions, AfterSurveys, AfterSpaces, AfterAuthors, AfterSessions, AfterUsers

LEMMA DoomedStand ==
    Written =>
        /\ \A s \in surveys :
              Id(s) \in Doomed <=> Past(s.deleted) \/ Id(s) \in job.dated \/ s.of \in DueSpaces
        /\ \A i \in Doomed : \E s \in surveys : Id(s) = i
BY DEF Written, Doomed

-----------------------------------------------------------------------------
(* A step of a client's: what the purge has written it leaves alone.       *)

SparesUsers ==
    /\ \A u \in Account : There(user[u]) =>
          /\ There(user'[u])
          /\ \/ user'[u].deleted = user[u].deleted /\ user'[u].address = user[u].address
             \/ Live(user[u]) /\ held[u] = "free" /\ user'[u].deleted \in {Never, day}
    /\ \A u \in Account : There(user'[u]) /\ ~There(user[u]) => user'[u].deleted = Never

SparesSpaces ==
    /\ \A w \in Space : There(space[w]) =>
          /\ There(space'[w]) /\ space'[w].owner = space[w].owner
          /\ \/ space'[w].deleted = space[w].deleted
             \/ Live(space[w]) /\ held[w] = "free" /\ space'[w].deleted = day
    /\ \A w \in Space : There(space'[w]) /\ ~There(space[w]) =>
          /\ space'[w].deleted = Never
          /\ ~Live(user[space'[w].owner]) /\ space'[w].owner \notin job.removed

\* A survey before and after.
Kin(s, t) ==
    /\ Id(t) = Id(s) /\ t.of = s.of /\ t.by = s.by
    /\ t.deleted = s.deleted \/ (s.deleted = Never /\ t.deleted = day)

SparesSurveys ==
    /\ \A s \in surveys : \E t \in surveys' : Kin(s, t)
    /\ \A t \in surveys' :
          \/ \E s \in surveys : Kin(s, t)
          \/ /\ t.deleted = Never /\ \A s \in surveys : Id(s) # Id(t)
             /\ t.of \notin job.removed /\ t.by \notin job.removed

SparesPeople ==
    people \subseteq people' /\ \A p \in people' \ people : Asked(p.in) \notin job.removed

SparesResponses ==
    /\ \A r \in DOMAIN responses :
          /\ r \in DOMAIN responses'
          /\ responses'[r] = responses[r] \/ (responses[r] = Never /\ responses'[r] = day)
    /\ \A r \in DOMAIN responses' \ DOMAIN responses :
          responses'[r] = Never /\ From(r) \notin job.removed

Spares ==
    /\ UNCHANGED <<job, held, day>>
    /\ SparesUsers /\ SparesSpaces /\ SparesSurveys /\ SparesPeople /\ SparesResponses

LEMMA SparedPast ==
    ASSUME Base, Spares
    PROVE  day' = day /\ ~Past(Never) /\ ~Past(day)
<1>1. day \in 0..MaxDay
  BY DEF Base, IInv, TypeOK
<1>2. QED
  BY <1>1, WindowAssumption, BoundsAssumption DEF Past, Spares

LEMMA HeldIs ==
    ASSUME HeldFits, NEW x \in Account \cup Space
    PROVE  held[x] = "free" <=> x \notin job.removed /\ x \notin job.dated
BY DEF HeldFits

\* Nothing is dated, or removed, but by a purge under way, and of what it met.
LEMMA DatedThere ==
    ASSUME JobShape, BeforeStays
    PROVE  job.dated \subseteq AllRows /\ (job.pc \notin UnderWay => job.removed = {})
<1>1. job.pc \in UnderWay \cup {"idle", "refused"}
  BY Stages DEF JobShape, Job
<1>2. job.pc \notin UnderWay => job.dated = {} /\ job.removed = {}
  BY <1>1 DEF JobShape, NoJob
<1>3. QED
  BY <1>2 DEF BeforeStays

LEMMA SparedDated ==
    ASSUME Base, Base', JobShape, Swept, Spares
    PROVE  DatedFit'
<1>1. HeldFits /\ DatedFit /\ UNCHANGED job /\ Tables /\ Tables'
  BY DEF Swept, Spares, Base
<1>2. /\ \A u \in Account : There(user[u]) => user[u].deleted # Never \/ Live(user[u])
      /\ \A u \in Account : There(user[u]) /\ (u \in job.dated \/ ~Live(user[u])) =>
            /\ user'[u].address = user[u].address
            /\ Live(user'[u]) <=> Live(user[u])
  BY <1>1, HeldIs DEF Spares, SparesUsers, Live
<1>3. \A w \in Space : There(space[w]) =>
         space[w].owner \in Account /\ There(user[space[w].owner])
  BY SpaceFields DEF Base, IInv, Owned
<1>4. \A w \in Space : w \in job.dated => Live(space'[w]) /\ space'[w].owner = space[w].owner
  BY <1>1, HeldIs DEF DatedFit, Spares, SparesSpaces, Live
<1>5. ASSUME NEW u \in Account, u \in job.dated
      PROVE  Live(user'[u]) /\ user'[u].address = job.address
  BY <1>1, <1>2, <1>5 DEF DatedFit, Live
<1>6. ASSUME NEW w \in Space, w \in job.dated
      PROVE  /\ Live(space'[w]) /\ user'[space'[w].owner].address = job.address
             /\ space'[w].owner \in job.dated \/ ~Live(user'[space'[w].owner])
  BY <1>1, <1>2, <1>3, <1>4, <1>6 DEF DatedFit, Live
<1>7. ASSUME NEW w \in Space, There(space'[w]), space'[w].owner \in job.dated
      PROVE  w \in job.dated
  <2>1. CASE There(space[w])
    BY <1>1, <1>7, <2>1 DEF DatedFit, Spares, SparesSpaces
  <2>2. CASE ~There(space[w])
    <3>1. ~Live(user[space'[w].owner])
      BY <1>7, <2>2 DEF Spares, SparesSpaces
    <3>2. space'[w].owner \in Account
      <4>1. space'[w] \in Workspace /\ space'[w].owner # None
        BY <1>7 DEF Base, IInv, TypeOK, Owned
      <4>2. QED
        BY <4>1 DEF Workspace
    <3>3. QED
      BY <1>1, <1>7, <3>1, <3>2 DEF DatedFit
  <2>3. QED
    BY <2>1, <2>2
<1>8. ASSUME NEW t \in surveys', Id(t) \in job.dated
      PROVE  /\ user'[t.by].address = job.address
             /\ t.by \in job.dated \/ ~Live(user'[t.by])
             /\ Live(space'[t.of]) => t.of \in job.dated
  <2>1. t.of \in Space /\ t.by \in Account /\ Id(t) \in SurveyId
    <3>1. IdsFit'
      BY <1>1, IdsStand, PTL
    <3>2. QED
      BY <3>1 DEF IdsFit, Id
  <2>2. PICK s \in surveys : Kin(s, t)
    <3>1. Id(t) \in AllRows
      BY <1>8, DatedThere DEF Swept
    <3>2. RowsFit
      BY <1>1, RowsStand
    <3>3. \E s \in surveys : Id(s) = Id(t)
      BY <2>1, <3>1, <3>2 DEF RowsFit
    <3>4. QED
      BY <3>3 DEF Spares, SparesSurveys
  <2>3. s.of = t.of /\ s.by = t.by /\ Id(s) \in job.dated
    BY <1>8, <2>2 DEF Kin
  <2>4. /\ user[t.by].address = job.address
        /\ t.by \in job.dated \/ ~Live(user[t.by])
        /\ Live(space[t.of]) => t.of \in job.dated
    BY <1>1, <2>3 DEF DatedFit
  <2>5. There(user[t.by]) /\ There(space[t.of])
    BY <2>3 DEF Base, Written
  <2>6. /\ user'[t.by].address = user[t.by].address
        /\ Live(user'[t.by]) <=> Live(user[t.by])
    BY <1>2, <2>1, <2>4, <2>5
  <2>7. Live(space'[t.of]) => Live(space[t.of])
    BY <2>1, <2>5 DEF Spares, SparesSpaces, Live
  <2>8. QED
    BY <2>4, <2>6, <2>7
<1>9. QED
  BY <1>1, <1>5, <1>6, <1>7, <1>8 DEF DatedFit, Live, There

LEMMA SparedRows ==
    ASSUME Base, Spares
    PROVE  AllRows \subseteq AllRows'
<1>1. \A u \in Account : There(user[u]) => There(user'[u])
  BY DEF Spares, SparesUsers
<1>2. \A w \in Space : There(space[w]) => There(space'[w])
  BY DEF Spares, SparesSpaces
<1>3. \A s \in surveys : \E t \in surveys' : Id(t) = Id(s)
  BY DEF Spares, SparesSurveys, Kin
<1>4. people \subseteq people' /\ DOMAIN responses \subseteq DOMAIN responses'
  BY DEF Spares, SparesPeople, SparesResponses
<1>5. {u \in Account : There(user[u])} \subseteq {u \in Account : There(user'[u])}
  BY <1>1
<1>6. {w \in Space : There(space[w])} \subseteq {w \in Space : There(space'[w])}
  BY <1>2
<1>7. {Id(s) : s \in surveys} \subseteq {Id(s) : s \in surveys'}
  BY <1>3
<1>8. QED
  BY <1>4, <1>5, <1>6, <1>7 DEF AllRows, There, Id

LEMMA SparedBefore ==
    ASSUME Base, BeforeStays, HeldFits, Spares
    PROVE  BeforeStays' /\ HeldFits'
<1>1. BeforeStays'
  BY SparedRows DEF BeforeStays, Spares, UnderWay, AfterAnswers, AfterPeople, AfterResponses,
     AfterContents, AfterVersions, AfterSurveys, AfterSpaces, AfterAuthors, AfterSessions, AfterUsers
<1>2. HeldFits'
  BY DEF HeldFits, Spares
<1>3. QED
  BY <1>1, <1>2

LEMMA SparedDue ==
    ASSUME Base, Base', JobShape, Swept, Spares
    PROVE  /\ DueUsers' = DueUsers /\ DueSpaces' = DueSpaces
           /\ DueResponses' = DueResponses
           /\ Doomed \subseteq Doomed'
           /\ \A s \in surveys : Id(s) \in Doomed' => Id(s) \in Doomed
<1>1. job' = job /\ DatedFit /\ Tables /\ Tables' /\ Written /\ Written'
  BY DEF Swept, Spares, Base
<1>2. DueUsers' = DueUsers
  <2>1. ASSUME NEW u \in Account
        PROVE  u \in DueUsers' <=> u \in DueUsers
    <3>1. There(user[u]) => (Past(user'[u].deleted) <=> Past(user[u].deleted))
      BY SparedPast DEF Spares, SparesUsers, Live
    <3>2. There(user'[u]) /\ ~There(user[u]) => ~Past(user'[u].deleted) /\ u \notin job.dated
      BY <1>1, SparedPast DEF Spares, SparesUsers, DatedFit, Live
    <3>3. There(user[u]) => There(user'[u])
      BY DEF Spares, SparesUsers
    <3>4. QED
      BY <1>1, <3>1, <3>2, <3>3, SparedPast DEF DueUsers, There, Past
  <2>2. QED
    BY <2>1 DEF DueUsers
<1>3. DueSpaces' = DueSpaces
  <2>1. ASSUME NEW w \in Space
        PROVE  w \in DueSpaces' <=> w \in DueSpaces
    <3>1. There(space[w]) => (Past(space'[w].deleted) <=> Past(space[w].deleted))
      BY SparedPast DEF Spares, SparesSpaces, Live
    <3>2. There(space'[w]) /\ ~There(space[w]) => ~Past(space'[w].deleted) /\ w \notin job.dated
      BY <1>1, SparedPast DEF Spares, SparesSpaces, DatedFit, Live
    <3>3. There(space[w]) => There(space'[w])
      BY DEF Spares, SparesSpaces
    <3>4. QED
      BY <1>1, <3>1, <3>2, <3>3, SparedPast DEF DueSpaces, There, Past
  <2>2. QED
    BY <2>1 DEF DueSpaces
<1>4. DueResponses' = DueResponses
  <2>1. ASSUME NEW r
        PROVE  r \in DueResponses' <=> r \in DueResponses
    BY SparedPast DEF Spares, SparesResponses, DueResponses, Past
  <2>2. QED
    BY <2>1
<1>5. \A s \in surveys :
         Id(s) \in Doomed <=> Past(s.deleted) \/ Id(s) \in job.dated \/ s.of \in DueSpaces
  BY <1>1, DoomedStand
<1>6. (\A s \in surveys :
         Id(s) \in Doomed <=> Past(s.deleted) \/ Id(s) \in job.dated \/ s.of \in DueSpaces)'
  BY <1>1, DoomedStand, PTL
<1>7. ASSUME NEW s \in surveys
      PROVE  Id(s) \in Doomed' <=> Id(s) \in Doomed
  <2>1. PICK t \in surveys' : Kin(s, t)
    BY DEF Spares, SparesSurveys
  <2>2. Past(t.deleted) <=> Past(s.deleted)
    BY <2>1, SparedPast DEF Kin
  <2>3. Id(t) \in Doomed' <=> Past(t.deleted) \/ Id(t) \in job'.dated \/ t.of \in DueSpaces'
    BY <1>6, SparedPast DEF Id, Past
  <2>4. QED
    BY <1>1, <1>3, <1>5, <2>1, <2>2, <2>3 DEF Kin
<1>8. Doomed \subseteq Doomed'
  BY <1>1, <1>7, DoomedStand
<1>9. QED
  BY <1>2, <1>3, <1>4, <1>7, <1>8

LEMMA SparedRemoved ==
    ASSUME Base, Base', JobShape, Swept, Spares
    PROVE  RemovedDue'
<1>1. job' = job /\ RemovedDue /\ Tables
  BY DEF Swept, Spares, Base
<1>2. \A w : Has(Doomed, w) => Has(Doomed', w)
  BY SparedDue DEF Has
<1>3. \A r \in DOMAIN responses : Past(responses[r]) => Past(responses'[r])
  BY SparedPast DEF Spares, SparesResponses
<1>4. people \subseteq people' /\ DOMAIN responses \subseteq DOMAIN responses'
  BY DEF Spares, SparesPeople, SparesResponses
<1>5. \A u \in Account : u \in job.removed => u \in DueUsers' /\ job.pc \in AfterUsers
  BY <1>1, SparedDue DEF RemovedDue
<1>6. \A w \in Space : w \in job.removed => w \in DueSpaces' /\ job.pc \in AfterSpaces
  BY <1>1, SparedDue DEF RemovedDue
<1>7. \A i \in SurveyId : i \in job.removed => i \in Doomed' /\ job.pc \in AfterSurveys
  BY <1>1, SparedDue DEF RemovedDue
<1>8. \A p \in Participant : p \in job.removed =>
          /\ p \in people'
          /\ \/ job.kind = "erasure" /\ p.address = job.address
             \/ Has(Doomed', p.in)
  BY <1>1, <1>2, <1>4 DEF RemovedDue
<1>9. \A r \in Response : r \in job.removed =>
          /\ r \in DOMAIN responses'
          /\ \/ job.kind = "erasure" /\ r.from = job.address
             \/ Past(responses'[r])
             \/ Has(Doomed', r.in)
  BY <1>1, <1>2, <1>3, <1>4 DEF RemovedDue
<1>10. job.emptied \subseteq Doomed'
  BY <1>1, SparedDue DEF RemovedDue
<1>11. QED
  BY <1>1, <1>5, <1>6, <1>7, <1>8, <1>9, <1>10
     DEF RemovedDue, Has, Past, Spares, AfterUsers, AfterSessions, AfterAuthors, AfterSpaces, AfterSurveys

LEMMA SparedRemovals ==
    ASSUME Base, Base', JobShape, Swept, Spares
    PROVE  DueRemoved'
<1>1. job' = job /\ DueRemoved /\ BeforeStays /\ Tables /\ Tables'
  BY DEF Swept, Spares, Base
<1>2. job.pc \in UnderWay =>
         \A i \in SurveyId : i \in job.before /\ i \in Doomed' => i \in Doomed
  <2>1. RowsFit
    BY <1>1, RowsStand
  <2>2. QED
    BY <1>1, <2>1, SparedDue DEF RowsFit, BeforeStays
<1>3. ASSUME job.pc \in UnderWay
      PROVE  \A t \in surveys' : Past(t.deleted) => Id(t) \in job.before
  <2>1. ASSUME NEW t \in surveys', Past(t.deleted)
        PROVE  Id(t) \in job.before
    <3>1. PICK s \in surveys : Kin(s, t)
      BY <2>1, SparedPast DEF Spares, SparesSurveys
    <3>2. Past(s.deleted)
      BY <2>1, <3>1, SparedPast DEF Kin
    <3>3. QED
      BY <1>1, <1>3, <3>1, <3>2 DEF Kin, DueRemoved
  <2>2. QED
    BY <2>1
<1>4. ASSUME job.pc \in AfterContents, NEW r \in ResponsesOf(Doomed)' \cap job.before
      PROVE  r \in job.removed
  <2>1. job.pc \in UnderWay
    BY <1>4 DEF UnderWay, AfterAnswers, AfterPeople, AfterResponses, AfterContents
  <2>2. r \in DOMAIN responses' /\ Asked(r.in) \in Doomed'
    BY <1>4 DEF ResponsesOf, Has, Asked
  <2>3. r \in Response
    BY <1>1, <2>2 DEF Tables
  <2>4. r \in DOMAIN responses
    <3>1. RowsFit
      BY <1>1, RowsStand
    <3>2. QED
      BY <1>1, <1>4, <2>1, <2>3, <3>1 DEF RowsFit, BeforeStays
  <2>5. \E s \in surveys : Id(s) = Asked(r.in)
    <3>1. IdsFit
      BY <1>1, IdsStand
    <3>2. QED
      BY <2>4, <3>1 DEF IdsFit
  <2>6. Asked(r.in) \in Doomed
    BY <2>2, <2>5, SparedDue
  <2>7. QED
    BY <1>1, <1>4, <2>4, <2>6 DEF DueRemoved, ResponsesOf, Has, Asked
<1>5. ASSUME job.pc \in AfterVersions, NEW p \in PeopleOf(Doomed)' \cap job.before
      PROVE  p \in job.removed
  <2>1. job.pc \in UnderWay
    BY <1>5 DEF UnderWay, AfterAnswers, AfterPeople, AfterResponses, AfterContents, AfterVersions
  <2>2. p \in people' /\ Asked(p.in) \in Doomed'
    BY <1>5 DEF PeopleOf, Has, Asked
  <2>3. p \in people
    <3>1. RowsFit
      BY <1>1, RowsStand
    <3>2. QED
      BY <1>1, <1>5, <2>1, <2>2, <3>1 DEF RowsFit, BeforeStays, Tables
  <2>4. \E s \in surveys : Id(s) = Asked(p.in)
    <3>1. IdsFit
      BY <1>1, IdsStand
    <3>2. QED
      BY <2>3, <3>1 DEF IdsFit
  <2>5. Asked(p.in) \in Doomed
    BY <2>2, <2>4, SparedDue
  <2>6. QED
    BY <1>1, <1>5, <2>3, <2>5 DEF DueRemoved, PeopleOf, Has, Asked
<1>6. Doomed' \subseteq SurveyId
  <2>1. IdsFit'
    BY <1>1, IdsStand, PTL
  <2>2. QED
    BY <2>1 DEF IdsFit, Doomed, Id
<1>7. job.pc \in AfterVersions => Doomed' \cap job.before \subseteq job.emptied
  BY <1>1, <1>2, <1>6 DEF DueRemoved, UnderWay, AfterAnswers, AfterPeople, AfterResponses,
                          AfterContents, AfterVersions
<1>8. job.pc \in AfterSurveys => Doomed' \cap job.before \subseteq job.removed
  BY <1>1, <1>2, <1>6 DEF DueRemoved, UnderWay, AfterAnswers, AfterPeople, AfterResponses,
                          AfterContents, AfterVersions, AfterSurveys
<1>9. /\ job.pc \in AfterResponses => DueResponses' \subseteq job.removed
      /\ job.pc \in AfterSpaces => DueSpaces' \subseteq job.removed
      /\ job.pc \in AfterUsers => DueUsers' \subseteq job.removed
  BY <1>1, SparedDue DEF DueRemoved
<1>10. /\ job.kind = "erasure" /\ job.pc \in AfterAnswers =>
             \A r \in job.before \cap Response : r.from = job.address => r \in job.removed
       /\ job.kind = "erasure" /\ job.pc \in AfterPeople =>
             \A p \in job.before \cap Participant : p.address = job.address => p \in job.removed
  BY <1>1 DEF DueRemoved
<1>11. day' = day
  BY DEF Spares
<1>12. QED
  BY <1>1, <1>3, <1>4, <1>5, <1>7, <1>8, <1>9, <1>10, <1>11
     DEF DueRemoved, Id, Past, UnderWay, AfterAnswers, AfterPeople, AfterResponses,
         AfterContents, AfterVersions, AfterSurveys, AfterSpaces, AfterAuthors, AfterSessions,
         AfterUsers

LEMMA SparedBelow ==
    ASSUME Base, Base', JobShape, Swept, Spares
    PROVE  NothingBelow'
<1>1. job' = job /\ NothingBelow /\ Tables /\ Tables'
  BY DEF Swept, Spares, Base
<1>2. ASSUME NEW p \in people', Asked(p.in) \in job.removed
      PROVE  p \in job.removed
  BY <1>1, <1>2 DEF NothingBelow, Spares, SparesPeople
<1>3. ASSUME NEW r \in DOMAIN responses', From(r) \in job.removed
      PROVE  r \in job.removed
  BY <1>1, <1>3 DEF NothingBelow, Spares, SparesResponses
<1>4. ASSUME NEW t \in surveys', t.of \in job.removed \/ t.by \in job.removed
      PROVE  Id(t) \in job.removed
  BY <1>1, <1>4 DEF NothingBelow, Spares, SparesSurveys, Kin
<1>5. ASSUME NEW w \in Space, There(space'[w]), space'[w].owner \in job.removed
      PROVE  w \in job.removed
  BY <1>1, <1>5 DEF NothingBelow, Spares, SparesSpaces
<1>6. QED
  BY <1>1, <1>2, <1>3, <1>4, <1>5 DEF NothingBelow, Asked, From, Id, There

\* What the purge knows stays true whatever its clients do.
LEMMA SparedSwept ==
    ASSUME Base, Base', JobShape, Swept, Spares
    PROVE  JobShape' /\ Swept'
<1>1. BeforeStays' /\ HeldFits'
  BY SparedBefore DEF Swept
<1>2. DatedFit' /\ RemovedDue' /\ DueRemoved' /\ NothingBelow'
  BY SparedDated, SparedRemoved, SparedRemovals, SparedBelow
<1>3. UNCHANGED job
  BY DEF Spares
<1>4. JobShape'
  BY <1>3 DEF JobShape, UnderWay, AfterAnswers, AfterPeople, AfterResponses, AfterContents,
      AfterVersions, AfterSurveys, AfterSpaces, AfterAuthors, AfterSessions, AfterUsers
<1>5. QED
  BY <1>1, <1>2, <1>4 DEF Swept

-----------------------------------------------------------------------------
(* The accounts' own steps, beside a purge.                                *)

\* What becomes of a request: its account is the one it had, or was live today.
Follows(k, m) ==
    /\ \/ m.user = None
       \/ m.user = k.user /\ (k.fresh => m.fresh)
       \/ m.fresh
       \/ There(user'[m.user]) => user'[m.user].deleted \in {Never, day}
    /\ m.pc = "idle" => m.user = None

LEMMA RowsOf ==
    ASSUME Next
    PROVE  \/ UNCHANGED <<user, space, surveys, held, day>>
           \/ \E r \in Request : \/ CommitLogin(r) \/ UpdateUserEmail(r) \/ DeleteAccount(r)
                                 \/ \E u \in Account : SetUserPassword(r, u)
<1>1. ASSUME NEW r \in Request, SignIn(r), ~CommitLogin(r)
      PROVE  UNCHANGED <<user, space, surveys, held, day>>
  BY <1>1 DEF SignIn, rows, ConsumeMagicToken, GoogleCallback, SubmitSignup, CheckPassword,
        FindBySub, FindByEmail, Backfill, CreateUser, HoldCode, ConsumeBetaCode, FindHome,
        ReadSpace, CreateSession
<1>2. ASSUME NEW r \in Request, Manage(r) \/ Abort(r),
             ~UpdateUserEmail(r), ~DeleteAccount(r), ~\E u \in Account : SetUserPassword(r, u)
      PROVE  UNCHANGED <<user, space, surveys, held, day>>
  BY <1>2 DEF Manage, Abort, rows, SubmitEmail, SubmitClose, DeleteSessions
<1>3. QED
  BY <1>1, <1>2 DEF Next, RequestMagicLink, Logout, RevokeBetaCode

LEMMA RequestFollows ==
    ASSUME TypeOK, NEW r \in Request, SignIn(r) \/ Manage(r) \/ Abort(r), ~CommitLogin(r),
           ~UpdateUserEmail(r), ~DeleteAccount(r)
    PROVE  UNCHANGED req \/ \E k : Goes(r, k) /\ Follows(req[r], k)
<1> DEFINE Done == UNCHANGED req \/ \E k : Goes(r, k) /\ Follows(req[r], k)
<1>f. /\ req[r] \in [pc : Stage, address : Address \cup {None}, sub : Sub \cup {None},
                     code : Code \cup {None}, user : Account \cup {None}, space : Space \cup {None},
                     password : 0..MaxPassword, fresh : BOOLEAN, linked : BOOLEAN]
  BY DEF TypeOK, Req
<1>1. ASSUME Ends(r) PROVE Done
  <2>1. Follows(req[r], Idle)
    BY DEF Follows, Idle
  <2>2. QED
    BY <1>1, <2>1 DEF Ends
<1>2. ASSUME NEW pc, pc # "idle", Moves(r, pc) PROVE Done
  <2>1. Follows(req[r], [req[r] EXCEPT !.pc = pc])
    BY <1>2, <1>f DEF Follows
  <2>2. QED
    BY <1>2, <2>1 DEF Moves
<1>3. ASSUME NEW u, UNCHANGED user, Live(user[u]), NEW k, k.user = u, k.pc # "idle", Goes(r, k)
      PROVE  Done
  <2>1. Follows(req[r], k)
    BY <1>3 DEF Follows, Live
  <2>2. QED
    BY <1>3, <2>1
<1>4. ASSUME NEW l \in Link, ConsumeMagicToken(r, l) PROVE Done
  <2>1. Follows(req[r], [Idle EXCEPT !.pc = "email", !.address = link[l].address])
    BY DEF Follows, Idle
  <2>2. QED
    BY <1>4, <2>1 DEF ConsumeMagicToken
<1>5. ASSUME NEW x \in Sub, NEW a \in Address, GoogleCallback(r, x, a) PROVE Done
  <2>1. Follows(req[r], [Idle EXCEPT !.pc = "sub", !.sub = x, !.address = a])
    BY DEF Follows, Idle
  <2>2. QED
    BY <1>5, <2>1 DEF GoogleCallback
<1>6. ASSUME NEW c \in Code, NEW a \in Address, SubmitSignup(r, c, a) PROVE Done
  <2>1. Follows(req[r], [Idle EXCEPT !.pc = "code", !.code = c, !.address = a, !.password = 1])
    BY DEF Follows, Idle
  <2>2. QED
    BY <1>6, <2>1 DEF SubmitSignup
<1>7. ASSUME NEW a \in Address, CheckPassword(r, a) PROVE Done
  <2>1. PICK u \in WithAddress(a) :
           Goes(r, [Idle EXCEPT !.pc = "space", !.user = u, !.password = user[u].password])
    BY <1>7 DEF CheckPassword
  <2>2. Live(user[u]) /\ UNCHANGED user
    BY <1>7 DEF WithAddress, LiveUsers, CheckPassword, rows
  <2> DEFINE k == [Idle EXCEPT !.pc = "space", !.user = u, !.password = user[u].password]
  <2>3. k.user = u /\ k.pc # "idle"
    BY DEF Idle
  <2> HIDE DEF k
  <2>4. QED
    BY <1>3, <2>1, <2>2, <2>3 DEF k
<1>8. CASE FindBySub(r)
  <2>1. CASE Moves(r, "email")
    BY <1>2, <2>1
  <2>2. CASE \E u \in WithSub(req[r].sub) : Goes(r, [req[r] EXCEPT !.pc = "home", !.user = u])
    <3>1. PICK u \in WithSub(req[r].sub) : Goes(r, [req[r] EXCEPT !.pc = "home", !.user = u])
      BY <2>2
    <3>2. Live(user[u]) /\ UNCHANGED user
      BY <1>8 DEF WithSub, LiveUsers, FindBySub, rows
    <3>3. [req[r] EXCEPT !.pc = "home", !.user = u].user = u
          /\ [req[r] EXCEPT !.pc = "home", !.user = u].pc # "idle"
      BY <1>f
    <3>4. QED
      BY <1>3, <3>1, <3>2, <3>3
  <2>3. QED
    BY <1>8, <2>1, <2>2 DEF FindBySub
<1>9. CASE FindByEmail(r)
  <2>1. CASE Ends(r) \/ Moves(r, "insert")
    BY <1>1, <1>2, <2>1
  <2>2. CASE \E u \in WithAddress(req[r].address) : \E pc \in {"backfill", "home"} :
               Goes(r, [req[r] EXCEPT !.pc = pc, !.user = u])
    <3>1. PICK u \in WithAddress(req[r].address), pc \in {"backfill", "home"} :
               Goes(r, [req[r] EXCEPT !.pc = pc, !.user = u])
      BY <2>2
    <3>2. Live(user[u]) /\ UNCHANGED user
      BY <1>9 DEF WithAddress, LiveUsers, FindByEmail, rows
    <3>3. [req[r] EXCEPT !.pc = pc, !.user = u].user = u
          /\ [req[r] EXCEPT !.pc = pc, !.user = u].pc # "idle"
      BY <1>f
    <3>4. QED
      BY <1>3, <3>1, <3>2, <3>3
  <2>3. QED
    BY <1>9, <2>1, <2>2 DEF FindByEmail
<1>10. CASE Backfill(r)
  <2>1. Follows(req[r], [req[r] EXCEPT !.pc = "home", !.linked = TRUE])
    BY <1>f DEF Follows
  <2>2. QED
    BY <1>1, <1>2, <1>10, <2>1 DEF Backfill
<1>11. CASE CreateUser(r)
  <2>1. ASSUME NEW pc \in {"home", "consume"}, NEW u,
               Goes(r, [req[r] EXCEPT !.pc = pc, !.user = u, !.fresh = TRUE])
        PROVE  Done
    <3>1. Follows(req[r], [req[r] EXCEPT !.pc = pc, !.user = u, !.fresh = TRUE])
      BY <1>f DEF Follows
    <3>2. QED
      BY <2>1, <3>1
  <2>2. QED
    BY <1>1, <1>11, <2>1 DEF CreateUser
<1>12. CASE HoldCode(r) \/ ReadSpace(r)
  BY <1>1, <1>2, <1>12 DEF HoldCode, ReadSpace
<1>13. CASE ConsumeBetaCode(r) \/ FindHome(r)
  <2>1. ASSUME NEW w PROVE Follows(req[r], [req[r] EXCEPT !.pc = "commit", !.space = w])
    BY <1>f DEF Follows
  <2>2. QED
    BY <1>1, <1>2, <1>13, <2>1 DEF ConsumeBetaCode, FindHome
<1>14. CASE CreateSession(r) \/ DeleteSessions(r) \/ Abort(r)
  BY <1>1, <1>14 DEF CreateSession, DeleteSessions, Abort
<1>15. ASSUME NEW u \in Account, \/ \E a \in Address : SubmitEmail(r, u, a)
                                \/ SubmitClose(r, u)
       PROVE  Done
  <2>1. UNCHANGED user /\ Live(user[u])
    BY <1>15 DEF SubmitEmail, SubmitClose, rows, Authenticated
  <2>2. /\ \A a : /\ [Idle EXCEPT !.pc = "rename", !.user = u, !.address = a].user = u
                  /\ [Idle EXCEPT !.pc = "rename", !.user = u, !.address = a].pc # "idle"
        /\ [Idle EXCEPT !.pc = "close", !.user = u].user = u
        /\ [Idle EXCEPT !.pc = "close", !.user = u].pc # "idle"
    BY DEF Idle
  <2>3. QED
    BY <1>3, <1>15, <2>1, <2>2 DEF SubmitEmail, SubmitClose
<1>16. ASSUME NEW u \in Account, SetUserPassword(r, u) PROVE Done
  <2>1. user'[u].deleted = Never
    BY <1>16, UserFields DEF SetUserPassword, Live, TypeOK, User
  <2>2. Follows(req[r], [Idle EXCEPT !.pc = "revoke", !.user = u])
    BY <2>1 DEF Follows, Idle
  <2>3. QED
    BY <1>16, <2>2 DEF SetUserPassword
<1>17. QED
  BY <1>4, <1>5, <1>6, <1>7, <1>8, <1>9, <1>10, <1>11, <1>12, <1>13, <1>14, <1>15, <1>16
     DEF SignIn, Manage

\* The account of a request was live today, still.
LEMMA TodayKeeps ==
    ASSUME TypeOK, TypeOK', OfToday, SparesUsers, UNCHANGED day,
           \A q \in Request : req'[q] = req[q] \/ Follows(req[q], req'[q])
    PROVE  OfToday'
<1> SUFFICES ASSUME NEW q \in Request
             PROVE  /\ req'[q].user # None /\ ~req'[q].fresh /\ There(user'[req'[q].user]) =>
                          user'[req'[q].user].deleted \in {Never, day}
                    /\ req'[q].pc = "idle" => req'[q].user = None
  BY DEF OfToday, AtStage, There
<1>1. /\ req[q].user # None /\ ~req[q].fresh /\ There(user[req[q].user]) =>
            user[req[q].user].deleted \in {Never, day}
      /\ req[q].pc = "idle" => req[q].user = None
  BY DEF OfToday, AtStage
<1>2. req[q].user \in Account \cup {None} /\ req[q].fresh \in BOOLEAN
  BY ReqFields
<1>3. req[q].user # None /\ ~req[q].fresh /\ There(user'[req[q].user]) =>
         user'[req[q].user].deleted \in {Never, day}
  BY <1>1, <1>2 DEF SparesUsers
<1>4. CASE req'[q] = req[q]
  BY <1>1, <1>3, <1>4
<1>5. CASE Follows(req[q], req'[q])
  BY <1>3, <1>5 DEF Follows
<1>6. QED
  BY <1>4, <1>5

LEMMA SameId ==
    ASSUME NEW s, NEW t
    PROVE  Id(s) = Id(t) <=> s.of = t.of /\ s.origin = t.origin
<1>1. Id(s).of = s.of /\ Id(s).origin = s.origin /\ Id(t).of = t.of /\ Id(t).origin = t.origin
  BY DEF Id
<1>2. s.of = t.of /\ s.origin = t.origin => Id(s) = Id(t)
  BY DEF Id
<1>3. QED
  BY <1>1, <1>2

\* The tables stay what they are when surveys stay, or come.
LEMMA TablesKeep ==
    ASSUME Tables, SparesSurveys, surveys' \subseteq SurveyRow, UNCHANGED <<people, responses>>
    PROVE  Tables'
<1>1. ASSUME NEW p \in people
      PROVE  CreatorsIn(p.in)' # {}
  <2>1. PICK s \in surveys : s.of = p.in /\ s.origin = "creator"
    BY DEF Tables, CreatorsIn
  <2>2. PICK t \in surveys' : Id(t) = Id(s)
    BY DEF SparesSurveys, Kin
  <2>3. QED
    BY <2>1, <2>2, SameId DEF CreatorsIn
<1>2. QED
  BY <1>1 DEF Tables, From

LEMMA WriterKeeps ==
    ASSUME WriterFits, UNCHANGED writer,
           \A t \in surveys' : t.origin = "starter" \/ \E s \in surveys : Kin(s, t)
    PROVE  WriterFits'
<1>1. ASSUME NEW w, CreatorsIn(w) = {}
      PROVE  CreatorsIn(w)' = {}
  <2>1. \A t \in surveys' : t.of = w => t.origin # "creator"
    BY <1>1, SameId DEF CreatorsIn, Kin
  <2>2. QED
    BY <2>1 DEF CreatorsIn
<1>2. QED
  BY <1>1 DEF WriterFits, Writer

\* What a step of the accounts does to the rows.
KeepsRows ==
    /\ SparesUsers /\ SparesSpaces /\ SparesSurveys
    /\ Together' /\ Starters' /\ Written'
    /\ \A t \in surveys' : t.origin = "starter" \/ \E s \in surveys : Kin(s, t)

LEMMA OwnerThere ==
    ASSUME IInv, NEW w \in Space, There(space[w])
    PROVE  space[w].owner \in Account /\ There(user[space[w].owner])
BY SpaceFields DEF IInv, Owned

LEMMA SameSurveys ==
    ASSUME UNCHANGED surveys
    PROVE  SparesSurveys /\ \A t \in surveys' : \E s \in surveys : Kin(s, t)
<1>1. ASSUME NEW s PROVE Kin(s, s)
  BY DEF Kin
<1>2. QED
  BY <1>1 DEF SparesSurveys

\* Nothing but an account's address, its password or its identity changes.
LEMMA LivesStay ==
    ASSUME IInv, Together, Starters, Written, UNCHANGED <<space, surveys>>,
           \A u \in Account : /\ user'[u].row = user[u].row
                              /\ user'[u].deleted = user[u].deleted
                              /\ \/ user'[u].address = user[u].address
                                 \/ Live(user[u]) /\ held[u] = "free"
    PROVE  KeepsRows
<1>1. SparesUsers
  <2>1. ASSUME NEW u \in Account, There(user[u])
        PROVE  /\ There(user'[u])
               /\ \/ user'[u].deleted = user[u].deleted /\ user'[u].address = user[u].address
                  \/ Live(user[u]) /\ held[u] = "free" /\ user'[u].deleted \in {Never, day}
    BY <2>1 DEF There, Live
  <2>2. ASSUME NEW u \in Account, There(user'[u])
        PROVE  There(user[u])
    BY <2>2 DEF There
  <2>3. QED
    BY <2>1, <2>2 DEF SparesUsers
<1>2. SparesSpaces
  BY DEF SparesSpaces
<1>3. \A u \in Account : /\ There(user'[u]) <=> There(user[u])
                         /\ Live(user'[u]) <=> Live(user[u])
                         /\ user'[u].deleted = user[u].deleted
  BY DEF There, Live
<1>4. Together'
  BY <1>3, OwnerThere DEF Together, There
<1>5. Starters'
  <2>1. ASSUME NEW w \in Space, Live(space[w]), ~Live(user'[space[w].owner])
        PROVE  [of |-> w, by |-> space[w].owner, origin |-> "starter", deleted |-> Never] \in surveys
    <3>1. ~Live(user[space[w].owner])
      BY <1>3, <2>1, OwnerThere DEF Live
    <3>2. QED
      BY <2>1, <3>1 DEF Starters
  <2>2. QED
    BY <2>1 DEF Starters, Live, There, Never
<1>6. Written'
  <2>1. \A s \in surveys : s.by \in Account
    BY DEF IInv, TypeOK, SurveyRow
  <2>2. \A s \in surveys : There(space[s.of]) /\ space[s.of].owner = s.by /\ There(user'[s.by])
    BY <1>3, <2>1 DEF Written
  <2>3. QED
    BY <2>2 DEF Written, There, Id
<1>7. QED
  BY <1>1, <1>2, <1>4, <1>5, <1>6, SameSurveys DEF KeepsRows

LEMMA UpdateUserEmailRows ==
    ASSUME IInv, Together, Starters, Written, NEW r \in Request, UpdateUserEmail(r)
    PROVE  KeepsRows
<1> DEFINE u == req[r].user
           a == req[r].address
<1>1. /\ UNCHANGED <<space, surveys>> /\ RowFree(r, u)
      /\ \/ UNCHANGED user
         \/ Live(user[u]) /\ user' = [user EXCEPT ![u] = [user[u] EXCEPT !.address = a]]
  BY DEF UpdateUserEmail
<1>2. user \in [Account -> User]
  BY DEF IInv, TypeOK
<1>3. ASSUME NEW v \in Account
      PROVE  /\ user'[v].row = user[v].row /\ user'[v].deleted = user[v].deleted
             /\ \/ user'[v].address = user[v].address
                \/ Live(user[v]) /\ held[v] = "free"
  BY <1>1, <1>2 DEF User, RowFree
<1>4. QED
  BY <1>1, <1>3, LivesStay

LEMMA SetUserPasswordRows ==
    ASSUME IInv, Together, Starters, Written, NEW r \in Request, NEW u \in Account,
           SetUserPassword(r, u)
    PROVE  KeepsRows
<1>1. /\ UNCHANGED <<space, surveys>>
      /\ user' = [user EXCEPT ![u] = [user[u] EXCEPT !.password = user[u].password + 1]]
  BY DEF SetUserPassword
<1>2. user \in [Account -> User]
  BY DEF IInv, TypeOK
<1>3. ASSUME NEW v \in Account
      PROVE  /\ user'[v].row = user[v].row /\ user'[v].deleted = user[v].deleted
             /\ user'[v].address = user[v].address
  BY <1>1, <1>2 DEF User
<1>4. QED
  BY <1>1, <1>3, LivesStay

LEMMA DeleteAccountRows ==
    ASSUME IInv, Together, Starters, Written, OfToday, NEW r \in Request, DeleteAccount(r)
    PROVE  KeepsRows
<1> DEFINE u == req[r].user
<1>1. /\ UNCHANGED <<surveys, day>> /\ req[r].pc = "close" /\ RowFree(r, u)
      /\ \A w \in LiveSpacesOf(u) : held[w] = "free"
      /\ space' = [w \in Space |-> IF w \in LiveSpacesOf(u)
                                   THEN [space[w] EXCEPT !.deleted = day] ELSE space[w]]
      /\ user' = IF Live(user[u]) THEN [user EXCEPT ![u] = [user[u] EXCEPT !.deleted = day]]
                 ELSE user
  BY DEF DeleteAccount, AtStage
<1>2. ShapeOf(req[r]) /\ u \in Account /\ ~req[r].fresh
  BY <1>1, ReqFields DEF IInv, Shapes, ShapeOf, Located
<1>3. user \in [Account -> User] /\ space \in [Space -> Workspace] /\ day # Never
  BY BoundsAssumption DEF IInv, TypeOK, Never
<1>4. ASSUME NEW v \in Account
      PROVE  /\ There(user'[v]) <=> There(user[v])
             /\ user'[v].address = user[v].address
             /\ IF v = u /\ Live(user[u])
                THEN user'[v].deleted = day ELSE user'[v].deleted = user[v].deleted
  <2>1. CASE v = u /\ Live(user[u])
    <3>1. user'[v] = [user[u] EXCEPT !.deleted = day]
      BY <1>1, <1>2, <1>3, <2>1
    <3>2. QED
      BY <1>2, <1>3, <2>1, <3>1 DEF User, There
  <2>2. CASE ~(v = u /\ Live(user[u]))
    <3>1. user'[v] = user[v]
      BY <1>1, <1>2, <1>3, <2>2
    <3>2. QED
      BY <2>2, <3>1
  <2>3. QED
    BY <2>1, <2>2
<1>5. ASSUME NEW w \in Space
      PROVE  /\ There(space'[w]) <=> There(space[w])
             /\ space'[w].owner = space[w].owner
             /\ IF w \in LiveSpacesOf(u)
                THEN space'[w].deleted = day ELSE space'[w].deleted = space[w].deleted
  BY <1>1, <1>3 DEF Workspace, There
<1>6. There(user[u]) => user[u].deleted \in {Never, day}
  BY <1>2, NoneAssumption DEF OfToday
<1>7. There(user[u]) => user'[u].deleted = day
  BY <1>2, <1>4, <1>6 DEF Live
<1>8. \A w \in LiveSpacesOf(u) : Live(space[w]) /\ space[w].owner = u
  BY DEF LiveSpacesOf
<1>9. SparesUsers
  <2>1. ASSUME NEW v \in Account, There(user[v])
        PROVE  /\ There(user'[v])
               /\ \/ user'[v].deleted = user[v].deleted /\ user'[v].address = user[v].address
                  \/ Live(user[v]) /\ held[v] = "free" /\ user'[v].deleted \in {Never, day}
    BY <1>1, <1>4, <2>1 DEF RowFree
  <2>2. QED
    BY <1>4, <2>1 DEF SparesUsers
<1>10. SparesSpaces
  <2>1. ASSUME NEW w \in Space, There(space[w])
        PROVE  /\ There(space'[w]) /\ space'[w].owner = space[w].owner
               /\ \/ space'[w].deleted = space[w].deleted
                  \/ Live(space[w]) /\ held[w] = "free" /\ space'[w].deleted = day
    BY <1>1, <1>5, <1>8, <2>1
  <2>2. QED
    BY <1>5, <2>1 DEF SparesSpaces
<1> HIDE DEF u
<1>11. Together'
  <2>1. ASSUME NEW w \in Space, There(space'[w]), space'[w].deleted # Never
        PROVE  user'[space'[w].owner].deleted = space'[w].deleted
    <3> DEFINE o == space[w].owner
    <3>1. There(space[w]) /\ space'[w].owner = o /\ o \in Account /\ There(user[o])
      BY <1>5, <2>1, OwnerThere
    <3>2. CASE w \in LiveSpacesOf(u)
      BY <1>5, <1>7, <1>8, <3>1, <3>2
    <3>3. CASE w \notin LiveSpacesOf(u)
      <4>1. space[w].deleted # Never /\ space'[w].deleted = space[w].deleted
        BY <1>5, <2>1, <3>3
      <4>2. user[o].deleted = space[w].deleted
        BY <3>1, <4>1 DEF Together
      <4>3. ~Live(user[o])
        BY <4>1, <4>2 DEF Live
      <4>4. user'[o].deleted = user[o].deleted
        BY <1>4, <3>1, <4>3
      <4>5. QED
        BY <3>1, <4>1, <4>2, <4>4
    <3>4. QED
      BY <3>2, <3>3
  <2>2. QED
    BY <2>1 DEF Together, There, Never
<1>12. Starters'
  <2>1. ASSUME NEW w \in Space, Live(space'[w]), ~Live(user'[space'[w].owner])
        PROVE  [of |-> w, by |-> space'[w].owner, origin |-> "starter", deleted |-> Never] \in surveys'
    <3>1. w \notin LiveSpacesOf(u) /\ There(space[w]) /\ space'[w].deleted = space[w].deleted
      BY <1>3, <1>5, <2>1 DEF Live
    <3>2. Live(space[w]) /\ space[w].owner # u
      BY <2>1, <3>1 DEF Live, LiveSpacesOf
    <3>3. space'[w].owner = space[w].owner /\ space[w].owner \in Account
      BY <1>5, <3>1, OwnerThere
    <3>4. ~Live(user[space[w].owner])
      BY <1>4, <2>1, <3>2, <3>3 DEF Live
    <3>5. QED
      BY <1>1, <3>2, <3>3, <3>4 DEF Starters
  <2>2. QED
    BY <2>1 DEF Starters, Live, There, Never
<1>13. Written'
  <2>1. \A s \in surveys : s.by \in Account /\ s.of \in Space
    BY DEF IInv, TypeOK, SurveyRow
  <2>2. \A s \in surveys : There(space'[s.of]) /\ space'[s.of].owner = s.by /\ There(user'[s.by])
    BY <1>4, <1>5, <2>1 DEF Written
  <2>3. QED
    BY <1>1, <2>2 DEF Written, There, Id
<1>14. QED
  BY <1>1, <1>9, <1>10, <1>11, <1>12, <1>13, SameSurveys DEF KeepsRows

LEMMA CommitLoginRows ==
    ASSUME IInv, Together, Starters, Written, OfToday, HeldFits, RemovedDue,
           NEW r \in Request, CommitLogin(r)
    PROVE  /\ KeepsRows
           /\ There(user'[req'[r].user]) => user'[req'[r].user].deleted \in {Never, day}
           /\ req'[r].pc = "session"
<1> DEFINE u == req[r].user
           w == req[r].space
           new == [row |-> "there", address |-> req[r].address, sub |-> req[r].sub,
                   password |-> req[r].password, deleted |-> Never, made |-> req[r].code]
           starter == [of |-> w, by |-> u, origin |-> "starter", deleted |-> Never]
<1>1. /\ req[r].pc = "commit"
      /\ user' = IF req[r].fresh THEN [user EXCEPT ![u] = new]
                 ELSE IF req[r].linked THEN [user EXCEPT ![u] = [user[u] EXCEPT !.sub = req[r].sub]]
                 ELSE user
      /\ IF w = None THEN UNCHANGED <<space, surveys>>
         ELSE /\ space' = [space EXCEPT ![w] = [row |-> "there", owner |-> u, deleted |-> Never]]
              /\ surveys' = surveys \cup {starter}
  BY DEF CommitLogin, AtStage
<1>2. /\ req'[r] = [req[r] EXCEPT !.pc = "session", !.space = None,
                                  !.fresh = FALSE, !.linked = FALSE]
      /\ req[r] \in Req
  BY DEF CommitLogin, Goes, IInv, TypeOK
<1>3. req'[r].user = u /\ req'[r].pc = "session"
  BY <1>2 DEF Req
<1>4. ShapeOf(req[r]) /\ ClaimsOf(req[r]) /\ u \in Account /\ w \in Space \cup {None}
  BY <1>1, ReqFields DEF IInv, Shapes, Claims, ShapeOf, Located
<1>5. /\ req[r].fresh => ~There(user[u]) /\ w # None
      /\ w # None => w \in Space /\ ~There(space[w])
      /\ w # None /\ ~req[r].fresh => /\ There(user[u]) /\ ~Live(user[u])
                                      /\ held[u] # "removed"
  BY <1>1, <1>4 DEF ShapeOf, ClaimsOf
<1>6. user \in [Account -> User] /\ space \in [Space -> Workspace]
  BY DEF IInv, TypeOK
<1>7. req[r].fresh \in BOOLEAN /\ req[r].linked \in BOOLEAN
  BY <1>2 DEF Req
<1>8. ASSUME NEW v \in Account, There(user[v])
      PROVE  /\ There(user'[v]) /\ (Live(user'[v]) <=> Live(user[v]))
             /\ user'[v].address = user[v].address
             /\ user'[v].deleted = user[v].deleted
  <2>1. CASE req[r].fresh
    <3>1. user'[v] = user[v]
      BY <1>1, <1>4, <1>5, <1>6, <1>8, <2>1
    <3>2. QED
      BY <1>8, <3>1
  <2>2. CASE ~req[r].fresh
    <3> HIDE DEF new
    <3>1. user'[v] = user[v] \/ user'[v] = [user[v] EXCEPT !.sub = req[r].sub]
      BY <1>1, <1>4, <1>6, <2>2
    <3>2. QED
      BY <1>6, <1>8, <3>1 DEF User, There, Live
  <2>3. QED
    BY <2>1, <2>2
<1>9. req[r].fresh => There(user'[u]) /\ user'[u].deleted = Never
  BY <1>1, <1>4, <1>6 DEF There
<1>10. ASSUME NEW v \in Account, There(user'[v]), ~There(user[v])
       PROVE  user'[v].deleted = Never
  <2>1. CASE req[r].fresh
    BY <1>1, <1>4, <1>6, <1>9, <1>10, <2>1
  <2>2. CASE ~req[r].fresh
    <3> HIDE DEF new
    <3>1. user'[v] = user[v] \/ user'[v] = [user[v] EXCEPT !.sub = req[r].sub]
      BY <1>1, <1>4, <1>6, <2>2
    <3>2. QED
      BY <1>6, <1>10, <3>1 DEF User, There
  <2>3. QED
    BY <2>1, <2>2
<1>11. /\ \A x \in Space : There(space[x]) => x # w /\ space'[x] = space[x]
       /\ \A x \in Space : x # w => space'[x] = space[x]
       /\ w # None => /\ There(space'[w]) /\ space'[w].owner = u /\ space'[w].deleted = Never
                      /\ surveys' = surveys \cup {starter}
       /\ w = None => surveys' = surveys
  <2>1. CASE w = None
    BY <1>1, <1>4, <2>1, NoneAssumption
  <2>2. CASE w # None
    <3>1. /\ space' = [space EXCEPT ![w] = [row |-> "there", owner |-> u, deleted |-> Never]]
          /\ surveys' = surveys \cup {starter} /\ w \in Space /\ ~There(space[w])
      BY <1>1, <1>5, <2>2
    <3> HIDE DEF starter, w, u
    <3>2. space'[w] = [row |-> "there", owner |-> u, deleted |-> Never]
      BY <1>6, <3>1
    <3>3. \A x \in Space : x # w => space'[x] = space[x]
      BY <1>6, <3>1
    <3>4. There(space'[w]) /\ space'[w].owner = u /\ space'[w].deleted = Never
      BY <3>2 DEF There
    <3>5. QED
      BY <2>2, <3>1, <3>3, <3>4
  <2>3. QED
    BY <2>1, <2>2
<1>12. w # None => u \notin job.removed /\ w \notin job.removed /\ ~Live(user[u])
  <2>1. \A x \in Account : x \in job.removed => There(user[x])
    BY DEF RemovedDue, DueUsers
  <2>2. \A x \in Space : x \in job.removed => There(space[x])
    BY DEF RemovedDue, DueSpaces
  <2>3. QED
    BY <1>4, <1>5, <1>7, <2>1, <2>2 DEF HeldFits, Live
<1>s. starter.of = w /\ starter.by = u /\ starter.deleted = Never /\ starter.origin = "starter"
  OBVIOUS
<1>t. w # None => There(user'[u])
  BY <1>4, <1>5, <1>7, <1>8, <1>9
<1> HIDE DEF u, w, new, starter
<1>13. SparesUsers
  BY <1>8, <1>10 DEF SparesUsers
<1>14. SparesSpaces
  <2>1. ASSUME NEW x \in Space, There(space'[x]), ~There(space[x])
        PROVE  x = w /\ w # None
    <3>1. x = w
      BY <1>11, <2>1
    <3>2. w # None
      BY <2>1, <3>1, NoneAssumption
    <3>3. QED
      BY <3>1, <3>2
  <2>2. QED
    BY <1>11, <1>12, <2>1 DEF SparesSpaces
<1>15. \A s \in surveys : s.of \in Space /\ s.by \in Account /\ s.of # w
  BY <1>11 DEF IInv, TypeOK, SurveyRow, Written
<1>16. ASSUME NEW s PROVE Kin(s, s)
  BY DEF Kin
<1>17. SparesSurveys
  <2>1. \A s \in surveys : s \in surveys'
    BY <1>11
  <2>2. ASSUME NEW t \in surveys', t \notin surveys
        PROVE  /\ t.deleted = Never /\ \A s \in surveys : Id(s) # Id(t)
               /\ t.of \notin job.removed /\ t.by \notin job.removed
    <3>1. t = starter /\ w # None
      BY <1>11, <2>2
    <3>2. \A s \in surveys : Id(s) # Id(starter)
      BY <1>15, <1>s, SameId
    <3>3. QED
      BY <1>12, <1>s, <3>1, <3>2
  <2>3. QED
    BY <1>16, <2>1, <2>2 DEF SparesSurveys
<1>18. Together'
  <2>1. ASSUME NEW x \in Space, There(space'[x]), space'[x].deleted # Never
        PROVE  user'[space'[x].owner].deleted = space'[x].deleted
    <3>1. x # w
      BY <1>11, <2>1, NoneAssumption
    <3>a. There(space[x]) /\ space'[x] = space[x]
      BY <1>11, <2>1, <3>1
    <3>2. QED
      BY <1>8, <3>a, <2>1, <3>1, OwnerThere DEF Together
  <2>2. QED
    BY <2>1 DEF Together, There, Never
<1>19. Starters'
  <2>1. ASSUME NEW x \in Space, Live(space'[x]), ~Live(user'[space'[x].owner])
        PROVE  [of |-> x, by |-> space'[x].owner, origin |-> "starter", deleted |-> Never] \in surveys'
    <3>1. CASE There(space[x])
      <4>1. space'[x] = space[x]
        BY <1>11, <3>1
      <4>2. ~Live(user[space[x].owner])
        BY <1>8, <2>1, <3>1, <4>1, OwnerThere
      <4>3. QED
        BY <1>11, <2>1, <4>1, <4>2 DEF Starters
    <3>2. CASE ~There(space[x])
      <4>1. x = w
        BY <1>11, <2>1, <3>2 DEF Live
      <4>2. w # None
        BY <4>1, NoneAssumption
      <4>3. QED
        BY <1>11, <4>1, <4>2 DEF starter
    <3>3. QED
      BY <3>1, <3>2
  <2>2. QED
    BY <2>1 DEF Starters, Live, There, Never
<1>20. Written'
  <2>1. ASSUME NEW s \in surveys'
        PROVE  There(space'[s.of]) /\ space'[s.of].owner = s.by /\ There(user'[s.by])
    <3>1. CASE s \in surveys
      <4>1. There(space[s.of]) /\ space[s.of].owner = s.by /\ There(user[s.by])
        BY <3>1 DEF Written
      <4>2. QED
        BY <1>8, <1>11, <1>15, <3>1, <4>1
    <3>2. CASE s \notin surveys
      <4>1. s = starter /\ w # None
        BY <1>11, <3>2
      <4>2. QED
        BY <1>11, <1>s, <1>t, <4>1
    <3>3. QED
      BY <3>1, <3>2
  <2>2. ASSUME NEW s \in surveys', NEW t \in surveys', Id(s) = Id(t)
        PROVE  s = t
    <3>1. s.of = t.of
      BY <2>2, SameId
    <3>2. (s \in surveys <=> s.of # w) /\ (t \in surveys <=> t.of # w)
      BY <1>11, <1>15, <1>s
    <3>3. QED
      BY <1>11, <2>2, <3>1, <3>2 DEF Written
  <2>3. QED
    BY <2>1, <2>2 DEF Written, There, Id
<1>21. \A t \in surveys' : t.origin = "starter" \/ \E s \in surveys : Kin(s, t)
  BY <1>11, <1>16, <1>s
<1>22. There(user'[u]) => user'[u].deleted \in {Never, day}
  <2>1. CASE req[r].fresh
    BY <1>9, <2>1
  <2>2. CASE ~req[r].fresh
    <3>1. user'[u].deleted = user[u].deleted /\ (There(user'[u]) => There(user[u]))
      <4>1. user'[u] = user[u] \/ user'[u] = [user[u] EXCEPT !.sub = req[r].sub]
        BY <1>1, <1>4, <1>6, <2>2
      <4>2. QED
        BY <1>4, <1>6, <4>1 DEF User, There
    <3>2. u # None
      BY <1>4, NoneAssumption
    <3>3. There(user[u]) => user[u].deleted \in {Never, day}
      BY <2>2, <3>2 DEF OfToday, u
    <3>4. QED
      BY <3>1, <3>3
  <2>3. QED
    BY <1>7, <2>1, <2>2
<1>23. QED
  BY <1>3, <1>13, <1>14, <1>17, <1>18, <1>19, <1>20, <1>21, <1>22 DEF KeepsRows

LEMMA NextRows ==
    ASSUME RInv, Next
    PROVE  /\ KeepsRows /\ UNCHANGED <<held, day>>
           /\ \A q \in Request : req'[q] = req[q] \/ Follows(req[q], req'[q])
<1>1. /\ IInv /\ TypeOK /\ Together /\ Starters /\ Written /\ OfToday /\ HeldFits /\ RemovedDue
  BY DEF RInv, Base, Swept, IInv
<1>2. UNCHANGED <<held, day>>
  BY RowsOf DEF CommitLogin, UpdateUserEmail, DeleteAccount, SetUserPassword
<1>3. KeepsRows
  <2>1. CASE UNCHANGED <<user, space, surveys>>
    BY <1>1, <2>1, LivesStay
  <2>2. ASSUME NEW r \in Request, \/ CommitLogin(r) \/ UpdateUserEmail(r) \/ DeleteAccount(r)
                                  \/ \E u \in Account : SetUserPassword(r, u)
        PROVE  KeepsRows
    BY <1>1, <2>2, CommitLoginRows, UpdateUserEmailRows, DeleteAccountRows, SetUserPasswordRows
  <2>3. QED
    BY <2>1, <2>2, RowsOf
<1>4. ASSUME NEW r \in Request, SignIn(r) \/ Manage(r) \/ Abort(r), NEW q \in Request
      PROVE  req'[q] = req[q] \/ Follows(req[q], req'[q])
  <2>1. \A k : Goes(r, k) => req'[r] = k /\ (q # r => req'[q] = req[q])
    BY <1>1 DEF Goes, TypeOK
  <2>2. CASE CommitLogin(r)
    <3>1. There(user'[req'[r].user]) => user'[req'[r].user].deleted \in {Never, day}
      BY <1>1, <2>2, CommitLoginRows
    <3>2. req'[r].pc = "session"
      BY <1>1, <2>2, CommitLoginRows
    <3>3. Follows(req[r], req'[r])
      BY <3>1, <3>2 DEF Follows
    <3>4. q # r => req'[q] = req[q]
      BY <2>1, <2>2 DEF CommitLogin
    <3>5. QED
      BY <3>3, <3>4
  <2>3. CASE UpdateUserEmail(r) \/ DeleteAccount(r)
    <3>1. Ends(r)
      BY <2>3 DEF UpdateUserEmail, DeleteAccount
    <3>2. Follows(req[r], Idle)
      BY DEF Follows, Idle
    <3>3. QED
      BY <2>1, <3>1, <3>2 DEF Ends
  <2>4. CASE ~CommitLogin(r) /\ ~UpdateUserEmail(r) /\ ~DeleteAccount(r)
    BY <1>1, <1>4, <2>1, <2>4, RequestFollows
  <2>5. QED
    BY <2>2, <2>3, <2>4
<1>5. \A q \in Request : req'[q] = req[q] \/ Follows(req[q], req'[q])
  BY <1>4 DEF Next, RequestMagicLink, Logout, RevokeBetaCode
<1>6. QED
  BY <1>2, <1>3, <1>5

LEMMA NextKeeps ==
    ASSUME RInv, Next, UNCHANGED <<retained, writer, job>>
    PROVE  RInv' /\ Spares
<1>1. /\ IInv /\ TypeOK /\ Together /\ Starters /\ Written /\ OfToday /\ WriterFits /\ Tables
      /\ Base /\ JobShape /\ Swept
  BY DEF RInv, Base, IInv
<1>2. KeepsRows /\ UNCHANGED <<held, day, people, responses, writer, job>>
  BY NextRows DEF retained
<1>3. IInv' /\ TypeOK'
  BY <1>1, NextKeepsIInv DEF IInv
<1>4. OfToday'
  BY <1>1, <1>2, <1>3, NextRows, TodayKeeps DEF KeepsRows
<1>5. Tables'
  BY <1>1, <1>2, <1>3, TablesKeep DEF KeepsRows, TypeOK
<1>6. WriterFits'
  BY <1>1, <1>2, WriterKeeps DEF KeepsRows
<1>7. Spares
  BY <1>2 DEF KeepsRows, Spares, SparesPeople, SparesResponses
<1>8. Base'
  BY <1>2, <1>3, <1>4, <1>5, <1>6 DEF Base, KeepsRows
<1>9. QED
  BY <1>1, <1>7, <1>8, SparedSwept DEF RInv

-----------------------------------------------------------------------------
(* Surveys, participants and responses, beside a purge.                    *)

LEMMA OthersStay ==
    ASSUME RInv, UNCHANGED <<user, space, sessions, link, code, req, held, day, job>>,
           surveys' \subseteq SurveyRow,
           SparesSurveys, SparesPeople, SparesResponses,
           Starters', Written', Tables', WriterFits'
    PROVE  RInv' /\ Spares
<1>1. IInv'
  <2>1. Requests' /\ Rows'
    BY InvParts, RequestsStay, RowsStay DEF RInv, Base
  <2>2. TypeOK' /\ LinksFit'
    BY DEF RInv, Base, IInv, TypeOK, LinksFit
  <2>3. QED
    BY <2>1, <2>2 DEF IInv, Requests, Rows
<1>2. Together' /\ OfToday'
  BY DEF RInv, Base, Together, OfToday, There, AtStage
<1>3. Base'
  BY <1>1, <1>2 DEF Base
<1>4. SparesUsers /\ SparesSpaces
  BY DEF SparesUsers, SparesSpaces
<1>5. Spares
  BY <1>4 DEF Spares
<1>6. QED
  BY <1>3, <1>5, SparedSwept DEF RInv

LEMMA SameStay ==
    ASSUME RInv, UNCHANGED <<user, space, surveys>>
    PROVE  Starters' /\ Written' /\ surveys' \subseteq SurveyRow /\ SparesSurveys
<1>1. Starters' /\ Written'
  BY DEF RInv, Base, Starters, Written, Live, There, Never, Id
<1>2. QED
  BY <1>1, SameSurveys DEF RInv, Base, Tables

LEMMA BeginKeeps ==
    ASSUME RInv, \/ \E u \in Account, w \in Space : BeginCreate(u, w)
                 \/ \E p \in people : BeginRespond(p)
    PROVE  RInv' /\ Spares
<1>1. UNCHANGED <<user, space, surveys, sessions, link, code, req, held, day, people, responses, job>>
  BY DEF BeginCreate, BeginRespond, Write, vars, retained
<1>2. Tables'
  BY <1>1 DEF RInv, Base, Tables, CreatorsIn, From
<1>3. WriterFits'
  <2>1. ASSUME NEW u \in Account, NEW w \in Space, BeginCreate(u, w)
        PROVE  WriterFits'
    BY <1>1, <2>1 DEF BeginCreate, Write, WriterFits, Writer, CreatorsIn
  <2>2. ASSUME NEW p \in people, BeginRespond(p)
        PROVE  WriterFits'
    <3>1. p.in \in Space /\ p.address \in Address
      BY DEF RInv, Base, Tables, Participant
    <3>2. QED
      BY <1>1, <2>2, <3>1 DEF BeginRespond, Write, WriterFits, Writer, CreatorsIn
  <2>3. QED
    BY <2>1, <2>2
<1>4. SparesPeople /\ SparesResponses
  BY <1>1 DEF SparesPeople, SparesResponses
<1>5. QED
  BY <1>1, <1>2, <1>3, <1>4, SameStay, OthersStay

LEMMA NoWriterFits == NoWriter \in Writer /\ NoWriter.pc = "idle"
BY DEF NoWriter, Writer

LEMMA CreateSurveyKeeps ==
    ASSUME RInv, CreateSurvey
    PROVE  RInv' /\ Spares
<1> DEFINE w == writer.in
           u == writer.by
           new == [of |-> w, by |-> u, origin |-> "creator", deleted |-> Never]
<1>1. /\ UNCHANGED <<user, space, sessions, link, code, req, held, day, people, responses, job>>
      /\ writer.pc = "create" /\ w \notin job.removed /\ u \notin job.removed
      /\ writer' = NoWriter
      /\ \/ surveys' = surveys
         \/ /\ There(space[w]) /\ space[w].owner = u /\ There(user[u])
            /\ surveys' = surveys \cup {new}
  BY DEF CreateSurvey, Stays, retained
<1>2. w \in Space /\ u \in Account /\ CreatorsIn(w) = {}
  BY <1>1 DEF RInv, Base, WriterFits
<1>3. WriterFits'
  BY <1>1, NoWriterFits DEF WriterFits, Writer
<1>4. SparesPeople /\ SparesResponses
  BY <1>1 DEF SparesPeople, SparesResponses
<1>5. CASE surveys' = surveys
  <2>1. Tables'
    BY <1>1, <1>5 DEF RInv, Base, Tables, CreatorsIn, From
  <2>2. QED
    BY <1>1, <1>3, <1>4, <1>5, <2>1, SameStay, OthersStay
<1>6. CASE /\ There(space[w]) /\ space[w].owner = u /\ There(user[u])
           /\ surveys' = surveys \cup {new}
  <2>1. /\ new \in SurveyRow /\ new.of = w /\ new.by = u /\ new.deleted = Never
        /\ new.origin = "creator"
    BY <1>2, BoundsAssumption DEF SurveyRow, When, Never
  <2>2. ASSUME NEW s \in surveys PROVE Id(s) # Id(new)
    BY <1>2, <2>1, SameId DEF CreatorsIn
  <2> HIDE DEF new, w, u
  <2>3. ASSUME NEW s PROVE Kin(s, s)
    BY DEF Kin
  <2>4. SparesSurveys
    BY <1>1, <1>6, <2>1, <2>2, <2>3 DEF SparesSurveys
  <2>5. Written'
    BY <1>1, <1>6, <2>1, <2>2 DEF RInv, Base, Written, There, Id
  <2>6. Starters'
    BY <1>1, <1>6 DEF RInv, Base, Starters, Live, There, Never
  <2>7. surveys' \subseteq SurveyRow
    BY <1>6, <2>1 DEF RInv, Base, Tables
  <2>8. Tables'
    BY <1>1, <2>4, <2>7, TablesKeep DEF RInv, Base
  <2>9. QED
    BY <1>1, <1>3, <1>4, <2>4, <2>5, <2>6, <2>7, <2>8, OthersStay
<1>7. QED
  BY <1>1, <1>5, <1>6

LEMMA SoftDeleteSurveyKeeps ==
    ASSUME RInv, NEW s \in surveys, SoftDeleteSurvey(s)
    PROVE  RInv' /\ Spares
<1> DEFINE new == [s EXCEPT !.deleted = day]
<1>1. /\ UNCHANGED <<user, space, sessions, link, code, req, held, day, people, responses, writer, job>>
      /\ s.deleted = Never /\ Live(space[s.of]) /\ Live(user[space[s.of].owner])
      /\ surveys' = (surveys \ {s}) \cup {new}
  BY DEF SoftDeleteSurvey, Creator, Authenticated, retained
<1>2. s \in SurveyRow /\ day \in When
  BY BoundsAssumption DEF RInv, Base, Tables, IInv, TypeOK, When, Never
<1>3. /\ new \in SurveyRow /\ new.of = s.of /\ new.by = s.by /\ new.deleted = day
      /\ new.origin = s.origin
  BY <1>2 DEF SurveyRow
<1>4. Id(new) = Id(s)
  BY <1>3, SameId
<1> HIDE DEF new
<1>5. Kin(s, new)
  BY <1>1, <1>3, <1>4 DEF Kin
<1>6. ASSUME NEW t PROVE Kin(t, t)
  BY DEF Kin
<1>7. SparesSurveys /\ \A t \in surveys' : \E q \in surveys : Kin(q, t)
  BY <1>1, <1>5, <1>6 DEF SparesSurveys
<1>8. Written'
  <2>1. \A t \in surveys' : There(space[t.of]) /\ space[t.of].owner = t.by /\ There(user[t.by])
    BY <1>1, <1>3 DEF RInv, Base, Written
  <2>2. ASSUME NEW t \in surveys', NEW q \in surveys', Id(t) = Id(q)
        PROVE  t = q
    BY <1>1, <1>4, <2>2 DEF RInv, Base, Written
  <2>3. QED
    BY <1>1, <2>1, <2>2 DEF Written, There, Id
<1>9. Starters'
  <2>1. ASSUME NEW w \in Space, Live(space[w]), ~Live(user[space[w].owner])
        PROVE  [of |-> w, by |-> space[w].owner, origin |-> "starter", deleted |-> Never] \in surveys'
    <3> DEFINE st == [of |-> w, by |-> space[w].owner, origin |-> "starter", deleted |-> Never]
    <3>1. st \in surveys /\ st.of = w
      BY <2>1 DEF RInv, Base, Starters
    <3>2. st # s
      BY <1>1, <2>1, <3>1
    <3> HIDE DEF st
    <3>3. st \in surveys'
      BY <1>1, <3>1, <3>2
    <3>4. QED
      BY <3>3 DEF st
  <2>2. QED
    BY <1>1, <2>1 DEF Starters, Live, There, Never
<1>10. surveys' \subseteq SurveyRow
  BY <1>1, <1>3 DEF RInv, Base, Tables
<1>11. Tables'
  BY <1>1, <1>7, <1>10, TablesKeep DEF RInv, Base
<1>12. WriterFits'
  BY <1>1, <1>7, WriterKeeps DEF RInv, Base
<1>13. SparesPeople /\ SparesResponses
  BY <1>1 DEF SparesPeople, SparesResponses
<1>14. QED
  BY <1>1, <1>7, <1>8, <1>9, <1>10, <1>11, <1>12, <1>13, OthersStay

LEMMA ImportKeeps ==
    ASSUME RInv, NEW w \in Space, NEW a \in Address, Import(w, a)
    PROVE  RInv' /\ Spares
<1> DEFINE new == [in |-> w, address |-> a]
<1>1. /\ UNCHANGED <<user, space, surveys, sessions, link, code, req, held, day, responses, writer, job>>
      /\ people' = people \cup {new} /\ \A s \in CreatorsIn(w) : Id(s) \notin job.removed
      /\ CreatorsIn(w) # {}
  BY DEF Import, vars, Open, Stays
<1>2. new \in Participant /\ new.in = w
  BY DEF Participant
<1> HIDE DEF new
<1>3. Asked(w) \notin job.removed
  BY <1>1, IdsStand DEF IdsFit, RInv, Base, CreatorsIn
<1>4. SparesPeople /\ SparesResponses
  BY <1>1, <1>2, <1>3 DEF SparesPeople, SparesResponses
<1>5. Tables'
  BY <1>1, <1>2 DEF RInv, Base, Tables, CreatorsIn, From
<1>6. WriterFits'
  BY <1>1 DEF RInv, Base, WriterFits, CreatorsIn, Writer
<1>7. QED
  BY <1>1, <1>4, <1>5, <1>6, SameStay, OthersStay

LEMMA CreateResponseKeeps ==
    ASSUME RInv, CreateResponse
    PROVE  RInv' /\ Spares
<1> DEFINE p == [in |-> writer.in, address |-> writer.by]
<1>1. /\ UNCHANGED <<user, space, surveys, sessions, link, code, req, held, day, people, job>>
      /\ p \notin job.removed /\ writer' = NoWriter
      /\ \/ /\ p \in people
            /\ \E r \in Response \ DOMAIN responses :
                  /\ From(r) = p
                  /\ responses' = [x \in DOMAIN responses \cup {r} |->
                                      IF x = r THEN Never ELSE responses[x]]
         \/ UNCHANGED responses
  BY DEF CreateResponse, vars, Stays
<1> HIDE DEF p
<1>2. /\ \A r \in DOMAIN responses : r \in DOMAIN responses' /\ responses'[r] = responses[r]
      /\ \A r \in DOMAIN responses' \ DOMAIN responses :
            r \in Response /\ From(r) = p /\ p \in people /\ responses'[r] = Never
  BY <1>1
<1>3. SparesPeople /\ SparesResponses
  BY <1>1, <1>2 DEF SparesPeople, SparesResponses
<1>4. Never \in When
  BY BoundsAssumption DEF Never, When
<1>5. Tables'
  <2>1. \A r \in DOMAIN responses' : r \in Response /\ responses'[r] \in When /\ From(r) \in people
    BY <1>2, <1>4 DEF RInv, Base, Tables
  <2>2. QED
    BY <1>1, <2>1 DEF RInv, Base, Tables, CreatorsIn, From, When, Never
<1>6. WriterFits'
  BY <1>1, NoWriterFits DEF WriterFits, Writer
<1>7. QED
  BY <1>1, <1>3, <1>5, <1>6, SameStay, OthersStay

LEMMA SoftDeleteResponseKeeps ==
    ASSUME RInv, NEW r \in DOMAIN responses, SoftDeleteResponse(r)
    PROVE  RInv' /\ Spares
<1>1. /\ UNCHANGED <<user, space, surveys, sessions, link, code, req, held, day, people, writer, job>>
      /\ responses[r] = Never /\ responses' = [responses EXCEPT ![r] = day]
  BY DEF SoftDeleteResponse, vars
<1>2. /\ DOMAIN responses' = DOMAIN responses
      /\ \A q \in DOMAIN responses : responses'[q] = IF q = r THEN day ELSE responses[q]
  BY <1>1
<1>3. SparesPeople /\ SparesResponses
  BY <1>1, <1>2 DEF SparesPeople, SparesResponses
<1>4. day \in When
  BY BoundsAssumption DEF RInv, Base, IInv, TypeOK, Never, When
<1>5. Tables'
  BY <1>1, <1>2, <1>4 DEF RInv, Base, Tables, CreatorsIn, From, When, Never
<1>6. WriterFits'
  BY <1>1 DEF RInv, Base, WriterFits, CreatorsIn, Writer
<1>7. QED
  BY <1>1, <1>3, <1>5, <1>6, SameStay, OthersStay

-----------------------------------------------------------------------------
(* No purge, and a purge that was refused.                                 *)

LEMMA NothingDone ==
    JobShape /\ job.pc \notin UnderWay /\ HeldFits => Swept
<1> SUFFICES ASSUME JobShape, job.pc \notin UnderWay, HeldFits
             PROVE  Swept
  OBVIOUS
<1>1. job.dated = {} /\ job.removed = {} /\ job.emptied = {}
  BY Stages DEF JobShape, Job, NoJob
<1>2. job.pc \notin AfterAnswers /\ job.pc \notin AfterPeople /\ job.pc \notin AfterResponses
      /\ job.pc \notin AfterContents /\ job.pc \notin AfterVersions
      /\ job.pc \notin AfterSurveys /\ job.pc \notin AfterSpaces /\ job.pc \notin AfterUsers
  BY DEF UnderWay, AfterAnswers, AfterPeople, AfterResponses, AfterContents,
       AfterVersions, AfterSurveys, AfterSpaces, AfterAuthors, AfterSessions, AfterUsers
<1>3. BeforeStays /\ DatedFit /\ RemovedDue /\ NothingBelow
  BY <1>1 DEF BeforeStays, DatedFit, RemovedDue, NothingBelow
<1>4. DueRemoved
  BY <1>2 DEF DueRemoved
<1>5. QED
  BY <1>3, <1>4 DEF Swept

LEMMA NoJobStands == job = NoJob => JobShape /\ job.pc \notin UnderWay
<1>1. /\ NoJob.pc = "idle" /\ NoJob.dated = {} /\ NoJob.blocked = {} /\ NoJob \in Job
      /\ NoJob.pc \notin {"answers", "people"}
  BY DEF NoJob, Job, JobStage
<1>2. "idle" \notin UnderWay
  BY Stages
<1> HIDE DEF NoJob
<1>3. QED
  BY <1>1, <1>2 DEF JobShape

LEMMA NoJobFits ==
    ASSUME job' = NoJob
    PROVE  JobShape' /\ (job.pc \notin UnderWay)'
<1>1. (job = NoJob)'
  BY DEF NoJob
<1>2. QED
  BY <1>1, NoJobStands, PTL

LEMMA NextDayKeeps ==
    ASSUME RInv, NextDay
    PROVE  RInv'
<1>1. /\ UNCHANGED <<user, space, surveys, sessions, link, code, req, held, people, responses, writer, job>>
      /\ day < MaxDay /\ day' = day + 1 /\ job.pc = "idle"
      /\ \A r \in Request : req[r].pc = "idle"
  BY DEF NextDay, accounts, retained, AtStage
<1>2. job = NoJob
  BY <1>1 DEF RInv, JobShape
<1>3. IInv'
  <2>1. Requests' /\ Rows'
    BY <1>1, InvParts, RequestsStay, RowsStay DEF RInv, Base
  <2>2. TypeOK' /\ LinksFit'
    BY <1>1, BoundsAssumption DEF RInv, Base, IInv, TypeOK, LinksFit, User, Workspace,
        SurveyRow, When, Never
  <2>3. QED
    BY <2>1, <2>2 DEF IInv, Requests, Rows
<1>4. Together' /\ Starters' /\ Written' /\ Tables' /\ WriterFits'
  BY <1>1 DEF RInv, Base, Together, Starters, Written, Tables, WriterFits, Writer, Live, There,
      Never, When, Id, From, CreatorsIn
<1>5. OfToday'
  BY <1>1 DEF RInv, Base, OfToday, AtStage
<1>6. JobShape' /\ (job.pc \notin UnderWay)'
  BY <1>1, <1>2, NoJobFits
<1>7. HeldFits'
  BY <1>1 DEF RInv, Swept, HeldFits
<1>8. Swept'
  BY <1>6, <1>7, NothingDone, PTL
<1>9. QED
  BY <1>3, <1>4, <1>5, <1>6, <1>8 DEF RInv, Base

LEMMA StutterKeeps ==
    ASSUME RInv, UNCHANGED allVars
    PROVE  RInv' /\ Spares
<1>1. UNCHANGED <<user, space, surveys, sessions, link, code, req, held, day, people, responses, writer, job>>
  BY DEF allVars, vars
<1>2. Tables' /\ WriterFits'
  BY <1>1 DEF RInv, Base, Tables, WriterFits, Writer, From, CreatorsIn
<1>3. SparesPeople /\ SparesResponses
  BY <1>1 DEF SparesPeople, SparesResponses
<1>4. QED
  BY <1>1, <1>2, <1>3, SameStay, OthersStay

-----------------------------------------------------------------------------
(* A statement of the purge.                                               *)

LEMMA RequestsHold ==
    ASSUME RInv, NEW q \in Request
    PROVE  /\ req[q].linked =>
                 /\ req[q].user \in Account /\ Live(user[req[q].user]) /\ Writing(q)
                 /\ req[q].user \notin job.removed /\ req[q].user \notin job.dated
           /\ req[q].space # None /\ ~req[q].fresh =>
                 /\ req[q].user \in Account /\ AtStage(q, "commit")
                 /\ There(user[req[q].user]) /\ ~Live(user[req[q].user])
                 /\ req[q].user \notin job.removed
<1>1. ShapeOf(req[q]) /\ ClaimsOf(req[q]) /\ req[q].user \in Account \cup {None}
  BY ReqFields DEF RInv, Base, IInv, Shapes, Claims
<1>2. HeldFits
  BY DEF RInv, Swept
<1>3. \A u \in Account : /\ held[u] = "free" => u \notin job.removed /\ u \notin job.dated
                         /\ held[u] # "removed" => u \notin job.removed
  BY <1>2 DEF HeldFits
<1>4. ASSUME req[q].linked
      PROVE  /\ req[q].user \in Account /\ Live(user[req[q].user]) /\ Writing(q)
             /\ req[q].user \notin job.removed /\ req[q].user \notin job.dated
  <2>1. req[q].pc \in {"consume", "home", "commit"} /\ req[q].user # None
    BY <1>1, <1>4 DEF ShapeOf, Located
  <2>2. Live(user[req[q].user]) /\ held[req[q].user] = "free"
    BY <1>1, <1>4 DEF ClaimsOf
  <2>3. QED
    BY <1>1, <1>3, <2>1, <2>2 DEF Writing
<1>5. ASSUME req[q].space # None, ~req[q].fresh
      PROVE  /\ req[q].user \in Account /\ AtStage(q, "commit")
             /\ There(user[req[q].user]) /\ ~Live(user[req[q].user])
             /\ req[q].user \notin job.removed
  <2>1. req[q].pc = "commit" /\ req[q].user # None
    BY <1>1, <1>5 DEF ShapeOf, Located
  <2>2. There(user[req[q].user]) /\ ~Live(user[req[q].user]) /\ held[req[q].user] # "removed"
    BY <1>1, <1>5 DEF ClaimsOf
  <2>3. QED
    BY <1>1, <1>3, <2>1, <2>2 DEF AtStage
<1>6. QED
  BY <1>4, <1>5

\* What the purge writes is no row that a request counts on.
LEMMA BecomesKeeps ==
    ASSUME RInv, NEW j, Becomes(j),
           \A q \in Request : req[q].linked =>
               req[q].user \notin j.removed /\ req[q].user \notin j.dated,
           \A q \in Request : req[q].space # None /\ ~req[q].fresh => req[q].user \notin j.removed
    PROVE  /\ Base' /\ HeldFits' /\ job' = j
           /\ UNCHANGED <<user, space, surveys, sessions, link, code, req, day, people, responses, writer>>
<1>1. /\ UNCHANGED <<user, space, surveys, sessions, link, code, req, day, people, responses, writer>>
      /\ job' = j
      /\ held' = [x \in DOMAIN held |->
                     IF x \in j.removed THEN "removed" ELSE IF x \in j.dated THEN "dated" ELSE "free"]
  BY DEF Becomes, accounts, retained
<1>2. held \in [Account \cup Space -> {"free", "dated", "removed"}]
  BY DEF RInv, Base, IInv, TypeOK
<1>3. /\ held' \in [Account \cup Space -> {"free", "dated", "removed"}]
      /\ \A x \in Account \cup Space : held'[x] =
             IF x \in j.removed THEN "removed" ELSE IF x \in j.dated THEN "dated" ELSE "free"
  BY <1>1, <1>2
<1>4. HeldFits'
  BY <1>1, <1>3 DEF HeldFits
<1>5. ASSUME NEW q \in Request
      PROVE  ClaimsOf(req[q])'
  <2>1. ClaimsOf(req[q])
    BY DEF RInv, Base, IInv, Claims
  <2>2. req[q].linked => held'[req[q].user] = "free"
    BY <1>3, RequestsHold
  <2>3. req[q].space # None /\ ~req[q].fresh => held'[req[q].user] # "removed"
    BY <1>3, RequestsHold
  <2>4. QED
    BY <1>1, <2>1, <2>2, <2>3 DEF ClaimsOf, There, Live, Never, Holds, Usable
<1>6. Claims'
  BY <1>5 DEF Claims
<1>7. Shapes' /\ Apart' /\ LinksFit'
  BY <1>1 DEF RInv, Base, IInv, Shapes, ShapeOf, Located, Apart, ApartOf, Keyed, Holds, LinksFit
<1>8. TypeOK'
  BY <1>1, <1>3 DEF RInv, Base, IInv, TypeOK, User, Workspace, SurveyRow, When, Never
<1>9. Rows'
  BY <1>1, RowsStay, InvParts DEF RInv, Base
<1>10. IInv'
  BY <1>6, <1>7, <1>8, <1>9 DEF IInv, Rows
<1>11. Together' /\ Starters' /\ Written' /\ OfToday'
  BY <1>1 DEF RInv, Base, Together, Starters, Written, OfToday, Live, There, Never, Id, AtStage
<1>12. Tables' /\ WriterFits'
  BY <1>1 DEF RInv, Base, Tables, WriterFits, Writer, From, CreatorsIn
<1>13. QED
  BY <1>1, <1>4, <1>10, <1>11, <1>12 DEF Base

LEMMA OverKeeps ==
    ASSUME RInv, Becomes(NoJob)
    PROVE  RInv'
<1>1. NoJob.removed = {} /\ NoJob.dated = {}
  BY DEF NoJob
<1>2. Base' /\ HeldFits' /\ job' = NoJob
  BY <1>1, BecomesKeeps
<1>3. JobShape' /\ (job.pc \notin UnderWay)'
  BY <1>2, NoJobFits
<1>4. Swept'
  BY <1>2, <1>3, NothingDone, PTL
<1>5. QED
  BY <1>2, <1>3, <1>4 DEF RInv

LEMMA RefusedFields ==
    ASSUME JobShape, NEW xs \in SUBSET Row
    PROVE  /\ Refused(xs) \in Job /\ Refused(xs).pc = "refused" /\ Refused(xs).dated = {}
           /\ Refused(xs).emptied = {} /\ Refused(xs).removed = {} /\ Refused(xs).theirs = {}
           /\ Refused(xs).blocked = xs /\ Refused(xs).before = job.before
<1>1. job.before \in SUBSET Row
  BY DEF JobShape, Job
<1>2. NoJob \in Job
  BY DEF NoJob, Job, JobStage
<1>3. "refused" \in JobStage
  BY DEF JobStage
<1>4. Refused(xs) \in Job
  BY <1>1, <1>2, <1>3 DEF Refused, Job
<1>5. QED
  BY <1>4 DEF Refused, NoJob

LEMMA RefusedKeeps ==
    ASSUME RInv, NEW xs \in SUBSET Row, Becomes(Refused(xs))
    PROVE  RInv' /\ job'.blocked = xs
<1> DEFINE j == Refused(xs)
<1>1. /\ j \in Job /\ j.pc = "refused" /\ j.dated = {} /\ j.emptied = {} /\ j.removed = {}
      /\ j.theirs = {} /\ j.blocked = xs
  BY RefusedFields DEF RInv
<1> HIDE DEF j
<1>2. Base' /\ HeldFits' /\ job' = j
  <2>1. Becomes(j)
    BY DEF j
  <2>2. QED
    BY <1>1, <2>1, BecomesKeeps
<1>3. "refused" \notin UnderWay
  BY Stages
<1>4. JobShape'
  <2>1. /\ job' \in Job
        /\ job'.pc # "idle"
        /\ job'.dated = {} /\ job'.removed = {} /\ job'.emptied = {} /\ job'.theirs = {}
        /\ job'.pc = "refused" /\ job'.pc \notin UnderWay
        /\ job'.pc \notin {"answers", "people"}
        /\ job'.dated \subseteq Account \cup Space \cup SurveyId
    BY <1>1, <1>2, <1>3
  <2>2. QED
    BY <2>1
       DEF JobShape, UnderWay, AfterAnswers, AfterPeople, AfterResponses, AfterContents,
           AfterVersions, AfterSurveys, AfterSpaces, AfterAuthors, AfterSessions, AfterUsers
<1>5. (job.pc \notin UnderWay)'
  BY <1>1, <1>2, <1>3 DEF UnderWay, AfterAnswers, AfterPeople, AfterResponses, AfterContents,
       AfterVersions, AfterSurveys, AfterSpaces, AfterAuthors, AfterSessions, AfterUsers
<1>6. Swept'
  BY <1>2, <1>4, <1>5, NothingDone, PTL
<1>7. QED
  BY <1>1, <1>2, <1>4, <1>6 DEF RInv

\* A statement of the purge has run, and removed some rows.
Executed(xs, next) ==
    /\ UNCHANGED <<user, space, surveys, day, people, responses>>
    /\ job' \in Job
    /\ job'.pc = next /\ job'.removed = job.removed \cup xs
    /\ job'.kind = job.kind /\ job'.address = job.address /\ job'.dated = job.dated
    /\ job'.before = job.before /\ job'.theirs = job.theirs /\ job'.skipped = job.skipped
    /\ job'.blocked = job.blocked

LEMMA RemovesOutcome ==
    ASSUME RInv, NEW pc, NEW xs \in SUBSET Row, NEW children \in SUBSET Row,
           NEW next \in JobStage, Removes(pc, xs, children, next),
           \A q \in Request : req[q].linked \/ (req[q].space # None /\ ~req[q].fresh) =>
               req[q].user \notin xs
    PROVE  \/ /\ children \subseteq job.removed
              /\ Executed(xs, next) /\ job'.emptied = job.emptied
              /\ Base' /\ HeldFits'
           \/ /\ RInv' /\ job'.pc = "refused" /\ job'.blocked = children \ job.removed
<1>1. job \in Job
  BY DEF RInv, JobShape
<1>2. CASE children \subseteq job.removed
  <2> DEFINE j == [job EXCEPT !.removed = job.removed \cup xs, !.pc = next]
  <2>1. Becomes(j)
    BY <1>2 DEF Removes
  <2>2. /\ j \in Job /\ j.pc = next /\ j.removed = job.removed \cup xs
        /\ j.kind = job.kind /\ j.address = job.address /\ j.dated = job.dated
        /\ j.before = job.before /\ j.theirs = job.theirs /\ j.skipped = job.skipped
        /\ j.blocked = job.blocked
        /\ j.emptied = job.emptied
    BY <1>1 DEF Job
  <2> HIDE DEF j
  <2>3. /\ Base' /\ HeldFits' /\ job' = j
        /\ UNCHANGED <<user, space, surveys, sessions, link, code, req, day, people, responses, writer>>
    BY <2>1, <2>2, BecomesKeeps, RequestsHold
  <2>4. QED
    BY <1>2, <2>2, <2>3 DEF Executed
<1>3. CASE ~(children \subseteq job.removed)
  <2>1. Becomes(Refused(children \ job.removed)) /\ children \ job.removed \in SUBSET Row
    BY <1>3 DEF Removes
  <2>2. RInv' /\ job'.blocked = children \ job.removed
    BY <2>1, RefusedKeeps
  <2>3. job' = Refused(children \ job.removed)
    BY <2>1 DEF Becomes
  <2>4. job'.pc = "refused"
    BY <2>1, <2>3, RefusedFields DEF RInv
  <2>5. QED
    BY <2>2, <2>4
<1>4. QED
  BY <1>2, <1>3

LEMMA ExecutedSame ==
    ASSUME NEW xs, NEW next, Executed(xs, next)
    PROVE  /\ DueUsers' = DueUsers /\ DueSpaces' = DueSpaces /\ DueResponses' = DueResponses
           /\ Doomed' = Doomed /\ AllRows' = AllRows
           /\ \A d : Past(d)' <=> Past(d)
<1>1. \A d : Past(d)' <=> Past(d)
  BY DEF Past, Executed
<1>2. DueUsers' = DueUsers
  BY DEF Executed, DueUsers, Past, There, Never
<1>3. DueSpaces' = DueSpaces
  BY DEF Executed, DueSpaces, Past, There, Never
<1>4. DueResponses' = DueResponses
  BY DEF Executed, DueResponses, Past, Never
<1>5. Doomed' = Doomed
  BY <1>3 DEF Executed, Doomed, Past, Never, Id
<1>6. AllRows' = AllRows
  BY DEF Executed, AllRows, There, Id
<1>7. QED
  BY <1>1, <1>2, <1>3, <1>4, <1>5, <1>6

\* A row whose time has come when the next statement is this one.
Fair(x, next) ==
    \/ x \in DueUsers /\ next \in AfterUsers
    \/ x \in DueSpaces /\ next \in AfterSpaces
    \/ x \in Doomed /\ next \in AfterSurveys
    \/ x \in people /\ \/ job.kind = "erasure" /\ x.address = job.address
                       \/ Has(Doomed, x.in)
    \/ x \in DOMAIN responses /\ \/ job.kind = "erasure" /\ x.from = job.address
                                 \/ Past(responses[x])
                                 \/ Has(Doomed, x.in)
    \/ x \in Session

\* What is below rows that are removed is removed before, or with, them.
Leaves(xs) ==
    /\ \A p \in people : Asked(p.in) \in xs => p \in job'.removed
    /\ \A r \in DOMAIN responses : From(r) \in xs => r \in job'.removed
    /\ \A s \in surveys : s.of \in xs \/ s.by \in xs => Id(s) \in job'.removed
    /\ \A w \in Space : There(space[w]) /\ space[w].owner \in xs => w \in job'.removed

LEMMA ExecutedKeeps ==
    ASSUME RInv, NEW xs, NEW next \in UnderWay \ {"answers"}, Executed(xs, next), Base', HeldFits',
           job.pc \in UnderWay, next = "people" => job.kind = "erasure",
           /\ job.pc \in AfterSurveys => next \in AfterSurveys
           /\ job.pc \in AfterSpaces => next \in AfterSpaces
           /\ job.pc \in AfterUsers => next \in AfterUsers,
           \A x \in xs : Fair(x, next), job'.emptied \subseteq Doomed,
           Leaves(xs), DueRemoved'
    PROVE  RInv'
<1>1. Tables /\ JobShape /\ Swept
  BY DEF RInv, Base
<1>2. JobShape'
  <2>1. next # "idle" /\ next # "refused" /\ next # "answers"
    BY Stages
  <2>2. job'.kind # "erasure" => job'.dated = {} /\ job'.theirs = {}
    BY <1>1 DEF JobShape, Executed
  <2>3. job'.kind = "erasure" =>
                job'.theirs \subseteq job'.skipped \cup job'.dated
                    \cup {p \in job'.before \cap Participant : p.address = job'.address}
                    \cup {r \in job'.before \cap Response : r.from = job'.address}
                    \cup {i \in job'.before \cap SurveyId : i.of \in job'.dated}
    BY <1>1 DEF JobShape, Executed
  <2>4. job'.blocked = {} /\ job'.dated \subseteq Account \cup Space \cup SurveyId
    BY <1>1, Stages DEF JobShape, Executed
  <2>5. job' \in Job /\ job'.pc = next
    BY DEF Executed
  <2>6. job'.pc \in {"answers", "people"} => job'.kind = "erasure"
    BY <2>1, <2>5 DEF Executed
  <2>7. QED
    BY <2>1, <2>2, <2>3, <2>4, <2>5, <2>6 DEF JobShape
<1>3. BeforeStays'
  BY <1>1, ExecutedSame DEF Executed, Swept, BeforeStays
<1>4. DatedFit'
  BY <1>1 DEF Executed, Swept, DatedFit, Live, There, Never, Id
<1>5. /\ DueUsers \subseteq Account /\ DueSpaces \subseteq Space /\ Doomed \subseteq SurveyId
      /\ people \subseteq Participant /\ DOMAIN responses \subseteq Response
  BY <1>1, IdsStand DEF DueUsers, DueSpaces, Doomed, IdsFit, Tables
<1>6. RemovedDue'
  <2>1. job'.removed = job.removed \cup xs
    BY DEF Executed
  <2>2. \A u \in Account : u \in job'.removed => u \in DueUsers /\ next \in AfterUsers
    BY <1>1, <1>5, <2>1, KindsApart DEF Swept, RemovedDue, Fair
  <2>3. \A w \in Space : w \in job'.removed => w \in DueSpaces /\ next \in AfterSpaces
    BY <1>1, <1>5, <2>1, KindsApart DEF Swept, RemovedDue, Fair
  <2>4. \A i \in SurveyId : i \in job'.removed => i \in Doomed /\ next \in AfterSurveys
    BY <1>1, <1>5, <2>1, KindsApart DEF Swept, RemovedDue, Fair
  <2>5. \A p \in Participant : p \in job'.removed =>
          /\ p \in people
          /\ \/ job.kind = "erasure" /\ p.address = job.address
             \/ Has(Doomed, p.in)
    BY <1>1, <1>5, <2>1, KindsApart DEF Swept, RemovedDue, Fair
  <2>6. \A r \in Response : r \in job'.removed =>
          /\ r \in DOMAIN responses
          /\ \/ job.kind = "erasure" /\ r.from = job.address
             \/ Past(responses[r])
             \/ Has(Doomed, r.in)
    BY <1>1, <1>5, <2>1, KindsApart DEF Swept, RemovedDue, Fair
  <2>7. /\ job'.pc = next /\ job'.kind = job.kind /\ job'.address = job.address
        /\ UNCHANGED <<people, responses, day>>
    BY DEF Executed
  <2>8. QED
    BY <2>2, <2>3, <2>4, <2>5, <2>6, <2>7, ExecutedSame
       DEF RemovedDue, Has, Past, AfterUsers, AfterSessions, AfterAuthors, AfterSpaces, AfterSurveys
<1>7. NothingBelow'
  <2>1. /\ job'.removed = job.removed \cup xs
        /\ UNCHANGED <<user, space, surveys, people, responses>>
    BY DEF Executed
  <2>2. NothingBelow
    BY <1>1 DEF Swept
  <2>3. QED
    BY <2>1, <2>2 DEF NothingBelow, Leaves, Asked, From, Id, There
<1>8. QED
  BY <1>2, <1>3, <1>4, <1>6, <1>7 DEF RInv, Swept

\* The statements, in their order.
Succeeds(pc, next) ==
    \/ pc = "answers" /\ next = "people"
    \/ pc = "people" /\ next = "responses"
    \/ pc = "responses" /\ next = "contents"
    \/ pc = "contents" /\ next = "versions"
    \/ pc = "versions" /\ next = "surveys"
    \/ pc = "surveys" /\ next = "spaces"
    \/ pc = "spaces" /\ next = "authors"
    \/ pc = "authors" /\ next = "sessions"
    \/ pc = "sessions" /\ next = "users"
    \/ pc = "users" /\ next = "commit"

\* What the statement before this one is for.
Cleared(next) ==
    /\ next = "people" =>
          \A r \in job.before \cap Response : r.from = job.address => r \in job'.removed
    /\ next = "responses" =>
          \A p \in job.before \cap Participant : p.address = job.address => p \in job'.removed
    /\ next = "contents" => DueResponses \subseteq job'.removed
    /\ next = "versions" => ResponsesOf(Doomed) \cap job.before \subseteq job'.removed
    /\ next = "surveys" => /\ Doomed \cap job.before \subseteq job'.emptied
                           /\ PeopleOf(Doomed) \cap job.before \subseteq job'.removed
    /\ next = "spaces" => Doomed \cap job.before \subseteq job'.removed
    /\ next = "authors" => DueSpaces \subseteq job'.removed
    /\ next = "commit" => DueUsers \subseteq job'.removed

LEMMA StagesFollow ==
    ASSUME NEW pc, NEW next, Succeeds(pc, next)
    PROVE  /\ pc \in UnderWay /\ next \in UnderWay \ {"answers"} /\ next \in JobStage
           /\ pc \in AfterAnswers => next \in AfterAnswers
           /\ pc \in AfterPeople => next \in AfterPeople
           /\ pc \in AfterResponses => next \in AfterResponses
           /\ pc \in AfterContents => next \in AfterContents
           /\ pc \in AfterVersions => next \in AfterVersions
           /\ pc \in AfterSurveys => next \in AfterSurveys
           /\ pc \in AfterSpaces => next \in AfterSpaces
           /\ pc \in AfterUsers => next \in AfterUsers
           /\ next \in AfterAnswers => pc \in AfterAnswers \/ next = "people"
           /\ next \in AfterPeople => pc \in AfterPeople \/ next = "responses"
           /\ next \in AfterResponses => pc \in AfterResponses \/ next = "contents"
           /\ next \in AfterContents => pc \in AfterContents \/ next = "versions"
           /\ next \in AfterVersions => pc \in AfterVersions \/ next = "surveys"
           /\ next \in AfterSurveys => pc \in AfterSurveys \/ next = "spaces"
           /\ next \in AfterSpaces => pc \in AfterSpaces \/ next = "authors"
           /\ next \in AfterUsers => pc \in AfterUsers \/ next = "commit"
           /\ next = "people" => pc = "answers"
BY Stages DEF Succeeds

LEMMA MoreRemoved ==
    ASSUME RInv, NEW xs, NEW next, Executed(xs, next), Succeeds(job.pc, next),
           job.emptied \subseteq job'.emptied, Cleared(next)
    PROVE  DueRemoved'
<1>1. /\ job.removed \subseteq job'.removed /\ job'.pc = next /\ job'.kind = job.kind
      /\ job'.before = job.before /\ job'.address = job.address
      /\ UNCHANGED <<surveys, people, responses, day>>
  BY DEF Executed
<1>2. DueRemoved
  BY DEF RInv, Swept
<1>3. \A s \in surveys : Past(s.deleted) => Id(s) \in job.before
  BY <1>2, StagesFollow DEF DueRemoved
<1>4. job.kind = "erasure" /\ next \in AfterAnswers =>
          \A r \in job.before \cap Response : r.from = job.address => r \in job'.removed
  BY <1>1, <1>2, StagesFollow DEF DueRemoved, Cleared
<1>5. job.kind = "erasure" /\ next \in AfterPeople =>
          \A p \in job.before \cap Participant : p.address = job.address => p \in job'.removed
  BY <1>1, <1>2, StagesFollow DEF DueRemoved, Cleared
<1>6. next \in AfterResponses => DueResponses \subseteq job'.removed
  BY <1>1, <1>2, StagesFollow DEF DueRemoved, Cleared
<1>7. next \in AfterContents => ResponsesOf(Doomed) \cap job.before \subseteq job'.removed
  BY <1>1, <1>2, StagesFollow DEF DueRemoved, Cleared
<1>8. next \in AfterVersions =>
          /\ Doomed \cap job.before \subseteq job'.emptied
          /\ PeopleOf(Doomed) \cap job.before \subseteq job'.removed
  BY <1>1, <1>2, StagesFollow DEF DueRemoved, Cleared
<1>9. next \in AfterSurveys => Doomed \cap job.before \subseteq job'.removed
  BY <1>1, <1>2, StagesFollow DEF DueRemoved, Cleared
<1>10. next \in AfterSpaces => DueSpaces \subseteq job'.removed
  BY <1>1, <1>2, StagesFollow DEF DueRemoved, Cleared
<1>11. next \in AfterUsers => DueUsers \subseteq job'.removed
  BY <1>1, <1>2, StagesFollow DEF DueRemoved, Cleared
<1>12. /\ ResponsesOf(Doomed)' = ResponsesOf(Doomed) /\ PeopleOf(Doomed)' = PeopleOf(Doomed)
  BY <1>1, ExecutedSame DEF ResponsesOf, PeopleOf, Has
<1>13. QED
  BY <1>1, <1>3, <1>4, <1>5, <1>6, <1>7, <1>8, <1>9, <1>10, <1>11, <1>12, ExecutedSame
     DEF DueRemoved, Past, Id, UnderWay, AfterAnswers, AfterPeople, AfterResponses, AfterContents,
         AfterVersions, AfterSurveys, AfterSpaces, AfterAuthors, AfterSessions, AfterUsers

LEMMA OfKinds ==
    ASSUME RInv
    PROVE  /\ \A ps : AnswersOf(ps) \subseteq DOMAIN responses
           /\ \A a : Subject(a) \subseteq people
           /\ \A is : ResponsesOf(is) \subseteq DOMAIN responses /\ PeopleOf(is) \subseteq people
           /\ DueResponses \subseteq DOMAIN responses
           /\ DOMAIN responses \subseteq Response /\ people \subseteq Participant
           /\ Doomed \subseteq SurveyId /\ DueSpaces \subseteq Space /\ DueUsers \subseteq Account
           /\ \A us : WrittenBy(us) \subseteq SurveyId /\ SessionsOf(us) \subseteq Session
           /\ \A s \in surveys : Id(s) \in SurveyId
           /\ \A q \in Request :
                 req[q].linked \/ (req[q].space # None /\ ~req[q].fresh) => req[q].user \in Account
<1>1. Tables /\ IdsFit
  BY IdsStand DEF RInv, Base
<1>2. sessions \subseteq Session
  BY DEF RInv, Base, IInv, TypeOK
<1>3. QED
  BY <1>1, <1>2, RequestsHold DEF AnswersOf, Subject, ResponsesOf, PeopleOf, DueResponses, Tables,
     IdsFit, Doomed, DueSpaces, DueUsers, WrittenBy, SessionsOf

LEMMA RowKinds ==
    /\ Account \subseteq Row /\ Space \subseteq Row /\ SurveyId \subseteq Row
    /\ Participant \subseteq Row /\ Response \subseteq Row /\ Session \subseteq Row
BY DEF Row

\* Answers have nothing below them, nor have participants but answers.
LEMMA AnswersLeave ==
    ASSUME RInv, NEW xs \in SUBSET (Response \cup Session)
    PROVE  Leaves(xs)
<1>1. Tables /\ IdsFit
  BY IdsStand DEF RInv, Base
<1>2. \A w \in Space : There(space[w]) => space[w].owner \in Account
  BY OwnerThere DEF RInv, Base
<1>3. QED
  BY <1>1, <1>2, KindsApart DEF Leaves, IdsFit, Tables

LEMMA EraseAnswersKeeps ==
    ASSUME RInv, EraseAnswers
    PROVE  RInv'
<1> DEFINE xs == AnswersOf(Subject(job.address))
<1>1. Removes("answers", xs, {}, "people") /\ job.pc = "answers"
  BY DEF EraseAnswers, Removes
<1>2. Succeeds("answers", "people")
  BY DEF Succeeds
<1>3. xs \subseteq Response /\ xs \subseteq DOMAIN responses
  BY OfKinds
<1>4. \A q \in Request : req[q].linked \/ (req[q].space # None /\ ~req[q].fresh) =>
               req[q].user \notin xs
  BY <1>3, OfKinds, KindsApart
<1>5. Tables /\ IdsFit /\ RowsFit /\ JobShape /\ Swept
  BY IdsStand, RowsStand DEF RInv, Base
<1>6. ASSUME Executed(xs, "people"), job'.emptied = job.emptied, Base', HeldFits'
      PROVE  RInv'
  <2>1. job.kind = "erasure"
    BY <1>1, <1>5 DEF JobShape
  <2>2. \A r \in xs : r.from = job.address
    BY <1>5 DEF AnswersOf, Subject, IdsFit
  <2>3. \A x \in xs : Fair(x, "people")
    BY <1>3, <2>1, <2>2 DEF Fair
  <2>4. Leaves(xs)
    BY <1>3, AnswersLeave
  <2>5. Cleared("people")
    <3>1. ASSUME NEW r \in job.before \cap Response, r.from = job.address
          PROVE  r \in xs
      <4>1. job.pc \in UnderWay
        BY <1>1, Stages
      <4>2. r \in DOMAIN responses
        BY <1>5, <4>1 DEF Swept, BeforeStays, RowsFit
      <4>3. QED
        BY <1>5, <3>1, <4>2 DEF AnswersOf, Subject, IdsFit
    <3>2. QED
      BY <1>6, <3>1 DEF Cleared, Executed
  <2>6. job'.emptied \subseteq Doomed
    BY <1>5, <1>6 DEF Swept, RemovedDue
  <2> HIDE DEF xs
  <2>7. DueRemoved'
    BY <1>1, <1>2, <1>6, <2>5, MoreRemoved
  <2>8. QED
    BY <1>1, <1>2, <1>6, <2>1, <2>3, <2>4, <2>6, <2>7, StagesFollow, ExecutedKeeps
<1>7. xs \in SUBSET Row /\ "people" \in JobStage /\ {} \in SUBSET Row
  BY <1>2, <1>3, RowKinds, StagesFollow
<1> HIDE DEF xs
<1>8. QED
  BY <1>1, <1>4, <1>6, <1>7, RemovesOutcome

-----------------------------------------------------------------------------
(* The statements of the purge, one by one.                                *)

\* A statement that runs keeps the invariant, if what it removes is due and leaves nothing below.
LEMMA ExecutedStays ==
    ASSUME RInv, NEW xs, NEW next, Executed(xs, next), Succeeds(job.pc, next), Base', HeldFits',
           next = "people" => job.kind = "erasure",
           job.emptied \subseteq job'.emptied, job'.emptied \subseteq Doomed,
           \A x \in xs : Fair(x, next), Leaves(xs), Cleared(next)
    PROVE  RInv'
<1>1. DueRemoved'
  BY MoreRemoved
<1>2. QED
  BY <1>1, StagesFollow, ExecutedKeeps

LEMMA StatementKeeps ==
    ASSUME RInv, NEW pc, NEW xs \in SUBSET Row, NEW children \in SUBSET Row, NEW next,
           Removes(pc, xs, children, next), Succeeds(pc, next),
           next = "people" => job.kind = "erasure",
           \A q \in Request : req[q].linked \/ (req[q].space # None /\ ~req[q].fresh) =>
               req[q].user \notin xs,
           \A x \in xs : Fair(x, next),
           children \subseteq job.removed /\ Executed(xs, next) => Leaves(xs) /\ Cleared(next)
    PROVE  RInv'
<1>1. next \in JobStage
  BY StagesFollow
<1>2. job.pc = pc
  BY DEF Removes
<1>3. job.emptied \subseteq Doomed
  BY DEF RInv, Swept, RemovedDue
<1>4. ASSUME children \subseteq job.removed, Executed(xs, next), job'.emptied = job.emptied,
             Base', HeldFits'
      PROVE  RInv'
  BY <1>2, <1>3, <1>4, ExecutedStays
<1>5. QED
  BY <1>1, <1>4, RemovesOutcome

LEMMA ErasePeopleKeeps ==
    ASSUME RInv, ErasePeople
    PROVE  RInv'
<1> DEFINE xs == Subject(job.address)
           children == AnswersOf(xs)
<1>1. Removes("people", xs, children, "responses") /\ job.pc = "people"
  BY DEF ErasePeople, Removes
<1>2. Succeeds("people", "responses")
  BY DEF Succeeds
<1>3. xs \subseteq Participant /\ xs \subseteq people /\ children \subseteq Response
  BY OfKinds
<1>4. xs \in SUBSET Row /\ children \in SUBSET Row
  BY <1>3, RowKinds
<1>5. Tables /\ IdsFit /\ RowsFit /\ JobShape /\ Swept
  BY IdsStand, RowsStand DEF RInv, Base
<1>6. \A q \in Request : req[q].linked \/ (req[q].space # None /\ ~req[q].fresh) =>
               req[q].user \notin xs
  BY <1>3, OfKinds, KindsApart
<1>7. \A p \in xs : p.address = job.address
  BY DEF Subject
<1>8. job.kind = "erasure" /\ job.pc \in UnderWay
  BY <1>1, <1>5, Stages DEF JobShape
<1>9. \A x \in xs : Fair(x, "responses")
  BY <1>3, <1>7, <1>8 DEF Fair
<1>10. \A r \in DOMAIN responses : From(r) \in xs => r \in children
  BY DEF AnswersOf
<1>11. \A p \in job.before \cap Participant : p.address = job.address => p \in xs
  BY <1>5, <1>8 DEF Swept, BeforeStays, RowsFit, Subject
<1>12. /\ \A w \in Space : Asked(w) \in SurveyId /\ w \notin xs
       /\ \A s \in surveys : s.of \in Space /\ s.by \in Account
       /\ \A p \in people : p.in \in Space
       /\ \A w \in Space : There(space[w]) => space[w].owner \in Account
       /\ \A i \in SurveyId \cup Account : i \notin xs
  BY <1>3, <1>5, KindsApart, OwnerThere DEF RInv, Base, IdsFit
<1> HIDE DEF xs, children
<1>13. ASSUME children \subseteq job.removed, Executed(xs, "responses")
       PROVE  Leaves(xs) /\ Cleared("responses")
  <2>1. job'.removed = job.removed \cup xs
    BY <1>13 DEF Executed
  <2>2. Leaves(xs)
    BY <1>10, <1>12, <1>13, <2>1 DEF Leaves
  <2>3. Cleared("responses")
    BY <1>11, <2>1 DEF Cleared
  <2>4. QED
    BY <2>2, <2>3
<1>14. QED
  BY <1>1, <1>2, <1>4, <1>6, <1>9, <1>13, StatementKeeps

LEMMA PurgeResponsesKeeps ==
    ASSUME RInv, PurgeResponses
    PROVE  RInv'
<1> DEFINE xs == DueResponses
<1>1. Removes("responses", xs, {}, "contents")
  BY DEF PurgeResponses
<1>2. Succeeds("responses", "contents")
  BY DEF Succeeds
<1>3. xs \subseteq Response /\ xs \subseteq DOMAIN responses
  BY OfKinds
<1>4. xs \in SUBSET Row /\ {} \in SUBSET Row
  BY <1>3, RowKinds
<1>5. \A q \in Request : req[q].linked \/ (req[q].space # None /\ ~req[q].fresh) =>
               req[q].user \notin xs
  BY <1>3, OfKinds, KindsApart
<1>6. \A x \in xs : Fair(x, "contents")
  BY DEF DueResponses, Fair
<1>7. Leaves(xs)
  BY <1>3, AnswersLeave
<1>8. Executed(xs, "contents") => Cleared("contents")
  BY DEF Executed, Cleared
<1> HIDE DEF xs
<1>9. QED
  BY <1>1, <1>2, <1>4, <1>5, <1>6, <1>7, <1>8, StatementKeeps

LEMMA PurgeContentsKeeps ==
    ASSUME RInv, PurgeContents
    PROVE  RInv'
<1> DEFINE xs == ResponsesOf(Doomed)
<1>1. Removes("contents", xs, {}, "versions")
  BY DEF PurgeContents
<1>2. Succeeds("contents", "versions")
  BY DEF Succeeds
<1>3. xs \subseteq Response /\ xs \subseteq DOMAIN responses
  BY OfKinds
<1>4. xs \in SUBSET Row /\ {} \in SUBSET Row
  BY <1>3, RowKinds
<1>5. \A q \in Request : req[q].linked \/ (req[q].space # None /\ ~req[q].fresh) =>
               req[q].user \notin xs
  BY <1>3, OfKinds, KindsApart
<1>6. \A x \in xs : Fair(x, "versions")
  BY DEF ResponsesOf, Fair
<1>7. Leaves(xs)
  BY <1>3, AnswersLeave
<1>8. Executed(xs, "versions") => Cleared("versions")
  BY DEF Executed, Cleared
<1> HIDE DEF xs
<1>9. QED
  BY <1>1, <1>2, <1>4, <1>5, <1>6, <1>7, <1>8, StatementKeeps

LEMMA PurgeSessionsKeeps ==
    ASSUME RInv, PurgeSessions
    PROVE  RInv'
<1> DEFINE xs == SessionsOf(DueUsers)
<1>1. Removes("sessions", xs, {}, "users")
  BY DEF PurgeSessions
<1>2. Succeeds("sessions", "users")
  BY DEF Succeeds
<1>3. xs \subseteq Session
  BY OfKinds
<1>4. xs \in SUBSET Row /\ {} \in SUBSET Row
  BY <1>3 DEF Row
<1>5. \A q \in Request : req[q].linked \/ (req[q].space # None /\ ~req[q].fresh) =>
               req[q].user \notin xs
  BY <1>3, OfKinds, KindsApart
<1>6. \A x \in xs : Fair(x, "users")
  BY <1>3 DEF Fair
<1>7. Leaves(xs)
  BY <1>3, AnswersLeave
<1>8. Cleared("users")
  BY DEF Cleared
<1> HIDE DEF xs
<1>9. QED
  BY <1>1, <1>2, <1>4, <1>5, <1>6, <1>7, <1>8, StatementKeeps

LEMMA DetachAuthorsKeeps ==
    ASSUME RInv, DetachAuthors
    PROVE  RInv'
<1> DEFINE children == WrittenBy(DueUsers)
<1>1. Removes("authors", {}, children, "sessions")
  BY DEF DetachAuthors
<1>2. Succeeds("authors", "sessions")
  BY DEF Succeeds
<1>3. children \in SUBSET Row /\ {} \in SUBSET Row
  BY OfKinds, RowKinds
<1>4. Leaves({})
  BY DEF Leaves
<1>5. Cleared("sessions")
  BY DEF Cleared
<1> HIDE DEF children
<1>6. QED
  BY <1>1, <1>2, <1>3, <1>4, <1>5, StatementKeeps

LEMMA PurgeVersionsKeeps ==
    ASSUME RInv, PurgeVersions
    PROVE  RInv'
<1> DEFINE xs == PeopleOf(Doomed)
           children == ResponsesOf(Doomed)
           j == [job EXCEPT !.emptied = Doomed, !.removed = job.removed \cup xs, !.pc = "surveys"]
<1>1. /\ job.pc = "versions"
      /\ children \subseteq job.removed => Becomes(j)
      /\ ~(children \subseteq job.removed) => Becomes(Refused(children \ job.removed))
  BY DEF PurgeVersions
<1>2. Succeeds("versions", "surveys") /\ Succeeds(job.pc, "surveys")
  BY <1>1 DEF Succeeds
<1>3. /\ xs \subseteq people /\ people \subseteq Participant /\ children \subseteq Response
      /\ Doomed \subseteq SurveyId /\ xs \subseteq Participant
  BY OfKinds
<1>4. Tables /\ IdsFit /\ Swept /\ job \in Job /\ job.emptied \subseteq Doomed
  BY IdsStand DEF RInv, Base, JobShape, Swept, RemovedDue
<1>5. \A q \in Request : req[q].linked \/ (req[q].space # None /\ ~req[q].fresh) =>
               req[q].user \notin xs
  BY <1>3, OfKinds, KindsApart
<1>6. \A x \in xs : Fair(x, "surveys")
  BY DEF PeopleOf, Fair
<1>7. ASSUME NEW r \in DOMAIN responses, From(r) \in xs
      PROVE  r \in children
  BY <1>4, <1>7 DEF PeopleOf, ResponsesOf, IdsFit
<1>8. /\ \A w \in Space : Asked(w) \in SurveyId
      /\ \A s \in surveys : s.of \in Space /\ s.by \in Account
      /\ \A p \in people : p.in \in Space
      /\ \A w \in Space : There(space[w]) => space[w].owner \in Account
      /\ \A i \in SurveyId \cup Account \cup Space : i \notin xs
  BY <1>3, <1>4, KindsApart, OwnerThere DEF RInv, Base, IdsFit
<1>9. CASE children \subseteq job.removed
  <2>1. /\ Becomes(j) /\ j \in Job /\ j.pc = "surveys" /\ j.removed = job.removed \cup xs
        /\ j.kind = job.kind /\ j.address = job.address /\ j.dated = job.dated
        /\ j.before = job.before /\ j.theirs = job.theirs /\ j.skipped = job.skipped
        /\ j.blocked = job.blocked
        /\ j.emptied = Doomed
    <3>1. "surveys" \in JobStage
      BY <1>2, StagesFollow
    <3>2. Doomed \in SUBSET Row /\ xs \in SUBSET Row
      BY <1>3, RowKinds
    <3>3. QED
      BY <1>1, <1>4, <1>9, <3>1, <3>2 DEF Job
  <2> HIDE DEF j
  <2>2. PeopleOf(Doomed) = xs
    OBVIOUS
  <2> HIDE DEF xs, children
  <2>3. /\ Base' /\ HeldFits' /\ job' = j
        /\ UNCHANGED <<user, space, surveys, sessions, link, code, req, day, people, responses, writer>>
    BY <1>5, <2>1, BecomesKeeps, RequestsHold
  <2>4. Executed(xs, "surveys") /\ job'.emptied = Doomed
    BY <2>1, <2>3 DEF Executed
  <2>5. Leaves(xs)
    BY <1>7, <1>8, <1>9, <2>1, <2>3 DEF Leaves
  <2>6. Cleared("surveys")
    BY <2>1, <2>2, <2>3 DEF Cleared
  <2>7. QED
    BY <1>2, <1>4, <1>6, <2>3, <2>4, <2>5, <2>6, ExecutedStays
<1>10. CASE ~(children \subseteq job.removed)
  <2>1. children \ job.removed \in SUBSET Row
    BY <1>3, RowKinds
  <2>2. QED
    BY <1>1, <1>10, <2>1, RefusedKeeps
<1>11. QED
  BY <1>9, <1>10

LEMMA PurgeSurveysKeeps ==
    ASSUME RInv, PurgeSurveys
    PROVE  RInv'
<1> DEFINE ready == Doomed \subseteq job.emptied /\ PeopleOf(Doomed) \subseteq job.removed
           children == (Doomed \ job.emptied) \cup (PeopleOf(Doomed) \ job.removed)
           j == [job EXCEPT !.removed = job.removed \cup Doomed, !.pc = "spaces"]
<1>1. /\ job.pc = "surveys"
      /\ ready => Becomes(j)
      /\ ~ready => Becomes(Refused(children))
  BY DEF PurgeSurveys
<1>2. Succeeds("surveys", "spaces") /\ Succeeds(job.pc, "spaces")
  BY <1>1 DEF Succeeds
<1>3. /\ people \subseteq Participant /\ PeopleOf(Doomed) \subseteq people
      /\ DOMAIN responses \subseteq Response /\ Doomed \subseteq SurveyId
  BY OfKinds
<1>4. Tables /\ IdsFit /\ Swept /\ job \in Job /\ job.emptied \subseteq Doomed
  BY IdsStand DEF RInv, Base, JobShape, Swept, RemovedDue
<1>5. \A q \in Request : req[q].linked \/ (req[q].space # None /\ ~req[q].fresh) =>
               req[q].user \notin Doomed
  BY <1>3, OfKinds, KindsApart
<1>6. \A x \in Doomed : Fair(x, "spaces")
  BY Stages DEF Fair
<1>7. ASSUME NEW p \in people, Asked(p.in) \in Doomed
      PROVE  p \in PeopleOf(Doomed)
  BY <1>7 DEF PeopleOf, Has, Asked
<1>8. /\ \A s \in surveys : s.of \in Space /\ s.by \in Account
      /\ \A w \in Space : There(space[w]) => space[w].owner \in Account
      /\ \A r \in DOMAIN responses : From(r) \in Participant
      /\ \A i \in Participant \cup Account \cup Space : i \notin Doomed
  BY <1>3, <1>4, KindsApart, OwnerThere DEF RInv, Base, IdsFit
<1>9. CASE ready
  <2>1. /\ Becomes(j) /\ j \in Job /\ j.pc = "spaces" /\ j.removed = job.removed \cup Doomed
        /\ j.kind = job.kind /\ j.address = job.address /\ j.dated = job.dated
        /\ j.before = job.before /\ j.theirs = job.theirs /\ j.skipped = job.skipped
        /\ j.blocked = job.blocked
        /\ j.emptied = job.emptied
    <3>1. "spaces" \in JobStage
      BY <1>2, StagesFollow
    <3>2. Doomed \in SUBSET Row
      BY <1>3, RowKinds
    <3>3. QED
      BY <1>1, <1>4, <1>9, <3>1, <3>2 DEF Job
  <2> HIDE DEF j
  <2>2. /\ Base' /\ HeldFits' /\ job' = j
        /\ UNCHANGED <<user, space, surveys, sessions, link, code, req, day, people, responses, writer>>
    BY <1>5, <2>1, BecomesKeeps, RequestsHold
  <2>3. Executed(Doomed, "spaces")
    BY <2>1, <2>2 DEF Executed
  <2>4. Leaves(Doomed)
    BY <1>7, <1>8, <1>9, <2>1, <2>2 DEF Leaves
  <2>5. Cleared("spaces")
    BY <2>1, <2>2 DEF Cleared
  <2>6. QED
    BY <1>2, <1>4, <1>6, <2>1, <2>2, <2>3, <2>4, <2>5, ExecutedStays
<1>10. CASE ~ready
  <2>1. children \in SUBSET Row
    BY <1>3, RowKinds
  <2>2. QED
    BY <1>1, <1>10, <2>1, RefusedKeeps
<1>11. QED
  BY <1>9, <1>10

LEMMA PurgeSpacesKeeps ==
    ASSUME RInv, PurgeSpaces
    PROVE  RInv'
<1> DEFINE xs == DueSpaces
           children == {Id(s) : s \in {t \in surveys : t.of \in DueSpaces}}
<1>1. Removes("spaces", xs, children, "authors")
  BY DEF PurgeSpaces
<1>2. Succeeds("spaces", "authors")
  BY DEF Succeeds
<1>3. /\ xs \subseteq Space /\ children \subseteq SurveyId
      /\ DOMAIN responses \subseteq Response /\ people \subseteq Participant
  BY OfKinds
<1>4. xs \in SUBSET Row /\ children \in SUBSET Row
  BY <1>3, RowKinds
<1>5. Tables /\ IdsFit
  BY IdsStand DEF RInv, Base
<1>6. \A q \in Request : req[q].linked \/ (req[q].space # None /\ ~req[q].fresh) =>
               req[q].user \notin xs
  BY <1>3, OfKinds, KindsApart
<1>7. \A x \in xs : Fair(x, "authors")
  BY Stages DEF Fair
<1>8. \A s \in surveys : s.of \in xs => Id(s) \in children
  OBVIOUS
<1>9. /\ \A s \in surveys : s.by \in Account
      /\ \A w \in Space : There(space[w]) => space[w].owner \in Account
      /\ \A w \in Space : Asked(w) \in SurveyId
      /\ \A p \in people : p.in \in Space
      /\ \A r \in DOMAIN responses : From(r) \in Participant
      /\ \A i \in Participant \cup Account \cup SurveyId : i \notin xs
  BY <1>3, <1>5, KindsApart, OwnerThere DEF RInv, Base, IdsFit
<1>10. Executed(xs, "authors") => Cleared("authors")
  BY DEF Executed, Cleared
<1> HIDE DEF xs, children
<1>11. ASSUME children \subseteq job.removed, Executed(xs, "authors")
       PROVE  Leaves(xs)
  BY <1>8, <1>9, <1>11 DEF Leaves, Executed
<1>12. QED
  BY <1>1, <1>2, <1>4, <1>6, <1>7, <1>10, <1>11, StatementKeeps

\* A workspace of a due account's is due: its Starter Survey would have kept the account.
LEMMA HomesDue ==
    ASSUME RInv, job.pc \in AfterSpaces, WrittenBy(DueUsers) \subseteq job.removed,
           NEW w \in Space, There(space[w]), space[w].owner \in DueUsers
    PROVE  w \in job.removed
<1> DEFINE u == space[w].owner
<1>1. /\ Tables /\ IdsFit /\ Together /\ Starters /\ Written /\ DatedFit /\ RemovedDue /\ DueRemoved
  BY IdsStand DEF RInv, Base, Swept
<1>2. DueSpaces \subseteq job.removed
  BY <1>1 DEF DueRemoved
<1>3. u \in Account /\ There(user[u]) /\ (Past(user[u].deleted) \/ u \in job.dated)
  BY DEF DueUsers
<1>4. w \in job.dated \/ Past(space[w].deleted) => w \in DueSpaces
  BY DEF DueSpaces
<1>5. SUFFICES ASSUME w \notin DueSpaces
               PROVE  FALSE
  BY <1>2
<1>6. u \notin job.dated
  BY <1>1, <1>4, <1>5 DEF DatedFit
<1>7. ~Live(user[u]) /\ Past(user[u].deleted)
  BY <1>3, <1>6 DEF Past, Live
<1>8. Live(space[w])
  <2>1. space[w].deleted # Never => Past(space[w].deleted)
    BY <1>1, <1>7 DEF Together
  <2>2. QED
    BY <1>4, <1>5, <2>1 DEF Live
<1>9. PICK st \in surveys : st.of = w /\ st.by = u /\ st.deleted = Never
  <2> DEFINE s == [of |-> w, by |-> u, origin |-> "starter", deleted |-> Never]
  <2>1. s \in surveys
    BY <1>1, <1>7, <1>8 DEF Starters
  <2>2. QED
    BY <2>1
<1>10. Id(st) \in job.removed /\ Id(st) \in SurveyId
  BY <1>1, <1>9 DEF WrittenBy, IdsFit
<1>11. Id(st) \in Doomed
  BY <1>1, <1>10 DEF RemovedDue
<1>12. Id(st) \in job.dated
  BY <1>1, <1>5, <1>9, <1>11, DoomedStand DEF Past
<1>13. QED
  BY <1>1, <1>4, <1>5, <1>8, <1>9, <1>12 DEF DatedFit

LEMMA PurgeUsersKeeps ==
    ASSUME RInv, PurgeUsers
    PROVE  RInv'
<1> DEFINE xs == DueUsers
           written == WrittenBy(DueUsers)
           children == SessionsOf(DueUsers) \cup written
<1>1. /\ Removes("users", xs, children, "commit") /\ job.pc = "users"
      /\ \A q \in Request : AtStage(q, "commit") /\ req[q].space # None => req[q].user \notin xs
  BY DEF PurgeUsers, Removes
<1>2. Succeeds("users", "commit")
  BY DEF Succeeds
<1>3. /\ xs \subseteq Account /\ written \subseteq SurveyId /\ SessionsOf(DueUsers) \subseteq Session
      /\ DOMAIN responses \subseteq Response /\ people \subseteq Participant
  BY OfKinds
<1>4. xs \in SUBSET Row /\ children \in SUBSET Row
  BY <1>3 DEF Row
<1>5. Tables /\ IdsFit
  BY IdsStand DEF RInv, Base
<1>6. ASSUME NEW q \in Request, req[q].linked \/ (req[q].space # None /\ ~req[q].fresh)
      PROVE  req[q].user \notin xs
  <2>1. CASE req[q].linked
    <3>1. Live(user[req[q].user]) /\ req[q].user \notin job.dated
      BY <2>1, RequestsHold
    <3>2. QED
      BY <3>1 DEF DueUsers, Past, Live
  <2>2. CASE req[q].space # None /\ ~req[q].fresh
    BY <1>1, <2>2, RequestsHold
  <2>3. QED
    BY <1>6, <2>1, <2>2
<1>7. \A x \in xs : Fair(x, "commit")
  BY Stages DEF Fair
<1>8. \A s \in surveys : s.by \in xs => Id(s) \in written
  BY DEF WrittenBy
<1>9. /\ \A s \in surveys : s.of \in Space
      /\ \A w \in Space : Asked(w) \in SurveyId
      /\ \A p \in people : p.in \in Space
      /\ \A r \in DOMAIN responses : From(r) \in Participant
      /\ \A i \in Participant \cup Space \cup SurveyId : i \notin xs
  BY <1>3, <1>5, KindsApart DEF IdsFit
<1>10. ASSUME written \subseteq job.removed, NEW w \in Space, There(space[w]), space[w].owner \in xs
       PROVE  w \in job.removed
  BY <1>1, <1>10, Stages, HomesDue
<1>11. Executed(xs, "commit") => Cleared("commit")
  BY DEF Executed, Cleared
<1>12. written \subseteq children
  OBVIOUS
<1> HIDE DEF xs, children, written
<1>13. ASSUME children \subseteq job.removed, Executed(xs, "commit")
       PROVE  Leaves(xs)
  BY <1>8, <1>9, <1>10, <1>12, <1>13 DEF Leaves, Executed
<1>14. QED
  BY <1>1, <1>2, <1>4, <1>6, <1>7, <1>11, <1>13, StatementKeeps

-----------------------------------------------------------------------------
(* A purge, or an erasure, begins.                                         *)

LEMMA StartKeeps ==
    ASSUME RInv, NEW kind \in {"purge", "rehearsal"}, Start(kind)
    PROVE  RInv'
<1> DEFINE j == [NoJob EXCEPT !.pc = "responses", !.kind = kind, !.before = AllRows]
<1>1. Becomes(j)
  BY DEF Start
<1>2. Tables /\ IdsFit /\ RowsFit
  BY IdsStand, RowsStand DEF RInv, Base
<1>3. AllRows \subseteq Row
  BY <1>2 DEF AllRows, Row, Tables, IdsFit
<1>4. /\ j \in Job /\ j.pc = "responses" /\ j.kind = kind /\ j.before = AllRows
      /\ j.dated = {} /\ j.removed = {} /\ j.emptied = {} /\ j.theirs = {} /\ j.blocked = {}
  BY <1>3 DEF Job, NoJob, JobStage
<1> HIDE DEF j
<1>5. /\ Base' /\ HeldFits' /\ job' = j
      /\ UNCHANGED <<user, space, surveys, sessions, link, code, req, day, people, responses, writer>>
  BY <1>1, <1>4, BecomesKeeps
<1>6. /\ j.pc \notin AfterAnswers \ {"responses"} /\ j.pc \notin AfterResponses
      /\ j.pc \notin AfterContents /\ j.pc \notin AfterVersions
      /\ j.pc \notin AfterSurveys /\ j.pc \notin AfterSpaces /\ j.pc \notin AfterUsers
      /\ j.pc \notin {"idle", "refused", "answers", "people"}
      /\ j.kind # "erasure"
  BY <1>4, Stages
<1>7. JobShape'
  BY <1>4, <1>5, <1>6 DEF JobShape
<1>8. AllRows' = AllRows
  BY <1>5 DEF AllRows, There, Id
<1>9. BeforeStays' /\ DatedFit' /\ RemovedDue' /\ NothingBelow'
  BY <1>4, <1>5, <1>8 DEF BeforeStays, DatedFit, RemovedDue, NothingBelow
<1>10. DueRemoved'
  <2>1. \A s \in surveys : Id(s) \in AllRows
    BY DEF AllRows
  <2>2. QED
    BY <1>4, <1>5, <1>6, <2>1 DEF DueRemoved, Id,
       UnderWay, AfterAnswers, AfterPeople, AfterResponses, AfterContents,
       AfterVersions, AfterSurveys, AfterSpaces, AfterAuthors, AfterSessions, AfterUsers
<1>11. QED
  BY <1>5, <1>7, <1>9, <1>10 DEF RInv, Swept

LEMMA EraseSubjectKeeps ==
    ASSUME RInv, NEW a \in Address, EraseSubject(a)
    PROVE  RInv'
<1> DEFINE named == {u \in Account : There(user[u]) /\ user[u].address = a}
           owned == {w \in Space : There(space[w]) /\ space[w].owner \in named}
           live == named \cap LiveUsers
           spaces == {w \in owned : Live(space[w])}
           inside == {s \in surveys : s.of \in owned}
           ids == {Id(s) : s \in {t \in inside : t.deleted = Never}}
           dated == live \cup spaces \cup ids
           asked == {p \in people : p.address = a}
           answered == {r \in DOMAIN responses : r.from = a}
           theirs == named \cup owned \cup {Id(s) : s \in inside} \cup asked \cup answered
           late == {Id(s) : s \in {t \in inside : t.deleted # Never /\ t.of \notin spaces}}
           skipped == (named \ live) \cup (owned \ spaces) \cup late
           j == [NoJob EXCEPT
                   !.pc = "answers", !.kind = "erasure", !.address = a, !.before = AllRows,
                   !.dated = dated, !.theirs = theirs, !.skipped = skipped]
<1>1. /\ Becomes(j)
      /\ \A r \in Request : ~(Writing(r) /\ req[r].linked /\ req[r].user \in live)
  BY DEF EraseSubject
<1>2. Tables /\ IdsFit /\ RowsFit /\ Together /\ Written
  BY IdsStand, RowsStand DEF RInv, Base
<1>3. /\ live \subseteq Account /\ spaces \subseteq Space /\ ids \subseteq SurveyId
      /\ dated \subseteq Account \cup Space \cup SurveyId
  BY <1>2 DEF IdsFit
<1>4. \A u \in Account : u \in dated <=> u \in live
  BY <1>3, KindsApart
<1>5. \A w \in Space : w \in dated <=> w \in spaces
  BY <1>3, KindsApart
<1>6. \A i \in SurveyId : i \in dated <=> i \in ids
  BY <1>3, KindsApart
<1>7. /\ \A u \in live : Live(user[u]) /\ user[u].address = a /\ There(user[u])
      /\ \A u \in Account : Live(user[u]) /\ user[u].address = a => u \in live
  BY DEF LiveUsers, Live
<1>8. /\ \A w \in spaces : Live(space[w]) /\ user[space[w].owner].address = a /\ There(space[w])
      /\ \A w \in Space : Live(space[w]) /\ space[w].owner \in named => w \in spaces
      /\ \A w \in spaces : space[w].owner \in live \/ ~Live(user[space[w].owner])
  BY DEF LiveUsers, Live
<1>9. \A s \in surveys : Id(s) \in ids => s.deleted = Never /\ space[s.of].owner \in named /\ s.of \in Space
  BY <1>2 DEF Written
<1>10. /\ asked = {p \in AllRows \cap Participant : p.address = a}
       /\ answered = {r \in AllRows \cap Response : r.from = a}
  BY <1>2 DEF RowsFit, Tables
<1>11. AllRows \subseteq Row
  BY <1>2 DEF AllRows, Row, Tables, IdsFit
<1>12. dated \subseteq AllRows
  <2>1. \A s \in surveys : Id(s) \in AllRows
    BY DEF AllRows
  <2>2. QED
    BY <1>2, <1>3, <1>7, <1>8, <2>1 DEF RowsFit
<1>13. \A u \in named : u \in Account /\ user[u].address = a /\ (Live(user[u]) => u \in live)
  BY DEF LiveUsers
<1>14. live \subseteq named
  OBVIOUS
<1>15. \A s \in surveys : Id(s) \in AllRows /\ Id(s) \in SurveyId /\ Id(s).of = s.of
  BY <1>2 DEF AllRows, IdsFit, Id
<1>16. theirs \subseteq AllRows /\ skipped \subseteq AllRows
  <2>1. named \subseteq AllRows /\ owned \subseteq AllRows
    BY <1>2 DEF RowsFit
  <2>2. asked \subseteq AllRows /\ answered \subseteq AllRows
    BY <1>10
  <2>3. QED
    BY <1>15, <2>1, <2>2
<1>17. theirs \subseteq skipped \cup dated
                    \cup {p \in AllRows \cap Participant : p.address = a}
                    \cup {r \in AllRows \cap Response : r.from = a}
                    \cup {i \in AllRows \cap SurveyId : i.of \in dated}
  <2>1. ASSUME NEW s \in inside
        PROVE  \/ Id(s) \in skipped \cup dated
               \/ Id(s) \in AllRows \cap SurveyId /\ Id(s).of \in dated
    <3>1. CASE s.of \in spaces
      BY <1>15, <3>1
    <3>2. CASE s.of \notin spaces /\ s.deleted = Never
      BY <3>2
    <3>3. CASE s.of \notin spaces /\ s.deleted # Never
      BY <3>3
    <3>4. QED
      BY <3>1, <3>2, <3>3
  <2>2. QED
    BY <1>10, <2>1
<1> HIDE DEF dated, ids, spaces, live, asked, answered, named, theirs, skipped
<1>18. /\ j \in Job /\ j.pc = "answers" /\ j.kind = "erasure" /\ j.address = a /\ j.before = AllRows
       /\ j.dated = dated /\ j.removed = {} /\ j.emptied = {} /\ j.blocked = {}
       /\ j.theirs = theirs /\ j.skipped = skipped
  BY <1>11, <1>12, <1>16 DEF Job, NoJob, JobStage
<1> HIDE DEF j
<1>19. ASSUME NEW q \in Request, req[q].linked
       PROVE  req[q].user \notin dated
  BY <1>1, <1>4, <1>19, RequestsHold
<1>20. /\ Base' /\ HeldFits' /\ job' = j
       /\ UNCHANGED <<user, space, surveys, sessions, link, code, req, day, people, responses, writer>>
  BY <1>1, <1>18, <1>19, BecomesKeeps
<1>21. /\ j.pc \notin AfterAnswers /\ j.pc \notin AfterPeople /\ j.pc \notin AfterResponses
       /\ j.pc \notin AfterContents /\ j.pc \notin AfterVersions
       /\ j.pc \notin AfterSurveys /\ j.pc \notin AfterSpaces /\ j.pc \notin AfterUsers
       /\ j.pc \notin {"idle", "refused"}
  BY <1>18, Stages
<1>22. JobShape'
  BY <1>3, <1>18, <1>20, <1>21, <1>17 DEF JobShape
<1>23. AllRows' = AllRows
  BY <1>20 DEF AllRows, There, Id
<1>24. BeforeStays' /\ RemovedDue' /\ NothingBelow'
  BY <1>12, <1>18, <1>20, <1>23 DEF BeforeStays, RemovedDue, NothingBelow
<1>25. DueRemoved'
  <2>1. \A s \in surveys : Id(s) \in AllRows
    BY DEF AllRows
  <2>2. QED
    BY <1>18, <1>20, <1>21, <2>1 DEF DueRemoved, Id,
       UnderWay, AfterAnswers, AfterPeople, AfterResponses, AfterContents,
       AfterVersions, AfterSurveys, AfterSpaces, AfterAuthors, AfterSessions, AfterUsers
<1>26. \A u \in Account : u \in dated => Live(user[u]) /\ user[u].address = a
  BY <1>4, <1>7
<1>27. \A w \in Space : w \in dated =>
          /\ Live(space[w]) /\ user[space[w].owner].address = a
          /\ space[w].owner \in dated \/ ~Live(user[space[w].owner])
  BY <1>3, <1>4, <1>5, <1>8
<1>28. ASSUME NEW w \in Space, There(space[w]), space[w].owner \in dated
       PROVE  w \in dated
  <2>1. space[w].owner \in Account
    BY <1>28, OwnerThere DEF RInv, Base
  <2>2. space[w].owner \in live /\ Live(user[space[w].owner])
    BY <1>4, <1>7, <1>28, <2>1
  <2>3. Live(space[w])
    BY <1>2, <1>28, <2>2 DEF Together, Live
  <2>4. QED
    BY <1>5, <1>8, <1>14, <2>2, <2>3
<1>29. ASSUME NEW s \in surveys, Id(s) \in dated
       PROVE  /\ user[s.by].address = a
              /\ s.by \in dated \/ ~Live(user[s.by])
              /\ Live(space[s.of]) => s.of \in dated
  <2>1. Id(s) \in ids /\ s.of \in Space
    BY <1>2, <1>6, <1>29 DEF IdsFit
  <2>2. s.by = space[s.of].owner /\ s.by \in named
    BY <1>2, <1>9, <2>1 DEF Written
  <2>3. QED
    BY <1>4, <1>5, <1>8, <1>13, <2>1, <2>2
<1>30. DatedFit'
  BY <1>18, <1>20, <1>26, <1>27, <1>28, <1>29 DEF DatedFit, Live, There, Never, Id
<1>31. QED
  BY <1>20, <1>22, <1>24, <1>25, <1>30 DEF RInv, Swept

-----------------------------------------------------------------------------
(* The purge commits.                                                      *)

Gone == IF job.kind = "rehearsal" THEN {} ELSE job.removed

LEMMA CommitRows ==
    ASSUME RInv, Commit
    PROVE  /\ \A u \in Account : user'[u] = IF u \in Gone THEN NoUser ELSE user[u]
           /\ \A w \in Space : space'[w] = IF w \in Gone THEN NoSpace ELSE space[w]
           /\ user' \in [Account -> User] /\ space' \in [Space -> Workspace]
           /\ \A u \in Account : There(user'[u]) <=> There(user[u]) /\ u \notin Gone
           /\ \A w \in Space : There(space'[w]) <=> There(space[w]) /\ w \notin Gone
           /\ surveys' = {s \in surveys : Id(s) \notin Gone}
           /\ people' = people \ Gone
           /\ DOMAIN responses' = DOMAIN responses \ Gone
           /\ \A r \in DOMAIN responses' : responses'[r] = responses[r]
           /\ sessions' \subseteq sessions
           /\ job' = NoJob /\ job.pc = "commit"
           /\ held' \in [Account \cup Space -> {"free", "dated", "removed"}]
           /\ \A x \in Account \cup Space : held'[x] = "free"
           /\ UNCHANGED <<link, code, req, day, writer>>
<1>1. /\ user' = [u \in DOMAIN user |-> IF u \in Gone THEN NoUser ELSE user[u]]
      /\ space' = [w \in DOMAIN space |-> IF w \in Gone THEN NoSpace ELSE space[w]]
      /\ surveys' = {s \in surveys : Id(s) \notin Gone}
      /\ people' = people \ Gone
      /\ responses' = [r \in DOMAIN responses \ Gone |-> responses[r]]
      /\ sessions' = sessions \ Gone
      /\ held' = [x \in DOMAIN held |-> "free"]
      /\ job' = NoJob /\ job.pc = "commit"
      /\ UNCHANGED <<link, code, req, day, writer>>
  BY DEF Commit, Gone
<1>2. /\ user \in [Account -> User] /\ space \in [Space -> Workspace]
      /\ held \in [Account \cup Space -> {"free", "dated", "removed"}]
  BY DEF RInv, Base, IInv, TypeOK
<1>3. /\ \A u \in Account : user'[u] = IF u \in Gone THEN NoUser ELSE user[u]
      /\ \A w \in Space : space'[w] = IF w \in Gone THEN NoSpace ELSE space[w]
  BY <1>1, <1>2
<1>4. NoUser \in User /\ NoSpace \in Workspace /\ NoUser.row = "none" /\ NoSpace.row = "none"
  BY NoneAssumption, BoundsAssumption DEF NoUser, NoSpace, User, Workspace, When, Never
<1> HIDE DEF NoUser, NoSpace
<1>5. user' \in [Account -> User] /\ space' \in [Space -> Workspace]
  BY <1>1, <1>2, <1>4
<1>6. held' \in [Account \cup Space -> {"free", "dated", "removed"}]
      /\ \A x \in Account \cup Space : held'[x] = "free"
  BY <1>1, <1>2
<1>7. /\ \A u \in Account : There(user'[u]) <=> There(user[u]) /\ u \notin Gone
      /\ \A w \in Space : There(space'[w]) <=> There(space[w]) /\ w \notin Gone
  BY <1>3, <1>4 DEF There
<1>8. /\ DOMAIN responses' = DOMAIN responses \ Gone
      /\ \A r \in DOMAIN responses' : responses'[r] = responses[r]
  BY <1>1
<1>9. QED
  BY <1>1, <1>3, <1>5, <1>6, <1>7, <1>8

\* What goes is due, nothing stays below it, and who stays keeps their workspace.
LEMMA GoneFits ==
    ASSUME RInv, job.pc = "commit"
    PROVE  /\ Gone \subseteq job.removed
           /\ \A p \in people : Asked(p.in) \in Gone => p \in Gone
           /\ \A r \in DOMAIN responses : From(r) \in Gone => r \in Gone
           /\ \A s \in surveys : s.of \in Gone \/ s.by \in Gone => Id(s) \in Gone
           /\ \A w \in Space : There(space[w]) /\ space[w].owner \in Gone => w \in Gone
           /\ \A w \in Space : Live(space[w]) /\ w \in Gone =>
                 ~Live(user[space[w].owner]) \/ space[w].owner \in Gone
           /\ \A s \in surveys : s.deleted = Never /\ Live(space[s.of]) /\ Id(s) \in Gone =>
                 s.of \in Gone
<1>1. Gone = {} \/ Gone = job.removed
  BY DEF Gone
<1>2. /\ NothingBelow /\ DatedFit /\ RemovedDue /\ DueRemoved /\ Tables /\ IdsFit /\ Written
  BY IdsStand DEF RInv, Base, Swept
<1>3. DueUsers \subseteq job.removed /\ DueSpaces \subseteq job.removed
  BY <1>2, Stages DEF DueRemoved
<1>4. ASSUME NEW w \in Space, Live(space[w]), w \in job.removed, Live(user[space[w].owner])
      PROVE  space[w].owner \in job.removed
  <2>1. w \in job.dated
    BY <1>2, <1>4 DEF RemovedDue, DueSpaces, Past, Live
  <2>2. space[w].owner \in job.dated
    BY <1>2, <1>4, <2>1 DEF DatedFit
  <2>3. space[w].owner \in Account
    BY <1>4, OwnerThere DEF RInv, Base, Live
  <2>4. QED
    BY <1>3, <1>4, <2>2, <2>3 DEF DueUsers, Live
<1>5. ASSUME NEW s \in surveys, s.deleted = Never, Live(space[s.of]), Id(s) \in job.removed
      PROVE  s.of \in job.removed
  <2>1. Id(s) \in Doomed /\ s.of \in Space
    BY <1>2, <1>5 DEF RemovedDue, IdsFit
  <2>2. Id(s) \in job.dated \/ s.of \in DueSpaces
    BY <1>2, <1>5, <2>1, DoomedStand DEF Past
  <2>3. Id(s) \in job.dated => s.of \in DueSpaces
    BY <1>2, <1>5, <2>1 DEF DatedFit, DueSpaces, Live
  <2>4. QED
    BY <1>3, <2>2, <2>3
<1>6. QED
  BY <1>1, <1>2, <1>4, <1>5 DEF NothingBelow

LEMMA CommitKeepsIInv ==
    ASSUME RInv, Commit
    PROVE  IInv'
<1>1. IInv /\ TypeOK /\ Requests /\ Rows /\ LinksFit
  BY InvParts DEF RInv, Base
<1>2. UNCHANGED <<link, code, req, day>> /\ job.pc = "commit" /\ Gone \subseteq job.removed
  BY CommitRows, GoneFits
<1>3. \A u \in Account : There(user'[u]) => There(user[u]) /\ user'[u] = user[u] /\ u \notin Gone
  BY CommitRows
<1>4. \A w \in Space : There(space'[w]) => There(space[w]) /\ space'[w] = space[w] /\ w \notin Gone
  BY CommitRows
<1>5. \A u \in Account : u \notin Gone => user'[u] = user[u]
  BY CommitRows
<1>6. \A w \in Space : w \notin Gone => space'[w] = space[w]
  BY CommitRows
<1>7. ASSUME NEW q \in Request
      PROVE  ClaimsOf(req[q])'
  <2>1. /\ ClaimsOf(req[q]) /\ ShapeOf(req[q]) /\ req[q].user \in Account \cup {None}
        /\ req[q].space \in Space \cup {None}
    BY <1>1, ReqFields DEF Requests, Claims, Shapes
  <2>2. req[q].fresh => req[q].user \in Account
    BY <2>1 DEF ShapeOf, Located
  <2>3. req[q].linked => /\ req[q].user \in Account /\ req[q].user \notin Gone
                         /\ held'[req[q].user] = "free"
    BY <1>2, CommitRows, RequestsHold
  <2>4. req[q].space # None /\ ~req[q].fresh =>
            /\ req[q].user \in Account /\ req[q].user \notin Gone
            /\ held'[req[q].user] # "removed"
    BY <1>2, CommitRows, RequestsHold
  <2>5. req[q].fresh =>
          /\ ~There(user'[req[q].user])
          /\ \A v \in Account : Live(user'[v]) =>
                user'[v].address # req[q].address /\ (req[q].sub # None => user'[v].sub # req[q].sub)
    BY <1>3, <2>1, <2>2 DEF ClaimsOf, Live
  <2>6. req[q].linked =>
          /\ user'[req[q].user].deleted = Never /\ There(user'[req[q].user])
          /\ held'[req[q].user] = "free"
          /\ \A v \in Account : Live(user'[v]) /\ user'[v].sub = req[q].sub => v = req[q].user
    BY <1>3, <1>5, <2>1, <2>3 DEF ClaimsOf, Live
  <2>7. req[q].space # None =>
          /\ ~There(space'[req[q].space])
          /\ ~req[q].fresh => /\ There(user'[req[q].user]) /\ user'[req[q].user].deleted # Never
                              /\ held'[req[q].user] # "removed"
    BY <1>4, <1>5, <2>1, <2>4 DEF ClaimsOf, Live
  <2>8. Holds(req[q]) => Usable(req[q].code)
    BY <2>1 DEF ClaimsOf
  <2>9. QED
    BY <1>2, <2>5, <2>6, <2>7, <2>8 DEF ClaimsOf, There, Live, Never, Holds, Usable
<1>8. Requests'
  BY <1>1, <1>2, <1>7 DEF Requests, Shapes, ShapeOf, Located, Claims, Apart, ApartOf, Keyed, Holds
<1>9. TypeOK'
  <2>1. surveys' \subseteq SurveyRow /\ sessions' \subseteq Session
    BY <1>1, CommitRows DEF TypeOK
  <2>2. /\ user' \in [Account -> User] /\ space' \in [Space -> Workspace]
        /\ held' \in [Account \cup Space -> {"free", "dated", "removed"}]
    BY CommitRows
  <2>3. QED
    BY <1>1, <1>2, <2>1, <2>2 DEF TypeOK, User, Workspace, SurveyRow, When, Never
<1>10. LinksFit'
  BY <1>1, <1>2 DEF LinksFit
<1>11. Keys'
  BY <1>1, <1>3 DEF Rows, Keys, Live, There, Never
<1>12. Owned'
  <2>1. ASSUME NEW w \in Space, There(space'[w])
        PROVE  space'[w].owner # None /\ There(user'[space'[w].owner])
    <3>1. space[w].owner \in Account /\ There(user[space[w].owner]) /\ space[w].owner # None
      BY <1>1, <1>4, <2>1, SpaceFields DEF Rows, Owned
    <3>2. space[w].owner \notin Gone
      BY <1>2, <1>4, <2>1, GoneFits
    <3>3. QED
      BY <1>4, <1>5, <2>1, <3>1, <3>2
  <2>2. QED
    BY <2>1 DEF Owned, There
<1>13. Homes'
  <2>1. ASSUME NEW u \in Account, Live(user'[u])
        PROVE  \E w \in Space : \A x \in Space : Live(space'[x]) /\ space'[x].owner = u <=> x = w
    <3>1. Live(user[u]) /\ u \notin Gone
      BY <1>3, <2>1 DEF Live
    <3>2. PICK w \in Space : \A x \in Space : Live(space[x]) /\ space[x].owner = u <=> x = w
      BY <1>1, <3>1 DEF Rows, Homes
    <3>3. w \notin Gone
      BY <1>2, <3>1, <3>2, GoneFits
    <3>4. \A x \in Space : Live(space'[x]) => Live(space[x]) /\ space'[x] = space[x]
      BY <1>4 DEF Live
    <3>5. QED
      BY <1>6, <3>2, <3>3, <3>4
  <2>2. QED
    BY <2>1 DEF Homes, Live, There, Never
<1>14. Made'
  <2>1. \A u \in Account : user'[u].made # None => user'[u] = user[u]
    <3>1. NoUser.made = None
      BY DEF NoUser
    <3>2. QED
      BY <3>1, CommitRows
  <2>2. QED
    BY <1>1, <1>2, <1>3, <2>1 DEF Rows, Made, There
<1>15. QED
  BY <1>8, <1>9, <1>10, <1>11, <1>12, <1>13, <1>14 DEF IInv, Requests, Rows

LEMMA CommitKeepsTables ==
    ASSUME RInv, Commit
    PROVE  Tables' /\ WriterFits'
<1>1. Tables /\ IdsFit /\ WriterFits
  BY IdsStand DEF RInv, Base
<1>2. /\ UNCHANGED <<day, writer>> /\ surveys' = {s \in surveys : Id(s) \notin Gone}
      /\ people' = people \ Gone /\ DOMAIN responses' = DOMAIN responses \ Gone
      /\ \A r \in DOMAIN responses' : responses'[r] = responses[r]
  BY CommitRows
<1>3. /\ \A p \in people : Asked(p.in) \in Gone => p \in Gone
      /\ \A r \in DOMAIN responses : From(r) \in Gone => r \in Gone
  BY CommitRows, GoneFits
<1>4. ASSUME NEW p \in people'
      PROVE  CreatorsIn(p.in)' # {}
  <2>1. PICK s \in surveys : Id(s) = Asked(p.in)
    BY <1>1, <1>2 DEF IdsFit
  <2>2. s \in surveys' /\ s \in CreatorsIn(p.in)
    BY <1>1, <1>2, <1>3, <2>1 DEF IdsFit
  <2>3. QED
    BY <2>2 DEF CreatorsIn
<1>5. /\ surveys' \subseteq SurveyRow /\ people' \subseteq Participant
      /\ \A r \in DOMAIN responses' : responses'[r] \in When /\ From(r) \in people'
      /\ DOMAIN responses' \subseteq Response
  BY <1>1, <1>2, <1>3 DEF Tables
<1>6. Tables'
  BY <1>4, <1>5 DEF Tables, From, When, Never
<1>7. WriterFits'
  BY <1>1, <1>2 DEF WriterFits, Writer, CreatorsIn
<1>8. QED
  BY <1>6, <1>7

LEMMA CommitKeepsRows ==
    ASSUME RInv, Commit
    PROVE  Together' /\ Starters' /\ Written' /\ OfToday'
<1>1. /\ Tables /\ IdsFit /\ Together /\ Starters /\ Written /\ OfToday /\ Owned /\ TypeOK
      /\ job.pc = "commit"
  BY IdsStand, CommitRows DEF RInv, Base, IInv
<1>2. \A u \in Account : There(user'[u]) => There(user[u]) /\ user'[u] = user[u] /\ u \notin Gone
  BY CommitRows
<1>3. \A w \in Space : There(space'[w]) => There(space[w]) /\ space'[w] = space[w] /\ w \notin Gone
  BY CommitRows
<1>4. /\ \A u \in Account : u \notin Gone => user'[u] = user[u]
      /\ \A w \in Space : w \notin Gone => space'[w] = space[w]
      /\ surveys' = {s \in surveys : Id(s) \notin Gone}
      /\ UNCHANGED <<req, day>>
  BY CommitRows
<1>5. ASSUME NEW w \in Space, There(space'[w])
      PROVE  /\ space[w].owner \in Account /\ space[w].owner \notin Gone
             /\ space'[w] = space[w] /\ user'[space[w].owner] = user[space[w].owner]
             /\ There(space[w]) /\ w \notin Gone
  <2>1. There(space[w]) /\ space'[w] = space[w] /\ w \notin Gone
    BY <1>3, <1>5
  <2>2. space[w].owner \in Account
    BY <1>1, <2>1, OwnerThere DEF RInv, Base
  <2>3. space[w].owner \notin Gone
    BY <1>1, <2>1, GoneFits
  <2>4. QED
    BY <1>4, <2>1, <2>2, <2>3
<1>6. Together'
  BY <1>1, <1>5 DEF Together, There, Never
<1>7. Starters'
  <2>1. ASSUME NEW w \in Space, Live(space'[w]), ~Live(user'[space'[w].owner])
        PROVE  [of |-> w, by |-> space'[w].owner, origin |-> "starter", deleted |-> Never] \in surveys'
    <3> DEFINE st == [of |-> w, by |-> space[w].owner, origin |-> "starter", deleted |-> Never]
    <3>1. /\ Live(space[w]) /\ ~Live(user[space[w].owner]) /\ w \notin Gone
          /\ space'[w] = space[w]
      BY <1>5, <2>1 DEF Live
    <3>2. st \in surveys /\ st.deleted = Never /\ st.of = w
      BY <1>1, <3>1 DEF Starters
    <3> HIDE DEF st
    <3>3. Id(st) \notin Gone
      BY <1>1, <3>1, <3>2, GoneFits
    <3>4. st \in surveys'
      BY <1>4, <3>2, <3>3
    <3>5. QED
      BY <3>1, <3>4 DEF st
  <2>2. QED
    BY <2>1 DEF Starters, Live, There, Never
<1>8. Written'
  <2>1. ASSUME NEW s \in surveys'
        PROVE  There(space'[s.of]) /\ space'[s.of].owner = s.by /\ There(user'[s.by])
    <3>1. /\ s \in surveys /\ Id(s) \notin Gone /\ s.of \in Space /\ s.by \in Account
          /\ There(space[s.of]) /\ space[s.of].owner = s.by /\ There(user[s.by])
      BY <1>1, <1>4 DEF Written, IdsFit
    <3>2. s.of \notin Gone /\ s.by \notin Gone
      BY <1>1, <3>1, GoneFits
    <3>3. QED
      BY <1>4, <3>1, <3>2
  <2>2. \A s, t \in surveys' : Id(s) = Id(t) => s = t
    BY <1>1, <1>4 DEF Written
  <2>3. QED
    BY <2>1, <2>2 DEF Written, There, Id
<1>9. OfToday'
  <2>1. \A r \in Request : req[r].user \in Account \cup {None}
    BY <1>1, ReqFields
  <2>2. QED
    BY <1>1, <1>2, <1>4, <2>1 DEF OfToday, There, Never, AtStage
<1>10. QED
  BY <1>6, <1>7, <1>8, <1>9

LEMMA CommitKeeps ==
    ASSUME RInv, Commit
    PROVE  RInv'
<1>1. Base'
  BY CommitKeepsIInv, CommitKeepsTables, CommitKeepsRows DEF Base
<1>2. job' = NoJob /\ \A x \in Account \cup Space : held'[x] = "free"
  BY CommitRows
<1>3. JobShape' /\ (job.pc \notin UnderWay)'
  BY <1>2, NoJobFits
<1>4. HeldFits'
  BY <1>2 DEF HeldFits, NoJob
<1>5. Swept'
  BY <1>3, <1>4, NothingDone, PTL
<1>6. QED
  BY <1>1, <1>3, <1>5 DEF RInv

-----------------------------------------------------------------------------
(* Every step.                                                             *)

LEMMA InitRInv == RetentionInit => RInv
<1> SUFFICES ASSUME RetentionInit
             PROVE  RInv
  OBVIOUS
<1>1. Init /\ people = {} /\ DOMAIN responses = {} /\ writer = NoWriter /\ job = NoJob
  BY DEF RetentionInit
<1>2. IInv
  BY <1>1, InitIInv
<1>3. /\ surveys = {} /\ \A r \in Request : req[r] = Idle
      /\ \A x \in Account \cup Space : held[x] = "free"
  BY <1>1 DEF Init
<1>4. \A w \in Space : ~There(space[w])
  BY <1>1 DEF Init, NoSpace, There
<1>5. Tables /\ Together /\ Starters /\ Written
  BY <1>1, <1>3, <1>4 DEF Tables, Together, Starters, Written, Live
<1>6. OfToday
  BY <1>3 DEF OfToday, Idle, AtStage
<1>7. WriterFits
  BY <1>1, NoWriterFits DEF WriterFits
<1>8. HeldFits
  BY <1>1, <1>3 DEF HeldFits, NoJob
<1>9. QED
  BY <1>1, <1>2, <1>5, <1>6, <1>7, <1>8, NoJobStands, NothingDone DEF RInv, Base

\* A statement of the purge.
Statement ==
    \/ EraseAnswers \/ ErasePeople
    \/ PurgeResponses \/ PurgeContents \/ PurgeVersions \/ PurgeSurveys
    \/ PurgeSpaces \/ DetachAuthors \/ PurgeSessions \/ PurgeUsers

LEMMA StatementsKeep == RInv /\ Statement => RInv'
BY EraseAnswersKeeps, ErasePeopleKeeps, PurgeResponsesKeeps, PurgeContentsKeeps,
   PurgeVersionsKeeps, PurgeSurveysKeeps, PurgeSpacesKeeps, DetachAuthorsKeeps,
   PurgeSessionsKeeps, PurgeUsersKeeps DEF Statement

\* A step of somebody's else than the purge.
Aside ==
    \/ Next /\ UNCHANGED <<retained, writer, job>>
    \/ \E u \in Account, w \in Space : BeginCreate(u, w)
    \/ \E p \in people : BeginRespond(p)
    \/ \E r \in DOMAIN responses : SoftDeleteResponse(r)
    \/ \E s \in surveys : SoftDeleteSurvey(s)
    \/ \E w \in Space, a \in Address : Import(w, a)
    \/ CreateSurvey \/ CreateResponse
    \/ UNCHANGED allVars

LEMMA AsideKeeps == RInv /\ Aside => RInv' /\ Spares
BY NextKeeps, BeginKeeps, SoftDeleteResponseKeeps, SoftDeleteSurveyKeeps, ImportKeeps,
   CreateSurveyKeeps, CreateResponseKeeps, StutterKeeps DEF Aside

LEMMA StepIs ==
    [RetentionNext]_allVars =>
        \/ Aside \/ NextDay \/ Statement \/ Commit \/ Over
        \/ \E kind \in {"purge", "rehearsal"} : Start(kind)
        \/ \E a \in Address : EraseSubject(a)
BY DEF RetentionNext, Purge, Aside, Statement

LEMMA NextRInv == RInv /\ [RetentionNext]_allVars => RInv'
<1> SUFFICES ASSUME RInv, [RetentionNext]_allVars
             PROVE  RInv'
  OBVIOUS
<1>1. CASE Aside
  BY <1>1, AsideKeeps
<1>2. CASE NextDay
  BY <1>2, NextDayKeeps
<1>3. CASE Statement
  BY <1>3, StatementsKeep
<1>4. CASE Commit
  BY <1>4, CommitKeeps
<1>5. CASE Over
  BY <1>5, OverKeeps DEF Over
<1>6. CASE \E kind \in {"purge", "rehearsal"} : Start(kind)
  BY <1>6, StartKeeps
<1>7. CASE \E a \in Address : EraseSubject(a)
  BY <1>7, EraseSubjectKeeps
<1>8. QED
  BY <1>1, <1>2, <1>3, <1>4, <1>5, <1>6, <1>7, StepIs

LEMMA AlwaysRInv == RetentionSpec => []RInv
<1>1. RetentionInit => RInv
  BY InitRInv
<1>2. RInv /\ [RetentionNext]_allVars => RInv'
  BY NextRInv
<1>3. QED
  BY <1>1, <1>2, PTL DEF RetentionSpec

(***************************************************************************)
(* Every row that the purge has dated, emptied or removed is a row of its  *)
(* tables, what it holds of the accounts and workspaces is exactly what it *)
(* has written, every response is a participant's and every participant a  *)
(* survey's, through every purge, rehearsal and erasure (purge.Run,        *)
(* EraseSubject).                                                          *)
(***************************************************************************)
THEOREM RetentionTypes == RetentionSpec => []RetentionTypeOK
<1>1. RInv => RetentionTypeOK
  <2> SUFFICES ASSUME RInv
               PROVE  RetentionTypeOK
    OBVIOUS
  <2>1. /\ TypeOK /\ Tables /\ WriterFits /\ HeldFits /\ job \in Job
    BY DEF RInv, Base, IInv, JobShape, Swept
  <2>2. /\ job.pc \in JobStage /\ job.dated \subseteq Row /\ job.emptied \subseteq Row
        /\ job.removed \subseteq Row /\ job.before \subseteq Row /\ job.theirs \subseteq Row
        /\ job.skipped \subseteq Row /\ job.blocked \subseteq Row
    BY <2>1 DEF Job
  <2>3. QED
    BY <2>1, <2>2 DEF RetentionTypeOK, Tables, WriterFits, HeldFits
<1>2. QED
  BY <1>1, AlwaysRInv, PTL

(***************************************************************************)
(* Whatever the nightly purge or an erasure removes while people sign in,  *)
(* sign up, move to another address and close, no two live accounts share  *)
(* an address or a Google identity, and each has exactly one live          *)
(* workspace (login, SignupWithCode, DeleteAccount, purge.Run).            *)
(***************************************************************************)
THEOREM OneAccountBesidePurge == RetentionSpec => []OneAccountEach
<1>1. RInv => OneAccountEach
  BY EachHasOne DEF RInv, Base
<1>2. QED
  BY <1>1, AlwaysRInv, PTL

(***************************************************************************)
(* In the beta every account that is there comes of a code of its own that *)
(* nobody withdrew, purges and erasures between two sign-ups included      *)
(* (SignupWithCode, RevokeBetaCode, purge.Run).                            *)
(***************************************************************************)
THEOREM InvitedBesidePurge == RetentionSpec => []InvitedOnly
<1>1. RInv => InvitedOnly
  BY DEF RInv, Base, IInv, Made, InvitedOnly
<1>2. QED
  BY <1>1, AlwaysRInv, PTL

-----------------------------------------------------------------------------
(* What goes, and what stays.                                              *)

\* No row goes.
NothingGoes ==
    /\ \A u \in Account : There(user[u]) => There(user'[u])
    /\ \A w \in Space : There(space[w]) => There(space'[w])
    /\ \A s \in surveys : Id(s) \in {Id(t) : t \in surveys'}
    /\ people \subseteq people' /\ DOMAIN responses \subseteq DOMAIN responses'

LEMMA OnlyCommitRemoves ==
    ASSUME RInv, [RetentionNext]_allVars, ~Commit
    PROVE  NothingGoes
<1>1. CASE Aside
  <2>1. Spares
    BY <1>1, AsideKeeps
  <2>2. \A s \in surveys : \E t \in surveys' : Id(t) = Id(s)
    BY <2>1 DEF Spares, SparesSurveys, Kin
  <2>3. \A s \in surveys : Id(s) \in {Id(t) : t \in surveys'}
    <3>1. TAKE s \in surveys
    <3>2. PICK t \in surveys' : Id(t) = Id(s)
      BY <2>2
    <3>3. QED
      BY <3>2
  <2>4. QED
    BY <2>1, <2>3 DEF Spares, SparesUsers, SparesSpaces, SparesPeople, SparesResponses, NothingGoes
<1>2. CASE UNCHANGED <<user, space, surveys, people, responses>>
  BY <1>2 DEF NothingGoes, There
<1>3. CASE NextDay
  BY <1>2, <1>3 DEF NextDay, accounts, retained
<1>4. CASE \E j : Becomes(j)
  BY <1>2, <1>4 DEF Becomes, accounts, retained
<1>5. CASE Over \/ \E kind \in {"purge", "rehearsal"} : Start(kind)
  BY <1>4, <1>5 DEF Over, Start
<1>6. CASE \E a \in Address : EraseSubject(a)
  BY <1>4, <1>6 DEF EraseSubject
<1>7. CASE Statement
  BY <1>4, <1>7 DEF Statement, Removes, EraseAnswers, ErasePeople, PurgeResponses, PurgeContents,
     PurgeVersions, PurgeSurveys, PurgeSpaces, DetachAuthors, PurgeSessions, PurgeUsers
<1>8. QED
  BY <1>1, <1>3, <1>5, <1>6, <1>7, StepIs

\* A row that is past the cutoff was deleted for longer than the window.
LEMMA PastIsOver ==
    ASSUME day \in 0..MaxDay, NEW d \in When
    PROVE  Past(d) <=> WindowOver(d)
BY WindowAssumption, BoundsAssumption DEF Past, WindowOver, When, Never

\* What the purge removes may go.
LEMMA RemovedMayGo ==
    ASSUME RInv, job.pc = "commit"
    PROVE  /\ \A u \in Account : u \in job.removed => UserMayGo(u)
           /\ \A w \in Space : w \in job.removed => SpaceMayGo(w)
           /\ \A s \in surveys : Id(s) \in job.removed => SurveyMayGo(s)
           /\ \A p \in people : p \in job.removed => ParticipantMayGo(p)
           /\ \A r \in DOMAIN responses : r \in job.removed =>
                 WindowOver(responses[r]) \/ ParticipantMayGo(From(r))
<1>1. /\ Tables /\ IdsFit /\ Written /\ DatedFit /\ RemovedDue /\ JobShape /\ TypeOK
      /\ day \in 0..MaxDay
  BY IdsStand DEF RInv, Base, Swept, IInv, TypeOK
<1>2. job.dated # {} => job.kind = "erasure"
  BY <1>1, Stages DEF JobShape
<1>3. ASSUME NEW u \in Account, u \in DueUsers
      PROVE  UserMayGo(u)
  BY <1>1, <1>2, <1>3, UserFields, PastIsOver DEF DueUsers, DatedFit, UserMayGo, Erased
<1>4. ASSUME NEW w \in Space, w \in DueSpaces
      PROVE  SpaceMayGo(w)
  BY <1>1, <1>2, <1>4, SpaceFields, PastIsOver DEF DueSpaces, DatedFit, SpaceMayGo, Erased
<1>5. ASSUME NEW s \in surveys, Id(s) \in Doomed
      PROVE  SurveyMayGo(s)
  <2>1. s.of \in Space /\ s.deleted \in When /\ space[s.of].owner = s.by
    BY <1>1 DEF IdsFit, Written
  <2>2. CASE Past(s.deleted)
    BY <1>1, <2>1, <2>2, PastIsOver DEF SurveyMayGo
  <2>3. CASE Id(s) \in job.dated
    BY <1>1, <1>2, <2>1, <2>3 DEF DatedFit, SurveyMayGo, SpaceMayGo, Erased
  <2>4. CASE s.of \in DueSpaces
    BY <1>4, <2>1, <2>4 DEF SurveyMayGo
  <2>5. QED
    BY <1>1, <1>5, <2>2, <2>3, <2>4, DoomedStand
<1>6. ASSUME NEW p \in people,
             \/ job.kind = "erasure" /\ p.address = job.address
             \/ Has(Doomed, p.in)
      PROVE  ParticipantMayGo(p)
  <2>1. CASE job.kind = "erasure" /\ p.address = job.address
    BY <2>1 DEF ParticipantMayGo, Erased
  <2>2. CASE Has(Doomed, p.in)
    <3>1. PICK s \in surveys : Id(s) = Asked(p.in)
      BY <1>1 DEF IdsFit
    <3>2. s \in CreatorsIn(p.in) /\ Id(s) \in Doomed
      BY <1>1, <2>2, <3>1 DEF IdsFit, Has, Asked
    <3>3. QED
      BY <1>5, <3>1, <3>2 DEF ParticipantMayGo
  <2>3. QED
    BY <1>6, <2>1, <2>2
<1>7. ASSUME NEW r \in DOMAIN responses, r \in job.removed
      PROVE  WindowOver(responses[r]) \/ ParticipantMayGo(From(r))
  <2>1. /\ r \in Response /\ responses[r] \in When
        /\ From(r) \in people /\ From(r).in = r.in /\ From(r).address = r.from
    BY <1>1 DEF Tables, IdsFit
  <2>2. \/ job.kind = "erasure" /\ r.from = job.address
        \/ Past(responses[r])
        \/ Has(Doomed, r.in)
    BY <1>1, <1>7, <2>1 DEF RemovedDue
  <2>3. QED
    BY <1>1, <1>6, <2>1, <2>2, PastIsOver
<1>8. \A i \in SurveyId : i \in job.removed => i \in Doomed
  BY <1>1 DEF RemovedDue
<1>9. QED
  BY <1>1, <1>3, <1>4, <1>5, <1>6, <1>7, <1>8 DEF RemovedDue, IdsFit, Tables

(***************************************************************************)
(* Nothing goes for good before it, or what it is part of, has been        *)
(* deleted for the whole window, but what belongs to a person who is       *)
(* erased: accounts, workspaces, surveys, participants and responses,      *)
(* whoever signs in, answers or deletes between two statements of the      *)
(* purge (purge.Run, EraseSubject).                                        *)
(***************************************************************************)
THEOREM KeptAlways == RetentionSpec => KeptForWindow
<1> DEFINE Kept ==
       /\ \A u \in Account : There(user[u]) /\ ~There(user'[u]) => UserMayGo(u)
       /\ \A w \in Space : There(space[w]) /\ ~There(space'[w]) => SpaceMayGo(w)
       /\ \A s \in surveys : Id(s) \notin {Id(t) : t \in surveys'} => SurveyMayGo(s)
       /\ \A p \in people \ people' : ParticipantMayGo(p)
       /\ \A r \in DOMAIN responses \ DOMAIN responses' :
              WindowOver(responses[r]) \/ ParticipantMayGo(From(r))
<1>1. ASSUME RInv, [RetentionNext]_allVars
      PROVE  Kept
  <2>1. CASE ~Commit
    BY <1>1, <2>1, OnlyCommitRemoves DEF NothingGoes
  <2>2. CASE Commit
    <3>1. job.pc = "commit" /\ Gone \subseteq job.removed
      BY <1>1, <2>2, CommitRows, GoneFits
    <3>2. ASSUME NEW s \in surveys, Id(s) \notin {Id(t) : t \in surveys'}
          PROVE  Id(s) \in Gone
      <4>1. s \notin surveys'
        BY <3>2
      <4>2. QED
        BY <1>1, <2>2, <4>1, CommitRows
    <3>3. QED
      BY <1>1, <2>2, <3>1, <3>2, CommitRows, RemovedMayGo
  <2>3. QED
    BY <2>1, <2>2
<1>2. RInv /\ [RetentionNext]_allVars => [Kept]_allVars
  BY <1>1
<1>3. QED
  BY <1>2, AlwaysRInv, PTL DEF RetentionSpec, KeptForWindow

LEMMA RowsKnown == RInv => RowsFit
BY RowsStand DEF RInv, Base

\* A purge that commits has removed all that is due, and of the person's what it did not skip.
LEMMA AllSwept ==
    ASSUME RInv, job.pc = "commit"
    PROVE  /\ DueUsers \subseteq job.removed /\ DueSpaces \subseteq job.removed
           /\ \A s \in surveys : Past(s.deleted) => Id(s) \in job.removed
           /\ DueResponses \subseteq job.removed
           /\ job.theirs \subseteq job.skipped \cup job.removed
<1>1. /\ Tables /\ IdsFit /\ RowsFit /\ Written /\ DatedFit /\ DueRemoved /\ BeforeStays /\ JobShape
      /\ job.pc \in UnderWay /\ job.pc \in AfterAnswers /\ job.pc \in AfterPeople
      /\ job.pc \in AfterResponses /\ job.pc \in AfterSurveys /\ job.pc \in AfterSpaces
      /\ job.pc \in AfterUsers
  BY IdsStand, RowsStand, Stages DEF RInv, Base, Swept
<1>2. /\ DueUsers \subseteq job.removed /\ DueSpaces \subseteq job.removed
      /\ DueResponses \subseteq job.removed /\ Doomed \cap job.before \subseteq job.removed
  BY <1>1 DEF DueRemoved
<1>3. ASSUME NEW s \in surveys, Past(s.deleted)
      PROVE  Id(s) \in job.removed
  <2>1. Id(s) \in job.before
    BY <1>1, <1>3 DEF DueRemoved
  <2>2. Id(s) \in Doomed
    BY <1>1, <1>3, DoomedStand
  <2>3. QED
    BY <1>2, <2>1, <2>2
<1>4. ASSUME NEW x \in job.dated
      PROVE  x \in job.removed
  <2>1. x \in job.before /\ x \in AllRows /\ x \in Account \cup Space \cup SurveyId
    BY <1>1 DEF BeforeStays, JobShape
  <2>2. CASE x \in Account
    BY <1>1, <1>2, <2>1, <2>2 DEF RowsFit, DueUsers
  <2>3. CASE x \in Space
    BY <1>1, <1>2, <2>1, <2>3 DEF RowsFit, DueSpaces
  <2>4. CASE x \in SurveyId
    <3>1. PICK s \in surveys : Id(s) = x
      BY <1>1, <2>1, <2>4 DEF RowsFit
    <3>2. x \in Doomed
      BY <1>1, <3>1, DoomedStand
    <3>3. QED
      BY <1>2, <2>1, <3>2
  <2>5. QED
    BY <2>1, <2>2, <2>3, <2>4
<1>5. job.theirs \subseteq job.skipped \cup job.removed
  <2>1. CASE job.kind # "erasure"
    BY <1>1, <2>1 DEF JobShape
  <2>2. CASE job.kind = "erasure"
    <3>1. /\ \A r \in job.before \cap Response : r.from = job.address => r \in job.removed
          /\ \A p \in job.before \cap Participant : p.address = job.address => p \in job.removed
      BY <1>1, <2>2 DEF DueRemoved
    <3>2. job.theirs \subseteq job.skipped \cup job.dated
                    \cup {p \in job.before \cap Participant : p.address = job.address}
                    \cup {r \in job.before \cap Response : r.from = job.address}
                    \cup {i \in job.before \cap SurveyId : i.of \in job.dated}
      BY <1>1, <2>2 DEF JobShape
    <3>3. ASSUME NEW i \in job.before \cap SurveyId, i.of \in job.dated
          PROVE  i \in job.removed
      <4>1. PICK s \in surveys : Id(s) = i
        BY <1>1, <3>3 DEF BeforeStays, RowsFit
      <4>2. s.of = i.of /\ s.of \in Space
        BY <1>1, <4>1 DEF Id, IdsFit
      <4>3. There(space[s.of])
        BY <1>1, <3>3, <4>2 DEF DatedFit, Live
      <4>4. i \in Doomed
        BY <1>1, <3>3, <4>1, <4>2, <4>3, DoomedStand DEF DueSpaces
      <4>5. QED
        BY <1>2, <3>3, <4>4
    <3>4. QED
      BY <1>4, <3>1, <3>2, <3>3
  <2>3. QED
    BY <2>1, <2>2
<1>6. QED
  BY <1>2, <1>3, <1>5

(***************************************************************************)
(* A purge that commits leaves nothing whose time is up, and an erasure,   *)
(* of what was the person's when it began, nothing but accounts and        *)
(* workspaces that had been deleted before, with their deleted surveys,    *)
(* whatever came in between two of its statements (steps, EraseSubject).   *)
(***************************************************************************)
THEOREM SweepAlways == RetentionSpec => SweepComplete
<1> DEFINE Complete ==
       Commit /\ job.kind # "rehearsal" =>
          /\ \A u \in Account : There(user'[u]) => ~WindowOver(user'[u].deleted)
          /\ \A w \in Space : There(space'[w]) => ~WindowOver(space'[w].deleted)
          /\ \A s \in surveys' : ~WindowOver(s.deleted)
          /\ \A r \in DOMAIN responses' : ~WindowOver(responses'[r])
          /\ job.theirs \cap AllRows' \subseteq job.skipped
<1>1. ASSUME RInv, RInv', Commit, job.kind # "rehearsal"
      PROVE  Complete
  <2>1. Gone = job.removed /\ job.pc = "commit"
    BY <1>1, CommitRows DEF Gone
  <2>2. Tables /\ IdsFit /\ TypeOK /\ day \in 0..MaxDay
    BY <1>1, IdsStand DEF RInv, Base, IInv, TypeOK
  <2>3. RowsFit'
    BY <1>1, RowsKnown, PTL
  <2>4. ASSUME NEW u \in Account, There(user'[u])
        PROVE  ~WindowOver(user'[u].deleted)
    <3>1. There(user[u]) /\ user'[u] = user[u] /\ u \notin job.removed
      BY <1>1, <2>1, <2>4, CommitRows
    <3>2. ~Past(user[u].deleted)
      BY <1>1, <2>1, <3>1, AllSwept DEF DueUsers
    <3>3. QED
      BY <2>2, <3>1, <3>2, UserFields, PastIsOver
  <2>5. ASSUME NEW w \in Space, There(space'[w])
        PROVE  ~WindowOver(space'[w].deleted)
    <3>1. There(space[w]) /\ space'[w] = space[w] /\ w \notin job.removed
      BY <1>1, <2>1, <2>5, CommitRows
    <3>2. ~Past(space[w].deleted)
      BY <1>1, <2>1, <3>1, AllSwept DEF DueSpaces
    <3>3. QED
      BY <2>2, <3>1, <3>2, SpaceFields, PastIsOver
  <2>6. ASSUME NEW s \in surveys'
        PROVE  ~WindowOver(s.deleted)
    <3>1. s \in surveys /\ Id(s) \notin job.removed
      BY <1>1, <2>1, CommitRows
    <3>2. ~Past(s.deleted)
      BY <1>1, <2>1, <3>1, AllSwept
    <3>3. QED
      BY <2>2, <3>1, <3>2, PastIsOver DEF IdsFit
  <2>7. ASSUME NEW r \in DOMAIN responses'
        PROVE  ~WindowOver(responses'[r])
    <3>1. r \in DOMAIN responses /\ r \notin job.removed /\ responses'[r] = responses[r]
      BY <1>1, <2>1, CommitRows
    <3>2. ~Past(responses[r])
      BY <1>1, <2>1, <3>1, AllSwept DEF DueResponses
    <3>3. QED
      BY <2>2, <3>1, <3>2, PastIsOver DEF Tables
  <2>8. ASSUME NEW x \in job.theirs \ job.skipped
        PROVE  x \notin AllRows'
    <3>1. x \in job.removed /\ x \in Gone
      BY <1>1, <2>1, AllSwept
    <3>2. x \in Row
      BY <1>1 DEF RInv, JobShape, Job
    <3>3. CASE x \in Account \cup Space
      <4>1. /\ x \in Account => ~There(user'[x])
            /\ x \in Space => ~There(space'[x])
        BY <1>1, <3>1, CommitRows
      <4>2. QED
        BY <2>3, <3>3, <4>1 DEF RowsFit, There
    <3>4. CASE x \in SurveyId
      <4>1. \A s \in surveys' : Id(s) # x
        BY <1>1, <3>1, CommitRows
      <4>2. QED
        BY <2>3, <3>4, <4>1 DEF RowsFit, Id
    <3>5. CASE x \in Participant \cup Response
      <4>1. x \notin people' /\ x \notin DOMAIN responses'
        BY <1>1, <3>1, CommitRows
      <4>2. QED
        BY <2>3, <3>5, <4>1 DEF RowsFit
    <3>6. CASE x \in Session
      BY <2>3, <3>6 DEF RowsFit
    <3>7. QED
      BY <3>2, <3>3, <3>4, <3>5, <3>6 DEF Row
  <2>9. QED
    BY <2>4, <2>5, <2>6, <2>7, <2>8
<1>2. RInv /\ RInv' /\ [RetentionNext]_allVars => [Complete]_allVars
  BY <1>1
<1>3. QED
  BY <1>2, AlwaysRInv, PTL DEF RetentionSpec, SweepComplete


-----------------------------------------------------------------------------
(* What a statement is refused for.                                        *)

LEMMA BlockedBy ==
    ASSUME RInv, job.pc # "refused", NEW pc, NEW xs, NEW children \in SUBSET Row, NEW next,
           Removes(pc, xs, children, next)
    PROVE  job'.blocked \subseteq children \ job.removed
<1>1. JobShape /\ job \in Job /\ job.blocked = {}
  BY DEF RInv, JobShape
<1>2. CASE children \subseteq job.removed
  <2>1. job' = [job EXCEPT !.removed = job.removed \cup xs, !.pc = next]
    BY <1>2 DEF Removes, Becomes
  <2>2. job'.blocked = {}
    BY <1>1, <2>1 DEF Job
  <2>3. QED
    BY <2>2
<1>3. CASE ~(children \subseteq job.removed)
  <2>1. job' = Refused(children \ job.removed) /\ children \ job.removed \in SUBSET Row
    BY <1>3 DEF Removes, Becomes
  <2>2. QED
    BY <1>1, <2>1, RefusedFields
<1>4. QED
  BY <1>2, <1>3

\* What a due account wrote and was not removed is an orphan.
LEMMA LeftAreOrphans ==
    ASSUME RInv, job.pc \in AfterSpaces
    PROVE  (WrittenBy(DueUsers) \ job.removed) \cap job.before \subseteq Orphans
<1>1. /\ Tables /\ IdsFit /\ Written /\ Together /\ DatedFit /\ DueRemoved
      /\ job.pc \in AfterSurveys
  BY IdsStand, Stages DEF RInv, Base, Swept
<1>2. SUFFICES ASSUME NEW s \in surveys, s.by \in DueUsers, Id(s) \notin job.removed,
                      Id(s) \in job.before
               PROVE  Live(space[s.of]) /\ ~Live(user[s.by])
  BY DEF WrittenBy, Orphans
<1>3. Id(s) \notin Doomed
  BY <1>1, <1>2 DEF DueRemoved
<1>4. s.of \notin DueSpaces /\ s.of \in Space /\ s.by \in Account
  BY <1>1, <1>3, DoomedStand DEF IdsFit
<1>5. There(space[s.of]) /\ space[s.of].owner = s.by
  BY <1>1 DEF Written
<1>6. s.by \notin job.dated
  BY <1>1, <1>4, <1>5 DEF DatedFit, DueSpaces
<1>7. Past(user[s.by].deleted) /\ ~Live(user[s.by])
  BY <1>2, <1>6 DEF DueUsers, Past, Live
<1>8. space[s.of].deleted # Never => space[s.of].deleted = user[s.by].deleted
  BY <1>1, <1>4, <1>5 DEF Together
<1>9. QED
  BY <1>4, <1>5, <1>7, <1>8 DEF DueSpaces, Live

LEMMA StatementsMeet ==
    ASSUME RInv, job.pc # "refused", Statement
    PROVE  job'.blocked \cap job.before \subseteq Orphans
<1>1. /\ Tables /\ IdsFit /\ RowsFit /\ DueRemoved /\ BeforeStays /\ JobShape /\ job \in Job
      /\ job.blocked = {} /\ Written
  BY IdsStand, RowsStand DEF RInv, Base, Swept, JobShape
<1>2. CASE EraseAnswers \/ PurgeResponses \/ PurgeContents \/ PurgeSessions
  BY <1>2, BlockedBy DEF EraseAnswers, PurgeResponses, PurgeContents, PurgeSessions
<1>3. CASE ErasePeople
  <2>1. /\ Removes("people", Subject(job.address), AnswersOf(Subject(job.address)), "responses")
        /\ job.pc = "people"
    BY <1>3 DEF ErasePeople, Removes
  <2>2. AnswersOf(Subject(job.address)) \in SUBSET Row
    BY OfKinds, RowKinds
  <2>3. job'.blocked \subseteq AnswersOf(Subject(job.address)) \ job.removed
    BY <2>1, <2>2, BlockedBy
  <2>4. job.kind = "erasure" /\ job.pc \in AfterAnswers
    BY <1>1, <2>1, Stages DEF JobShape
  <2>5. \A r \in AnswersOf(Subject(job.address)) : r \in Response /\ r.from = job.address
    BY <1>1 DEF AnswersOf, Subject, IdsFit, Tables
  <2>6. AnswersOf(Subject(job.address)) \cap job.before \subseteq job.removed
    BY <1>1, <2>4, <2>5 DEF DueRemoved
  <2>7. QED
    BY <2>3, <2>6
<1>4. CASE PurgeVersions
  <2>1. /\ job.pc = "versions"
        /\ \/ job' = [job EXCEPT !.emptied = Doomed, !.removed = job.removed \cup PeopleOf(Doomed),
                                 !.pc = "surveys"]
           \/ job' = Refused(ResponsesOf(Doomed) \ job.removed)
    BY <1>4 DEF PurgeVersions, Becomes
  <2>2. ResponsesOf(Doomed) \ job.removed \in SUBSET Row
    BY OfKinds, RowKinds
  <2>3. job'.blocked = {} \/ job'.blocked = ResponsesOf(Doomed) \ job.removed
    <3>1. job' = Refused(ResponsesOf(Doomed) \ job.removed) =>
              job'.blocked = ResponsesOf(Doomed) \ job.removed
      BY <1>1, <2>2, RefusedFields
    <3>2. QED
      BY <1>1, <2>1, <3>1 DEF Job
  <2>4. ResponsesOf(Doomed) \cap job.before \subseteq job.removed
    BY <1>1, <2>1, Stages DEF DueRemoved
  <2>5. QED
    BY <2>3, <2>4
<1>5. CASE PurgeSurveys
  <2> DEFINE children == (Doomed \ job.emptied) \cup (PeopleOf(Doomed) \ job.removed)
  <2>1. /\ job.pc = "surveys"
        /\ \/ job' = [job EXCEPT !.removed = job.removed \cup Doomed, !.pc = "spaces"]
           \/ job' = Refused(children)
    BY <1>5 DEF PurgeSurveys, Becomes
  <2>2. children \in SUBSET Row
    BY OfKinds, RowKinds
  <2>3. /\ Doomed \cap job.before \subseteq job.emptied
        /\ PeopleOf(Doomed) \cap job.before \subseteq job.removed
    BY <1>1, <2>1, Stages DEF DueRemoved
  <2>4. children \cap job.before = {}
    BY <2>3
  <2> HIDE DEF children
  <2>5. job'.blocked = {} \/ job'.blocked = children
    <3>1. job' = Refused(children) => job'.blocked = children
      BY <1>1, <2>2, RefusedFields
    <3>2. QED
      BY <1>1, <2>1, <3>1 DEF Job
  <2>6. QED
    BY <2>4, <2>5
<1>6. CASE PurgeSpaces
  <2> DEFINE children == {Id(s) : s \in {t \in surveys : t.of \in DueSpaces}}
  <2>1. Removes("spaces", DueSpaces, children, "authors") /\ job.pc = "spaces"
    BY <1>6 DEF PurgeSpaces, Removes
  <2>2. children \subseteq Doomed /\ children \in SUBSET Row
    BY OfKinds, RowKinds DEF Doomed
  <2>3. Doomed \cap job.before \subseteq job.removed
    BY <1>1, <2>1, Stages DEF DueRemoved
  <2> HIDE DEF children
  <2>4. job'.blocked \subseteq children \ job.removed
    BY <2>1, <2>2, BlockedBy
  <2>5. QED
    BY <2>2, <2>3, <2>4
<1>7. CASE DetachAuthors
  <2>1. Removes("authors", {}, WrittenBy(DueUsers), "sessions") /\ job.pc = "authors"
    BY <1>7 DEF DetachAuthors, Removes
  <2>2. WrittenBy(DueUsers) \in SUBSET Row
    BY OfKinds, RowKinds
  <2>3. job'.blocked \subseteq WrittenBy(DueUsers) \ job.removed
    BY <2>1, <2>2, BlockedBy
  <2>4. QED
    BY <2>1, <2>3, LeftAreOrphans, Stages
<1>8. CASE PurgeUsers
  <2> DEFINE children == SessionsOf(DueUsers) \cup WrittenBy(DueUsers)
  <2>1. Removes("users", DueUsers, children, "commit") /\ job.pc = "users"
    BY <1>8 DEF PurgeUsers, Removes
  <2>2. children \in SUBSET Row /\ SessionsOf(DueUsers) \subseteq Session
    BY OfKinds DEF Row
  <2>3. SessionsOf(DueUsers) \cap job.before = {}
    BY <1>1, <2>1, <2>2, Stages DEF BeforeStays, RowsFit
  <2>4. job'.blocked \subseteq children \ job.removed
    BY <2>1, <2>2, BlockedBy
  <2>5. QED
    BY <2>1, <2>3, <2>4, LeftAreOrphans, Stages
<1>9. QED
  BY <1>2, <1>3, <1>4, <1>5, <1>6, <1>7, <1>8 DEF Statement

(***************************************************************************)
(* No statement of the purge meets a row that was there when it began and  *)
(* should have gone before it, but what a closed account has in a          *)
(* workspace made after it was closed (steps: "children before parents,    *)
(* always").                                                               *)
(***************************************************************************)
THEOREM GoesThroughAlways == RetentionSpec => PurgeGoesThrough
<1>1. ASSUME RInv, [RetentionNext]_allVars, job.pc # "refused"
      PROVE  job'.blocked \cap job.before \subseteq Orphans
  <2>1. job.blocked = {}
    BY <1>1 DEF RInv, JobShape
  <2>2. NoJob.blocked = {}
    BY DEF NoJob
  <2>3. CASE Aside
    BY <1>1, <2>1, <2>3, AsideKeeps DEF Spares
  <2>4. CASE NextDay
    BY <2>1, <2>4 DEF NextDay
  <2>5. CASE Statement
    BY <1>1, <2>5, StatementsMeet
  <2>6. CASE Commit \/ Over
    BY <2>2, <2>6 DEF Commit, Over, Becomes
  <2>7. CASE \E kind \in {"purge", "rehearsal"} : Start(kind)
    BY <2>7 DEF Start, Becomes, NoJob
  <2>8. CASE \E a \in Address : EraseSubject(a)
    BY <2>8 DEF EraseSubject, Becomes, NoJob
  <2>9. QED
    BY <1>1, <2>3, <2>4, <2>5, <2>6, <2>7, <2>8, StepIs
<1>2. RInv /\ [RetentionNext]_allVars =>
          [job.pc # "refused" => job'.blocked \cap job.before \subseteq Orphans]_allVars
  BY <1>1
<1>3. QED
  BY <1>2, AlwaysRInv, PTL DEF RetentionSpec, PurgeGoesThrough

-----------------------------------------------------------------------------
(* Single steps of a list of members.                                      *)

LEMMA ListedInit == Init => Registered!Init
BY DEF Init, Registered!Init, Registered!Nobody, Registered!Nowhere, Listed, Housed, State, There,
       NoUser, NoSpace

LEMMA ListStays ==
    ASSUME UNCHANGED <<user, space>>
    PROVE  UNCHANGED <<Listed, Housed>>
BY DEF Listed, Housed, State, There, Live

\* One account's row is another, and one workspace's.
LEMMA ListedAs ==
    ASSUME user \in [Account -> User], NEW u \in Account, NEW k,
           user' = [user EXCEPT ![u] = k]
    PROVE  Listed' = [Listed EXCEPT ![u] = [state |-> State(k), address |-> k.address,
                                            sub |-> k.sub]]
<1>1. user'[u] = k /\ \A v \in Account \ {u} : user'[v] = user[v]
  OBVIOUS
<1> DEFINE Seen(row) == [state |-> State(row), address |-> row.address, sub |-> row.sub]
<1>2. Listed = [v \in Account |-> Seen(user[v])] /\ Listed' = [v \in Account |-> Seen(user'[v])]
  BY DEF Listed, State, There, Live
<1> HIDE DEF Seen
<1>3. Listed' = [Listed EXCEPT ![u] = Seen(k)]
  BY <1>1, <1>2
<1>4. QED
  BY <1>3 DEF Seen

LEMMA HousedAs ==
    ASSUME space \in [Space -> Workspace], NEW w \in Space, NEW k,
           space' = [space EXCEPT ![w] = k]
    PROVE  Housed' = [Housed EXCEPT ![w] = [state |-> State(k), owner |-> k.owner]]
<1>1. space'[w] = k /\ \A x \in Space \ {w} : space'[x] = space[x]
  OBVIOUS
<1> DEFINE Seen(row) == [state |-> State(row), owner |-> row.owner]
<1>2. Housed = [x \in Space |-> Seen(space[x])] /\ Housed' = [x \in Space |-> Seen(space'[x])]
  BY DEF Housed, State, There, Live
<1> HIDE DEF Seen
<1>3. Housed' = [Housed EXCEPT ![w] = Seen(k)]
  BY <1>1, <1>2
<1>4. QED
  BY <1>3 DEF Seen

\* What the list says of each.
LEMMA ListSays ==
    /\ \A u \in Account : /\ Listed[u].state = "live" <=> Live(user[u])
                          /\ Listed[u].state = "none" <=> ~There(user[u])
                          /\ Listed[u].state = "closed" <=> There(user[u]) /\ ~Live(user[u])
                          /\ Listed[u].address = user[u].address /\ Listed[u].sub = user[u].sub
    /\ \A w \in Space : /\ Housed[w].state = "live" <=> Live(space[w])
                        /\ Housed[w].state = "none" <=> ~There(space[w])
                        /\ Housed[w].state = "closed" <=> There(space[w]) /\ ~Live(space[w])
                        /\ Housed[w].owner = space[w].owner
    /\ Registered!Members = LiveUsers
BY DEF Listed, Housed, State, Live, Registered!Members, LiveUsers

LEMMA CommitLoginLists ==
    ASSUME IInv, NEW r \in Request, CommitLogin(r)
    PROVE  Registered!Step \/ UNCHANGED <<Listed, Housed>>
<1> DEFINE u == req[r].user
           w == req[r].space
           a == req[r].address
           x == req[r].sub
           new == [row |-> "there", address |-> a, sub |-> x, password |-> req[r].password,
                   deleted |-> Never, made |-> req[r].code]
           home == [row |-> "there", owner |-> u, deleted |-> Never]
<1>1. /\ req[r].pc = "commit"
      /\ user' = IF req[r].fresh THEN [user EXCEPT ![u] = new]
                 ELSE IF req[r].linked THEN [user EXCEPT ![u] = [user[u] EXCEPT !.sub = x]]
                 ELSE user
      /\ IF w = None THEN space' = space ELSE space' = [space EXCEPT ![w] = home]
  BY DEF CommitLogin, AtStage
<1>2. /\ ShapeOf(req[r]) /\ ClaimsOf(req[r])
      /\ user \in [Account -> User] /\ space \in [Space -> Workspace]
  BY DEF IInv, Shapes, Claims, TypeOK
<1>3. /\ u \in Account /\ w \in Space \cup {None}
      /\ a \in Address \cup {None} /\ x \in Sub \cup {None}
      /\ req[r].fresh \in BOOLEAN /\ req[r].linked \in BOOLEAN
  BY <1>1, <1>2, ReqFields DEF IInv, ShapeOf, Located
<1>4. CASE req[r].fresh
  <2>1. w \in Space /\ a \in Address
    BY <1>1, <1>2, <1>3, <1>4 DEF ShapeOf
  <2>2. user' = [user EXCEPT ![u] = new] /\ space' = [space EXCEPT ![w] = home]
    BY <1>1, <1>4, <2>1, NoneAssumption
  <2>3. Listed' = [Listed EXCEPT ![u] = [state |-> "live", address |-> a, sub |-> x]]
    <3>1. State(new) = "live" /\ new.address = a /\ new.sub = x
      BY DEF State, There, Live
    <3> HIDE DEF new
    <3>2. QED
      BY <1>2, <1>3, <2>2, <3>1, ListedAs
  <2>4. Housed' = [Housed EXCEPT ![w] = [state |-> "live", owner |-> u]]
    <3>1. State(home) = "live" /\ home.owner = u
      BY DEF State, There, Live
    <3> HIDE DEF home
    <3>2. QED
      BY <1>2, <2>1, <2>2, <3>1, HousedAs
  <2>5. Listed[u].state = "none" /\ Housed[w].state = "none"
    BY <1>2, <1>3, <1>4, <2>1, ListSays, NoneAssumption DEF ClaimsOf
  <2>6. Registered!Unclaimed(u, a, x)
    BY <1>2, <1>4, ListSays DEF ClaimsOf, Registered!Unclaimed, LiveUsers
  <2>7. Registered!Enrol(u, w, a, x)
    BY <2>3, <2>4, <2>5, <2>6 DEF Registered!Enrol
  <2>8. QED
    BY <1>3, <2>1, <2>7 DEF Registered!Step
<1>5. CASE ~req[r].fresh /\ req[r].linked
  <2> DEFINE k == [user[u] EXCEPT !.sub = x]
  <2>1. Live(user[u]) /\ x \in Sub /\ w = None
    BY <1>2, <1>3, <1>5 DEF ClaimsOf, ShapeOf
  <2>2. user' = [user EXCEPT ![u] = k] /\ space' = space
    BY <1>1, <1>5, <2>1
  <2>3. State(k) = State(user[u]) /\ k.address = user[u].address /\ k.sub = x
    <3>1. user[u] \in User
      BY <1>2, <1>3
    <3>2. QED
      BY <3>1 DEF User, State, There, Live
  <2> HIDE DEF k
  <2>4. Listed' = [Listed EXCEPT ![u] = [Listed[u] EXCEPT !.sub = x]]
    <3>1. Listed[u] = [state |-> State(user[u]), address |-> user[u].address,
                       sub |-> user[u].sub]
      BY <1>3 DEF Listed
    <3>2. [Listed[u] EXCEPT !.sub = x] = [state |-> State(k), address |-> k.address,
                                          sub |-> k.sub]
      BY <2>3, <3>1
    <3>3. QED
      BY <1>2, <1>3, <2>2, <3>2, ListedAs
  <2>5. Housed' = Housed
    BY <2>2 DEF Housed, State, There, Live
  <2>6. Registered!Unclaimed(u, None, x)
    BY <1>2, <1>5, ListSays, UserFields DEF ClaimsOf, Registered!Unclaimed, LiveUsers, IInv, Live
  <2>7. Registered!Join(u, x)
    BY <1>3, <2>1, <2>4, <2>5, <2>6, ListSays DEF Registered!Join, LiveUsers
  <2>8. QED
    BY <1>3, <2>1, <2>7 DEF Registered!Step
<1>6. CASE ~req[r].fresh /\ ~req[r].linked
  <2>1. user' = user
    BY <1>1, <1>6
  <2>2. CASE w = None
    BY <1>1, <2>1, <2>2, ListStays
  <2>3. CASE w # None
    <3>1. /\ w \in Space /\ There(user[u]) /\ ~Live(user[u]) /\ ~There(space[w])
          /\ space' = [space EXCEPT ![w] = home]
      BY <1>1, <1>2, <1>3, <1>6, <2>3 DEF ClaimsOf
    <3>2. State(home) = "live" /\ home.owner = u
      BY DEF State, There, Live
    <3> HIDE DEF home
    <3>3. Housed' = [Housed EXCEPT ![w] = [state |-> "live", owner |-> u]]
      BY <1>2, <3>1, <3>2, HousedAs
    <3>4. Listed' = Listed
      BY <2>1 DEF Listed, State, There, Live
    <3>5. Registered!Stray(u, w)
      BY <1>3, <3>1, <3>3, <3>4, ListSays DEF Registered!Stray
    <3>6. QED
      BY <1>3, <3>1, <3>5 DEF Registered!Step
  <2>4. QED
    BY <2>2, <2>3
<1>7. QED
  BY <1>3, <1>4, <1>5, <1>6

LEMMA UpdateUserEmailLists ==
    ASSUME IInv, NEW r \in Request, UpdateUserEmail(r)
    PROVE  Registered!Step \/ UNCHANGED <<Listed, Housed>>
<1> DEFINE u == req[r].user
           a == req[r].address
           k == [user[u] EXCEPT !.address = a]
<1>1. /\ req[r].pc = "rename" /\ space' = space
      /\ user' = IF Live(user[u]) /\ WithAddress(a) \subseteq {u}
                 THEN [user EXCEPT ![u] = k] ELSE user
  BY DEF UpdateUserEmail, AtStage
<1>2. ShapeOf(req[r]) /\ user \in [Account -> User]
  BY DEF IInv, Shapes, TypeOK
<1>3. u \in Account /\ a \in Address
  BY <1>1, <1>2, ReqFields DEF IInv, ShapeOf, Located
<1>4. CASE user' = user
  BY <1>1, <1>4, ListStays
<1>5. CASE user' # user
  <2>1. Live(user[u]) /\ WithAddress(a) \subseteq {u} /\ user' = [user EXCEPT ![u] = k]
    BY <1>1, <1>5
  <2>2. State(k) = State(user[u]) /\ k.address = a /\ k.sub = user[u].sub
    <3>1. user[u] \in User
      BY <1>2, <1>3
    <3>2. QED
      BY <3>1 DEF User, State, There, Live
  <2> HIDE DEF k
  <2>3. Listed' = [Listed EXCEPT ![u] = [Listed[u] EXCEPT !.address = a]]
    <3>1. Listed[u] = [state |-> State(user[u]), address |-> user[u].address,
                       sub |-> user[u].sub]
      BY <1>3 DEF Listed
    <3>2. [Listed[u] EXCEPT !.address = a] = [state |-> State(k), address |-> k.address,
                                              sub |-> k.sub]
      BY <2>2, <3>1
    <3>3. QED
      BY <1>2, <1>3, <2>1, <3>2, ListedAs
  <2>4. Housed' = Housed
    BY <1>1 DEF Housed, State, There, Live
  <2>5. Registered!Unclaimed(u, a, None)
    BY <2>1, ListSays DEF Registered!Unclaimed, LiveUsers, WithAddress
  <2>6. Registered!Rename(u, a)
    BY <1>3, <2>1, <2>3, <2>4, <2>5, ListSays DEF Registered!Rename, LiveUsers
  <2>7. QED
    BY <1>3, <2>6 DEF Registered!Step
<1>6. QED
  BY <1>4, <1>5

LEMMA SetUserPasswordLists ==
    ASSUME IInv, NEW r \in Request, NEW u \in Account, SetUserPassword(r, u)
    PROVE  UNCHANGED <<Listed, Housed>>
<1> DEFINE k == [user[u] EXCEPT !.password = user[u].password + 1]
<1>1. user' = [user EXCEPT ![u] = k] /\ space' = space
  BY DEF SetUserPassword
<1>2. user \in [Account -> User]
  BY DEF IInv, TypeOK
<1>3. State(k) = State(user[u]) /\ k.address = user[u].address /\ k.sub = user[u].sub
  BY <1>2 DEF User, State, There, Live
<1> HIDE DEF k
<1>4. Listed[u] = [state |-> State(k), address |-> k.address, sub |-> k.sub]
  BY <1>3 DEF Listed
<1>5. Listed' = [Listed EXCEPT ![u] = Listed[u]]
  BY <1>1, <1>2, <1>4, ListedAs
<1>6. Listed' = Listed
  BY <1>5 DEF Listed
<1>7. Housed' = Housed
  BY <1>1 DEF Housed, State, There, Live
<1>8. QED
  BY <1>6, <1>7

LEMMA DeleteAccountLists ==
    ASSUME IInv, NEW r \in Request, DeleteAccount(r)
    PROVE  Registered!Step \/ UNCHANGED <<Listed, Housed>>
<1> DEFINE u == req[r].user
           k == [user[u] EXCEPT !.deleted = day]
<1>1. /\ req[r].pc = "close"
      /\ space' = [w \in Space |-> IF w \in LiveSpacesOf(u)
                                   THEN [space[w] EXCEPT !.deleted = day] ELSE space[w]]
      /\ user' = IF Live(user[u]) THEN [user EXCEPT ![u] = k] ELSE user
  BY DEF DeleteAccount, AtStage
<1>2. /\ ShapeOf(req[r]) /\ user \in [Account -> User] /\ space \in [Space -> Workspace]
      /\ day \in 0..MaxDay
  BY DEF IInv, Shapes, TypeOK
<1>3. u \in Account
  BY <1>1, <1>2, ReqFields DEF IInv, ShapeOf, Located
<1>4. day # Never
  BY <1>2, BoundsAssumption DEF Never
<1>5. CASE ~There(user[u])
  <2>1. LiveSpacesOf(u) = {}
    BY <1>5 DEF IInv, Owned, LiveSpacesOf, Live
  <2>2. user' = user /\ space' = space
    BY <1>1, <1>2, <1>5, <2>1 DEF Live
  <2>3. QED
    BY <2>2, ListStays
<1>6. CASE There(user[u])
  <2>1. Listed' = [Listed EXCEPT ![u] = [Listed[u] EXCEPT !.state = "closed"]]
    <3>1. Listed[u] = [state |-> State(user[u]), address |-> user[u].address,
                       sub |-> user[u].sub]
      BY <1>3 DEF Listed
    <3>2. CASE Live(user[u])
      <4>1. State(k) = "closed" /\ k.address = user[u].address /\ k.sub = user[u].sub
        <5>1. user[u] \in User
          BY <1>2, <1>3
        <5>2. QED
          BY <1>4, <1>6, <5>1 DEF User, State, There, Live
      <4>2. user' = [user EXCEPT ![u] = k]
        BY <1>1, <3>2
      <4> HIDE DEF k
      <4>3. [Listed[u] EXCEPT !.state = "closed"] = [state |-> State(k), address |-> k.address,
                                                     sub |-> k.sub]
        BY <3>1, <4>1
      <4>4. QED
        BY <1>2, <1>3, <4>2, <4>3, ListedAs
    <3>3. CASE ~Live(user[u])
      <4>1. Listed' = Listed
        BY <1>1, <3>3 DEF Listed, State, There, Live
      <4>2. State(user[u]) = "closed"
        BY <1>6, <3>3 DEF State
      <4>3. [Listed[u] EXCEPT !.state = "closed"] = Listed[u]
        BY <3>1, <4>2
      <4>4. Listed = [Listed EXCEPT ![u] = Listed[u]]
        BY DEF Listed
      <4>5. QED
        BY <4>1, <4>3, <4>4
    <3>4. QED
      BY <3>2, <3>3
  <2>2. Registered!HomesOf(u) = LiveSpacesOf(u)
    BY ListSays DEF Registered!HomesOf, LiveSpacesOf
  <2>3. ASSUME NEW w \in Space
        PROVE  Housed'[w] = IF w \in LiveSpacesOf(u)
                            THEN [Housed[w] EXCEPT !.state = "closed"] ELSE Housed[w]
    <3>1. /\ Housed[w] = [state |-> State(space[w]), owner |-> space[w].owner]
          /\ Housed'[w] = [state |-> State(space'[w]), owner |-> space'[w].owner]
      BY DEF Housed, State, There, Live
    <3>2. CASE w \in LiveSpacesOf(u)
      <4>1. There(space[w]) /\ space[w] \in Workspace
        BY <1>2, <3>2 DEF LiveSpacesOf, Live
      <4>2. space'[w] = [space[w] EXCEPT !.deleted = day]
        BY <1>1, <3>2
      <4>3. State(space'[w]) = "closed" /\ space'[w].owner = space[w].owner
        BY <1>4, <4>1, <4>2 DEF Workspace, State, There, Live
      <4>4. QED
        BY <3>1, <3>2, <4>3
    <3>3. CASE w \notin LiveSpacesOf(u)
      <4>1. space'[w] = space[w]
        BY <1>1, <3>3
      <4>2. QED
        BY <3>1, <3>3, <4>1
    <3>4. QED
      BY <3>2, <3>3
  <2>4. Housed' = [w \in Space |-> IF w \in LiveSpacesOf(u)
                                   THEN [Housed[w] EXCEPT !.state = "closed"] ELSE Housed[w]]
    <3>1. Housed' = [w \in Space |-> Housed'[w]]
      BY DEF Housed
    <3>2. QED
      BY <2>3, <3>1
  <2>5. Registered!Close(u)
    BY <1>3, <1>6, <2>1, <2>2, <2>4, ListSays DEF Registered!Close
  <2>6. QED
    BY <1>3, <2>5 DEF Registered!Step
<1>7. QED
  BY <1>5, <1>6

LEMMA NextLists ==
    ASSUME IInv, [Next]_vars
    PROVE  Registered!Step \/ UNCHANGED <<Listed, Housed>>
<1>1. CASE UNCHANGED <<user, space>>
  BY <1>1, ListStays
<1>2. ASSUME NEW r \in Request, SignIn(r)
      PROVE  UNCHANGED <<user, space>> \/ CommitLogin(r)
  BY <1>2 DEF SignIn, ConsumeMagicToken, GoogleCallback, SubmitSignup, CheckPassword, FindBySub,
     FindByEmail, Backfill, CreateUser, HoldCode, ConsumeBetaCode, FindHome, ReadSpace,
     CreateSession, rows
<1>3. ASSUME NEW r \in Request, Manage(r)
      PROVE  \/ UNCHANGED <<user, space>> \/ UpdateUserEmail(r) \/ DeleteAccount(r)
             \/ \E u \in Account : SetUserPassword(r, u)
  BY <1>3 DEF Manage, SubmitEmail, SubmitClose, DeleteSessions, rows
<1>4. CASE \E r \in Request : SignIn(r)
  BY <1>1, <1>2, <1>4, CommitLoginLists
<1>5. CASE \E r \in Request : Manage(r)
  BY <1>1, <1>3, <1>5, UpdateUserEmailLists, DeleteAccountLists, SetUserPasswordLists
<1>6. CASE \/ \E r \in Request : Abort(r)
           \/ \E l \in Link, a \in Address : RequestMagicLink(l, a)
           \/ \E s \in sessions : Logout(s)
           \/ \E c \in Code : RevokeBetaCode(c)
           \/ UNCHANGED vars
  BY <1>1, <1>6 DEF Abort, RequestMagicLink, Logout, RevokeBetaCode, rows, vars
<1>7. QED
  BY <1>4, <1>5, <1>6 DEF Next

(***************************************************************************)
(* Whatever windows sign in, sign up, move to another address and close at *)
(* once, statement by statement, each amounts to single steps of a list of *)
(* members: who is enrolled, linked or renamed takes no other live         *)
(* member's address or identity, is enrolled with a workspace, and leaves  *)
(* with every workspace they have (login, SignupWithCode, ChangeEmail,     *)
(* DeleteAccount).                                                         *)
(***************************************************************************)
THEOREM AccountsImplement == Spec => ImplementsRegistry
<1>1. IInv /\ [Next]_vars => [Registered!Next]_<<Listed, Housed>>
  BY NextLists DEF Registered!Next
<1>2. QED
  BY <1>1, ListedInit, AlwaysIInv, PTL DEF Spec, ImplementsRegistry, Registered!Spec

LEMMA CommitLists ==
    ASSUME RInv, Commit
    PROVE  Registered!Step \/ UNCHANGED <<Listed, Housed>>
<1>1. /\ \A u \in Account : user'[u] = IF u \in Gone THEN NoUser ELSE user[u]
      /\ \A w \in Space : space'[w] = IF w \in Gone THEN NoSpace ELSE space[w]
      /\ job.pc = "commit"
  BY CommitRows
<1>2. /\ Gone \subseteq job.removed
      /\ \A w \in Space : There(space[w]) /\ space[w].owner \in Gone => w \in Gone
      /\ \A w \in Space : Live(space[w]) /\ w \in Gone =>
            ~Live(user[space[w].owner]) \/ space[w].owner \in Gone
  BY <1>1, GoneFits
<1>3. /\ RemovedDue /\ DatedFit /\ Owned /\ Homes /\ TypeOK /\ job \in Job
  BY DEF RInv, Base, IInv, Swept, JobShape
<1>4. job.address \in Address \cup {None}
  BY <1>3 DEF Job
<1>5. ASSUME NEW u \in Account, u \in Gone
      PROVE  There(user[u]) /\ (Live(user[u]) => user[u].address = job.address)
  BY <1>2, <1>3, <1>5 DEF RemovedDue, DueUsers, DatedFit, Past, Live
<1>6. ASSUME NEW w \in Space, w \in Gone
      PROVE  /\ There(space[w]) /\ space[w].owner \in Account
             /\ Live(space[w]) => user[space[w].owner].address = job.address
  <2>1. There(space[w]) /\ (Live(space[w]) => w \in job.dated)
    BY <1>2, <1>3, <1>6 DEF RemovedDue, DueSpaces, Past, Live
  <2>2. space[w].owner \in Account
    BY <2>1, OwnerThere DEF RInv, Base
  <2>3. QED
    BY <1>3, <2>1, <2>2 DEF DatedFit
<1>7. /\ \A u \in Account : Listed'[u] = IF u \in Gone THEN Registered!Nobody ELSE Listed[u]
      /\ \A w \in Space : Housed'[w] = IF w \in Gone THEN Registered!Nowhere ELSE Housed[w]
  BY <1>1 DEF Listed, Housed, State, There, Live, NoUser, NoSpace, Registered!Nobody,
              Registered!Nowhere
<1>8. /\ \A u \in Account : u \in Gone <=> u \in Registered!Struck
      /\ \A w \in Space : w \in Gone <=> w \in Registered!Demolished
  <2>1. \A u \in Account : u \in Registered!Struck => u \in Gone
    BY <1>7 DEF Registered!Struck, Registered!Nobody
  <2>2. \A w \in Space : w \in Registered!Demolished => w \in Gone
    BY <1>7 DEF Registered!Demolished, Registered!Nowhere
  <2>3. \A u \in Account : u \in Gone => u \in Registered!Struck
    BY <1>5, <1>7, ListSays DEF Registered!Struck
  <2>4. \A w \in Space : w \in Gone => w \in Registered!Demolished
    BY <1>6, <1>7, ListSays DEF Registered!Demolished
  <2>5. QED
    BY <2>1, <2>2, <2>3, <2>4
<1>9. /\ Listed' = [u \in Account |-> IF u \in Registered!Struck
                                      THEN Registered!Nobody ELSE Listed[u]]
      /\ Housed' = [w \in Space |-> IF w \in Registered!Demolished
                                    THEN Registered!Nowhere ELSE Housed[w]]
  <2>1. /\ Listed' = [u \in Account |-> Listed'[u]]
        /\ Housed' = [w \in Space |-> Housed'[w]]
    BY DEF Listed, Housed
  <2>2. QED
    BY <1>7, <1>8, <2>1
<1>10. \A u \in Registered!Struck :
          Listed[u].state = "closed" \/ Listed[u].address = job.address
  <2>1. Registered!Struck \subseteq Account
    BY DEF Registered!Struck
  <2>2. QED
    BY <1>5, <1>8, <2>1, ListSays
<1>11. \A w \in Registered!Demolished :
          Housed[w].state = "closed" \/ Listed[Housed[w].owner].address = job.address
  <2>1. Registered!Demolished \subseteq Space
    BY DEF Registered!Demolished
  <2>2. QED
    BY <1>6, <1>8, <2>1, ListSays
<1>12. \A w \in Space : Housed[w].state # "none" /\ Housed[w].owner \in Registered!Struck =>
          w \in Registered!Demolished
  <2>1. Registered!Struck \subseteq Account
    BY DEF Registered!Struck
  <2>2. QED
    BY <1>2, <1>8, <2>1, ListSays
<1>13. \A u \in Registered!Members \ Registered!Struck :
          Registered!HomesOf(u) \cap Registered!Demolished = {}
  <2>1. SUFFICES ASSUME NEW u \in LiveUsers, u \notin Gone, NEW w \in Space, w \in Gone,
                        Live(space[w]), space[w].owner = u
                 PROVE  FALSE
    BY <1>8, ListSays DEF Registered!HomesOf, LiveUsers
  <2>2. QED
    BY <1>2, <2>1 DEF LiveUsers
<1>14. Registered!Strike(job.address)
  BY <1>9, <1>10, <1>11, <1>12, <1>13 DEF Registered!Strike
<1>15. QED
  BY <1>4, <1>14 DEF Registered!Step

(***************************************************************************)
(* The nightly purge and an erasure beside the requests are steps of that  *)
(* list too: whole accounts are struck off at once with all they own, who  *)
(* had left or is the person to be erased, and no live account is left     *)
(* without its workspace (purge.Run, EraseSubject, and as above).          *)
(***************************************************************************)
THEOREM RetentionImplements == RetentionSpec => ImplementsRegistry
<1>1. ASSUME RInv, [RetentionNext]_allVars
      PROVE  [Registered!Next]_<<Listed, Housed>>
  <2>1. CASE UNCHANGED <<user, space>>
    BY <2>1, ListStays
  <2>2. CASE Next
    BY <1>1, <2>2, NextLists DEF RInv, Base, Registered!Next
  <2>3. CASE Aside /\ ~Next
    BY <2>1, <2>3 DEF Aside, BeginCreate, BeginRespond, Write, CreateSurvey, CreateResponse, Import,
       SoftDeleteResponse, SoftDeleteSurvey, allVars, vars, accounts
  <2>4. CASE NextDay
    BY <2>1, <2>4 DEF NextDay, accounts
  <2>5. CASE \E j : Becomes(j)
    BY <2>1, <2>5 DEF Becomes, accounts
  <2>6. CASE \/ Over \/ \E kind \in {"purge", "rehearsal"} : Start(kind)
             \/ \E a \in Address : EraseSubject(a)
    BY <2>5, <2>6 DEF Over, Start, EraseSubject
  <2>7. CASE Statement
    BY <2>5, <2>7 DEF Statement, Removes, EraseAnswers, ErasePeople, PurgeResponses, PurgeContents,
       PurgeVersions, PurgeSurveys, PurgeSpaces, DetachAuthors, PurgeSessions, PurgeUsers
  <2>8. CASE Commit
    BY <1>1, <2>8, CommitLists DEF Registered!Next
  <2>9. QED
    BY <1>1, <2>2, <2>3, <2>4, <2>6, <2>7, <2>8, StepIs
<1>2. RetentionInit => Registered!Init
  BY ListedInit DEF RetentionInit
<1>3. QED
  BY <1>1, <1>2, AlwaysRInv, PTL DEF RetentionSpec, ImplementsRegistry, Registered!Spec

=============================================================================
