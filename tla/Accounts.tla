------------------------------ MODULE Accounts ------------------------------
(***************************************************************************)
(* Accounts, the workspace each of them has, and the ways to sign in to    *)
(* one (internal/auth, and the handlers in front of it): a magic link,     *)
(* Google, an invite code and a password.  A request is a few statements,  *)
(* some of them in a transaction, each of which sees what is committed by  *)
(* then (READ COMMITTED); what a transaction has written, nobody else sees *)
(* until it commits, but a row it updated, or a key it inserted, makes     *)
(* others wait.  Left out: limits on how often a form may be sent, when a  *)
(* session or a link expires (a link may always be found expired), the     *)
(* exchange with Google, the names of workspaces, and operators' rights.   *)
(***************************************************************************)
EXTENDS Naturals, FiniteSets

CONSTANTS
    Account, Space,     \* ids of users and of workspaces
    Address,            \* addresses, in lower case
    Sub,                \* Google identities
    Link,               \* magic links
    Code,               \* invite codes
    Request,            \* requests under way at once
    BetaMode,           \* the private beta: accounts come of invite codes only
    None,               \* no identity, nobody
    MaxPassword,        \* bound: passwords an account has had
    MaxDay              \* bound: days

ASSUME NoneAssumption == None \notin Account \cup Space \cup Address \cup Sub \cup Link \cup Code
ASSUME BoundsAssumption == MaxPassword \in Nat /\ MaxDay \in Nat /\ BetaMode \in BOOLEAN

VARIABLES
    user,      \* users
    space,     \* workspaces, each with its owner (workspace_members)
    surveys,   \* surveys: whose workspace, who made each, when it was deleted
    sessions,  \* sessions
    link,      \* magic_link_tokens
    code,      \* beta_codes
    req,       \* the requests
    held,      \* rows the purge, or an erasure, has written and not committed
    day        \* the clock

rows == <<user, space, surveys, sessions, link, code>>
vars == <<user, space, surveys, sessions, link, code, req, held, day>>

-----------------------------------------------------------------------------

\* deleted_at; MaxDay + 1 stands for NULL.
Never == MaxDay + 1
When == 0..Never

\* "none": not there, or gone for good.  `made`: the invite code it was made with.
User ==
    {k \in [row : {"none", "there"}, address : Address \cup {None}, sub : Sub \cup {None},
            password : 0..MaxPassword, deleted : When, made : Code \cup {None}] :
        k.row = "there" => k.address # None}

Workspace == [row : {"none", "there"}, owner : Account \cup {None}, deleted : When]

SurveyRow == [of : Space, by : Account, origin : {"starter", "creator"}, deleted : When]

\* A session, and the password that opened it, if one did.
Session == [user : Account, password : 0..MaxPassword]

Stage == {"idle", "sub", "email", "insert", "backfill", "code", "consume", "home", "commit",
          "space", "session", "rename", "revoke", "close"}

\* `fresh`: the account is made in this transaction; `linked`: it is given the Google identity.
Req == [pc : Stage, address : Address \cup {None}, sub : Sub \cup {None},
        code : Code \cup {None}, user : Account \cup {None}, space : Space \cup {None},
        password : 0..MaxPassword, fresh : BOOLEAN, linked : BOOLEAN]

TypeOK ==
    /\ user \in [Account -> User]
    /\ space \in [Space -> Workspace]
    /\ surveys \subseteq SurveyRow
    /\ sessions \subseteq Session
    /\ link \in [Link -> [address : Address \cup {None}, state : {"unsent", "sent", "used"}]]
    /\ code \in [Code -> [used : BOOLEAN, revoked : BOOLEAN]]
    /\ req \in [Request -> Req]
    /\ held \in [Account \cup Space -> {"free", "dated", "removed"}]
    /\ day \in 0..MaxDay

NoUser == [row |-> "none", address |-> None, sub |-> None, password |-> 0, deleted |-> Never,
           made |-> None]
NoSpace == [row |-> "none", owner |-> None, deleted |-> Never]

Idle == [pc |-> "idle", address |-> None, sub |-> None, code |-> None,
         user |-> None, space |-> None, password |-> 0, fresh |-> FALSE, linked |-> FALSE]

Init ==
    /\ user = [u \in Account |-> NoUser]
    /\ space = [w \in Space |-> NoSpace]
    /\ surveys = {}
    /\ sessions = {}
    /\ link = [l \in Link |-> [address |-> None, state |-> "unsent"]]
    /\ code = [c \in Code |-> [used |-> FALSE, revoked |-> FALSE]]
    /\ req = [r \in Request |-> Idle]
    /\ held = [x \in Account \cup Space |-> "free"]
    /\ day = 0

-----------------------------------------------------------------------------

There(row) == row.row = "there"
Live(row) == There(row) /\ row.deleted = Never

LiveUsers == {u \in Account : Live(user[u])}
WithAddress(a) == {u \in LiveUsers : user[u].address = a}
WithSub(x) == {u \in LiveUsers : x # None /\ user[u].sub = x}
LiveSpacesOf(u) == {w \in Space : Live(space[w]) /\ space[w].owner = u}

\* Ids nobody has, nor is about to have.
FreeAccounts == {u \in Account : ~There(user[u]) /\ \A r \in Request : req[r].user # u}
FreeSpaces == {w \in Space : ~There(space[w]) /\ \A r \in Request : req[r].space # w}

AtStage(r, pc) == req[r].pc = pc
Goes(r, k) == req' = [req EXCEPT ![r] = k]
Moves(r, pc) == Goes(r, [req[r] EXCEPT !.pc = pc])
Ends(r) == Goes(r, Idle)

Writing(r) == req[r].pc \in {"consume", "home", "commit"}

\* The unique indexes on live rows: a key that is about to appear must be waited for.
Awaited(r, a, x) ==
    \E q \in Request \ {r} :
        /\ Writing(q)
        /\ \/ req[q].fresh /\ req[q].address = a
           \/ (req[q].fresh \/ req[q].linked) /\ x # None /\ req[q].sub = x

\* Fault: nothing keeps two live accounts from having one address.
TakenByIdentity(a, x) == WithSub(x) # {}

Taken(a, x) == WithAddress(a) # {} \/ WithSub(x) # {}

\* Fault: who updates a row waits for the purge, and for no other request.
RowFreeOfPurge(r, u) == held[u] = "free"

\* Whoever updates an account's row waits for whoever has.
RowFree(r, u) ==
    /\ held[u] = "free"
    /\ \A q \in Request \ {r} : ~(Writing(q) /\ req[q].linked /\ req[q].user = u)

-----------------------------------------------------------------------------
(* Ways in.                                                                *)

\* RequestMagicLink, for any address that has one; the beta has no mail to send.
RequestMagicLink(l, a) ==
    /\ ~BetaMode
    /\ link[l].state = "unsent"
    /\ link' = [link EXCEPT ![l] = [address |-> a, state |-> "sent"]]
    /\ UNCHANGED <<user, space, surveys, sessions, code, req, held, day>>

\* One update marks the link used and returns it; one that has expired is used up with it.
ConsumeMagicToken(r, l) ==
    /\ AtStage(r, "idle")
    /\ link[l].state = "sent"
    /\ link' = [link EXCEPT ![l].state = "used"]
    /\ \/ Goes(r, [Idle EXCEPT !.pc = "email", !.address = link[l].address])
       \/ UNCHANGED req
    /\ UNCHANGED <<user, space, surveys, sessions, code, held, day>>

\* Google says who it is, and which address is theirs.
GoogleCallback(r, x, a) ==
    /\ AtStage(r, "idle")
    /\ Goes(r, [Idle EXCEPT !.pc = "sub", !.sub = x, !.address = a])
    /\ UNCHANGED <<rows, held, day>>

SubmitSignup(r, c, a) ==
    /\ BetaMode
    /\ MaxPassword > 0
    /\ AtStage(r, "idle")
    /\ Goes(r, [Idle EXCEPT !.pc = "code", !.code = c, !.address = a, !.password = 1])
    /\ UNCHANGED <<rows, held, day>>

\* LoginWithPassword: the account is read, and the password compared with what was read.
CheckPassword(r, a) ==
    /\ AtStage(r, "idle")
    /\ \E u \in WithAddress(a) :
          /\ user[u].password > 0
          /\ Goes(r, [Idle EXCEPT !.pc = "space", !.user = u, !.password = user[u].password])
    /\ UNCHANGED <<rows, held, day>>

-----------------------------------------------------------------------------
(* Signing in, or up: one transaction.                                     *)

FindBySub(r) ==
    /\ AtStage(r, "sub")
    /\ \/ \E u \in WithSub(req[r].sub) : Goes(r, [req[r] EXCEPT !.pc = "home", !.user = u])
       \/ WithSub(req[r].sub) = {} /\ Moves(r, "email")
    /\ UNCHANGED <<rows, held, day>>

\* Who is not found is made an account, except in the beta.
FindByEmail(r) ==
    /\ AtStage(r, "email")
    /\ \/ \E u \in WithAddress(req[r].address) :
             Goes(r, [req[r] EXCEPT
                        !.pc = IF req[r].sub # None /\ user[u].sub = None
                               THEN "backfill" ELSE "home",
                        !.user = u])
       \/ /\ WithAddress(req[r].address) = {}
          /\ IF BetaMode THEN Ends(r) ELSE Moves(r, "insert")
    /\ UNCHANGED <<rows, held, day>>

\* SetUserGoogleSub: nothing, when the account has been deleted meanwhile.
Backfill(r) ==
    LET u == req[r].user
    IN  /\ AtStage(r, "backfill")
        /\ RowFree(r, u)
        /\ ~Awaited(r, None, req[r].sub)
        /\ \/ ~Live(user[u]) /\ Moves(r, "home")
           \/ Live(user[u]) /\ WithSub(req[r].sub) \subseteq {u}
              /\ Goes(r, [req[r] EXCEPT !.pc = "home", !.linked = TRUE])
           \/ Live(user[u]) /\ ~(WithSub(req[r].sub) \subseteq {u}) /\ Ends(r)
    /\ UNCHANGED <<rows, held, day>>

\* CreateUser, CreateUserWithPassword.
CreateUser(r) ==
    /\ AtStage(r, "insert")
    /\ ~Awaited(r, req[r].address, req[r].sub)
    /\ \/ Taken(req[r].address, req[r].sub) /\ Ends(r)
       \/ /\ ~Taken(req[r].address, req[r].sub)
          /\ \E u \in FreeAccounts :
                Goes(r, [req[r] EXCEPT !.pc = IF req[r].code = None THEN "home" ELSE "consume",
                                       !.user = u, !.fresh = TRUE])
    /\ UNCHANGED <<rows, held, day>>

\* Fault: a code that was withdrawn is as good as an unused one.
UsableUnlessUsed(c) == ~code[c].used

Usable(c) == ~code[c].used /\ ~code[c].revoked

CodeFree(r, c) ==
    \A q \in Request \ {r} : ~(req[q].code = c /\ req[q].pc \in {"insert", "consume", "commit"})

\* GetActiveBetaCodeForUpdate: before any account work.
HoldCode(r) ==
    /\ AtStage(r, "code")
    /\ CodeFree(r, req[r].code)
    /\ IF Usable(req[r].code) THEN Moves(r, "insert") ELSE Ends(r)
    /\ UNCHANGED <<rows, held, day>>

ConsumeBetaCode(r) ==
    /\ AtStage(r, "consume")
    /\ \/ ~Usable(req[r].code) /\ Ends(r)
       \/ /\ Usable(req[r].code)
          /\ \E w \in FreeSpaces : Goes(r, [req[r] EXCEPT !.pc = "commit", !.space = w])
    /\ UNCHANGED <<rows, held, day>>

\* A row that refers to an account's waits for a removal, and fails without the account.
Refers(r) ==
    \/ req[r].fresh
    \/ There(user[req[r].user]) /\ held[req[r].user] # "removed"

\* GetWorkspaceForUser; whoever has none is made one, if there is such an account at all:
\* that it is live was read before.
FindHome(r) ==
    /\ AtStage(r, "home")
    /\ \/ LiveSpacesOf(req[r].user) # {} /\ Moves(r, "commit")
       \/ /\ LiveSpacesOf(req[r].user) = {}
          /\ Refers(r)
          /\ \E w \in FreeSpaces : Goes(r, [req[r] EXCEPT !.pc = "commit", !.space = w])
       \/ /\ LiveSpacesOf(req[r].user) = {}
          /\ ~req[r].fresh /\ ~There(user[req[r].user])
          /\ Ends(r)
    /\ UNCHANGED <<rows, held, day>>

\* What the transaction wrote appears: a workspace with its owner and its Starter Survey.
CommitLogin(r) ==
    LET u == req[r].user
        w == req[r].space
    IN  /\ AtStage(r, "commit")
        /\ user' = IF req[r].fresh
                   THEN [user EXCEPT ![u] = [row |-> "there", address |-> req[r].address,
                                             sub |-> req[r].sub, password |-> req[r].password,
                                             deleted |-> Never, made |-> req[r].code]]
                   ELSE IF req[r].linked THEN [user EXCEPT ![u].sub = req[r].sub]
                   ELSE user
        /\ IF w = None THEN UNCHANGED <<space, surveys>>
           ELSE /\ space' = [space EXCEPT ![w] = [row |-> "there", owner |-> u,
                                                  deleted |-> Never]]
                /\ surveys' = surveys \cup {[of |-> w, by |-> u, origin |-> "starter",
                                             deleted |-> Never]}
        /\ code' = IF req[r].code = None THEN code ELSE [code EXCEPT ![req[r].code].used = TRUE]
        /\ Goes(r, [req[r] EXCEPT !.pc = "session", !.space = None,
                                  !.fresh = FALSE, !.linked = FALSE])
        /\ UNCHANGED <<sessions, link, held, day>>

\* LoginWithPassword's second read.
ReadSpace(r) ==
    /\ AtStage(r, "space")
    /\ IF LiveSpacesOf(req[r].user) # {} THEN Moves(r, "session") ELSE Ends(r)
    /\ UNCHANGED <<rows, held, day>>

\* CreateSession: a statement of its own, that asks no more than that the account's row is there.
CreateSession(r) ==
    /\ AtStage(r, "session")
    /\ held[req[r].user] # "removed"
    /\ sessions' = IF There(user[req[r].user])
                   THEN sessions \cup {[user |-> req[r].user,
                                        password |-> req[r].password]}
                   ELSE sessions
    /\ Ends(r)
    /\ UNCHANGED <<user, space, surveys, link, code, held, day>>

-----------------------------------------------------------------------------
(* What is done from a session, or by an operator.                         *)

\* Authenticate: the account and its workspace are live.
Authenticated(u) ==
    /\ \E s \in sessions : s.user = u
    /\ Live(user[u])
    /\ LiveSpacesOf(u) # {}

Logout(s) ==
    /\ sessions' = sessions \ {s}
    /\ UNCHANGED <<user, space, surveys, link, code, req, held, day>>

\* ChangeEmail: the password is compared, then the row updated.
SubmitEmail(r, u, a) ==
    /\ AtStage(r, "idle")
    /\ Authenticated(u)
    /\ user[u].password > 0
    /\ Goes(r, [Idle EXCEPT !.pc = "rename", !.user = u, !.address = a])
    /\ UNCHANGED <<rows, held, day>>

UpdateUserEmail(r) ==
    LET u == req[r].user
    IN  /\ AtStage(r, "rename")
        /\ RowFree(r, u)
        /\ ~Awaited(r, req[r].address, None)
        /\ user' = IF Live(user[u]) /\ WithAddress(req[r].address) \subseteq {u}
                   THEN [user EXCEPT ![u].address = req[r].address] ELSE user
        /\ Ends(r)
        /\ UNCHANGED <<space, surveys, sessions, link, code, held, day>>

\* AdminResetPassword: a new password, then no session.
SetUserPassword(r, u) ==
    /\ AtStage(r, "idle")
    /\ Live(user[u])
    /\ RowFree(r, u)
    /\ user[u].password < MaxPassword
    /\ user' = [user EXCEPT ![u].password = @ + 1]
    /\ Goes(r, [Idle EXCEPT !.pc = "revoke", !.user = u])
    /\ UNCHANGED <<space, surveys, sessions, link, code, held, day>>

DeleteSessions(r) ==
    /\ AtStage(r, "revoke")
    /\ sessions' = {s \in sessions : s.user # req[r].user}
    /\ Ends(r)
    /\ UNCHANGED <<user, space, surveys, link, code, held, day>>

SubmitClose(r, u) ==
    /\ AtStage(r, "idle")
    /\ Authenticated(u)
    /\ Goes(r, [Idle EXCEPT !.pc = "close", !.user = u])
    /\ UNCHANGED <<rows, held, day>>

\* One transaction: the workspaces, the account, and every session.
DeleteAccount(r) ==
    LET u == req[r].user
    IN  /\ AtStage(r, "close")
        /\ RowFree(r, u)
        /\ \A w \in LiveSpacesOf(u) : held[w] = "free"
        /\ space' = [w \in Space |-> IF w \in LiveSpacesOf(u)
                                     THEN [space[w] EXCEPT !.deleted = day] ELSE space[w]]
        /\ user' = IF Live(user[u]) THEN [user EXCEPT ![u].deleted = day] ELSE user
        /\ sessions' = {s \in sessions : s.user # u}
        /\ Ends(r)
        /\ UNCHANGED <<surveys, link, code, held, day>>

RevokeBetaCode(c) ==
    /\ \A q \in Request : ~(req[q].code = c /\ req[q].pc \in {"insert", "consume", "commit"})
    /\ Usable(c)
    /\ code' = [code EXCEPT ![c].revoked = TRUE]
    /\ UNCHANGED <<user, space, surveys, sessions, link, req, held, day>>

\* A statement fails, the client leaves, the process dies: what was not committed is undone.
Abort(r) ==
    /\ ~AtStage(r, "idle")
    /\ Ends(r)
    /\ UNCHANGED <<rows, held, day>>

SignIn(r) ==
    \/ \E l \in Link : ConsumeMagicToken(r, l)
    \/ \E a \in Address : \/ \E x \in Sub : GoogleCallback(r, x, a)
                          \/ \E c \in Code : SubmitSignup(r, c, a)
                          \/ CheckPassword(r, a)
    \/ FindBySub(r) \/ FindByEmail(r) \/ Backfill(r) \/ CreateUser(r)
    \/ HoldCode(r) \/ ConsumeBetaCode(r)
    \/ FindHome(r) \/ CommitLogin(r) \/ ReadSpace(r) \/ CreateSession(r)

Manage(r) ==
    \/ \E u \in Account : \/ \E a \in Address : SubmitEmail(r, u, a)
                          \/ SetUserPassword(r, u)
                          \/ SubmitClose(r, u)
    \/ UpdateUserEmail(r) \/ DeleteSessions(r) \/ DeleteAccount(r)

Next ==
    \/ \E r \in Request : SignIn(r) \/ Manage(r) \/ Abort(r)
    \/ \E l \in Link, a \in Address : RequestMagicLink(l, a)
    \/ \E s \in sessions : Logout(s)
    \/ \E c \in Code : RevokeBetaCode(c)

Spec == Init /\ [][Next]_vars

-----------------------------------------------------------------------------

(***************************************************************************)
(* Whatever windows sign in, sign up, move to another address and close at *)
(* once, no two live accounts share an address or a Google identity, and   *)
(* each has exactly one live workspace (login, SignupWithCode,             *)
(* DeleteAccount, users_email_live_uniq).                                  *)
(***************************************************************************)
OneAccountEach ==
    \A u \in LiveUsers :
        /\ WithAddress(user[u].address) = {u}
        /\ WithSub(user[u].sub) \subseteq {u}
        /\ Cardinality(LiveSpacesOf(u)) = 1

(***************************************************************************)
(* In the beta an account comes of a code that nobody withdrew, and a code *)
(* makes one account, however many forms carry it (SignupWithCode,         *)
(* RevokeBetaCode, login's ErrBetaRequired).                               *)
(***************************************************************************)
InvitedOnly ==
    BetaMode =>
        \A u \in Account :
            There(user[u]) =>
                /\ user[u].made # None
                /\ code[user[u].made].used /\ ~code[user[u].made].revoked
                /\ \A v \in Account \ {u} : user[v].made # user[u].made

(***************************************************************************)
(* A password reset ends every session (AdminResetPassword: "revokes every *)
(* session"): once the reset is over, none is left that the password       *)
(* before it opened.                                                       *)
(***************************************************************************)
ResetEndsSessions ==
    \A s \in sessions :
        (\A r \in Request : ~(AtStage(r, "revoke") /\ req[r].user = s.user))
            => s.password \in {0, user[s.user].password}

-----------------------------------------------------------------------------
(* What signing in and closing promise.                                    *)

State(row) == IF ~There(row) THEN "none" ELSE IF Live(row) THEN "live" ELSE "closed"

Listed ==
    [u \in Account |-> [state |-> State(user[u]), address |-> user[u].address,
                        sub |-> user[u].sub]]
Housed == [w \in Space |-> [state |-> State(space[w]), owner |-> space[w].owner]]

Registered == INSTANCE Registry WITH member <- Listed, home <- Housed

(***************************************************************************)
(* Signing in, up and off, statement by statement beside one another and   *)
(* beside the purge, amounts to single steps of a list of members: at each *)
(* that makes an account, or gives one an identity or an address, no other *)
(* live account has it; the first makes the workspace too, closing closes  *)
(* all of it, and no purge leaves a workspace without its owner or a live  *)
(* account without its workspace (login, ChangeEmail, DeleteAccount,       *)
(* purge.Run).                                                             *)
(***************************************************************************)
ImplementsRegistry == Registered!Spec

=============================================================================
