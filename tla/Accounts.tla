-------------------------------- MODULE Accounts --------------------------------
(***************************************************************************)
(* Accounts, sign-in and the check every call goes through:                *)
(* internal/auth (password.go, jwt.go, interceptor.go, rbac.go) and the    *)
(* administration of users (internal/api/grpc/config_user.go, auth.go).    *)
(*                                                                         *)
(* An account is its e-mail address. A token is the set of its claims; the *)
(* HMAC is the secret the claims carry. Hashing a password takes its time, *)
(* so registering and signing in are two steps: what is read before the    *)
(* hash, and what is stored or signed after it. Any token ever signed may  *)
(* be presented, by anybody.                                               *)
(***************************************************************************)
EXTENDS Environment

CONSTANTS
    Account,
    Identity,       \* Slack, GitHub and Jira names a user may give
    Asked,          \* the calls made
    Ttl,            \* lifetime of a token
    MaxTokens,      \* bound: tokens ever signed
    MaxSecrets      \* bound: values of JWT_SECRET over the restarts

\* roleLevel: the organisation's roles, each allowed what the one before it is.
RoleLevel == [viewer |-> 1, responder |-> 2, incidentCommander |-> 3, admin |-> 4]

OrgRole == DOMAIN RoleLevel

User == [role : OrgRole, active : BOOLEAN, identity : Identity \union {Nil}]

\* Claims: the role is the one the sign-in had read.
Token == [who : Account, role : OrgRole, exp : Nat, secret : Nat]

\* The calls told apart: a read, the two that write another user's row, and
\* the one that writes the caller's own identities.
Column == {"role", "active"}

Call ==
    [kind : {"read"}]
        \union [kind : {"role"}, on : Account, value : OrgRole]
        \union [kind : {"active"}, on : Account, value : BOOLEAN]
        \union [kind : {"identity"}, value : Identity \union {Nil}]

\* rpcMinRole of those calls.
MinRole(call) == IF call.kind \in Column THEN "admin" ELSE "viewer"

ASSUME AccountsAssumption ==
    /\ Nil \notin Account /\ Nil \notin User /\ Nil \notin [role : OrgRole, active : BOOLEAN]
    /\ Asked \subseteq Call
    /\ Ttl \in Nat /\ MaxTokens \in Nat /\ MaxSecrets \in Nat

VARIABLES
    users,      \* users[a]: the row of a, or Nil
    tokens,     \* every token signed so far
    secret,     \* the server's JWT_SECRET
    act,        \* act[r]: where handler invocation r stands, and its copies
    asked,      \* history variable: asked[a]: the role and activity last asked for
    overrun,    \* history variable: the columns <<a, c>> a write of the other
                \* column has overwritten with what it had read earlier
    origin      \* history variable: who was stored first, who was then being
                \* registered, and who was registered as Admin

accVars == <<users, tokens, secret, act, asked, overrun, origin>>

Idle == [pc |-> "idle"]

AccInit ==
    /\ users = [a \in Account |-> Nil]
    /\ tokens = {}
    /\ secret = 0
    /\ act = [r \in Request |-> Idle]
    /\ asked = [a \in Account |-> Nil]
    /\ overrun = {}
    /\ origin = [first |-> Nil, early |-> {}, admins |-> {}]

Registered(a) == users[a] # Nil

Sign(a, role) == [who |-> a, role |-> role, exp |-> now + Ttl, secret |-> secret]

At(r, pc) == act[r].pc = pc

-------------------------------------------------------------------------------
(***************************************************************************)
(* POST /auth/register and POST /auth/login.                               *)
(***************************************************************************)

\* Mutant: accounts that were deactivated do not count.
BootstrapActive ==
    IF \A a \in Account : Registered(a) => ~users[a].active THEN "admin" ELSE "viewer"

\* The first user becomes Admin.
BootstrapRole ==
    IF \A a \in Account : ~Registered(a) THEN "admin" ELSE "viewer"

Register(r, a) ==
    /\ At(r, "idle")
    /\ act' = [act EXCEPT ![r] = [pc |-> "create", who |-> a, role |-> BootstrapRole]]
    /\ UNCHANGED <<users, tokens, secret, asked, overrun, origin, env>>

\* Who is being registered and would be Admin.
Registering == {act[r].who : r \in {q \in Request : At(q, "create")}}

CreateUser(r) ==
    LET a == act[r].who  role == act[r].role IN
    /\ At(r, "create")
    /\ ~Registered(a)
    /\ Cardinality(tokens) < MaxTokens
    /\ users' = [users EXCEPT ![a] = [role |-> role, active |-> TRUE, identity |-> Nil]]
    /\ tokens' = tokens \union {Sign(a, role)}
    /\ asked' = [asked EXCEPT ![a] = [role |-> role, active |-> TRUE]]
    /\ origin' = [first |-> IF origin.first = Nil THEN a ELSE origin.first,
                  early |-> IF origin.first = Nil THEN Registering ELSE origin.early,
                  admins |-> IF role = "admin" THEN origin.admins \union {a}
                             ELSE origin.admins]
    /\ act' = [act EXCEPT ![r] = Idle]
    /\ UNCHANGED <<secret, overrun, env>>

Login(r, a) ==
    /\ At(r, "idle")
    /\ Registered(a)
    /\ users[a].active
    /\ act' = [act EXCEPT ![r] = [pc |-> "sign", who |-> a, role |-> users[a].role]]
    /\ UNCHANGED <<users, tokens, secret, asked, overrun, origin, env>>

RespondWithToken(r) ==
    /\ At(r, "sign")
    /\ Cardinality(tokens) < MaxTokens
    /\ tokens' = tokens \union {Sign(act[r].who, act[r].role)}
    /\ act' = [act EXCEPT ![r] = Idle]
    /\ UNCHANGED <<users, secret, asked, overrun, origin, env>>

-------------------------------------------------------------------------------
(***************************************************************************)
(* The interceptor. shut is a history field of the call: deactivation was  *)
(* stored before the call began and nothing has undone it since.           *)
(***************************************************************************)
Shut(a) == /\ Registered(a)
           /\ ~asked[a].active
           /\ <<a, "active">> \notin overrun

ValidToken(t) == t.secret = secret /\ now < t.exp

Validate(r, t, call) ==
    /\ At(r, "idle")
    /\ ValidToken(t)
    /\ act' = [act EXCEPT ![r] = [pc |-> "authorize", token |-> t, call |-> call,
                                  shut |-> Shut(t.who)]]
    /\ UNCHANGED <<users, tokens, secret, asked, overrun, origin, env>>

\* Mutant: the account's activity is left to the next sign-in.
PermittedByClaims(t, call) ==
    /\ Registered(t.who)
    /\ RoleLevel[t.role] >= RoleLevel[MinRole(call)]

\* The account as stored now; the role as claimed.
Permitted(t, call) ==
    /\ Registered(t.who)
    /\ users[t.who].active
    /\ RoleLevel[t.role] >= RoleLevel[MinRole(call)]

Authorize(r) ==
    /\ At(r, "authorize")
    /\ act' = [act EXCEPT ![r] = IF Permitted(@.token, @.call)
                                 THEN [@ EXCEPT !.pc = "handle"] ELSE Idle]
    /\ UNCHANGED <<users, tokens, secret, asked, overrun, origin, env>>

-------------------------------------------------------------------------------
(***************************************************************************)
(* The handlers. UpdateUserRole and setUserActive read the row, change     *)
(* their column of the copy, and store both columns; behind is a history   *)
(* field: the row was stored by another handler in between.                *)
(***************************************************************************)
ListUsers(r) ==
    /\ At(r, "handle")
    /\ act[r].call.kind = "read"
    /\ act' = [act EXCEPT ![r] = Idle]
    /\ UNCHANGED <<users, tokens, secret, asked, overrun, origin, env>>

UpdateMyIntegrationIdentities(r) ==
    /\ At(r, "handle")
    /\ act[r].call.kind = "identity"
    /\ users' = [users EXCEPT ![act[r].token.who].identity = act[r].call.value]
    /\ act' = [act EXCEPT ![r] = Idle]
    /\ UNCHANGED <<tokens, secret, asked, overrun, origin, env>>

Patched(user, call) ==
    IF call.kind = "role" THEN [role |-> call.value, active |-> user.active]
    ELSE [role |-> user.role, active |-> call.value]

ReadUser(r) ==
    LET call == act[r].call IN
    /\ At(r, "handle")
    /\ call.kind \in Column
    /\ act' = [act EXCEPT ![r] =
                 IF Registered(call.on)
                 THEN [pc |-> "save", on |-> call.on, column |-> call.kind,
                       copy |-> Patched(users[call.on], call), behind |-> FALSE]
                 ELSE Idle]
    /\ UNCHANGED <<users, tokens, secret, asked, overrun, origin, env>>

\* Mutant: storing a role also switches the account on.
StoredActive(user, copy) == [user EXCEPT !.role = copy.role, !.active = TRUE]

\* UpdateUser: the columns both handlers write; the identities are not among them.
Stored(user, copy) == [user EXCEPT !.role = copy.role, !.active = copy.active]

SaveUser(r) ==
    LET a == act[r].on  copy == act[r].copy  column == act[r].column
        other == IF column = "role" THEN "active" ELSE "role"
        known == [asked[a] EXCEPT ![column] = copy[column]]
        lost == IF act[r].behind /\ copy[other] # known[other] THEN {<<a, other>>}
                ELSE {}
        over == (overrun \ {<<a, column>>}) \union lost
    IN
    /\ At(r, "save")
    /\ users' = [users EXCEPT ![a] = Stored(@, copy)]
    /\ asked' = [asked EXCEPT ![a] = known]
    /\ overrun' = over
    /\ act' = [q \in Request |->
                 IF q = r THEN Idle
                 ELSE IF At(q, "save") /\ act[q].on = a THEN [act[q] EXCEPT !.behind = TRUE]
                 ELSE IF /\ act[q].pc \in {"authorize", "handle"}
                         /\ act[q].token.who = a
                         /\ known.active \/ <<a, "active">> \in over
                 THEN [act[q] EXCEPT !.shut = FALSE]
                 ELSE act[q]]
    /\ UNCHANGED <<tokens, secret, origin, env>>

-------------------------------------------------------------------------------

\* The e-mail is taken, the password is wrong, a store call fails, the client is gone.
GiveUp(r) ==
    /\ ~At(r, "idle")
    /\ act' = [act EXCEPT ![r] = Idle]
    /\ UNCHANGED <<users, tokens, secret, asked, overrun, origin, env>>

\* The server restarts, perhaps with another JWT_SECRET.
RestartServer(new) ==
    /\ new \in {secret, secret + 1}
    /\ new <= MaxSecrets
    /\ secret' = new
    /\ act' = [r \in Request |-> Idle]
    /\ UNCHANGED <<users, tokens, asked, overrun, origin, env>>

AccTick == Tick /\ UNCHANGED accVars

AccNext ==
    \/ \E r \in Request, a \in Account : Register(r, a) \/ Login(r, a)
    \/ \E r \in Request : \E t \in tokens : \E call \in Asked : Validate(r, t, call)
    \/ \E r \in Request :
          \/ CreateUser(r) \/ RespondWithToken(r) \/ Authorize(r) \/ ListUsers(r)
          \/ UpdateMyIntegrationIdentities(r) \/ ReadUser(r) \/ SaveUser(r) \/ GiveUp(r)
    \/ \E new \in 0 .. MaxSecrets : RestartServer(new)
    \/ AccTick

AccSpec == AccInit /\ EnvInit /\ [][AccNext]_<<accVars, env>>

-------------------------------------------------------------------------------

\* Where a handler invocation may stand, and what it then holds.
ActState ==
    {Idle}
        \union [pc : {"create", "sign"}, who : Account, role : OrgRole]
        \union [pc : {"authorize", "handle"}, token : Token, call : Call,
                shut : BOOLEAN]
        \union [pc : {"save"}, on : Account, column : Column,
                copy : [role : OrgRole, active : BOOLEAN], behind : BOOLEAN]

\* Every variable has its type, and a handler that is to store a row has one to store.
AccTypeOK ==
    /\ users \in [Account -> User \union {Nil}]
    /\ tokens \subseteq Token
    /\ secret \in Nat
    /\ act \in [Request -> ActState]
    /\ \A r \in Request : At(r, "save") => Registered(act[r].on)
    /\ asked \in [Account -> [role : OrgRole, active : BOOLEAN] \union {Nil}]
    /\ \A a \in Account : Registered(a) <=> asked[a] # Nil
    /\ overrun \subseteq Account \X Column
    /\ origin \in [first : Account \union {Nil}, early : SUBSET Account,
                   admins : SUBSET Account]

\* "The first user to register is granted Admin": whoever is stored first is Admin,
\* so the installation is never left to viewers; and nobody else is, save those
\* whose registration was already under way at that moment.
Bootstrapped ==
    (\E a \in Account : Registered(a)) =>
        /\ origin.first \in origin.admins
        /\ origin.admins \subseteq origin.early

\* A user's role and activity are what was last asked for them, unless a write of the
\* other column overwrote them with what it had read before. Nothing else (a sign-in,
\* the user's own update, a restart, a second registration) switches an account
\* back on or changes a role.
ColumnsAsAsked ==
    \A a \in Account, c \in Column :
        Registered(a) /\ users[a][c] # asked[a][c] => <<a, c>> \in overrun

\* "A deactivated user is refused": a call let through did not begin after its account
\* was deactivated, unless something has reactivated the account since, however old
\* the token and whatever role it claims.
DeactivatedRefused ==
    \A r \in Request : At(r, "handle") => ~act[r].shut

===============================================================================
