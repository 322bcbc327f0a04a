----------------------------- MODULE AccountsProofs -----------------------------
(***************************************************************************)
(* Theorems about Accounts, for any number of accounts, of calls in flight *)
(* and of tokens signed.                                                   *)
(***************************************************************************)
EXTENDS Accounts, TLAPS

\* A handler that was let in serves an account that is there: no row is ever deleted.
CallersRegistered == \A r \in Request : At(r, "handle") => Registered(act[r].token.who)

AccTypeInv == EnvTypeOK /\ AccTypeOK /\ CallersRegistered

-------------------------------------------------------------------------------
(***************************************************************************)
(* Where a handler stands tells what it holds.                             *)
(***************************************************************************)

Filed == [pc : {"create", "sign"}, who : Account, role : OrgRole]
Checked == [pc : {"authorize", "handle"}, token : Token, call : Call, shut : BOOLEAN]
Copied == [pc : {"save"}, on : Account, column : Column,
           copy : [role : OrgRole, active : BOOLEAN], behind : BOOLEAN]

\* What is asked of an account.
Wish == [role : OrgRole, active : BOOLEAN]

LEMMA WishesSome == (\A u \in User : u # Nil) /\ (\A w \in Wish : w # Nil)
<1>1. Nil \notin User /\ Nil \notin Wish
  BY AccountsAssumption DEF Wish
<1> QED
  BY <1>1

LEMMA ActStates ==
    ASSUME NEW a \in ActState
    PROVE  /\ a.pc \in {"create", "sign"} => a \in Filed
           /\ a.pc \in {"authorize", "handle"} => a \in Checked
           /\ a.pc = "save" => a \in Copied
           /\ a.pc = "idle" => a = Idle
BY DEF ActState, Filed, Checked, Copied, Idle

LEMMA StatesAct ==
    /\ Idle \in ActState /\ Filed \subseteq ActState
    /\ Checked \subseteq ActState /\ Copied \subseteq ActState
BY DEF ActState, Filed, Checked, Copied

LEMMA Roles == "admin" \in OrgRole /\ "viewer" \in OrgRole
BY DEF OrgRole, RoleLevel

-------------------------------------------------------------------------------
(***************************************************************************)
(* Types.                                                                  *)
(***************************************************************************)

\* A step of one handler that stores nothing keeps the types.
LEMMA MoveType ==
    ASSUME AccTypeInv, NEW r \in Request, NEW to \in ActState,
           to.pc = "save" => Registered(to.on),
           to.pc = "handle" => Registered(to.token.who),
           act' = [act EXCEPT ![r] = to],
           users' = users, secret' = secret, tokens' \subseteq Token,
           UNCHANGED <<asked, overrun, origin, env>>
    PROVE  AccTypeInv'
<1>1. act' \in [Request -> ActState]
  BY DEF AccTypeInv, AccTypeOK
<1>2. \A q \in Request : At(q, "save")' => Registered(act[q].on)'
  <2> SUFFICES ASSUME NEW q \in Request, act'[q].pc = "save"
               PROVE  Registered(act'[q].on)
    BY DEF At, Registered
  <2>1. act'[q] = IF q = r THEN to ELSE act[q]
    BY DEF AccTypeInv, AccTypeOK
  <2> QED
    BY <2>1 DEF AccTypeInv, AccTypeOK, At
<1>3. CallersRegistered'
  <2> SUFFICES ASSUME NEW q \in Request, act'[q].pc = "handle"
               PROVE  Registered(act'[q].token.who)
    BY DEF At, Registered, CallersRegistered
  <2>1. act'[q] = IF q = r THEN to ELSE act[q]
    BY DEF AccTypeInv, AccTypeOK
  <2> QED
    BY <2>1 DEF AccTypeInv, CallersRegistered, At
<1> QED
  BY <1>1, <1>2, <1>3 DEF AccTypeInv, AccTypeOK, EnvTypeOK, env, Registered

LEMMA SignType ==
    ASSUME AccTypeInv, NEW a \in Account, NEW role \in OrgRole
    PROVE  Sign(a, role) \in Token
BY AccountsAssumption DEF Sign, Token, AccTypeInv, AccTypeOK, EnvTypeOK

LEMMA CreateUserType ==
    ASSUME AccTypeInv, NEW r \in Request, CreateUser(r)
    PROVE  AccTypeInv'
<1> DEFINE a == act[r].who
           role == act[r].role
           row == [role |-> role, active |-> TRUE, identity |-> Nil]
           wish == [role |-> role, active |-> TRUE]
<1>1. act[r] \in Filed
  BY ActStates DEF CreateUser, At, AccTypeInv, AccTypeOK
<1>2. a \in Account /\ role \in OrgRole
  BY <1>1 DEF Filed
<1>3. row \in User /\ wish \in Wish
  BY <1>2 DEF User, Wish
<1>4. /\ users' = [users EXCEPT ![a] = row]
      /\ tokens' = tokens \union {Sign(a, role)}
      /\ asked' = [asked EXCEPT ![a] = wish]
      /\ origin' = [first |-> IF origin.first = Nil THEN a ELSE origin.first,
                    early |-> IF origin.first = Nil THEN Registering ELSE origin.early,
                    admins |-> IF role = "admin" THEN origin.admins \union {a}
                               ELSE origin.admins]
      /\ act' = [act EXCEPT ![r] = Idle]
      /\ UNCHANGED <<secret, overrun, env>>
  BY DEF CreateUser
<1> HIDE DEF a, role, row, wish
<1>12. row # Nil /\ wish # Nil
  BY <1>3, WishesSome
<1>5. users' \in [Account -> User \union {Nil}] /\ asked' \in [Account -> Wish \union {Nil}]
  BY <1>2, <1>3, <1>4 DEF AccTypeInv, AccTypeOK, Wish
<1>6. \A b \in Account : /\ Registered(b)' <=> asked'[b] # Nil
                         /\ Registered(b) => Registered(b)'
  BY <1>2, <1>4, <1>12 DEF AccTypeInv, AccTypeOK, Registered
<1>7. tokens' \subseteq Token
  BY <1>2, <1>4, SignType DEF AccTypeInv, AccTypeOK
<1>8. act' \in [Request -> ActState]
  BY <1>4, StatesAct DEF AccTypeInv, AccTypeOK
<1>9. \A q \in Request : At(q, "save")' => Registered(act[q].on)'
  <2> SUFFICES ASSUME NEW q \in Request, act'[q].pc = "save"
               PROVE  users'[act'[q].on] # Nil
    BY DEF At, Registered
  <2>1. act'[q] = act[q]
    BY <1>4 DEF AccTypeInv, AccTypeOK, Idle
  <2>2. act[q].on \in Account /\ Registered(act[q].on)
    BY <2>1, ActStates DEF AccTypeInv, AccTypeOK, At, Copied
  <2> QED
    BY <2>1, <2>2, <1>6 DEF Registered
<1>13. CallersRegistered'
  <2> SUFFICES ASSUME NEW q \in Request, act'[q].pc = "handle"
               PROVE  users'[act'[q].token.who] # Nil
    BY DEF At, Registered, CallersRegistered
  <2>1. act'[q] = act[q]
    BY <1>4 DEF AccTypeInv, AccTypeOK, Idle
  <2>2. act[q].token.who \in Account /\ Registered(act[q].token.who)
    BY <2>1, ActStates DEF AccTypeInv, AccTypeOK, At, Checked, Token, CallersRegistered
  <2> QED
    BY <2>1, <2>2, <1>6 DEF Registered
<1>10. Registering \subseteq Account
  BY ActStates DEF Registering, At, Filed, AccTypeInv, AccTypeOK
<1>11. origin' \in [first : Account \union {Nil}, early : SUBSET Account,
                    admins : SUBSET Account]
  BY <1>2, <1>4, <1>10 DEF AccTypeInv, AccTypeOK
<1> QED
  BY <1>4, <1>5, <1>6, <1>7, <1>8, <1>9, <1>11, <1>13 DEF AccTypeInv, AccTypeOK, EnvTypeOK, env, Wish

LEMMA PatchedType ==
    ASSUME NEW user \in User, NEW call \in Call, call.kind \in Column
    PROVE  Patched(user, call) \in Wish
<1>1. CASE call.kind = "role"
  BY <1>1 DEF Patched, Call, Wish, User
<1>2. CASE call.kind = "active"
  BY <1>2 DEF Patched, Call, Wish, User
<1> QED
  BY <1>1, <1>2 DEF Column

\* What SaveUser stores and what it leaves of the others, its local definitions named.
Over(r) ==
    LET a == act[r].on  copy == act[r].copy  column == act[r].column
        other == IF column = "role" THEN "active" ELSE "role"
        known == [asked[a] EXCEPT ![column] = copy[column]]
    IN  (overrun \ {<<a, column>>})
          \union (IF act[r].behind /\ copy[other] # known[other] THEN {<<a, other>>} ELSE {})

Known(r) == [asked[act[r].on] EXCEPT ![act[r].column] = act[r].copy[act[r].column]]

Left(r, q) ==
    IF q = r THEN Idle
    ELSE IF At(q, "save") /\ act[q].on = act[r].on THEN [act[q] EXCEPT !.behind = TRUE]
    ELSE IF /\ act[q].pc \in {"authorize", "handle"}
            /\ act[q].token.who = act[r].on
            /\ Known(r).active \/ <<act[r].on, "active">> \in Over(r)
    THEN [act[q] EXCEPT !.shut = FALSE]
    ELSE act[q]

LEMMA SaveUserStep ==
    ASSUME NEW r \in Request, SaveUser(r)
    PROVE  /\ users' = [users EXCEPT ![act[r].on] = Stored(users[act[r].on], act[r].copy)]
           /\ asked' = [asked EXCEPT ![act[r].on] = Known(r)]
           /\ overrun' = Over(r)
           /\ act' = [q \in Request |-> Left(r, q)]
           /\ UNCHANGED <<tokens, secret, origin, env>>
BY DEF SaveUser, Known, Over, Left

\* The copy is stored over a row that is there.
LEMMA SaveUserFacts ==
    ASSUME AccTypeInv, NEW r \in Request, SaveUser(r)
    PROVE  /\ act[r] \in Copied /\ Registered(act[r].on)
           /\ act[r].on \in Account /\ act[r].copy \in Wish /\ act[r].column \in Column
           /\ users[act[r].on] \in User /\ asked[act[r].on] \in Wish
           /\ Stored(users[act[r].on], act[r].copy) \in User /\ Known(r) \in Wish
<1>1. act[r] \in Copied /\ Registered(act[r].on)
  BY ActStates DEF SaveUser, At, AccTypeInv, AccTypeOK
<1>2. act[r].on \in Account /\ act[r].copy \in Wish /\ act[r].column \in Column
  BY <1>1 DEF Copied, Wish
<1>3. users[act[r].on] \in User /\ asked[act[r].on] \in Wish
  BY <1>1, <1>2 DEF AccTypeInv, AccTypeOK, Registered, Wish
<1>4. Stored(users[act[r].on], act[r].copy) \in User
  BY <1>2, <1>3 DEF Stored, User, Wish
<1>5. Known(r) \in Wish
  BY <1>2, <1>3 DEF Known, Wish, Column
<1> QED
  BY <1>1, <1>2, <1>3, <1>4, <1>5

LEMMA SaveUserType ==
    ASSUME AccTypeInv, NEW r \in Request, SaveUser(r)
    PROVE  AccTypeInv'
<1> DEFINE a == act[r].on
           row == Stored(users[a], act[r].copy)
<1>1. /\ Registered(a) /\ a \in Account /\ act[r].column \in Column
      /\ row \in User /\ Known(r) \in Wish
  BY SaveUserFacts
<1>2. row # Nil /\ Known(r) # Nil
  BY <1>1, WishesSome
<1>3. /\ users' = [users EXCEPT ![a] = row]
      /\ asked' = [asked EXCEPT ![a] = Known(r)]
      /\ overrun' = Over(r)
      /\ act' = [q \in Request |-> Left(r, q)]
      /\ UNCHANGED <<tokens, secret, origin, env>>
  BY SaveUserStep
<1>4. Over(r) \subseteq Account \X Column
  BY <1>1 DEF Over, AccTypeInv, AccTypeOK, Column
<1> HIDE DEF row
<1>5. users' \in [Account -> User \union {Nil}] /\ asked' \in [Account -> Wish \union {Nil}]
  BY <1>1, <1>3 DEF AccTypeInv, AccTypeOK, Wish
<1>6. \A b \in Account : /\ Registered(b)' <=> asked'[b] # Nil
                         /\ Registered(b) => Registered(b)'
  BY <1>1, <1>2, <1>3 DEF AccTypeInv, AccTypeOK, Registered
<1>7. ASSUME NEW q \in Request
      PROVE  /\ Left(r, q) \in ActState
             /\ Left(r, q).pc = "save" => /\ Left(r, q).on \in Account
                                          /\ Registered(Left(r, q).on)
             /\ Left(r, q).pc = "handle" => /\ Left(r, q).token.who \in Account
                                            /\ Registered(Left(r, q).token.who)
  <2>1. /\ act[q] \in ActState /\ (act[q].pc = "save" => Registered(act[q].on))
        /\ act[q].pc = "handle" => Registered(act[q].token.who)
    BY DEF AccTypeInv, AccTypeOK, At, CallersRegistered
  <2>2. CASE q = r
    BY <2>2, StatesAct DEF Left, Idle
  <2>3. CASE q # r /\ At(q, "save") /\ act[q].on = a
    <3>1. Left(r, q) = [act[q] EXCEPT !.behind = TRUE]
      BY <2>3 DEF Left
    <3>2. act[q] \in Copied
      BY <2>1, <2>3, ActStates DEF At
    <3>3. /\ Left(r, q) \in Copied /\ Left(r, q).on = act[q].on
          /\ Left(r, q).on \in Account /\ Left(r, q).pc # "handle"
      BY <3>1, <3>2 DEF Copied
    <3> QED
      BY <1>1, <2>1, <2>3, <3>3, StatesAct
  <2>4. CASE q # r /\ ~(At(q, "save") /\ act[q].on = a)
    <3>1. CASE /\ act[q].pc \in {"authorize", "handle"}
               /\ Left(r, q) = [act[q] EXCEPT !.shut = FALSE]
      <4>1. /\ act[q] \in Checked /\ Left(r, q) \in Checked
            /\ Left(r, q).pc = act[q].pc /\ Left(r, q).token = act[q].token
        BY <2>1, <3>1, ActStates DEF Checked
      <4>2. /\ Left(r, q).pc # "save"
            /\ Left(r, q).pc = "handle" => /\ Left(r, q).token.who \in Account
                                           /\ Registered(Left(r, q).token.who)
        BY <2>1, <4>1 DEF Checked, Token
      <4> QED
        BY <4>1, <4>2, StatesAct
    <3>2. CASE Left(r, q) = act[q]
      BY <2>1, <3>2, ActStates DEF Copied, Checked, Token
    <3> QED
      BY <2>4, <3>1, <3>2 DEF Left
  <2> QED
    BY <2>2, <2>3, <2>4
<1>8. act' \in [Request -> ActState]
  BY <1>3, <1>7
<1>9. \A q \in Request : At(q, "save")' => Registered(act[q].on)'
  <2> SUFFICES ASSUME NEW q \in Request, act'[q].pc = "save"
               PROVE  users'[act'[q].on] # Nil
    BY DEF At, Registered
  <2>1. act'[q].on \in Account /\ Registered(act'[q].on)
    BY <1>3, <1>7
  <2> QED
    BY <2>1, <1>6 DEF Registered
<1>10. CallersRegistered'
  <2> SUFFICES ASSUME NEW q \in Request, act'[q].pc = "handle"
               PROVE  users'[act'[q].token.who] # Nil
    BY DEF At, Registered, CallersRegistered
  <2>1. act'[q].token.who \in Account /\ Registered(act'[q].token.who)
    BY <1>3, <1>7
  <2> QED
    BY <2>1, <1>6 DEF Registered
<1> QED
  BY <1>3, <1>4, <1>5, <1>6, <1>8, <1>9, <1>10 DEF AccTypeInv, AccTypeOK, EnvTypeOK, env, Wish

LEMMA IdentityType ==
    ASSUME AccTypeInv, NEW r \in Request, UpdateMyIntegrationIdentities(r)
    PROVE  AccTypeInv'
<1> DEFINE a == act[r].token.who
           row == [users[a] EXCEPT !.identity = act[r].call.value]
<1>1. act[r] \in Checked /\ act[r].call.kind = "identity"
  BY ActStates DEF UpdateMyIntegrationIdentities, At, AccTypeInv, AccTypeOK
<1>2. a \in Account /\ act[r].call.value \in Identity \union {Nil}
  BY <1>1 DEF Checked, Token, Call
<1>3. /\ users' = [users EXCEPT ![a] = row] /\ act' = [act EXCEPT ![r] = Idle]
      /\ UNCHANGED <<tokens, secret, asked, overrun, origin, env>>
  BY DEF UpdateMyIntegrationIdentities
<1>4. users[a] \in User /\ users[a] # Nil
  BY <1>1, <1>2 DEF UpdateMyIntegrationIdentities, AccTypeInv, AccTypeOK,
                    CallersRegistered, Registered
<1>5. row \in User
  BY <1>2, <1>4 DEF User
<1>6. row # Nil
  BY <1>5, AccountsAssumption
<1> HIDE DEF a, row
<1>7. users' \in [Account -> User \union {Nil}]
  BY <1>2, <1>3, <1>5 DEF AccTypeInv, AccTypeOK
<1>8. \A b \in Account : Registered(b) => Registered(b)'
  BY <1>2, <1>3, <1>6 DEF AccTypeInv, AccTypeOK, Registered
<1>9. \A b \in Account : Registered(b)' <=> asked'[b] # Nil
  BY <1>2, <1>3, <1>4, <1>6 DEF AccTypeInv, AccTypeOK, Registered
<1>10. act' \in [Request -> ActState]
  BY <1>3, StatesAct DEF AccTypeInv, AccTypeOK
<1>11. (\A q \in Request : At(q, "save")' => Registered(act[q].on)') /\ CallersRegistered'
  <2> SUFFICES ASSUME NEW q \in Request
               PROVE  /\ act'[q].pc = "save" => users'[act'[q].on] # Nil
                      /\ act'[q].pc = "handle" => users'[act'[q].token.who] # Nil
    BY DEF At, Registered, CallersRegistered
  <2>1. act'[q] = IF q = r THEN Idle ELSE act[q]
    BY <1>3 DEF AccTypeInv, AccTypeOK
  <2>2. CASE q = r
    BY <2>1, <2>2 DEF Idle
  <2>3. CASE q # r
    <3>1. act[q].pc = "save" => act[q].on \in Account /\ Registered(act[q].on)
      BY ActStates DEF AccTypeInv, AccTypeOK, At, Copied
    <3>2. act[q].pc = "handle" => /\ act[q].token.who \in Account
                                  /\ Registered(act[q].token.who)
      BY ActStates DEF AccTypeInv, AccTypeOK, CallersRegistered, At, Checked, Token
    <3> QED
      BY <2>1, <2>3, <3>1, <3>2, <1>8 DEF Registered
  <2> QED
    BY <2>2, <2>3
<1> QED
  BY <1>3, <1>7, <1>9, <1>10, <1>11 DEF AccTypeInv, AccTypeOK, EnvTypeOK, env

LEMMA AccTypeStep ==
    ASSUME AccTypeInv, [AccNext]_<<accVars, env>>
    PROVE  AccTypeInv'
<1>0. /\ act \in [Request -> ActState] /\ users \in [Account -> User \union {Nil}]
      /\ tokens \subseteq Token
  BY DEF AccTypeInv, AccTypeOK
<1>1. ASSUME NEW r \in Request, NEW a \in Account, Register(r, a) PROVE AccTypeInv'
  <2> DEFINE to == [pc |-> "create", who |-> a, role |-> BootstrapRole]
  <2>1. to \in Filed /\ to.pc # "save" /\ to.pc # "handle"
    BY Roles DEF Filed, BootstrapRole
  <2>2. act' = [act EXCEPT ![r] = to] /\ UNCHANGED <<users, tokens, secret, asked, overrun, origin, env>>
    BY <1>1 DEF Register
  <2> HIDE DEF to
  <2> QED
    BY <1>0, <2>1, <2>2, MoveType, StatesAct
<1>2. ASSUME NEW r \in Request, NEW a \in Account, Login(r, a) PROVE AccTypeInv'
  <2> DEFINE to == [pc |-> "sign", who |-> a, role |-> users[a].role]
  <2>1. to \in Filed /\ to.pc # "save" /\ to.pc # "handle"
    BY <1>0, <1>2 DEF Filed, Login, Registered, User
  <2>2. act' = [act EXCEPT ![r] = to] /\ UNCHANGED <<users, tokens, secret, asked, overrun, origin, env>>
    BY <1>2 DEF Login
  <2> HIDE DEF to
  <2> QED
    BY <1>0, <2>1, <2>2, MoveType, StatesAct
<1>3. ASSUME NEW r \in Request, NEW t \in tokens, NEW call \in Asked, Validate(r, t, call)
      PROVE  AccTypeInv'
  <2> DEFINE to == [pc |-> "authorize", token |-> t, call |-> call, shut |-> Shut(t.who)]
  <2>1. to \in Checked /\ to.pc # "save" /\ to.pc # "handle"
    BY <1>0, AccountsAssumption DEF Checked, Shut, Registered
  <2>2. act' = [act EXCEPT ![r] = to] /\ UNCHANGED <<users, tokens, secret, asked, overrun, origin, env>>
    BY <1>3 DEF Validate
  <2> HIDE DEF to
  <2> QED
    BY <1>0, <2>1, <2>2, MoveType, StatesAct
<1>4. ASSUME NEW r \in Request, RespondWithToken(r) PROVE AccTypeInv'
  <2>1. act[r] \in Filed
    BY <1>0, <1>4, ActStates DEF RespondWithToken, At
  <2>2. Sign(act[r].who, act[r].role) \in Token
    BY <2>1, SignType DEF Filed
  <2>3. Idle.pc = "idle"
    BY DEF Idle
  <2> QED
    BY <1>0, <1>4, <2>2, <2>3, MoveType, StatesAct DEF RespondWithToken
<1>5. ASSUME NEW r \in Request, Authorize(r) PROVE AccTypeInv'
  <2> DEFINE to == IF Permitted(act[r].token, act[r].call)
                   THEN [act[r] EXCEPT !.pc = "handle"] ELSE Idle
  <2>1. act[r] \in Checked
    BY <1>0, <1>5, ActStates DEF Authorize, At
  <2>2. /\ to \in ActState /\ to.pc # "save"
        /\ to.pc = "handle" => Registered(to.token.who)
    <3>1. /\ [act[r] EXCEPT !.pc = "handle"] \in Checked
          /\ [act[r] EXCEPT !.pc = "handle"].pc = "handle"
          /\ [act[r] EXCEPT !.pc = "handle"].token = act[r].token
      BY <2>1 DEF Checked
    <3>2. Idle.pc = "idle"
      BY DEF Idle
    <3> QED
      BY <3>1, <3>2, StatesAct DEF Permitted
  <2>3. act' = [act EXCEPT ![r] = to] /\ UNCHANGED <<users, tokens, secret, asked, overrun, origin, env>>
    BY <1>5 DEF Authorize
  <2> HIDE DEF to
  <2> QED
    BY <1>0, <2>2, <2>3, MoveType
<1>6. ASSUME NEW r \in Request, ListUsers(r) \/ GiveUp(r) PROVE AccTypeInv'
  <2>1. Idle.pc = "idle"
    BY DEF Idle
  <2> QED
    BY <1>0, <1>6, <2>1, MoveType, StatesAct DEF ListUsers, GiveUp
<1>7. ASSUME NEW r \in Request, UpdateMyIntegrationIdentities(r) PROVE AccTypeInv'
  BY <1>7, IdentityType
<1>8. ASSUME NEW r \in Request, ReadUser(r) PROVE AccTypeInv'
  <2> DEFINE call == act[r].call
             copy == Patched(users[call.on], call)
             to == IF Registered(call.on)
                   THEN [pc |-> "save", on |-> call.on, column |-> call.kind,
                         copy |-> copy, behind |-> FALSE]
                   ELSE Idle
  <2>1. act[r] \in Checked /\ call.kind \in Column
    BY <1>0, <1>8, ActStates DEF ReadUser, At
  <2>2. call \in Call /\ call.on \in Account
    BY <2>1 DEF Checked, Call, Column
  <2>3. CASE Registered(call.on)
    <3>1. copy \in Wish
      BY <1>0, <2>1, <2>2, <2>3, PatchedType DEF Registered
    <3>2. to \in Copied /\ to.on = call.on /\ to.pc # "handle"
      BY <2>1, <2>2, <2>3, <3>1 DEF Copied, Wish
    <3>3. act' = [act EXCEPT ![r] = to] /\ UNCHANGED <<users, tokens, secret, asked, overrun, origin, env>>
      BY <1>8 DEF ReadUser
    <3> HIDE DEF to, call
    <3> QED
      BY <1>0, <2>3, <3>2, <3>3, MoveType, StatesAct
  <2>4. CASE ~Registered(call.on)
    <3>1. act' = [act EXCEPT ![r] = Idle] /\ UNCHANGED <<users, tokens, secret, asked, overrun, origin, env>>
      BY <1>8, <2>4 DEF ReadUser
    <3>2. Idle.pc = "idle"
      BY DEF Idle
    <3> QED
      BY <1>0, <3>1, <3>2, MoveType, StatesAct
  <2> QED
    BY <2>3, <2>4
<1>9. ASSUME NEW new \in 0 .. MaxSecrets, RestartServer(new) PROVE AccTypeInv'
  BY <1>0, <1>9, StatesAct, AccountsAssumption
     DEF RestartServer, AccTypeInv, AccTypeOK, EnvTypeOK, CallersRegistered, env, At, Idle, Registered
<1>10. ASSUME AccTick PROVE AccTypeInv'
  BY <1>10 DEF AccTick, Tick, accVars, AccTypeInv, AccTypeOK, EnvTypeOK, CallersRegistered, At, Registered
<1>11. ASSUME UNCHANGED <<accVars, env>> PROVE AccTypeInv'
  BY <1>11 DEF accVars, env, AccTypeInv, AccTypeOK, EnvTypeOK, CallersRegistered, At, Registered
<1> QED
  BY <1>1, <1>2, <1>3, <1>4, <1>5, <1>6, <1>7, <1>8, <1>9, <1>10, <1>11,
     CreateUserType, SaveUserType DEF AccNext

LEMMA AccTypeInit == AccInit /\ EnvInit => AccTypeInv
BY AccountsAssumption, StatesAct
   DEF AccInit, EnvInit, AccTypeInv, AccTypeOK, EnvTypeOK, CallersRegistered, At, Idle, Registered

\* Every variable of the accounts keeps its type, and no handler stores or serves an
\* account that is not there.
THEOREM AccTypeCorrect == AccSpec => []AccTypeOK
<1>1. AccInit /\ EnvInit => AccTypeInv
  BY AccTypeInit
<1>2. AccTypeInv /\ [AccNext]_<<accVars, env>> => AccTypeInv'
  BY AccTypeStep
<1>3. AccTypeInv => AccTypeOK
  BY DEF AccTypeInv
<1> QED
  BY <1>1, <1>2, <1>3, PTL DEF AccSpec

-------------------------------------------------------------------------------
(***************************************************************************)
(* The first user. What a registration under way may be: one that saw an   *)
(* empty table, before anybody was stored; or one that saw somebody.       *)
(***************************************************************************)
NobodyStored == \A a \in Account : ~Registered(a)

RolesFirst ==
    \A r \in Request : At(r, "create") =>
        \/ act[r].role = "admin" /\ (NobodyStored \/ act[r].who \in origin.early)
        \/ act[r].role = "viewer" /\ ~NobodyStored

FirstInv ==
    /\ AccTypeInv
    /\ Bootstrapped
    /\ NobodyStored => origin.first = Nil /\ origin.admins = {}
    /\ origin.first = Nil => NobodyStored
    /\ RolesFirst

LEMMA FirstInit == AccInit /\ EnvInit => FirstInv
BY AccTypeInit DEF AccInit, FirstInv, Bootstrapped, NobodyStored, RolesFirst, Registered, At, Idle

\* Steps that add nobody to those stored, or to those being registered.
LEMMA FirstKept ==
    ASSUME FirstInv, AccTypeInv',
           \A a \in Account : Registered(a)' <=> Registered(a),
           \A q \in Request : act'[q].pc = "create" => act'[q] = act[q],
           origin' = origin
    PROVE  FirstInv'
<1>1. NobodyStored' <=> NobodyStored
  BY DEF NobodyStored
<1>2. Bootstrapped'
  BY DEF FirstInv, Bootstrapped
<1>3. RolesFirst'
  BY <1>1 DEF FirstInv, RolesFirst, At
<1> QED
  BY <1>1, <1>2, <1>3 DEF FirstInv

LEMMA RegisterFirst ==
    ASSUME FirstInv, AccTypeInv', NEW r \in Request, NEW a \in Account, Register(r, a)
    PROVE  FirstInv'
<1>1. act' = [act EXCEPT ![r] = [pc |-> "create", who |-> a, role |-> BootstrapRole]]
      /\ users' = users /\ origin' = origin
  BY DEF Register
<1>2. NobodyStored' <=> NobodyStored
  BY <1>1 DEF NobodyStored, Registered
<1>3. Bootstrapped'
  BY <1>1 DEF FirstInv, Bootstrapped, Registered
<1>4. RolesFirst'
  <2> SUFFICES ASSUME NEW q \in Request, act'[q].pc = "create"
               PROVE  \/ act'[q].role = "admin" /\ (NobodyStored \/ act'[q].who \in origin.early)
                      \/ act'[q].role = "viewer" /\ ~NobodyStored
    BY <1>1, <1>2 DEF RolesFirst, At
  <2>1. CASE q = r
    <3>1. act'[q].role = BootstrapRole
      BY <1>1, <2>1 DEF FirstInv, AccTypeInv, AccTypeOK
    <3> QED
      BY <3>1 DEF BootstrapRole, NobodyStored
  <2>2. CASE q # r
    BY <1>1, <2>2 DEF FirstInv, RolesFirst, At, AccTypeInv, AccTypeOK
  <2> QED
    BY <2>1, <2>2
<1> QED
  BY <1>1, <1>2, <1>3, <1>4 DEF FirstInv

\* Stored first: an Admin, with everybody then being registered. Stored later: an Admin
\* only if among those.
LEMMA CreateUserFirst ==
    ASSUME FirstInv, AccTypeInv', NEW r \in Request, CreateUser(r)
    PROVE  FirstInv'
<1> DEFINE a == act[r].who
           role == act[r].role
<1>1. a \in Account
  BY ActStates DEF CreateUser, At, Filed, FirstInv, AccTypeInv, AccTypeOK
<1>2. /\ origin'.first = IF origin.first = Nil THEN a ELSE origin.first
      /\ origin'.early = IF origin.first = Nil THEN Registering ELSE origin.early
      /\ origin'.admins = IF role = "admin" THEN origin.admins \union {a} ELSE origin.admins
      /\ act' = [act EXCEPT ![r] = Idle]
      /\ At(r, "create") /\ ~Registered(a)
  BY DEF CreateUser
<1>3. users'[a] # Nil /\ ~NobodyStored'
  <2>1. users'[a] = [role |-> role, active |-> TRUE, identity |-> Nil]
    BY <1>1 DEF CreateUser, FirstInv, AccTypeInv, AccTypeOK
  <2>2. [role |-> role, active |-> TRUE, identity |-> Nil] \in User
    BY ActStates, <1>2 DEF At, Filed, FirstInv, AccTypeInv, AccTypeOK, User
  <2> HIDE DEF role, a
  <2>3. users'[a] # Nil
    BY <2>1, <2>2, AccountsAssumption
  <2> QED
    BY <1>1, <2>3 DEF Registered, NobodyStored
<1>4. a # Nil
  BY <1>1, AccountsAssumption
<1>5. \A q \in Request : At(q, "create") => act[q].who \in Registering
  BY DEF Registering
<1>6. \A q \in Request : At(q, "create")' => At(q, "create") /\ act'[q] = act[q]
  BY <1>2 DEF At, Idle, FirstInv, AccTypeInv, AccTypeOK
<1>7. CASE NobodyStored
  <2>1. origin.first = Nil /\ origin.admins = {} /\ role = "admin"
    BY <1>2, <1>7 DEF FirstInv, RolesFirst
  <2>2. origin'.first = a /\ origin'.admins = {a} /\ origin'.early = Registering
    BY <1>2, <2>1
  <2>3. Bootstrapped'
    BY <1>2, <1>5, <2>2 DEF Bootstrapped
  <2>4. RolesFirst'
    <3> SUFFICES ASSUME NEW q \in Request, act'[q].pc = "create"
                 PROVE  act'[q].role = "admin" /\ act'[q].who \in origin'.early
      BY DEF RolesFirst, At
    <3> QED
      BY <1>5, <1>6, <1>7, <2>2 DEF At, FirstInv, RolesFirst
  <2> QED
    BY <1>3, <1>4, <2>2, <2>3, <2>4 DEF FirstInv
<1>8. CASE ~NobodyStored
  <2>1. origin.first # Nil
    BY <1>8 DEF FirstInv
  <2>2. origin'.first = origin.first /\ origin'.early = origin.early
    BY <1>2, <2>1
  <2>3. Bootstrapped'
    BY <1>2, <1>8, <2>2 DEF Bootstrapped, NobodyStored, FirstInv, RolesFirst
  <2>4. RolesFirst'
    <3> SUFFICES ASSUME NEW q \in Request, act'[q].pc = "create"
                 PROVE  \/ act'[q].role = "admin" /\ act'[q].who \in origin'.early
                        \/ act'[q].role = "viewer"
      BY <1>3 DEF RolesFirst, At
    <3> QED
      BY <1>6, <1>8, <2>2 DEF At, FirstInv, RolesFirst
  <2> QED
    BY <1>3, <2>1, <2>2, <2>3, <2>4 DEF FirstInv
<1> QED
  BY <1>7, <1>8

\* A handler that goes elsewhere than to the storing of a new account.
LEMMA MoveFirst ==
    ASSUME FirstInv, AccTypeInv', NEW r \in Request, NEW to, to.pc # "create",
           act' = [act EXCEPT ![r] = to], users' = users, origin' = origin
    PROVE  FirstInv'
<1>1. \A q \in Request : act'[q] = IF q = r THEN to ELSE act[q]
  BY DEF FirstInv, AccTypeInv, AccTypeOK
<1>2. \A b \in Account : Registered(b)' <=> Registered(b)
  BY DEF Registered
<1> QED
  BY <1>1, <1>2, FirstKept

LEMMA FirstStep ==
    ASSUME FirstInv, [AccNext]_<<accVars, env>>
    PROVE  FirstInv'
<1>0. AccTypeInv' /\ AccTypeInv
  BY AccTypeStep DEF FirstInv
<1>1. Idle.pc # "create"
  BY DEF Idle
<1>2. ASSUME NEW r \in Request, NEW a \in Account, Login(r, a) PROVE FirstInv'
  <2> DEFINE to == [pc |-> "sign", who |-> a, role |-> users[a].role]
  <2>1. to.pc # "create" /\ act' = [act EXCEPT ![r] = to] /\ users' = users /\ origin' = origin
    BY <1>2 DEF Login
  <2> HIDE DEF to
  <2> QED
    BY <1>0, <2>1, MoveFirst
<1>3. ASSUME NEW r \in Request, NEW t \in tokens, NEW call \in Asked, Validate(r, t, call)
      PROVE  FirstInv'
  <2> DEFINE to == [pc |-> "authorize", token |-> t, call |-> call, shut |-> Shut(t.who)]
  <2>1. to.pc # "create" /\ act' = [act EXCEPT ![r] = to] /\ users' = users /\ origin' = origin
    BY <1>3 DEF Validate
  <2> HIDE DEF to
  <2> QED
    BY <1>0, <2>1, MoveFirst
<1>4. ASSUME NEW r \in Request, RespondWithToken(r) \/ ListUsers(r) \/ GiveUp(r) PROVE FirstInv'
  BY <1>0, <1>1, <1>4, MoveFirst DEF RespondWithToken, ListUsers, GiveUp
<1>5. ASSUME NEW r \in Request, Authorize(r) PROVE FirstInv'
  <2> DEFINE to == IF Permitted(act[r].token, act[r].call)
                   THEN [act[r] EXCEPT !.pc = "handle"] ELSE Idle
  <2>1. act[r] \in Checked
    BY <1>0, <1>5, ActStates DEF Authorize, At, AccTypeInv, AccTypeOK
  <2>2. to.pc # "create"
    BY <1>1, <2>1 DEF Checked
  <2>3. act' = [act EXCEPT ![r] = to] /\ users' = users /\ origin' = origin
    BY <1>5 DEF Authorize
  <2> HIDE DEF to
  <2> QED
    BY <1>0, <2>2, <2>3, MoveFirst
<1>6. ASSUME NEW r \in Request, UpdateMyIntegrationIdentities(r) PROVE FirstInv'
  <2> DEFINE a == act[r].token.who
  <2>1. a \in Account /\ Registered(a)
    BY <1>0, <1>6, ActStates DEF UpdateMyIntegrationIdentities, At, Checked, Token,
                                AccTypeInv, AccTypeOK, CallersRegistered
  <2>2. asked' = asked /\ origin' = origin /\ act' = [act EXCEPT ![r] = Idle]
    BY <1>6 DEF UpdateMyIntegrationIdentities
  <2>3. \A b \in Account : Registered(b)' <=> Registered(b)
    BY <1>0, <2>2 DEF AccTypeInv, AccTypeOK
  <2> QED
    BY <1>0, <1>1, <2>2, <2>3, FirstKept DEF AccTypeInv, AccTypeOK
<1>7. ASSUME NEW r \in Request, ReadUser(r) PROVE FirstInv'
  <2> DEFINE call == act[r].call
             to == IF Registered(call.on)
                   THEN [pc |-> "save", on |-> call.on, column |-> call.kind,
                         copy |-> Patched(users[call.on], call), behind |-> FALSE]
                   ELSE Idle
  <2>1. to.pc # "create"
    BY <1>1
  <2>2. act' = [act EXCEPT ![r] = to] /\ users' = users /\ origin' = origin
    BY <1>7 DEF ReadUser
  <2> HIDE DEF to
  <2> QED
    BY <1>0, <2>1, <2>2, MoveFirst
<1>8. ASSUME NEW r \in Request, SaveUser(r) PROVE FirstInv'
  <2>1. /\ Known(r) \in Wish /\ act[r].on \in Account /\ Registered(act[r].on)
        /\ asked[act[r].on] \in Wish
    BY <1>0, <1>8, SaveUserFacts
  <2>2. Known(r) # Nil /\ asked[act[r].on] # Nil
    BY <2>1, WishesSome
  <2>3. /\ asked' = [asked EXCEPT ![act[r].on] = Known(r)] /\ origin' = origin
        /\ act' = [q \in Request |-> Left(r, q)]
    BY <1>8, SaveUserStep
  <2>4. \A b \in Account : Registered(b)' <=> Registered(b)
    <3>1. \A b \in Account : asked'[b] # Nil <=> asked[b] # Nil
      BY <1>0, <2>1, <2>2, <2>3 DEF AccTypeInv, AccTypeOK
    <3> QED
      BY <1>0, <3>1 DEF AccTypeInv, AccTypeOK
  <2>5. ASSUME NEW q \in Request, act'[q].pc = "create" PROVE act'[q] = act[q]
    <3>1. act[q] \in ActState /\ Left(r, q).pc = "create" /\ act'[q] = Left(r, q)
      BY <1>0, <2>3, <2>5 DEF AccTypeInv, AccTypeOK
    <3>2. CASE q = r
      BY <1>1, <3>1, <3>2 DEF Left
    <3>3. CASE At(q, "save") /\ Left(r, q) = [act[q] EXCEPT !.behind = TRUE]
      BY <3>1, <3>3, ActStates DEF At, Copied
    <3>4. CASE /\ act[q].pc \in {"authorize", "handle"}
               /\ Left(r, q) = [act[q] EXCEPT !.shut = FALSE]
      <4>1. Left(r, q).pc = act[q].pc
        BY <3>1, <3>4, ActStates DEF Checked
      <4> QED
        BY <3>1, <3>4, <4>1
    <3> QED
      BY <3>1, <3>2, <3>3, <3>4 DEF Left
  <2> QED
    BY <1>0, <2>3, <2>4, <2>5, FirstKept
<1>9. ASSUME NEW new \in 0 .. MaxSecrets, RestartServer(new) PROVE FirstInv'
  BY <1>0, <1>1, <1>9, FirstKept DEF RestartServer, Registered
<1>10. ASSUME AccTick \/ UNCHANGED <<accVars, env>> PROVE FirstInv'
  BY <1>0, <1>10, FirstKept DEF AccTick, accVars, Registered
<1> QED
  BY <1>0, <1>2, <1>3, <1>4, <1>5, <1>6, <1>7, <1>8, <1>9, <1>10,
     RegisterFirst, CreateUserFirst DEF AccNext

\* Whoever is stored first is Admin, and nobody else but those whose registration was
\* then under way, whatever order register's two steps take.
THEOREM BootstrapCorrect == AccSpec => []Bootstrapped
<1>1. AccInit /\ EnvInit => FirstInv
  BY FirstInit
<1>2. FirstInv /\ [AccNext]_<<accVars, env>> => FirstInv'
  BY FirstStep
<1>3. FirstInv => Bootstrapped
  BY DEF FirstInv
<1> QED
  BY <1>1, <1>2, <1>3, PTL DEF AccSpec

-------------------------------------------------------------------------------
(***************************************************************************)
(* Role and activity. A copy that no other write has overtaken agrees with *)
(* the row on the column its handler leaves alone.                         *)
(***************************************************************************)
CopiesAgree ==
    \A r \in Request : At(r, "save") /\ ~act[r].behind =>
        \A c \in Column \ {act[r].column} : act[r].copy[c] = users[act[r].on][c]

ColumnInv == AccTypeInv /\ ColumnsAsAsked /\ CopiesAgree

LEMMA ColumnInit == AccInit /\ EnvInit => ColumnInv
BY AccTypeInit DEF AccInit, ColumnInv, ColumnsAsAsked, CopiesAgree, Registered, At, Idle

\* A handler that goes elsewhere than to the storing of a copy, and stores none.
LEMMA ColumnKept ==
    ASSUME ColumnInv, AccTypeInv', NEW r \in Request, NEW to, to.pc # "save",
           act' = [act EXCEPT ![r] = to],
           users' = users, asked' = asked, overrun' = overrun
    PROVE  ColumnInv'
<1>1. \A q \in Request : act'[q] = IF q = r THEN to ELSE act[q]
  BY DEF ColumnInv, AccTypeInv, AccTypeOK
<1>2. ColumnsAsAsked'
  BY DEF ColumnInv, ColumnsAsAsked, Registered
<1>3. CopiesAgree'
  BY <1>1 DEF ColumnInv, CopiesAgree, At
<1> QED
  BY <1>2, <1>3 DEF ColumnInv

LEMMA NewColumns ==
    ASSUME NEW role, NEW active, NEW c \in Column
    PROVE  [role |-> role, active |-> active, identity |-> Nil][c]
             = [role |-> role, active |-> active][c]
BY DEF Column

\* The account is new: nobody holds a copy of it.
LEMMA CreateUserColumn ==
    ASSUME ColumnInv, AccTypeInv', NEW r \in Request, CreateUser(r)
    PROVE  ColumnInv'
<1>0. act[r].who \in Account /\ act[r].role \in OrgRole
  BY ActStates DEF CreateUser, At, Filed, ColumnInv, AccTypeInv, AccTypeOK
<1> PICK a \in Account, role \in OrgRole, active \in BOOLEAN :
          /\ ~Registered(a)
          /\ users' = [users EXCEPT ![a] = [role |-> role, active |-> active, identity |-> Nil]]
          /\ asked' = [asked EXCEPT ![a] = [role |-> role, active |-> active]]
          /\ act' = [act EXCEPT ![r] = Idle]
          /\ overrun' = overrun
  BY <1>0 DEF CreateUser
<1>1. ColumnsAsAsked'
  <2> SUFFICES ASSUME NEW b \in Account, NEW c \in Column,
                      users'[b] # Nil, users'[b][c] # asked'[b][c]
               PROVE  <<b, c>> \in overrun
    BY DEF ColumnsAsAsked, Registered
  <2>1. b # a
    <3>1. /\ users'[a] = [role |-> role, active |-> active, identity |-> Nil]
          /\ asked'[a] = [role |-> role, active |-> active]
      BY DEF ColumnInv, AccTypeInv, AccTypeOK
    <3> QED
      BY <3>1, NewColumns
  <2> QED
    BY <2>1 DEF ColumnInv, ColumnsAsAsked, AccTypeInv, AccTypeOK, Registered
<1>2. CopiesAgree'
  <2> SUFFICES ASSUME NEW q \in Request, act'[q].pc = "save", ~act'[q].behind,
                      NEW c \in Column \ {act'[q].column}
               PROVE  act'[q].copy[c] = users'[act'[q].on][c]
    BY DEF CopiesAgree, At
  <2>1. act'[q] = act[q]
    BY DEF ColumnInv, AccTypeInv, AccTypeOK, Idle
  <2>2. act[q].on \in Account /\ act[q].on # a
    BY <2>1, ActStates DEF ColumnInv, AccTypeInv, AccTypeOK, At, Copied
  <2>3. users'[act[q].on] = users[act[q].on]
    BY <2>2 DEF ColumnInv, AccTypeInv, AccTypeOK
  <2> QED
    BY <2>1, <2>3 DEF ColumnInv, CopiesAgree, At
<1> QED
  BY <1>1, <1>2 DEF ColumnInv

\* The user's own update leaves both columns alone.
LEMMA IdentityColumn ==
    ASSUME ColumnInv, AccTypeInv', NEW r \in Request, UpdateMyIntegrationIdentities(r)
    PROVE  ColumnInv'
<1>0. /\ act[r].token.who \in Account /\ Registered(act[r].token.who)
      /\ act[r].call.value \in Identity \union {Nil}
  <2>1. act[r] \in Checked /\ act[r].call.kind = "identity"
    BY ActStates DEF UpdateMyIntegrationIdentities, At, ColumnInv, AccTypeInv, AccTypeOK
  <2> QED
    BY <2>1 DEF UpdateMyIntegrationIdentities, At, Checked, Token, Call, ColumnInv, AccTypeInv,
                CallersRegistered
<1> PICK a \in Account, new \in Identity \union {Nil} :
          /\ Registered(a)
          /\ users' = [users EXCEPT ![a].identity = new]
          /\ act' = [act EXCEPT ![r] = Idle]
          /\ asked' = asked /\ overrun' = overrun
  BY <1>0 DEF UpdateMyIntegrationIdentities
<1>1. users[a] \in User
  BY DEF ColumnInv, AccTypeInv, AccTypeOK, Registered
<1>2. \A b \in Account, c \in Column : users'[b][c] = users[b][c]
  <2> TAKE b \in Account, c \in Column
  <2>1. CASE b = a
    <3>1. users'[a] = [users[a] EXCEPT !.identity = new]
      BY DEF ColumnInv, AccTypeInv, AccTypeOK
    <3> QED
      BY <1>1, <2>1, <3>1 DEF User, Column
  <2>2. CASE b # a
    BY <2>2 DEF ColumnInv, AccTypeInv, AccTypeOK
  <2> QED
    BY <2>1, <2>2
<1>3. \A b \in Account : Registered(b)' <=> Registered(b)
  BY DEF ColumnInv, AccTypeInv, AccTypeOK
<1>4. ColumnsAsAsked'
  BY <1>2, <1>3 DEF ColumnInv, ColumnsAsAsked
<1>5. CopiesAgree'
  <2> SUFFICES ASSUME NEW q \in Request, act'[q].pc = "save", ~act'[q].behind,
                      NEW c \in Column \ {act'[q].column}
               PROVE  act'[q].copy[c] = users'[act'[q].on][c]
    BY DEF CopiesAgree, At
  <2>1. act'[q] = act[q]
    BY DEF ColumnInv, AccTypeInv, AccTypeOK, Idle
  <2>2. act[q].on \in Account
    BY <2>1, ActStates DEF ColumnInv, AccTypeInv, AccTypeOK, Copied
  <2> QED
    BY <1>2, <2>1, <2>2 DEF ColumnInv, CopiesAgree, At
<1> QED
  BY <1>4, <1>5 DEF ColumnInv

LEMMA PatchedOther ==
    ASSUME NEW user \in User, NEW call \in Call, call.kind \in Column,
           NEW c \in Column, c # call.kind
    PROVE  Patched(user, call)[c] = user[c]
<1>1. CASE call.kind = "role" /\ c = "active"
  BY <1>1 DEF Patched
<1>2. CASE call.kind = "active" /\ c = "role"
  BY <1>2 DEF Patched
<1> QED
  BY <1>1, <1>2 DEF Column

LEMMA StoredColumns ==
    ASSUME NEW user \in User, NEW copy \in Wish, NEW c \in Column
    PROVE  Stored(user, copy)[c] = copy[c]
<1>1. CASE c = "role"
  BY <1>1 DEF Stored, User, Wish
<1>2. CASE c = "active"
  BY <1>2 DEF Stored, User, Wish
<1> QED
  BY <1>1, <1>2 DEF Column

LEMMA KnownColumns ==
    ASSUME NEW r \in Request, asked[act[r].on] \in Wish, NEW c \in Column
    PROVE  Known(r)[c] = IF c = act[r].column THEN act[r].copy[c] ELSE asked[act[r].on][c]
<1>1. DOMAIN asked[act[r].on] = Column
  BY DEF Wish, Column
<1> QED
  BY <1>1 DEF Known

LEMMA ReadUserColumn ==
    ASSUME ColumnInv, AccTypeInv', NEW r \in Request, ReadUser(r)
    PROVE  ColumnInv'
<1> DEFINE call == act[r].call
           to == IF Registered(call.on)
                 THEN [pc |-> "save", on |-> call.on, column |-> call.kind,
                       copy |-> Patched(users[call.on], call), behind |-> FALSE]
                 ELSE Idle
<1>1. act[r] \in Checked /\ call.kind \in Column
  BY ActStates DEF ReadUser, At, ColumnInv, AccTypeInv, AccTypeOK
<1>2. call \in Call /\ call.on \in Account
  BY <1>1 DEF Checked, Call, Column
<1>3. act' = [act EXCEPT ![r] = to]
      /\ UNCHANGED <<users, tokens, secret, asked, overrun, origin, env>>
  BY DEF ReadUser
<1>4. \A c \in Column :
          to.pc = "save" /\ c # to.column => to.copy[c] = users[to.on][c]
  <2>1. CASE Registered(call.on)
    <3>1. users[call.on] \in User
      BY <1>2, <2>1 DEF Registered, ColumnInv, AccTypeInv, AccTypeOK
    <3>2. to.column = call.kind /\ to.copy = Patched(users[call.on], call) /\ to.on = call.on
      BY <2>1
    <3> HIDE DEF to, call
    <3> QED
      BY <1>1, <1>2, <3>1, <3>2, PatchedOther
  <2>2. CASE ~Registered(call.on)
    BY <2>2 DEF Idle
  <2> QED
    BY <2>1, <2>2
<1> HIDE DEF to, call
<1>5. \A q \in Request : act'[q] = IF q = r THEN to ELSE act[q]
  BY <1>3 DEF ColumnInv, AccTypeInv, AccTypeOK
<1>6. ColumnsAsAsked'
  BY <1>3 DEF ColumnInv, ColumnsAsAsked, Registered
<1>7. CopiesAgree'
  BY <1>3, <1>4, <1>5 DEF ColumnInv, CopiesAgree, At
<1> QED
  BY <1>6, <1>7 DEF ColumnInv

LEMMA SaveUserColumn ==
    ASSUME ColumnInv, AccTypeInv', NEW r \in Request, SaveUser(r)
    PROVE  ColumnInv'
<1> DEFINE a == act[r].on
           copy == act[r].copy
           column == act[r].column
           row == Stored(users[a], copy)
<1>0. AccTypeInv
  BY DEF ColumnInv
<1>1. /\ a \in Account /\ copy \in Wish /\ column \in Column /\ Registered(a)
      /\ users[a] \in User /\ asked[a] \in Wish
  BY <1>0, SaveUserFacts
<1>2. /\ users' = [users EXCEPT ![a] = row]
      /\ asked' = [asked EXCEPT ![a] = Known(r)]
      /\ overrun' = Over(r)
      /\ act' = [q \in Request |-> Left(r, q)]
  BY SaveUserStep
<1>3. users'[a] = row /\ asked'[a] = Known(r)
  BY <1>0, <1>1, <1>2 DEF AccTypeInv, AccTypeOK
<1>4. \A b \in Account : b # a => users'[b] = users[b] /\ asked'[b] = asked[b]
  BY <1>0, <1>1, <1>2 DEF AccTypeInv, AccTypeOK
<1>5. ASSUME NEW c \in Column, row[c] # Known(r)[c] PROVE <<a, c>> \in Over(r)
  <2>1. c # column /\ copy[c] # asked[a][c] /\ Known(r)[c] = asked[a][c]
    BY <1>1, <1>5, StoredColumns, KnownColumns
  <2>2. c = IF column = "role" THEN "active" ELSE "role"
    BY <1>1, <2>1 DEF Column
  <2>3. CASE act[r].behind
    BY <2>1, <2>2, <2>3 DEF Over, Known
  <2>4. CASE ~act[r].behind
    <3>1. copy[c] = users[a][c]
      BY <1>1, <2>1, <2>4 DEF ColumnInv, CopiesAgree, SaveUser
    <3>2. <<a, c>> \in overrun
      BY <1>1, <2>1, <3>1 DEF ColumnInv, ColumnsAsAsked
    <3> QED
      BY <2>1, <3>2 DEF Over
  <2> QED
    BY <2>3, <2>4
<1>6. ColumnsAsAsked'
  <2> SUFFICES ASSUME NEW b \in Account, NEW c \in Column,
                      users'[b] # Nil, users'[b][c] # asked'[b][c]
               PROVE  <<b, c>> \in overrun'
    BY DEF ColumnsAsAsked, Registered
  <2>1. CASE b = a
    BY <1>2, <1>3, <1>5, <2>1
  <2>2. CASE b # a
    BY <1>2, <1>4, <2>2 DEF ColumnInv, ColumnsAsAsked, Registered, Over
  <2> QED
    BY <2>1, <2>2
<1>7. CopiesAgree'
  <2> SUFFICES ASSUME NEW q \in Request, act'[q].pc = "save", ~act'[q].behind,
                      NEW c \in Column \ {act'[q].column}
               PROVE  act'[q].copy[c] = users'[act'[q].on][c]
    BY DEF CopiesAgree, At
  <2>1. act'[q] = Left(r, q) /\ act[q] \in ActState
    BY <1>0, <1>2 DEF AccTypeInv, AccTypeOK
  <2>2. q # r
    BY <2>1 DEF Left, Idle
  <2>3. ~(At(q, "save") /\ act[q].on = a)
    BY <2>1, <2>2, ActStates DEF Left, At, Copied
  <2>4. ~(act[q].pc \in {"authorize", "handle"} /\ act'[q] = [act[q] EXCEPT !.shut = FALSE])
    BY <2>1, ActStates DEF Checked
  <2>5. act'[q] = act[q]
    BY <2>1, <2>2, <2>3, <2>4 DEF Left
  <2>6. act[q].on \in Account /\ act[q].on # a
    BY <2>1, <2>3, <2>5, ActStates DEF At, Copied
  <2> QED
    BY <1>4, <2>5, <2>6 DEF ColumnInv, CopiesAgree, At
<1> QED
  BY <1>6, <1>7 DEF ColumnInv

LEMMA ColumnStep ==
    ASSUME ColumnInv, [AccNext]_<<accVars, env>>
    PROVE  ColumnInv'
<1>0. AccTypeInv' /\ AccTypeInv
  BY AccTypeStep DEF ColumnInv
<1>1. Idle.pc # "save"
  BY DEF Idle
<1>2. ASSUME NEW r \in Request, NEW a \in Account, Register(r, a) PROVE ColumnInv'
  <2> DEFINE to == [pc |-> "create", who |-> a, role |-> BootstrapRole]
  <2>1. to.pc # "save" /\ act' = [act EXCEPT ![r] = to]
    BY <1>2 DEF Register
  <2> HIDE DEF to
  <2> QED
    BY <1>0, <1>2, <2>1, ColumnKept DEF Register
<1>3. ASSUME NEW r \in Request, NEW a \in Account, Login(r, a) PROVE ColumnInv'
  <2> DEFINE to == [pc |-> "sign", who |-> a, role |-> users[a].role]
  <2>1. to.pc # "save" /\ act' = [act EXCEPT ![r] = to]
    BY <1>3 DEF Login
  <2> HIDE DEF to
  <2> QED
    BY <1>0, <1>3, <2>1, ColumnKept DEF Login
<1>4. ASSUME NEW r \in Request, NEW t \in tokens, NEW call \in Asked, Validate(r, t, call)
      PROVE  ColumnInv'
  <2> DEFINE to == [pc |-> "authorize", token |-> t, call |-> call, shut |-> Shut(t.who)]
  <2>1. to.pc # "save" /\ act' = [act EXCEPT ![r] = to]
    BY <1>4 DEF Validate
  <2> HIDE DEF to
  <2> QED
    BY <1>0, <1>4, <2>1, ColumnKept DEF Validate
<1>5. ASSUME NEW r \in Request, RespondWithToken(r) \/ ListUsers(r) \/ GiveUp(r) PROVE ColumnInv'
  BY <1>0, <1>1, <1>5, ColumnKept DEF RespondWithToken, ListUsers, GiveUp
<1>6. ASSUME NEW r \in Request, Authorize(r) PROVE ColumnInv'
  <2> DEFINE to == IF Permitted(act[r].token, act[r].call)
                   THEN [act[r] EXCEPT !.pc = "handle"] ELSE Idle
  <2>1. act[r] \in Checked
    BY <1>0, <1>6, ActStates DEF Authorize, At, AccTypeInv, AccTypeOK
  <2>2. to.pc # "save"
    BY <1>1, <2>1 DEF Checked
  <2>3. act' = [act EXCEPT ![r] = to]
    BY <1>6 DEF Authorize
  <2> HIDE DEF to
  <2> QED
    BY <1>0, <1>6, <2>2, <2>3, ColumnKept DEF Authorize
<1>7. ASSUME NEW new \in 0 .. MaxSecrets, RestartServer(new) PROVE ColumnInv'
  BY <1>0, <1>1, <1>7 DEF RestartServer, ColumnInv, ColumnsAsAsked, CopiesAgree, Registered, At
<1>8. ASSUME AccTick \/ UNCHANGED <<accVars, env>> PROVE ColumnInv'
  BY <1>0, <1>8 DEF AccTick, accVars, ColumnInv, ColumnsAsAsked, CopiesAgree, Registered, At
<1> QED
  BY <1>0, <1>2, <1>3, <1>4, <1>5, <1>6, <1>7, <1>8,
     CreateUserColumn, IdentityColumn, ReadUserColumn, SaveUserColumn DEF AccNext

\* Nothing but a request for it, or the stale write of the other column, changes a
\* user's role or activity, for any number of administrators at work.
THEOREM ColumnsCorrect == AccSpec => []ColumnsAsAsked
<1>1. AccInit /\ EnvInit => ColumnInv
  BY ColumnInit
<1>2. ColumnInv /\ [AccNext]_<<accVars, env>> => ColumnInv'
  BY ColumnStep
<1>3. ColumnInv => ColumnsAsAsked
  BY DEF ColumnInv
<1> QED
  BY <1>1, <1>2, <1>3, PTL DEF AccSpec

-------------------------------------------------------------------------------
(***************************************************************************)
(* Deactivation. A call that has yet to be let in remembers a deactivation *)
(* only while it stands; and then the row shows it.                        *)
(***************************************************************************)
ShutStands ==
    \A r \in Request :
        /\ At(r, "authorize") /\ act[r].shut => Shut(act[r].token.who)
        /\ At(r, "handle") => ~act[r].shut

ShutInv == ColumnInv /\ ShutStands

LEMMA ShutInit == AccInit /\ EnvInit => ShutInv
BY ColumnInit DEF AccInit, ShutInv, ShutStands, At, Idle

\* A deactivation that stands is in the row the interceptor reads.
LEMMA ShutShows ==
    ASSUME ColumnInv, NEW a \in Account, Shut(a)
    PROVE  ~users[a].active
<1>1. users[a] \in User /\ asked[a] \in Wish
  BY DEF ColumnInv, AccTypeInv, AccTypeOK, Shut, Registered, Wish
<1>2. users[a]["active"] = asked[a]["active"]
  BY DEF ColumnInv, ColumnsAsAsked, Shut, Column
<1>3. asked[a].active = FALSE
  BY <1>1 DEF Shut, Wish
<1> QED
  BY <1>2, <1>3

\* A handler that goes elsewhere, and nothing is stored that the others remember.
LEMMA ShutKept ==
    ASSUME ShutInv, ColumnInv', NEW r \in Request, NEW to,
           to.pc = "authorize" => to.shut = Shut(to.token.who),
           to.pc = "handle" => ~to.shut,
           act' = [act EXCEPT ![r] = to],
           \A a \in Account : Shut(a) => Shut(a)',
           to.pc = "authorize" => to.token.who \in Account
    PROVE  ShutInv'
<1>1. \A q \in Request : act'[q] = IF q = r THEN to ELSE act[q]
  BY DEF ShutInv, ColumnInv, AccTypeInv, AccTypeOK
<1> SUFFICES ASSUME NEW q \in Request
             PROVE  /\ act'[q].pc = "authorize" /\ act'[q].shut => Shut(act[q].token.who)'
                    /\ act'[q].pc = "handle" => ~act'[q].shut
  BY DEF ShutInv, ShutStands, At
<1>2. CASE q = r
  BY <1>1, <1>2 DEF Shut
<1>3. CASE q # r
  <2>1. act'[q] = act[q] /\ act[q] \in ActState
    BY <1>1, <1>3 DEF ShutInv, ColumnInv, AccTypeInv, AccTypeOK
  <2>2. act[q].pc = "handle" => ~act[q].shut
    BY DEF ShutInv, ShutStands, At
  <2>3. ASSUME act[q].pc = "authorize", act[q].shut PROVE Shut(act[q].token.who)'
    <3>1. act[q].token.who \in Account /\ Shut(act[q].token.who)
      BY <2>1, <2>3, ActStates DEF ShutInv, ShutStands, At, Checked, Token
    <3>2. PICK u \in Account : u = act[q].token.who
      BY <3>1
    <3>3. Shut(u)' /\ u = act'[q].token.who
      BY <2>1, <3>1, <3>2
    <3> QED
      BY <3>3 DEF Shut, Registered
  <2> QED
    BY <2>1, <2>2, <2>3
<1> QED
  BY <1>2, <1>3

\* Steps that store nothing keep what stands.
LEMMA ShutSame ==
    ASSUME users' = users, asked' = asked, overrun' = overrun
    PROVE  \A a \in Account : Shut(a) <=> Shut(a)'
BY DEF Shut, Registered

LEMMA CreateUserShut ==
    ASSUME ShutInv, ColumnInv', NEW r \in Request, CreateUser(r)
    PROVE  ShutInv'
<1>1. \A a \in Account : Shut(a) => Shut(a)'
  <2> SUFFICES ASSUME NEW a \in Account, Shut(a) PROVE Shut(a)'
    OBVIOUS
  <2>1. a # act[r].who
    BY DEF Shut, CreateUser
  <2> QED
    BY <2>1 DEF Shut, CreateUser, Registered, ShutInv, ColumnInv, AccTypeInv, AccTypeOK
<1>2. act' = [act EXCEPT ![r] = Idle] /\ Idle.pc = "idle"
  BY DEF CreateUser, Idle
<1> QED
  BY <1>1, <1>2, ShutKept

LEMMA IdentityShut ==
    ASSUME ShutInv, ColumnInv', NEW r \in Request, UpdateMyIntegrationIdentities(r)
    PROVE  ShutInv'
<1>1. \A a \in Account : Shut(a) => Shut(a)'
  <2> SUFFICES ASSUME NEW a \in Account, Shut(a) PROVE Shut(a)'
    OBVIOUS
  <2>1. Registered(a)' /\ asked' = asked /\ overrun' = overrun
    BY DEF Shut, UpdateMyIntegrationIdentities, ShutInv, ColumnInv, AccTypeInv, AccTypeOK
  <2> QED
    BY <2>1 DEF Shut
<1>2. act' = [act EXCEPT ![r] = Idle] /\ Idle.pc = "idle"
  BY DEF UpdateMyIntegrationIdentities, Idle
<1> QED
  BY <1>1, <1>2, ShutKept

\* A write that undoes a deactivation is told to the calls that remember it.
LEMMA SaveUserShut ==
    ASSUME ShutInv, ColumnInv', NEW r \in Request, SaveUser(r)
    PROVE  ShutInv'
<1> DEFINE a == act[r].on
<1>0. AccTypeInv /\ AccTypeInv'
  BY DEF ShutInv, ColumnInv
<1>1. a \in Account /\ Known(r) \in Wish /\ Registered(a) /\ act[r].column \in Column
  BY <1>0, SaveUserFacts
<1>2. /\ asked' = [asked EXCEPT ![a] = Known(r)]
      /\ overrun' = Over(r)
      /\ act' = [q \in Request |-> Left(r, q)]
  BY SaveUserStep
<1>3. asked'[a] = Known(r) /\ \A b \in Account : b # a => asked'[b] = asked[b]
  BY <1>0, <1>1, <1>2 DEF AccTypeInv, AccTypeOK
<1>4. \A b \in Account : users'[b] # Nil <=> asked'[b] # Nil
  BY <1>0 DEF AccTypeInv, AccTypeOK, Registered
<1>5. Known(r) # Nil
  BY <1>1, WishesSome
<1> HIDE DEF a
<1>6. ASSUME NEW b \in Account, Shut(b),
             ~(b = a /\ (Known(r).active \/ <<a, "active">> \in Over(r)))
      PROVE  users'[b] # Nil /\ ~asked'[b].active /\ <<b, "active">> \notin overrun'
  <2>1. CASE b = a
    BY <1>2, <1>3, <1>4, <1>5, <1>6, <2>1
  <2>2. CASE b # a
    <3>1. users'[b] # Nil /\ asked'[b] = asked[b]
      BY <1>0, <1>3, <1>4, <1>6, <2>2 DEF Shut, AccTypeInv, AccTypeOK, Registered
    <3>2. <<b, "active">> \notin Over(r)
      BY <1>6, <2>2 DEF Over, Shut, a
    <3> QED
      BY <1>2, <1>6, <3>1, <3>2 DEF Shut
  <2> QED
    BY <2>1, <2>2
<1> SUFFICES ASSUME NEW q \in Request
             PROVE  /\ act'[q].pc = "authorize" /\ act'[q].shut => Shut(act[q].token.who)'
                    /\ act'[q].pc = "handle" => ~act'[q].shut
  BY DEF ShutInv, ShutStands, At
<1>7. act'[q] = Left(r, q) /\ act[q] \in ActState
  BY <1>0, <1>2 DEF AccTypeInv, AccTypeOK
<1>8. CASE q = r
  BY <1>7, <1>8 DEF Left, Idle
<1>9. CASE At(q, "save")
  BY <1>7, <1>8, <1>9, ActStates DEF Left, At, Copied
<1>10. CASE /\ act[q].pc \in {"authorize", "handle"} /\ q # r
            /\ act[q].token.who = a
            /\ Known(r).active \/ <<a, "active">> \in Over(r)
  <2>1. act'[q] = [act[q] EXCEPT !.shut = FALSE]
    BY <1>7, <1>10 DEF Left, At, a
  <2>2. ~act'[q].shut
    BY <1>7, <1>10, <2>1, ActStates DEF Checked
  <2> QED
    BY <2>2
<1>11. CASE /\ act[q].pc \in {"authorize", "handle"} /\ q # r
            /\ ~(act[q].token.who = a /\ (Known(r).active \/ <<a, "active">> \in Over(r)))
  <2>1. act'[q] = act[q]
    BY <1>7, <1>11 DEF Left, At, a
  <2>2. act[q].token.who \in Account
    BY <1>7, <1>11, ActStates DEF Checked, Token
  <2>3. ASSUME act[q].pc = "authorize", act[q].shut PROVE Shut(act[q].token.who)'
    <3>1. Shut(act[q].token.who)
      BY <2>3 DEF ShutInv, ShutStands, At
    <3>2. PICK u \in Account : u = act[q].token.who
      BY <2>2
    <3>3. users'[u] # Nil /\ ~asked'[u].active /\ <<u, "active">> \notin overrun'
      BY <1>6, <1>11, <3>1, <3>2
    <3> QED
      BY <2>1, <3>2, <3>3 DEF Shut, Registered
  <2>4. act[q].pc = "handle" => ~act[q].shut
    BY DEF ShutInv, ShutStands, At
  <2> QED
    BY <2>1, <2>3, <2>4
<1>12. CASE act[q].pc \notin {"authorize", "handle", "save"} /\ q # r
  BY <1>7, <1>12 DEF Left, At
<1> QED
  BY <1>8, <1>9, <1>10, <1>11, <1>12 DEF At

LEMMA AuthorizeShut ==
    ASSUME ShutInv, ColumnInv', NEW r \in Request, Authorize(r)
    PROVE  ShutInv'
<1> DEFINE to == IF Permitted(act[r].token, act[r].call)
                 THEN [act[r] EXCEPT !.pc = "handle"] ELSE Idle
<1>1. act[r] \in Checked /\ act[r].pc = "authorize"
  BY ActStates DEF Authorize, At, ShutInv, ColumnInv, AccTypeInv, AccTypeOK
<1>2. to.pc = "handle" => ~to.shut
  <2>1. CASE Permitted(act[r].token, act[r].call)
    <3>1. act[r].token.who \in Account /\ users[act[r].token.who].active
      BY <1>1, <2>1 DEF Checked, Token, Permitted
    <3>2. ~act[r].shut
      BY <1>1, <3>1, ShutShows DEF ShutInv, ShutStands, At
    <3>3. to.shut = act[r].shut
      BY <1>1, <2>1 DEF Checked
    <3> QED
      BY <3>2, <3>3
  <2>2. CASE ~Permitted(act[r].token, act[r].call)
    BY <2>2 DEF Idle
  <2> QED
    BY <2>1, <2>2
<1>3. to.pc # "authorize"
  BY <1>1 DEF Checked, Idle
<1>4. /\ act' = [act EXCEPT ![r] = to]
      /\ users' = users /\ asked' = asked /\ overrun' = overrun
  BY DEF Authorize
<1> HIDE DEF to
<1> QED
  BY <1>2, <1>3, <1>4, ShutSame, ShutKept

LEMMA ReadUserShut ==
    ASSUME ShutInv, ColumnInv', NEW r \in Request, ReadUser(r)
    PROVE  ShutInv'
<1> DEFINE call == act[r].call
           to == IF Registered(call.on)
                 THEN [pc |-> "save", on |-> call.on, column |-> call.kind,
                       copy |-> Patched(users[call.on], call), behind |-> FALSE]
                 ELSE Idle
<1>1. to.pc \notin {"authorize", "handle"}
  BY DEF Idle
<1>2. /\ act' = [act EXCEPT ![r] = to]
      /\ users' = users /\ asked' = asked /\ overrun' = overrun
  BY DEF ReadUser
<1> HIDE DEF to
<1> QED
  BY <1>1, <1>2, ShutSame, ShutKept

LEMMA ShutStep ==
    ASSUME ShutInv, [AccNext]_<<accVars, env>>
    PROVE  ShutInv'
<1>0. ColumnInv'
  BY ColumnStep DEF ShutInv
<1>1. Idle.pc = "idle"
  BY DEF Idle
<1>2. ASSUME NEW r \in Request, NEW a \in Account, Register(r, a) PROVE ShutInv'
  <2> DEFINE to == [pc |-> "create", who |-> a, role |-> BootstrapRole]
  <2>1. to.pc = "create" /\ act' = [act EXCEPT ![r] = to]
    BY <1>2 DEF Register
  <2> HIDE DEF to
  <2> QED
    BY <1>0, <1>2, <2>1, ShutSame, ShutKept DEF Register
<1>3. ASSUME NEW r \in Request, NEW a \in Account, Login(r, a) PROVE ShutInv'
  <2> DEFINE to == [pc |-> "sign", who |-> a, role |-> users[a].role]
  <2>1. to.pc = "sign" /\ act' = [act EXCEPT ![r] = to]
    BY <1>3 DEF Login
  <2> HIDE DEF to
  <2> QED
    BY <1>0, <1>3, <2>1, ShutSame, ShutKept DEF Login
<1>4. ASSUME NEW r \in Request, NEW t \in tokens, NEW call \in Asked, Validate(r, t, call)
      PROVE  ShutInv'
  <2> DEFINE to == [pc |-> "authorize", token |-> t, call |-> call, shut |-> Shut(t.who)]
  <2>1. to.pc = "authorize" /\ to.token = t /\ to.shut = Shut(t.who)
        /\ act' = [act EXCEPT ![r] = to]
    BY <1>4 DEF Validate
  <2>2. t.who \in Account
    BY DEF ShutInv, ColumnInv, AccTypeInv, AccTypeOK, Token
  <2> HIDE DEF to
  <2> QED
    BY <1>0, <1>4, <2>1, <2>2, ShutSame, ShutKept DEF Validate
<1>5. ASSUME NEW r \in Request, RespondWithToken(r) \/ ListUsers(r) \/ GiveUp(r) PROVE ShutInv'
  BY <1>0, <1>1, <1>5, ShutSame, ShutKept DEF RespondWithToken, ListUsers, GiveUp
<1>6. ASSUME NEW new \in 0 .. MaxSecrets, RestartServer(new) PROVE ShutInv'
  BY <1>0, <1>1, <1>6 DEF RestartServer, ShutInv, ShutStands, At
<1>7. ASSUME AccTick \/ UNCHANGED <<accVars, env>> PROVE ShutInv'
  BY <1>0, <1>7 DEF AccTick, accVars, ShutInv, ShutStands, At, Shut, Registered
<1> QED
  BY <1>0, <1>2, <1>3, <1>4, <1>5, <1>6, <1>7, CreateUserShut, AuthorizeShut,
     IdentityShut, ReadUserShut, SaveUserShut DEF AccNext

\* No call begun after its account was deactivated is let through while the deactivation
\* stands, whatever token it shows and however many writes race.
THEOREM DeactivationCorrect == AccSpec => []DeactivatedRefused
<1>1. AccInit /\ EnvInit => ShutInv
  BY ShutInit
<1>2. ShutInv /\ [AccNext]_<<accVars, env>> => ShutInv'
  BY ShutStep
<1>3. ShutInv => DeactivatedRefused
  BY DEF ShutInv, ShutStands, DeactivatedRefused
<1> QED
  BY <1>1, <1>2, <1>3, PTL DEF AccSpec

===============================================================================
