----------------------------- MODULE ServicesProofs -----------------------------
(***************************************************************************)
(* Theorems about Integrations, Sharing, Tasks, BotSession and SlaRisk,    *)
(* and about all the services of ServicesMC together, for any number of    *)
(* calls in flight, of failures and of the things they are about.          *)
(***************************************************************************)
EXTENDS ServicesMC, AccountsProofs, SevRecordProofs, WellFoundedInduction, TLAPS

-------------------------------------------------------------------------------
(***************************************************************************)
(* Integrations: types.                                                    *)
(***************************************************************************)

Upsert == [pc : {"write", "refresh", "rollback"}, cfg : Config, old : Config, alone : BOOLEAN]

IntTypeInv == EnvTypeOK /\ IntTypeOK

LEMMA UpsertStates ==
    /\ NoUpsert.pc = "idle" /\ NoUpsert \in {NoUpsert} \union Upsert
    /\ \A u \in {NoUpsert} \union Upsert : u.pc # "idle" => u \in Upsert
BY DEF NoUpsert, Upsert

LEMMA OldConfigType ==
    ASSUME IntTypeInv
    PROVE  OldConfig \in Config /\ Empty \in Config
BY DEF OldConfig, Empty, Config, IntTypeInv, IntTypeOK

LEMMA ApplyType ==
    ASSUME NEW cfg \in Config
    PROVE  Apply(cfg) \in Client \union {Nil}
<1>1. CASE Usable(cfg)
  <2>1. cfg.creds \in Sealed /\ cfg.settings \in Setting
    BY <1>1, IntegrationsAssumption DEF Usable, Config
  <2>2. cfg.creds.value \in Credential
    BY <2>1 DEF Sealed
  <2> QED
    BY <1>1, <2>1, <2>2 DEF Apply, Client
<1>2. CASE ~Usable(cfg)
  BY <1>2 DEF Apply
<1> QED
  BY <1>1, <1>2

LEMMA MergedType ==
    ASSUME IntTypeInv, NEW old \in Config,
           NEW creds \in Credential \union {Nil}, NEW settings \in Setting \union {Nil}
    PROVE  Merged(old, creds, settings) \in Config
<1>1. creds # Nil => [value |-> creds, key |-> encKey] \in Sealed
  BY DEF Sealed, IntTypeInv, IntTypeOK
<1>2. old.creds \in Sealed \union {Nil} /\ old.settings \in Setting \union {Nil}
  BY DEF Config
<1>3. OrElse(settings, old.settings) \in Setting \union {Nil}
  BY <1>2 DEF OrElse
<1> HIDE DEF Sealed
<1> QED
  BY <1>1, <1>2, <1>3 DEF Merged, Config

LEMMA CrowdedType ==
    ASSUME IntTypeInv, NEW r \in Request, NEW next \in {NoUpsert} \union Upsert
    PROVE  Crowded(r, next) \in [Request -> {NoUpsert} \union Upsert]
<1> SUFFICES ASSUME NEW q \in Request, q \in Others(r)
             PROVE  [upsert[q] EXCEPT !.alone = FALSE] \in Upsert
  BY DEF Crowded, IntTypeInv, IntTypeOK, Upsert
<1>1. upsert[q] \in Upsert
  BY UpsertStates DEF Others, IntTypeInv, IntTypeOK, Upsert
<1> QED
  BY <1>1 DEF Upsert

LEMMA IntTypeStep ==
    ASSUME IntTypeInv, [IntNext]_<<intVars, env>>
    PROVE  IntTypeInv'
<1>0. /\ upsert \in [Request -> {NoUpsert} \union Upsert] /\ encKey \in Nat
      /\ OldConfig \in Config
  BY OldConfigType DEF IntTypeInv, IntTypeOK, Upsert
<1>1. ASSUME NEW r \in Request, NEW creds \in Credential \union {Nil},
             NEW settings \in Setting \union {Nil}, LoadConfig(r, creds, settings)
      PROVE  IntTypeInv'
  <2>1. Merged(OldConfig, creds, settings) \in Config
    BY <1>0, MergedType
  <2>2. [pc |-> "write", cfg |-> Merged(OldConfig, creds, settings),
         old |-> OldConfig, alone |-> TRUE] \in Upsert
    BY <1>0, <2>1 DEF Upsert
  <2>3. upsert' \in [Request -> {NoUpsert} \union Upsert]
    BY <1>0, <1>1, <2>2 DEF LoadConfig
  <2> QED
    BY <1>1, <2>3 DEF LoadConfig, IntTypeInv, IntTypeOK, EnvTypeOK, env, Upsert
<1>2. ASSUME NEW r \in Request, WriteConfig(r) PROVE IntTypeInv'
  <2>1. upsert[r] \in Upsert
    BY <1>0, <1>2, UpsertStates DEF WriteConfig
  <2>2. [upsert[r] EXCEPT !.pc = "refresh", !.alone = Others(r) = {}] \in Upsert
    BY <2>1 DEF Upsert
  <2>3. upsert' \in [Request -> {NoUpsert} \union Upsert]
    BY <1>2, <2>2, CrowdedType DEF WriteConfig
  <2>4. config' \in Config
    BY <1>2, <2>1 DEF WriteConfig, Upsert
  <2> QED
    BY <1>2, <2>3, <2>4 DEF WriteConfig, IntTypeInv, IntTypeOK, EnvTypeOK, env, Upsert
<1>3. ASSUME NEW r \in Request, RefreshClient(r) PROVE IntTypeInv'
  <2>1. upsert[r] \in Upsert
    BY <1>0, <1>3, UpsertStates DEF RefreshClient
  <2>2. [upsert[r] EXCEPT !.pc = "rollback"] \in Upsert /\ upsert[r].cfg \in Config
    BY <2>1 DEF Upsert
  <2>3. upsert' \in [Request -> {NoUpsert} \union Upsert]
    BY <1>0, <1>3, <2>2 DEF RefreshClient
  <2>4. current' \in Client \union {Nil}
    BY <1>3, <2>2, ApplyType DEF RefreshClient
  <2> QED
    BY <1>3, <2>3, <2>4 DEF RefreshClient, IntTypeInv, IntTypeOK, EnvTypeOK, env, Upsert
<1>4. ASSUME NEW r \in Request, RollBack(r) PROVE IntTypeInv'
  <2>1. upsert[r] \in Upsert
    BY <1>0, <1>4, UpsertStates DEF RollBack
  <2>2. upsert' \in [Request -> {NoUpsert} \union Upsert]
    BY <1>4, UpsertStates, CrowdedType DEF RollBack
  <2>3. config' \in Config \union {Nil}
    BY <1>4, <2>1 DEF RollBack, Upsert, IntTypeInv, IntTypeOK
  <2>4. faults' \in Nat /\ now' \in Nat
    BY <1>4 DEF RollBack, Fail, env, IntTypeInv, EnvTypeOK
  <2>5. apart' \subseteq {"overlap", "refused", "kept", "unread"}
    BY <1>4 DEF RollBack, IntTypeInv, IntTypeOK
  <2> QED
    BY <1>4, <2>2, <2>3, <2>4, <2>5 DEF RollBack, IntTypeInv, IntTypeOK, EnvTypeOK, Upsert
<1>5. ASSUME NEW r \in Request, AbandonUpsert(r) PROVE IntTypeInv'
  BY <1>5 DEF AbandonUpsert, IntTypeInv, IntTypeOK, EnvTypeOK, env
<1>6. ASSUME NEW k \in 0 .. MaxKeys, StartServer(k) PROVE IntTypeInv'
  <2>1. current' \in Client \union {Nil}
    BY <1>0, <1>6, ApplyType DEF StartServer
  <2>2. faults' \in Nat /\ now' \in Nat
    BY <1>6 DEF StartServer, Fail, env, IntTypeInv, EnvTypeOK
  <2>3. apart' \subseteq {"overlap", "refused", "kept", "unread"}
    BY <1>6 DEF StartServer
  <2> QED
    BY <1>6, <2>1, <2>2, <2>3, IntegrationsAssumption DEF StartServer, IntTypeInv, IntTypeOK, EnvTypeOK
<1>7. ASSUME UNCHANGED <<intVars, env>> PROVE IntTypeInv'
  BY <1>7 DEF intVars, env, IntTypeInv, IntTypeOK, EnvTypeOK
<1> QED
  BY <1>1, <1>2, <1>3, <1>4, <1>5, <1>6, <1>7 DEF IntNext

LEMMA IntTypeInit == IntInit /\ EnvInit => IntTypeInv
BY DEF IntInit, EnvInit, IntTypeInv, IntTypeOK, EnvTypeOK

\* The row, the client and every update half way keep their types.
THEOREM IntTypeCorrect == IntSpec => []IntTypeOK
<1>1. IntInit /\ EnvInit => IntTypeInv
  BY IntTypeInit
<1>2. IntTypeInv /\ [IntNext]_<<intVars, env>> => IntTypeInv'
  BY IntTypeStep
<1>3. IntTypeInv => IntTypeOK
  BY DEF IntTypeInv
<1> QED
  BY <1>1, <1>2, <1>3, PTL DEF IntSpec

-------------------------------------------------------------------------------
(***************************************************************************)
(* Integrations: row and client. An update half way that no other has      *)
(* overlapped has the row to itself; one that is to be undone has left the *)
(* fallback; and one that was overlapped has said so, or will.             *)
(***************************************************************************)
Half(r) == upsert[r].pc \in {"refresh", "rollback"}

HasTheRow ==
    \A r \in Request : Half(r) /\ upsert[r].alone =>
        /\ \A q \in Request : Half(q) => q = r
        /\ config = upsert[r].cfg

Undoing ==
    \A r \in Request : upsert[r].pc = "rollback" =>
        /\ ~Usable(upsert[r].cfg)
        /\ upsert[r].alone => current = Nil

OverlapTold ==
    \A r \in Request : upsert[r].pc = "rollback" /\ ~upsert[r].alone =>
        \/ "overlap" \in apart
        \/ \E q \in Request : upsert[q].pc = "refresh" /\ ~upsert[q].alone

InForceInv == IntTypeInv /\ ConfigInForce /\ HasTheRow /\ Undoing /\ OverlapTold

LEMMA SettledHalf ==
    ASSUME IntTypeInv
    PROVE  Settled <=> \A r \in Request : ~Half(r)
<1>1. \A r \in Request : upsert[r].pc \in {"idle", "write", "refresh", "rollback"}
  BY UpsertStates DEF IntTypeInv, IntTypeOK, Upsert
<1> QED
  BY <1>1 DEF Settled, Half

LEMMA InForceInit == IntInit /\ EnvInit => InForceInv
<1> SUFFICES ASSUME IntInit, EnvInit PROVE InForceInv
  OBVIOUS
<1>1. \A r \in Request : upsert[r].pc = "idle"
  BY UpsertStates DEF IntInit
<1>2. OldConfig = Empty /\ Apply(Empty) = Nil /\ current = Nil
  BY DEF IntInit, OldConfig, Empty, Apply, Usable
<1> QED
  BY <1>1, <1>2, IntTypeInit
     DEF InForceInv, ConfigInForce, HasTheRow, Undoing, OverlapTold, Half, Proper

\* A handler moves between two states in which it has written nothing.
LEMMA InForceKept ==
    ASSUME InForceInv, IntTypeInv', NEW r \in Request, NEW to,
           ~Half(r), to.pc \notin {"refresh", "rollback"},
           upsert' = [upsert EXCEPT ![r] = to],
           config' = config, current' = current, apart' = apart
    PROVE  InForceInv'
<1>1. \A q \in Request : upsert'[q] = IF q = r THEN to ELSE upsert[q]
  BY DEF InForceInv, IntTypeInv, IntTypeOK
<1>2. \A q \in Request : Half(q)' <=> Half(q)
  BY <1>1 DEF Half
<1>3. ConfigInForce'
  <2>1. Settled' => Settled
    BY <1>2, SettledHalf DEF Settled, Half, InForceInv
  <2> QED
    BY <2>1 DEF InForceInv, ConfigInForce, OldConfig
<1>4. HasTheRow'
  BY <1>1, <1>2 DEF InForceInv, HasTheRow, Half
<1>5. Undoing' /\ OverlapTold'
  BY <1>1, <1>2 DEF InForceInv, Undoing, OverlapTold, Half
<1> QED
  BY <1>3, <1>4, <1>5 DEF InForceInv

\* What a handler that writes the row makes of the others.
LEMMA CrowdedEach ==
    ASSUME IntTypeInv, NEW r \in Request, NEW next, upsert' = Crowded(r, next),
           NEW q \in Request
    PROVE  /\ q = r => upsert'[q] = next
           /\ q # r => /\ upsert'[q].pc = upsert[q].pc /\ upsert'[q].cfg = upsert[q].cfg
                       /\ upsert'[q].old = upsert[q].old
                       /\ Half(q) => upsert'[q].alone = FALSE
                       /\ ~Half(q) => upsert'[q] = upsert[q]
<1>1. upsert'[q] = IF q = r THEN next
                   ELSE IF q \in Others(r) THEN [upsert[q] EXCEPT !.alone = FALSE]
                   ELSE upsert[q]
  BY DEF Crowded
<1>2. q # r => (q \in Others(r) <=> Half(q))
  BY DEF Others, Half
<1>3. Half(q) => upsert[q] \in Upsert
  BY UpsertStates DEF Half, IntTypeInv, IntTypeOK, Upsert
<1>4. ASSUME upsert[q] \in Upsert
      PROVE  /\ [upsert[q] EXCEPT !.alone = FALSE].pc = upsert[q].pc
             /\ [upsert[q] EXCEPT !.alone = FALSE].cfg = upsert[q].cfg
             /\ [upsert[q] EXCEPT !.alone = FALSE].old = upsert[q].old
             /\ [upsert[q] EXCEPT !.alone = FALSE].alone = FALSE
  BY <1>4 DEF Upsert
<1> QED
  BY <1>1, <1>2, <1>3, <1>4

LEMMA WriteConfigInForce ==
    ASSUME InForceInv, IntTypeInv', NEW r \in Request, WriteConfig(r)
    PROVE  InForceInv'
<1> DEFINE next == [upsert[r] EXCEPT !.pc = "refresh", !.alone = Others(r) = {}]
<1>0. IntTypeInv
  BY DEF InForceInv
<1>1. upsert[r] \in Upsert /\ upsert[r].pc = "write"
  BY <1>0, UpsertStates DEF WriteConfig, IntTypeInv, IntTypeOK, Upsert
<1>2. /\ next.pc = "refresh" /\ next.cfg = upsert[r].cfg
      /\ next.alone => Others(r) = {}
  BY <1>1 DEF Upsert
<1>3. /\ upsert' = Crowded(r, next) /\ config' = upsert[r].cfg
      /\ current' = current /\ apart' = apart
  BY DEF WriteConfig
<1> HIDE DEF next
<1>4. upsert'[r] = next
  BY <1>3 DEF Crowded
<1>5. \A q \in Request : q # r => /\ upsert'[q].pc = upsert[q].pc
                                  /\ upsert'[q].cfg = upsert[q].cfg
                                  /\ Half(q) => ~upsert'[q].alone
  BY <1>0, <1>3, CrowdedEach
<1>6. ConfigInForce'
  <2>1. upsert'[r].pc = "refresh"
    BY <1>2, <1>4
  <2> QED
    BY <2>1 DEF ConfigInForce, Settled
<1>7. HasTheRow'
  <2> SUFFICES ASSUME NEW p \in Request, upsert'[p].pc \in {"refresh", "rollback"},
                      upsert'[p].alone
               PROVE  /\ \A q \in Request : upsert'[q].pc \in {"refresh", "rollback"} => q = p
                      /\ config' = upsert'[p].cfg
    BY DEF HasTheRow, Half
  <2>1. p = r
    BY <1>5 DEF Half
  <2>2. Others(r) = {} /\ config' = upsert'[p].cfg
    BY <1>2, <1>3, <1>4, <2>1
  <2>3. \A q \in Request : upsert'[q].pc \in {"refresh", "rollback"} => q = r
    BY <1>5, <2>2 DEF Others
  <2> QED
    BY <2>1, <2>2, <2>3
<1>8. Undoing' /\ OverlapTold'
  <2> SUFFICES ASSUME NEW p \in Request, upsert'[p].pc = "rollback"
               PROVE  /\ ~Usable(upsert'[p].cfg) /\ ~upsert'[p].alone
                      /\ upsert'[r].pc = "refresh" /\ (~upsert'[p].alone => ~upsert'[r].alone)
    BY <1>3 DEF Undoing, OverlapTold, Usable
  <2>1. p # r /\ upsert[p].pc = "rollback"
    BY <1>2, <1>4, <1>5
  <2>2. ~Usable(upsert'[p].cfg) /\ ~upsert'[p].alone
    BY <1>5, <2>1 DEF Half, InForceInv, Undoing
  <2>3. Others(r) # {}
    BY <2>1 DEF Others
  <2> QED
    BY <1>2, <1>4, <2>2, <2>3
<1> QED
  BY <1>6, <1>7, <1>8 DEF InForceInv

LEMMA RefreshClientInForce ==
    ASSUME InForceInv, IntTypeInv', NEW r \in Request, RefreshClient(r)
    PROVE  InForceInv'
<1> DEFINE cfg == upsert[r].cfg
           undo == [upsert[r] EXCEPT !.pc = "rollback"]
<1>0. IntTypeInv
  BY DEF InForceInv
<1>1. upsert[r] \in Upsert /\ upsert[r].pc = "refresh" /\ Half(r)
  BY <1>0, UpsertStates DEF RefreshClient, IntTypeInv, IntTypeOK, Upsert, Half
<1>2. /\ undo.pc = "rollback" /\ undo.cfg = cfg /\ undo.alone = upsert[r].alone
      /\ cfg \in Config
  BY <1>1 DEF Upsert
<1>3. /\ config' = config /\ current' = Apply(cfg)
      /\ apart' = IF upsert[r].alone THEN {} ELSE {"overlap"}
      /\ upsert' = [upsert EXCEPT ![r] = IF Usable(cfg) THEN NoUpsert ELSE undo]
  BY DEF RefreshClient
<1>4. \A q \in Request : upsert'[q] = IF q = r THEN IF Usable(cfg) THEN NoUpsert ELSE undo
                                      ELSE upsert[q]
  BY <1>0, <1>3 DEF IntTypeInv, IntTypeOK
<1>5. \A q \in Request : upsert'[q].pc \in {"refresh", "rollback"} => Half(q)
  BY <1>1, <1>4, UpsertStates DEF Half
<1> HIDE DEF undo, cfg
<1>6. ConfigInForce'
  <2> SUFFICES ASSUME \A q \in Request : upsert'[q].pc \in {"idle", "write"}
               PROVE  /\ \/ current' = Apply(OldConfig)
                         \/ apart' \intersect {"overlap", "refused", "unread"} # {}
                      /\ \/ Proper(OldConfig)
                         \/ apart' \intersect {"overlap", "kept"} # {}
    BY <1>3 DEF ConfigInForce, Settled, OldConfig
  <2>1. Usable(cfg)
    BY <1>2, <1>4
  <2>2. CASE upsert[r].alone
    <3>1. config = cfg
      BY <1>1, <2>2 DEF InForceInv, HasTheRow, cfg
    <3>2. cfg # Nil
      BY <1>2, IntegrationsAssumption
    <3>3. OldConfig = cfg
      BY <3>1, <3>2 DEF OldConfig
    <3> QED
      BY <1>3, <2>1, <3>3 DEF Proper
  <2>3. CASE ~upsert[r].alone
    BY <1>3, <2>3
  <2> QED
    BY <2>2, <2>3
<1>7. HasTheRow'
  <2> SUFFICES ASSUME NEW p \in Request, upsert'[p].pc \in {"refresh", "rollback"},
                      upsert'[p].alone
               PROVE  /\ \A q \in Request : upsert'[q].pc \in {"refresh", "rollback"} => q = p
                      /\ config' = upsert'[p].cfg
    BY DEF HasTheRow, Half
  <2>1. Half(p) /\ upsert[p].alone /\ upsert'[p].cfg = upsert[p].cfg
    BY <1>1, <1>2, <1>4, <1>5, UpsertStates DEF cfg
  <2> QED
    BY <1>3, <1>5, <2>1 DEF InForceInv, HasTheRow
<1>8. Undoing'
  <2> SUFFICES ASSUME NEW p \in Request, upsert'[p].pc = "rollback"
               PROVE  ~Usable(upsert'[p].cfg) /\ (upsert'[p].alone => current' = Nil)
    BY DEF Undoing, Usable
  <2>1. CASE p = r
    BY <1>2, <1>3, <1>4, <2>1, UpsertStates DEF Apply
  <2>2. CASE p # r
    <3>1. upsert'[p] = upsert[p] /\ Half(p)
      BY <1>4, <1>5, <2>2
    <3>2. ~upsert[p].alone
      BY <1>1, <2>2, <3>1 DEF InForceInv, HasTheRow
    <3> QED
      BY <3>1, <3>2 DEF InForceInv, Undoing
  <2> QED
    BY <2>1, <2>2
<1>9. OverlapTold'
  <2> SUFFICES ASSUME NEW p \in Request, upsert'[p].pc = "rollback", ~upsert'[p].alone
               PROVE  "overlap" \in apart'
    BY DEF OverlapTold
  <2>1. ~upsert[r].alone
    <3>1. CASE p = r
      BY <1>2, <1>4, <3>1, UpsertStates
    <3>2. CASE p # r
      BY <1>1, <1>5, <3>2 DEF InForceInv, HasTheRow
    <3> QED
      BY <3>1, <3>2
  <2> QED
    BY <1>3, <2>1
<1> QED
  BY <1>6, <1>7, <1>8, <1>9 DEF InForceInv

LEMMA RollBackInForce ==
    ASSUME InForceInv, IntTypeInv', NEW r \in Request, RollBack(r)
    PROVE  InForceInv'
<1> DEFINE cfg == upsert[r].cfg
           old == upsert[r].old
<1>0. IntTypeInv
  BY DEF InForceInv
<1>1. upsert[r] \in Upsert /\ upsert[r].pc = "rollback" /\ Half(r)
  BY <1>0, UpsertStates DEF RollBack, IntTypeInv, IntTypeOK, Upsert, Half
<1>2. cfg \in Config /\ old \in Config /\ old # Nil /\ cfg # Nil
  BY <1>1, IntegrationsAssumption DEF Upsert
<1>3. upsert'[r] = NoUpsert /\ current' = current /\ apart \subseteq apart'
  BY DEF RollBack, Crowded
<1>4. \A q \in Request : q # r => /\ upsert'[q].pc = upsert[q].pc
                                  /\ upsert'[q].cfg = upsert[q].cfg
                                  /\ Half(q) => ~upsert'[q].alone
  BY <1>0, CrowdedEach DEF RollBack
<1>5. \/ /\ config' = old
         /\ apart' = apart \union (IF Usable(old) THEN {"refused"} ELSE {})
                           \union (IF Proper(old) THEN {} ELSE {"kept"})
                           \union (IF upsert[r].alone THEN {} ELSE {"overlap"})
      \/ config' = config /\ apart' = apart \union {"kept"}
  BY DEF RollBack
<1> HIDE DEF cfg, old
<1>6. ConfigInForce'
  <2> SUFFICES ASSUME \A q \in Request : upsert'[q].pc \in {"idle", "write"}
               PROVE  (/\ \/ current = Apply(OldConfig)
                          \/ apart \intersect {"overlap", "refused", "unread"} # {}
                       /\ \/ Proper(OldConfig)
                          \/ apart \intersect {"overlap", "kept"} # {})'
    BY DEF ConfigInForce, Settled
  <2>1. CASE upsert[r].alone
    <3>1. config = cfg /\ current = Nil /\ ~Usable(cfg)
      BY <1>1, <2>1 DEF InForceInv, HasTheRow, Undoing, cfg
    <3>2. CASE config' = old
      <4>1. OldConfig' = old
        BY <1>2, <3>2 DEF OldConfig
      <4>2. Usable(old) => "refused" \in apart'
        BY <1>5, <3>1, <3>2
      <4>3. ~Proper(old) => "kept" \in apart'
        BY <1>5, <3>1, <3>2
      <4>4. ~Usable(old) => Apply(old) = Nil
        BY DEF Apply
      <4> QED
        BY <1>3, <3>1, <4>1, <4>2, <4>3, <4>4
    <3>3. CASE config' = config /\ apart' = apart \union {"kept"}
      <4>1. OldConfig' = cfg /\ Apply(cfg) = Nil
        BY <1>2, <3>1, <3>3 DEF OldConfig, Apply
      <4> QED
        BY <1>3, <3>1, <3>3, <4>1
    <3> QED
      BY <1>5, <3>2, <3>3
  <2>2. CASE ~upsert[r].alone
    <3>1. \A q \in Request : upsert[q].pc # "refresh"
      BY <1>1, <1>4
    <3>2. "overlap" \in apart
      BY <1>1, <2>2, <3>1 DEF InForceInv, OverlapTold
    <3> QED
      BY <1>3, <3>2
  <2> QED
    BY <2>1, <2>2
<1>7. \A p \in Request : upsert'[p].pc \in {"refresh", "rollback"} =>
          p # r /\ Half(p) /\ ~upsert'[p].alone
  BY <1>3, <1>4, UpsertStates DEF Half
<1>8. HasTheRow' /\ Undoing'
  <2>1. HasTheRow'
    BY <1>7 DEF HasTheRow, Half
  <2>2. Undoing'
    <3> SUFFICES ASSUME NEW p \in Request, upsert'[p].pc = "rollback"
                 PROVE  ~Usable(upsert'[p].cfg) /\ ~upsert'[p].alone
      BY DEF Undoing, Usable
    <3> QED
      BY <1>4, <1>7 DEF InForceInv, Undoing
  <2> QED
    BY <2>1, <2>2
<1>9. OverlapTold'
  <2> SUFFICES ASSUME NEW p \in Request, upsert'[p].pc = "rollback", "overlap" \notin apart'
               PROVE  \E q \in Request : upsert'[q].pc = "refresh" /\ ~upsert'[q].alone
    BY DEF OverlapTold
  <2>1. "overlap" \notin apart /\ p # r /\ upsert[p].pc = "rollback" /\ ~upsert[p].alone
    BY <1>1, <1>3, <1>4, <1>7 DEF InForceInv, HasTheRow
  <2>2. PICK q \in Request : upsert[q].pc = "refresh"
    BY <2>1 DEF InForceInv, OverlapTold
  <2> QED
    BY <1>1, <1>4, <2>2 DEF Half
<1> QED
  BY <1>6, <1>8, <1>9 DEF InForceInv

LEMMA StartServerInForce ==
    ASSUME InForceInv, IntTypeInv', NEW k \in 0 .. MaxKeys, StartServer(k)
    PROVE  InForceInv'
<1>1. /\ upsert' = [r \in Request |-> NoUpsert] /\ config' = config
      /\ \/ /\ current' = IF OldConfig.creds # Nil /\ OldConfig.creds.key = k
                          THEN Apply(OldConfig) ELSE Nil
            /\ apart' = (IF Usable(OldConfig) /\ OldConfig.creds.key # k
                         THEN {"unread"} ELSE {})
                        \union (IF Proper(OldConfig) THEN {} ELSE {"kept"})
         \/ apart' = {"unread", "kept"}
  BY DEF StartServer
<1>2. OldConfig' = OldConfig
  BY <1>1 DEF OldConfig
<1>3. ~Usable(OldConfig) => Apply(OldConfig) = Nil
  BY DEF Apply
<1>4. Usable(OldConfig) => OldConfig.creds # Nil
  BY DEF Usable
<1>5. ConfigInForce'
  <2> SUFFICES (/\ \/ current = Apply(OldConfig)
                   \/ apart \intersect {"overlap", "refused", "unread"} # {}
                /\ \/ Proper(OldConfig)
                   \/ apart \intersect {"overlap", "kept"} # {})'
    BY DEF ConfigInForce
  <2>1. Apply(OldConfig)' = Apply(OldConfig) /\ Proper(OldConfig)' = Proper(OldConfig)
    BY <1>2 DEF Apply, Proper, Usable, Empty
  <2>2. CASE apart' = {"unread", "kept"}
    BY <2>2
  <2>3. CASE apart' # {"unread", "kept"}
    BY <1>1, <1>3, <1>4, <2>1, <2>3
  <2> QED
    BY <2>2, <2>3
<1>6. \A r \in Request : upsert'[r].pc = "idle"
  BY <1>1, UpsertStates
<1> QED
  BY <1>5, <1>6 DEF InForceInv, HasTheRow, Undoing, OverlapTold, Half

LEMMA InForceStep ==
    ASSUME InForceInv, [IntNext]_<<intVars, env>>
    PROVE  InForceInv'
<1>0. IntTypeInv /\ IntTypeInv'
  BY IntTypeStep DEF InForceInv
<1>1. ASSUME NEW r \in Request, NEW creds \in Credential \union {Nil},
             NEW settings \in Setting \union {Nil}, LoadConfig(r, creds, settings)
      PROVE  InForceInv'
  <2> DEFINE to == [pc |-> "write", cfg |-> Merged(OldConfig, creds, settings),
                    old |-> OldConfig, alone |-> TRUE]
  <2>1. to.pc = "write" /\ upsert' = [upsert EXCEPT ![r] = to]
    BY <1>1 DEF LoadConfig
  <2>2. ~Half(r)
    BY <1>1, UpsertStates DEF LoadConfig, Half
  <2> HIDE DEF to
  <2> QED
    BY <1>0, <1>1, <2>1, <2>2, InForceKept DEF LoadConfig
<1>2. ASSUME NEW r \in Request, AbandonUpsert(r) PROVE InForceInv'
  BY <1>0, <1>2, UpsertStates, InForceKept DEF AbandonUpsert, Half
<1>3. ASSUME UNCHANGED <<intVars, env>> PROVE InForceInv'
  BY <1>0, <1>3 DEF intVars, InForceInv, ConfigInForce, Settled, HasTheRow, Undoing,
                    OverlapTold, Half, OldConfig
<1> QED
  BY <1>0, <1>1, <1>2, <1>3, WriteConfigInForce, RefreshClientInForce, RollBackInForce,
     StartServerInForce DEF IntNext

\* With no update half way, stored row and client in use agree, and the row holds nothing
\* the resolver refused, but for the four causes ConfigInForce names.
THEOREM InForceCorrect == IntSpec => []ConfigInForce
<1>1. IntInit /\ EnvInit => InForceInv
  BY InForceInit
<1>2. InForceInv /\ [IntNext]_<<intVars, env>> => InForceInv'
  BY InForceStep
<1>3. InForceInv => ConfigInForce
  BY DEF InForceInv
<1> QED
  BY <1>1, <1>2, <1>3, PTL DEF IntSpec

-------------------------------------------------------------------------------
(***************************************************************************)
(* Sharing: types. Where a call stands tells what it holds.                *)
(***************************************************************************)
Signing == [pc : {"sign"}, days : Lifetimes]
Storing == [pc : {"store"}, token : ShareToken]
Asking == [pc : {"view", "access", "list"}, who : Caller, may : BOOLEAN,
           token : ShareToken \union {Nil}, late : BOOLEAN]
Posting == [pc : {"post"}, who : Caller, may : BOOLEAN, audience : Audience, publish : BOOLEAN]
Showing == [pc : {"show"}, who : Caller, may : BOOLEAN, late : BOOLEAN, shown : SUBSET PostId]

LEMMA VisitStates ==
    /\ NoVisit \in Visit /\ NoVisit.pc = "idle"
    /\ Signing \subseteq Visit /\ Storing \subseteq Visit /\ Asking \subseteq Visit
    /\ Posting \subseteq Visit /\ Showing \subseteq Visit
    /\ \A v \in Visit : /\ v.pc = "sign" => v \in Signing
                        /\ v.pc = "store" => v \in Storing
                        /\ v.pc \in {"view", "access", "list"} => v \in Asking
                        /\ v.pc = "post" => v \in Posting
                        /\ v.pc = "show" => v \in Showing
BY DEF Visit, NoVisit, Signing, Storing, Asking, Posting, Showing

ShareTypeInv == EnvTypeOK /\ ShareTypeOK

-------------------------------------------------------------------------------
(***************************************************************************)
(* Sharing: what a call may show. A check that has yet to be made is on    *)
(* record: a caller who may be shown the SEV now has may set; and past the *)
(* check, may is set.                                                      *)
(***************************************************************************)
VisitFits(v) ==
    /\ v.pc \in {"view", "access"} /\ MaySee(v.who, sensitive, grants) => v.may
    /\ v.pc \in {"view", "access", "list", "show"} => ~v.late
    /\ v.pc \in {"list", "show"} => v.may
    /\ v.pc = "post" => v.who # Nil /\ (v.publish => v.may)
    /\ v.pc = "show" =>
          /\ v.shown \subseteq DOMAIN posts
          /\ v.who = Nil => \A k \in v.shown : posts[k] = "external"

ShareInv == ShareTypeInv /\ \A r \in Request : VisitFits(visit[r])

LEMMA ShareInvInit == ShareInit /\ EnvInit => ShareInv
<1> SUFFICES ASSUME ShareInit, EnvInit PROVE ShareInv
  OBVIOUS
<1>1. <<>> \in Seq(Audience) /\ Len(<<>>) = 0
  OBVIOUS
<1>2. ShareTypeInv
  BY <1>1, VisitStates, SharingAssumption DEF ShareInit, EnvInit, ShareTypeInv, ShareTypeOK, EnvTypeOK
<1> QED
  BY <1>2, VisitStates DEF ShareInit, ShareInv, VisitFits

\* A call goes on; flag, grants and announcements stay.
LEMMA VisitMoves ==
    ASSUME ShareInv, NEW r \in Request, NEW to \in Visit, VisitFits(to),
           visit' = [visit EXCEPT ![r] = to],
           links' \subseteq ShareToken, revoked' \subseteq links', withdrawn' = revoked',
           UNCHANGED <<sensitive, shareKey, grants, posts, env>>
    PROVE  ShareInv'
<1>1. \A q \in Request : visit'[q] = IF q = r THEN to ELSE visit[q]
  BY DEF ShareInv, ShareTypeInv, ShareTypeOK
<1>2. visit' \in [Request -> Visit]
  BY DEF ShareInv, ShareTypeInv, ShareTypeOK
<1>3. ASSUME NEW q \in Request PROVE VisitFits(visit[q])'
  BY <1>1 DEF ShareInv, VisitFits, MaySee
<1> QED
  BY <1>2, <1>3 DEF ShareInv, ShareTypeInv, ShareTypeOK, EnvTypeOK, env

\* The flag or the grants change, and every call that may show something is told.
LEMMA ReconsideredKeeps ==
    ASSUME ShareInv, sensitive' \in BOOLEAN, grants' \subseteq Viewer,
           visit' = Reconsidered(sensitive', grants'),
           UNCHANGED <<shareKey, links, revoked, posts, withdrawn, env>>
    PROVE  ShareInv'
<1>1. PICK flag \in BOOLEAN, granted \in SUBSET Viewer : sensitive' = flag /\ grants' = granted
  OBVIOUS
<1>2. ASSUME NEW r \in Request PROVE visit'[r] \in Visit /\ VisitFits(visit[r])'
  <2>1. CASE visit[r].pc \in {"view", "access", "list"}
    <3>1. visit[r] \in Asking
      BY <2>1, VisitStates DEF ShareInv, ShareTypeInv, ShareTypeOK
    <3>2. PICK m \in BOOLEAN : m <=> visit[r].may \/ MaySee(visit[r].who, flag, granted)
      BY <3>1, Zenon
    <3>3. visit'[r] = [visit[r] EXCEPT !.may = m]
      <4>1. visit'[r] = [visit[r] EXCEPT !.may = @ \/ MaySee(visit[r].who, flag, granted)]
        BY <1>1, <2>1 DEF Reconsidered
      <4>2. visit[r].may \in BOOLEAN /\ MaySee(visit[r].who, flag, granted) \in BOOLEAN
        BY <3>1 DEF Asking, MaySee
      <4>3. m = (visit[r].may \/ MaySee(visit[r].who, flag, granted))
        BY <3>2, <4>2
      <4> QED
        BY <4>1, <4>3
    <3>4. /\ visit'[r] \in Asking /\ visit'[r].pc = visit[r].pc /\ visit'[r].may = m
          /\ visit'[r].who = visit[r].who /\ visit'[r].late = visit[r].late
      BY <3>1, <3>3 DEF Asking
    <3>5. visit'[r] \in Visit
      BY <3>4, VisitStates
    <3>6. ~visit[r].late /\ (visit[r].pc = "list" => visit[r].may)
      BY <2>1 DEF ShareInv, VisitFits
    <3> QED
      BY <1>1, <2>1, <3>2, <3>4, <3>5, <3>6 DEF VisitFits
  <2>2. CASE visit[r].pc = "post"
    <3>1. visit[r] \in Posting
      BY <2>2, VisitStates DEF ShareInv, ShareTypeInv, ShareTypeOK
    <3>2. PICK m \in BOOLEAN : m <=> visit[r].may \/ MaySee(visit[r].who, flag, granted)
      BY <3>1, Zenon
    <3>3. visit'[r] = [visit[r] EXCEPT !.may = m]
      <4>1. visit'[r] = [visit[r] EXCEPT !.may = @ \/ MaySee(visit[r].who, flag, granted)]
        BY <1>1, <2>2 DEF Reconsidered
      <4>2. visit[r].may \in BOOLEAN /\ MaySee(visit[r].who, flag, granted) \in BOOLEAN
        BY <3>1 DEF Posting, MaySee
      <4>3. m = (visit[r].may \/ MaySee(visit[r].who, flag, granted))
        BY <3>2, <4>2
      <4> QED
        BY <4>1, <4>3
    <3>4. /\ visit'[r] \in Posting /\ visit'[r].pc = "post" /\ visit'[r].may = m
          /\ visit'[r].who = visit[r].who /\ visit'[r].publish = visit[r].publish
      BY <3>1, <3>3 DEF Posting
    <3>5. visit'[r] \in Visit
      BY <3>4, VisitStates
    <3>6. visit[r].who # Nil /\ (visit[r].publish => visit[r].may)
      BY <2>2 DEF ShareInv, VisitFits
    <3> QED
      BY <3>2, <3>4, <3>5, <3>6 DEF VisitFits
  <2>3. CASE visit[r].pc \notin {"view", "access", "list", "post"}
    <3>1. visit'[r] = visit[r]
      BY <1>1, <2>3 DEF Reconsidered
    <3>2. visit[r] \in Visit /\ VisitFits(visit[r])
      BY DEF ShareInv, ShareTypeInv, ShareTypeOK
    <3> QED
      BY <2>3, <3>1, <3>2 DEF VisitFits
  <2> QED
    BY <2>1, <2>2, <2>3
<1>3. visit' \in [Request -> Visit]
  <2>1. visit' = [r \in Request |-> visit'[r]]
    BY DEF Reconsidered
  <2> QED
    BY <1>2, <2>1
<1> QED
  BY <1>2, <1>3 DEF ShareInv, ShareTypeInv, ShareTypeOK, EnvTypeOK, env

\* The actions that move one call and leave flag, grants and announcements alone.
LEMMA LinkSteps ==
    ASSUME ShareInv, NEW r \in Request,
           \/ \E days \in Lifetimes : ReadForLink(r, days)
           \/ SignLink(r) \/ StoreLink(r) \/ Leave(r)
    PROVE  ShareInv'
<1>0. /\ visit[r] \in Visit /\ VisitFits(visit[r]) /\ VisitFits(NoVisit) /\ now \in Nat
      /\ links \subseteq ShareToken /\ revoked \subseteq links /\ withdrawn = revoked
      /\ shareKey \in Nat
  BY VisitStates DEF ShareInv, ShareTypeInv, ShareTypeOK, EnvTypeOK, VisitFits
<1>1. ASSUME NEW days \in Lifetimes, ReadForLink(r, days) PROVE ShareInv'
  <2> DEFINE to == [pc |-> "sign", days |-> days]
  <2>1. to \in Visit /\ VisitFits(to)
    BY VisitStates DEF Signing, VisitFits
  <2> HIDE DEF to
  <2> QED
    BY <1>0, <1>1, <2>1, VisitMoves DEF ReadForLink, to
<1>2. CASE SignLink(r)
  <2>1. visit[r] \in Signing
    BY <1>0, <1>2, VisitStates DEF SignLink
  <2>2. visit[r].days \in Nat
    BY <2>1, SharingAssumption DEF Signing
  <2> DEFINE to == [pc |-> "store", token |-> [signed |-> now, exp |-> now + visit[r].days,
                                               key |-> shareKey]]
  <2>3. to \in Visit /\ VisitFits(to)
    BY <1>0, <2>2, VisitStates DEF Storing, ShareToken, VisitFits
  <2>4. visit' = [visit EXCEPT ![r] = to]
    BY <1>2 DEF SignLink
  <2> HIDE DEF to
  <2> QED
    BY <1>0, <1>2, <2>3, <2>4, VisitMoves DEF SignLink
<1>3. CASE StoreLink(r)
  <2>1. visit[r].token \in ShareToken
    BY <1>0, <1>3, VisitStates DEF StoreLink, Storing
  <2> QED
    BY <1>0, <1>3, <2>1, VisitStates, VisitMoves DEF StoreLink, Inserted
<1>4. CASE Leave(r)
  BY <1>0, <1>4, VisitStates, VisitMoves DEF Leave
<1> QED
  BY <1>1, <1>2, <1>3, <1>4

LEMMA ViewSteps ==
    ASSUME ShareInv, NEW r \in Request,
           (\E t \in links : ServeHTTP(r, t)) \/ ViewSEV(r)
    PROVE  ShareInv'
<1>0. /\ visit[r] \in Visit /\ VisitFits(visit[r]) /\ VisitFits(NoVisit)
      /\ links \subseteq ShareToken /\ revoked \subseteq links /\ withdrawn = revoked
      /\ sensitive \in BOOLEAN /\ grants \subseteq Viewer
  BY VisitStates DEF ShareInv, ShareTypeInv, ShareTypeOK, VisitFits
<1>1. ASSUME NEW t \in links, ServeHTTP(r, t) PROVE ShareInv'
  <2>1. PICK m \in BOOLEAN : m = ~sensitive
    BY <1>0
  <2>2. PICK late \in BOOLEAN : late = (t \in withdrawn) /\ ~late
    <3>1. (t \in withdrawn) = FALSE
      BY <1>0, <1>1 DEF ServeHTTP
    <3> QED
      BY <3>1
  <2> DEFINE to == [pc |-> "view", who |-> Nil, may |-> m, token |-> t, late |-> late]
  <2>3. visit' = [visit EXCEPT ![r] = to]
    BY <1>1, <2>1, <2>2 DEF ServeHTTP
  <2>4. to \in Asking
    BY <1>0 DEF Asking, Caller
  <2>5. MaySee(Nil, sensitive, grants) => m
    BY <1>0, <2>1, SharingAssumption DEF MaySee
  <2>6. to \in Visit /\ VisitFits(to)
    BY <2>2, <2>4, <2>5, VisitStates DEF VisitFits
  <2> HIDE DEF to
  <2> QED
    BY <1>0, <1>1, <2>3, <2>6, VisitMoves DEF ServeHTTP
<1>2. CASE ViewSEV(r)
  <2>1. visit[r] \in Asking /\ visit[r].pc = "view"
    BY <1>0, <1>2, VisitStates DEF ViewSEV
  <2>2. Listing(visit[r]) \in Asking /\ Listing(visit[r]).pc = "list"
    BY <2>1 DEF Listing, Asking
  <2>3. ~sensitive => VisitFits(Listing(visit[r]))
    BY <1>0, <2>1 DEF VisitFits, Listing, MaySee
  <2> DEFINE to == IF sensitive THEN NoVisit ELSE Listing(visit[r])
  <2>4. to \in Visit /\ VisitFits(to)
    BY <1>0, <2>2, <2>3, VisitStates
  <2>5. visit' = [visit EXCEPT ![r] = to]
    BY <1>2 DEF ViewSEV
  <2> HIDE DEF to
  <2> QED
    BY <1>0, <1>2, <2>4, <2>5, VisitMoves DEF ViewSEV
<1> QED
  BY <1>1, <1>2

LEMMA ListSteps ==
    ASSUME ShareInv, NEW r \in Request,
           \/ \E u \in Viewer \union Trusted : LoadVisibleSEV(r, u)
           \/ HasAccess(r) \/ ListPosts(r)
    PROVE  ShareInv'
<1>0. /\ visit[r] \in Visit /\ VisitFits(visit[r]) /\ VisitFits(NoVisit)
      /\ links \subseteq ShareToken /\ revoked \subseteq links /\ withdrawn = revoked
      /\ sensitive \in BOOLEAN /\ grants \subseteq Viewer
      /\ posts \in Seq(Audience) /\ Len(posts) <= MaxPosts
  BY VisitStates DEF ShareInv, ShareTypeInv, ShareTypeOK, VisitFits
<1>1. ASSUME NEW u \in Viewer \union Trusted, LoadVisibleSEV(r, u) PROVE ShareInv'
  <2>1. PICK m \in BOOLEAN : m = MaySee(u, sensitive, grants)
    BY DEF MaySee
  <2>2. PICK no \in BOOLEAN : no = FALSE
    OBVIOUS
  <2> DEFINE call == [pc |-> "access", who |-> u, may |-> m, token |-> Nil, late |-> no]
             to == IF ~sensitive \/ u \in Trusted THEN Listing(call) ELSE call
  <2>3. visit' = [visit EXCEPT ![r] = to]
    BY <1>1, <2>1, <2>2 DEF LoadVisibleSEV
  <2>4. call \in Asking /\ Listing(call) \in Asking
    BY DEF Asking, Caller, Listing
  <2>5. VisitFits(call)
    BY <2>1, <2>2 DEF VisitFits
  <2>6. ~sensitive \/ u \in Trusted => VisitFits(Listing(call))
    BY <2>1, <2>2 DEF VisitFits, Listing, MaySee
  <2>7. to \in Visit /\ VisitFits(to)
    BY <2>4, <2>5, <2>6, VisitStates
  <2> HIDE DEF to
  <2> QED
    BY <1>0, <1>1, <2>3, <2>7, VisitMoves DEF LoadVisibleSEV
<1>2. CASE HasAccess(r)
  <2>1. visit[r] \in Asking /\ visit[r].pc = "access"
    BY <1>0, <1>2, VisitStates DEF HasAccess
  <2>2. Listing(visit[r]) \in Asking /\ Listing(visit[r]).pc = "list"
    BY <2>1 DEF Listing, Asking
  <2>3. visit[r].who \in grants => VisitFits(Listing(visit[r]))
    BY <1>0, <2>1 DEF VisitFits, Listing, MaySee
  <2> DEFINE to == IF visit[r].who \in grants THEN Listing(visit[r]) ELSE NoVisit
  <2>4. to \in Visit /\ VisitFits(to)
    BY <1>0, <2>2, <2>3, VisitStates
  <2>5. visit' = [visit EXCEPT ![r] = to]
    BY <1>2 DEF HasAccess
  <2> HIDE DEF to
  <2> QED
    BY <1>0, <1>2, <2>4, <2>5, VisitMoves DEF HasAccess
<1>3. CASE ListPosts(r)
  <2>1. visit[r] \in Asking /\ visit[r].pc = "list"
    BY <1>0, <1>3, VisitStates DEF ListPosts
  <2>2. DOMAIN posts \subseteq PostId
    BY <1>0, SharingAssumption DEF PostId
  <2>3. /\ PostsFor(visit[r].who) \subseteq DOMAIN posts
        /\ visit[r].who = Nil => \A k \in PostsFor(visit[r].who) : posts[k] = "external"
    BY DEF PostsFor
  <2> DEFINE to == [pc |-> "show", who |-> visit[r].who, may |-> visit[r].may,
                    late |-> visit[r].late, shown |-> PostsFor(visit[r].who)]
  <2>4. to \in Showing
    BY <2>1, <2>2, <2>3 DEF Asking, Showing
  <2>5. VisitFits(to)
    BY <1>0, <2>1, <2>3 DEF VisitFits
  <2>6. visit' = [visit EXCEPT ![r] = to]
    BY <1>3 DEF ListPosts
  <2> HIDE DEF to
  <2> QED
    BY <1>0, <1>3, <2>4, <2>5, <2>6, VisitStates, VisitMoves DEF ListPosts
<1> QED
  BY <1>1, <1>2, <1>3

\* Announcements already listed stay where they are.
LEMMA PostSteps ==
    ASSUME ShareInv, NEW r \in Request,
           (\E audience \in Audience : ReadForPost(r, audience)) \/ CreatePost(r)
    PROVE  ShareInv'
<1>0. /\ visit[r] \in Visit /\ VisitFits(visit[r]) /\ VisitFits(NoVisit)
      /\ links \subseteq ShareToken /\ revoked \subseteq links /\ withdrawn = revoked
      /\ sensitive \in BOOLEAN
      /\ posts \in Seq(Audience) /\ Len(posts) <= MaxPosts
  BY VisitStates DEF ShareInv, ShareTypeInv, ShareTypeOK, VisitFits
<1>1. ASSUME NEW audience \in Audience, ReadForPost(r, audience) PROVE ShareInv'
  <2>1. PICK m \in BOOLEAN : m = ~sensitive
    BY <1>0
  <2> DEFINE to == [pc |-> "post", who |-> "subscribers", may |-> m,
                    audience |-> audience, publish |-> m]
  <2>2. to \in Posting
    BY DEF Posting, Caller
  <2>3. VisitFits(to)
    BY SharingAssumption DEF VisitFits
  <2>4. visit' = [visit EXCEPT ![r] = to]
    BY <1>1, <2>1 DEF ReadForPost
  <2> HIDE DEF to
  <2> QED
    BY <1>0, <1>1, <2>2, <2>3, <2>4, VisitStates, VisitMoves DEF ReadForPost
<1>2. CASE CreatePost(r)
  <2>1. visit[r] \in Posting /\ visit[r].pc = "post"
    BY <1>0, <1>2, VisitStates DEF CreatePost
  <2>2. /\ posts' \in Seq(Audience) /\ Len(posts') = Len(posts) + 1
        /\ \A k \in DOMAIN posts : k \in DOMAIN posts' /\ posts'[k] = posts[k]
        /\ Len(posts') \in PostId /\ Len(posts') \in DOMAIN posts'
    <3>1. visit[r].audience \in Audience
      BY <2>1 DEF Posting
    <3>2. Len(posts') = Len(posts) + 1 /\ posts' \in Seq(Audience) /\ Len(posts) < MaxPosts
      BY <1>0, <1>2, <3>1 DEF CreatePost
    <3>3. \A k \in DOMAIN posts : k \in DOMAIN posts' /\ posts'[k] = posts[k]
      BY <1>0, <1>2, <3>1 DEF CreatePost
    <3> QED
      BY <1>0, <3>2, <3>3, SharingAssumption DEF PostId
  <2>3. PICK no \in BOOLEAN : no = FALSE
    OBVIOUS
  <2> DEFINE to == IF visit[r].publish
                   THEN [pc |-> "show", who |-> visit[r].who, may |-> visit[r].may, late |-> no,
                         shown |-> {Len(posts')}]
                   ELSE NoVisit
  <2>4. visit' = [visit EXCEPT ![r] = to]
    BY <1>2, <2>3 DEF CreatePost
  <2>5. PICK shows : shows = [pc |-> "show", who |-> visit[r].who, may |-> visit[r].may,
                              late |-> no, shown |-> {Len(posts')}]
    OBVIOUS
  <2>6. shows \in Showing
    BY <2>1, <2>2, <2>5 DEF Posting, Showing
  <2>7. to = IF visit[r].publish THEN shows ELSE NoVisit
    BY <2>5
  <2>8. to \in Visit
    BY <2>6, <2>7, VisitStates
  <2> HIDE DEF to
  <2>9. \A q \in Request : visit'[q] = IF q = r THEN to ELSE visit[q]
    BY <2>4 DEF ShareInv, ShareTypeInv, ShareTypeOK
  <2>10. ASSUME NEW q \in Request PROVE VisitFits(visit[q])'
    <3>1. CASE q # r
      <4>1. visit'[q] = visit[q] /\ VisitFits(visit[q])
        BY <2>9, <3>1 DEF ShareInv
      <4> QED
        BY <1>2, <2>2, <4>1 DEF VisitFits, CreatePost, MaySee
    <3>2. CASE q = r /\ ~visit[r].publish
      BY <2>7, <2>9, <3>2, VisitStates DEF VisitFits
    <3>3. CASE q = r /\ visit[r].publish
      <4>1. visit'[q] = shows
        BY <2>7, <2>9, <3>3
      <4>2. visit[r].may /\ visit[r].who # Nil
        BY <1>0, <2>1, <3>3 DEF VisitFits
      <4> QED
        BY <2>2, <2>3, <2>5, <4>1, <4>2 DEF VisitFits
    <3> QED
      BY <3>1, <3>2, <3>3
  <2>11. visit' \in [Request -> Visit]
    BY <2>4, <2>8 DEF ShareInv, ShareTypeInv, ShareTypeOK
  <2>12. Len(posts') <= MaxPosts
    BY <1>0, <1>2, <2>2, SharingAssumption DEF CreatePost
  <2> QED
    BY <1>2, <2>2, <2>10, <2>11, <2>12
       DEF CreatePost, ShareInv, ShareTypeInv, ShareTypeOK, EnvTypeOK, env
<1> QED
  BY <1>1, <1>2

LEMMA ShareInvStep ==
    ASSUME ShareInv, [ShareNext]_<<shareVars, env>>
    PROVE  ShareInv'
<1>0. /\ visit \in [Request -> Visit] /\ \A r \in Request : VisitFits(visit[r])
      /\ links \subseteq ShareToken /\ revoked \subseteq links /\ withdrawn = revoked
      /\ sensitive \in BOOLEAN /\ grants \subseteq Viewer /\ shareKey \in Nat
      /\ posts \in Seq(Audience) /\ Len(posts) <= MaxPosts /\ now \in Nat /\ faults \in Nat
  BY DEF ShareInv, ShareTypeInv, ShareTypeOK, EnvTypeOK
<1>1. ASSUME NEW flag \in BOOLEAN, SetSensitive(flag) PROVE ShareInv'
  BY <1>0, <1>1, ReconsideredKeeps DEF SetSensitive
<1>2. ASSUME NEW u \in Viewer, GrantAccess(u) PROVE ShareInv'
  <2>1. grants' \subseteq Viewer
    BY <1>0, <1>2 DEF GrantAccess
  <2>2. sensitive' \in BOOLEAN /\ visit' = Reconsidered(sensitive', grants')
    BY <1>0, <1>2 DEF GrantAccess
  <2> QED
    BY <1>2, <2>1, <2>2, ReconsideredKeeps DEF GrantAccess
<1>3. ASSUME NEW u \in Viewer, RevokeAccess(u) PROVE ShareInv'
  <2>1. ASSUME NEW r \in Request PROVE VisitFits(visit[r])'
    BY <1>0, <1>3 DEF VisitFits, RevokeAccess, MaySee
  <2> QED
    BY <1>0, <1>3, <2>1
       DEF RevokeAccess, ShareInv, ShareTypeInv, ShareTypeOK, EnvTypeOK, env
<1>4. ASSUME NEW t \in links, RevokeShareLink(t) PROVE ShareInv'
  <2>1. ASSUME NEW r \in Request PROVE VisitFits(visit[r])'
    BY <1>0, <1>4 DEF VisitFits, RevokeShareLink, MaySee
  <2> QED
    BY <1>0, <1>4, <2>1
       DEF RevokeShareLink, ShareInv, ShareTypeInv, ShareTypeOK, EnvTypeOK, env
<1>5. CASE RotateShareKey
  <2>1. visit' \in [Request -> Visit] /\ \A r \in Request : visit'[r].pc = "idle"
    BY <1>5, VisitStates DEF RotateShareKey
  <2>2. shareKey' \in Nat
    BY <1>0, <1>5 DEF RotateShareKey
  <2> QED
    BY <1>0, <1>5, <2>1, <2>2
       DEF RotateShareKey, ShareInv, VisitFits, ShareTypeInv, ShareTypeOK, EnvTypeOK, env
<1>6. CASE ShareTick \/ UNCHANGED <<shareVars, env>>
  <2>1. now' \in Nat /\ faults' \in Nat /\ UNCHANGED shareVars
    BY <1>0, <1>6 DEF ShareTick, Tick, env
  <2>2. ASSUME NEW r \in Request PROVE VisitFits(visit[r])'
    BY <1>0, <2>1 DEF VisitFits, shareVars, MaySee
  <2> QED
    BY <1>0, <2>1, <2>2 DEF shareVars, ShareInv, ShareTypeInv, ShareTypeOK, EnvTypeOK
<1> QED
  BY <1>1, <1>2, <1>3, <1>4, <1>5, <1>6, LinkSteps, ViewSteps, ListSteps, PostSteps
     DEF ShareNext

\* Every link, grant, announcement and call in flight keeps its type; a revoked link is a
\* stored one, and no row that was ever revoked is anything but revoked.
THEOREM ShareTypeCorrect == ShareSpec => []ShareTypeOK
<1>1. ShareInit /\ EnvInit => ShareInv
  BY ShareInvInit
<1>2. ShareInv /\ [ShareNext]_<<shareVars, env>> => ShareInv'
  BY ShareInvStep
<1>3. ShareInv => ShareTypeOK
  BY DEF ShareInv, ShareTypeInv
<1> QED
  BY <1>1, <1>2, <1>3, PTL DEF ShareSpec

\* Whoever is shown a SEV was to see it at some moment since the call began, and no public
\* link shows anything to a call that began after it was revoked.
THEOREM DisclosedCorrect == ShareSpec => []DisclosedWithReason
<1>1. ShareInit /\ EnvInit => ShareInv
  BY ShareInvInit
<1>2. ShareInv /\ [ShareNext]_<<shareVars, env>> => ShareInv'
  BY ShareInvStep
<1>3. ShareInv => DisclosedWithReason
  BY DEF ShareInv, VisitFits, DisclosedWithReason
<1> QED
  BY <1>1, <1>2, <1>3, PTL DEF ShareSpec

-------------------------------------------------------------------------------
(***************************************************************************)
(* Tasks. A row has had the due date it has, and no backfill yet if it has *)
(* none; a row id is used once; an issue the handlers opened is known, or  *)
(* is in the hands of the handler that opened it.                          *)
(***************************************************************************)
Creating == [pc : {"create"}, made : BOOLEAN, asked : OptTime, task : Task]
Opening == [pc : {"open"}, days : Days, due : OptTime, retry : BOOLEAN]
Deleting == [pc : {"delete"}, id : TaskId]
Updating == [pc : {"update"}, id : TaskId, task : Task]
Listed == [pc : {"list"}, resolved : Nat]
Filling == [pc : {"backfill"}, resolved : Nat, todo : SUBSET [id : TaskId, days : Days],
            fresh : SUBSET TaskId, shown : SUBSET (TaskId \X OptTime)]

LEMMA WorkStates ==
    /\ NoWork \in Work /\ NoWork.pc = "idle"
    /\ Creating \subseteq Work /\ Opening \subseteq Work /\ Deleting \subseteq Work
    /\ Updating \subseteq Work /\ Listed \subseteq Work /\ Filling \subseteq Work
    /\ \A w \in Work : /\ w.pc = "create" => w \in Creating
                       /\ w.pc = "open" => w \in Opening
                       /\ w.pc = "delete" => w \in Deleting
                       /\ w.pc = "update" => w \in Updating
                       /\ w.pc = "list" => w \in Listed
                       /\ w.pc = "backfill" => w \in Filling
BY DEF Work, NoWork, Creating, Opening, Deleting, Updating, Listed, Filling

RowFits(k) ==
    /\ backfills[k] <= 1
    /\ k > lastTask => backfills[k] = 0 /\ had[k] = {}
    /\ Stands(k) => /\ tasks[k].due \in had[k]
                    /\ tasks[k].due = Nil => backfills[k] = 0
                    /\ wished[k] # Nil => tasks[k].due = wished[k]

WorkFits(w) ==
    /\ w.pc = "create" => (w.asked # Nil => w.task.due = w.asked)
    /\ w.pc = "update" => /\ w.task.due # Nil /\ w.id <= lastTask
                          /\ Stands(w.id) => tasks[w.id].issue = w.task.issue
    /\ w.pc = "backfill" => \A s \in w.shown : s[2] # Nil => s[2] \in had[s[1]]

InHand(w, i) == w.pc = "create" /\ w.made /\ w.task.issue = i

IssuesHeld == \A i \in 1 .. opened : i \in known \/ \E r \in Request : InHand(work[r], i)

LinkedOnce ==
    \A j \in TaskId, k \in TaskId :
        Stands(j) /\ Stands(k) /\ tasks[j].issue = tasks[k].issue => j = k

TaskTypeInv == EnvTypeOK /\ TaskTypeOK

TaskInv ==
    /\ TaskTypeInv
    /\ \A k \in TaskId : RowFits(k)
    /\ \A r \in Request : WorkFits(work[r])
    /\ IssuesHeld
    /\ LinkedOnce

LEMMA TaskFacts ==
    ASSUME TaskInv
    PROVE  /\ resolvedAt \in OptTime /\ tasks \in [TaskId -> Task \union {Nil}]
           /\ lastTask \in 0 .. MaxTasks /\ opened \in 0 .. MaxIssues
           /\ \A k \in TaskId : k > lastTask => tasks[k] = Nil
           /\ work \in [Request -> Work] /\ wished \in [TaskId -> OptTime]
           /\ backfills \in [TaskId -> Nat] /\ had \in [TaskId -> SUBSET OptTime]
           /\ known \subseteq Issue /\ now \in Nat /\ faults \in Nat
           /\ MaxTasks \in Nat /\ MaxIssues \in Nat
           /\ \A k \in TaskId : RowFits(k)
           /\ \A r \in Request : WorkFits(work[r])
           /\ \A k \in TaskId : Stands(k) => tasks[k] \in Task
BY TasksAssumption DEF TaskInv, TaskTypeInv, TaskTypeOK, EnvTypeOK, Stands

LEMMA TaskInvInit == TaskInit /\ EnvInit => TaskInv
<1> SUFFICES ASSUME TaskInit, EnvInit PROVE TaskInv
  OBVIOUS
<1>1. TaskTypeInv
  BY WorkStates, TasksAssumption DEF TaskInit, EnvInit, TaskTypeInv, TaskTypeOK, EnvTypeOK, OptTime
<1>2. \A k \in TaskId : RowFits(k) /\ ~Stands(k)
  BY DEF TaskInit, RowFits, Stands
<1>3. \A r \in Request : WorkFits(work[r])
  BY WorkStates DEF TaskInit, WorkFits
<1> QED
  BY <1>1, <1>2, <1>3 DEF TaskInit, TaskInv, IssuesHeld, LinkedOnce

LEMMA DueDateType ==
    ASSUME NEW days \in Days, NEW resolved \in OptTime
    PROVE  /\ ComputeDueDate(days, resolved) \in OptTime
           /\ resolved \in Nat => ComputeDueDate(days, resolved) \in Nat
BY TasksAssumption, NilAssumption DEF ComputeDueDate, OptTime

\* A handler goes on; rows stay, and an issue it lets go of is known.
LEMMA WorkMoves ==
    ASSUME TaskInv, NEW r \in Request, NEW to \in Work, WorkFits(to),
           work' = [work EXCEPT ![r] = to],
           known \subseteq known', known' \subseteq Issue,
           \A i \in 1 .. opened : InHand(work[r], i) => i \in known' \/ InHand(to, i),
           now' \in Nat, faults' \in Nat,
           UNCHANGED <<resolvedAt, tasks, lastTask, opened, wished, backfills, had>>
    PROVE  TaskInv'
<1>1. \A q \in Request : work'[q] = IF q = r THEN to ELSE work[q]
  BY TaskFacts
<1>2. work' \in [Request -> Work]
  BY TaskFacts
<1>3. \A k \in TaskId : RowFits(k)'
  BY TaskFacts DEF RowFits, Stands
<1>4. ASSUME NEW q \in Request PROVE WorkFits(work[q])'
  BY <1>1, TaskFacts DEF WorkFits, Stands
<1>5. IssuesHeld'
  <2> SUFFICES ASSUME NEW i \in 1 .. opened, i \notin known'
               PROVE  \E q \in Request : InHand(work'[q], i)
    BY DEF IssuesHeld, InHand
  <2>1. PICK q \in Request : InHand(work[q], i)
    BY DEF TaskInv, IssuesHeld
  <2> QED
    BY <1>1, <2>1
<1>6. LinkedOnce'
  BY DEF TaskInv, LinkedOnce, Stands
<1> QED
  BY <1>2, <1>3, <1>4, <1>5, <1>6, TaskFacts DEF TaskInv, TaskTypeInv, TaskTypeOK, EnvTypeOK

\* The calls that begin, and those that leave every row as it was.
LEMMA BeginSteps ==
    ASSUME TaskInv, NEW r \in Request,
           \/ \E issue \in Issue, days \in Days, due \in AskedDue \union {Nil} :
                 LinkTask(r, issue, days, due)
           \/ \E days \in Days, retry \in BOOLEAN : CreateIssue(r, days, retry)
           \/ RefuseIssue(r)
           \/ \E k \in TaskId, due \in AskedDue \union {Nil} : LoadTask(r, k, due)
           \/ ListTasks(r) \/ ListBySEVID(r) \/ AnswerList(r)
    PROVE  TaskInv'
<1>0. /\ work[r] \in Work /\ WorkFits(work[r]) /\ WorkFits(NoWork) /\ now \in Nat
      /\ faults \in Nat /\ known \subseteq Issue /\ resolvedAt \in OptTime
      /\ tasks \in [TaskId -> Task \union {Nil}]
      /\ \A k \in TaskId : Stands(k) => tasks[k] \in Task
  BY TaskFacts, WorkStates DEF WorkFits
<1>1. ASSUME NEW issue \in Issue, NEW days \in Days, NEW due \in AskedDue \union {Nil},
             LinkTask(r, issue, days, due)
      PROVE  TaskInv'
  <2> DEFINE task == [issue |-> issue, days |-> days,
                      due |-> OrElse(due, ComputeDueDate(days, resolvedAt))]
  <2>1. PICK no \in BOOLEAN : no = FALSE
    OBVIOUS
  <2> DEFINE to == [pc |-> "create", made |-> no, asked |-> due, task |-> task]
  <2>2. due \in OptTime
    BY TasksAssumption DEF OptTime
  <2>3. OrElse(due, ComputeDueDate(days, resolvedAt)) \in OptTime
    BY <1>0, <2>2, DueDateType DEF OrElse
  <2>4. to \in Creating
    BY <2>2, <2>3 DEF Creating, Task
  <2>5. WorkFits(to)
    BY DEF WorkFits, OrElse
  <2>6. work' = [work EXCEPT ![r] = to]
    BY <1>1, <2>1 DEF LinkTask
  <2>7. ~\E i \in 1 .. opened : InHand(work[r], i)
    BY <1>1 DEF LinkTask, Doing, InHand
  <2> HIDE DEF to, task
  <2> QED
    BY <1>0, <1>1, <2>4, <2>5, <2>6, <2>7, WorkStates, WorkMoves DEF LinkTask, env
<1>2. ASSUME NEW days \in Days, NEW retry \in BOOLEAN, CreateIssue(r, days, retry)
      PROVE  TaskInv'
  <2> DEFINE to == [pc |-> "open", days |-> days, due |-> ComputeDueDate(days, resolvedAt),
                    retry |-> retry]
  <2>1. to \in Opening
    BY <1>0, DueDateType DEF Opening
  <2>2. WorkFits(to)
    BY DEF WorkFits
  <2>3. work' = [work EXCEPT ![r] = to]
    BY <1>2 DEF CreateIssue
  <2>4. ~\E i \in 1 .. opened : InHand(work[r], i)
    BY <1>2 DEF CreateIssue, Doing, InHand
  <2> HIDE DEF to
  <2> QED
    BY <1>0, <1>2, <2>1, <2>2, <2>3, <2>4, WorkStates, WorkMoves DEF CreateIssue, env
<1>3. CASE RefuseIssue(r)
  <2>1. PICK no \in BOOLEAN : no = FALSE
    OBVIOUS
  <2>2. work[r] \in Opening
    BY <1>0, <1>3, WorkStates DEF RefuseIssue, Doing
  <2>3. [work[r] EXCEPT !.retry = no] \in Opening
    BY <2>2 DEF Opening
  <2> DEFINE to == IF work[r].retry THEN [work[r] EXCEPT !.retry = no] ELSE NoWork
  <2>4. to \in Work
    BY <2>3, WorkStates
  <2>5. [work[r] EXCEPT !.retry = no].pc = "open"
    BY <2>3 DEF Opening
  <2>6. WorkFits(to)
    BY <1>0, <2>5 DEF WorkFits
  <2>7. work' = [work EXCEPT ![r] = to]
    BY <1>3, <2>1 DEF RefuseIssue
  <2>8. ~\E i \in 1 .. opened : InHand(work[r], i)
    BY <1>3 DEF RefuseIssue, Doing, InHand
  <2> HIDE DEF to
  <2> QED
    BY <1>0, <1>3, <2>4, <2>6, <2>7, <2>8, WorkMoves DEF RefuseIssue, env
<1>4. ASSUME NEW k \in TaskId, NEW due \in AskedDue \union {Nil}, LoadTask(r, k, due)
      PROVE  TaskInv'
  <2>1. tasks[k] \in Task
    BY <1>0, <1>4 DEF LoadTask
  <2>2. due # Nil => due \in OptTime
    BY TasksAssumption DEF OptTime
  <2>3. due # Nil => /\ [tasks[k] EXCEPT !.due = due] \in Task
                     /\ [tasks[k] EXCEPT !.due = due].due = due
                     /\ [tasks[k] EXCEPT !.due = due].issue = tasks[k].issue
    BY <2>1, <2>2 DEF Task
  <2> DEFINE task == [tasks[k] EXCEPT !.due = due]
             to == IF due = Nil THEN [pc |-> "delete", id |-> k]
                   ELSE [pc |-> "update", id |-> k, task |-> task]
  <2> HIDE DEF task
  <2>4. to \in Work
    BY <2>3, WorkStates DEF Deleting, Updating, task
  <2>5. k <= lastTask
    BY <1>4, TaskFacts DEF LoadTask, Stands, TaskId
  <2>6. WorkFits(to)
    BY <2>3, <2>5 DEF WorkFits, task
  <2>7. work' = [work EXCEPT ![r] = to]
    BY <1>4 DEF LoadTask, task
  <2>8. ~\E i \in 1 .. opened : InHand(work[r], i)
    BY <1>4 DEF LoadTask, Doing, InHand
  <2> HIDE DEF to
  <2> QED
    BY <1>0, <1>4, <2>4, <2>6, <2>7, <2>8, WorkMoves DEF LoadTask, env
<1>5. CASE ListTasks(r)
  <2> DEFINE to == [pc |-> "list", resolved |-> resolvedAt]
  <2>1. to \in Listed
    BY <1>0, <1>5 DEF ListTasks, Listed, OptTime
  <2>2. WorkFits(to) /\ work' = [work EXCEPT ![r] = to]
    BY <1>5 DEF ListTasks, WorkFits
  <2>3. ~\E i \in 1 .. opened : InHand(work[r], i)
    BY <1>5 DEF ListTasks, Doing, InHand
  <2> HIDE DEF to
  <2> QED
    BY <1>0, <1>5, <2>1, <2>2, <2>3, WorkStates, WorkMoves DEF ListTasks, env
<1>6. CASE ListBySEVID(r)
  <2>1. work[r] \in Listed
    BY <1>0, <1>6, WorkStates DEF ListBySEVID, Doing
  <2> DEFINE todo == {[id |-> k, days |-> tasks[k].days] :
                        k \in {j \in TaskId : Stands(j) /\ tasks[j].due = Nil}}
             to == [pc |-> "backfill", resolved |-> work[r].resolved, todo |-> todo,
                    fresh |-> {}, shown |-> {}]
  <2>2. todo \subseteq [id : TaskId, days : Days]
    BY <1>0 DEF Task
  <2>3. work' = [work EXCEPT ![r] = to]
    BY <1>6 DEF ListBySEVID
  <2> HIDE DEF todo
  <2>4. to \in Filling
    BY <2>1, <2>2 DEF Listed, Filling
  <2>5. WorkFits(to)
    BY DEF WorkFits
  <2>6. ~\E i \in 1 .. opened : InHand(work[r], i)
    BY <1>6 DEF ListBySEVID, Doing, InHand
  <2> HIDE DEF to
  <2> QED
    BY <1>0, <1>6, <2>3, <2>4, <2>5, <2>6, WorkStates, WorkMoves DEF ListBySEVID, env
<1>7. CASE AnswerList(r)
  <2>1. ~\E i \in 1 .. opened : InHand(work[r], i)
    BY <1>7 DEF AnswerList, Doing, InHand
  <2> QED
    BY <1>0, <1>7, <2>1, WorkStates, WorkMoves DEF AnswerList, Finish, env
<1> QED
  BY <1>1, <1>2, <1>3, <1>4, <1>5, <1>6, <1>7

LEMMA OpenIssueFits ==
    ASSUME TaskInv, NEW r \in Request, OpenIssue(r)
    PROVE  TaskInv'
<1>0. /\ work[r] \in Work /\ work[r].pc = "open" /\ opened' = opened + 1
      /\ opened' \in 0 .. MaxIssues /\ opened \in Nat
      /\ UNCHANGED <<resolvedAt, tasks, lastTask, wished, backfills, had>>
  BY TaskFacts DEF OpenIssue, Doing
<1>1. work[r] \in Opening
  BY <1>0, WorkStates
<1>2. PICK yes \in BOOLEAN : yes = TRUE
  OBVIOUS
<1> DEFINE to == [pc |-> "create", made |-> yes, asked |-> Nil,
                  task |-> [issue |-> opened + 1, days |-> work[r].days, due |-> work[r].due]]
<1>3. to \in Creating /\ WorkFits(to) /\ InHand(to, opened + 1)
  <2>1. [issue |-> opened + 1, days |-> work[r].days, due |-> work[r].due] \in Task
    BY <1>0, <1>1 DEF Opening, Task, Issue
  <2> QED
    BY <1>2, <2>1 DEF Creating, OptTime, WorkFits, InHand
<1>4. /\ \/ work' = [work EXCEPT ![r] = to] /\ known' = known /\ UNCHANGED env
         \/ /\ work' = [work EXCEPT ![r] = NoWork]
            /\ known' = known \union {opened + 1} /\ Fail("tracker")
      /\ now' \in Nat /\ faults' \in Nat
  <2>1. CASE Fail("tracker") /\ Finish(r) /\ known' = known \union {opened + 1}
    BY <2>1, TaskFacts DEF Fail, Finish
  <2>2. CASE work' = [work EXCEPT ![r] = to] /\ UNCHANGED <<known, env>>
    <3>1. now' \in Nat /\ faults' \in Nat /\ UNCHANGED <<known, env>>
      BY <2>2, TaskFacts DEF env
    <3> HIDE DEF to
    <3> QED
      BY <2>2, <3>1
  <2>3. \/ Fail("tracker") /\ Finish(r) /\ known' = known \union {opened + 1}
        \/ work' = [work EXCEPT ![r] = to] /\ UNCHANGED <<known, env>>
    BY <1>2 DEF OpenIssue
  <2> HIDE DEF to
  <2> QED
    BY <2>1, <2>2, <2>3
<1> HIDE DEF to
<1>5. PICK next \in Work : /\ WorkFits(next) /\ work' = [work EXCEPT ![r] = next]
                           /\ InHand(next, opened + 1) \/ opened + 1 \in known'
  BY <1>3, <1>4, WorkStates DEF WorkFits
<1>6. \A q \in Request : work'[q] = IF q = r THEN next ELSE work[q]
  BY <1>5, TaskFacts
<1>7. work' \in [Request -> Work] /\ known \subseteq known' /\ known' \subseteq Issue
  BY <1>0, <1>4, <1>5, TaskFacts DEF Issue
<1>8. \A k \in TaskId : RowFits(k)'
  BY <1>0, TaskFacts DEF RowFits, Stands
<1>9. ASSUME NEW q \in Request PROVE WorkFits(work[q])'
  BY <1>0, <1>5, <1>6, TaskFacts DEF WorkFits, Stands
<1>10. IssuesHeld'
  <2> SUFFICES ASSUME NEW i \in 1 .. opened + 1, i \notin known'
               PROVE  \E q \in Request : InHand(work'[q], i)
    BY <1>0 DEF IssuesHeld, InHand
  <2>1. CASE i = opened + 1
    BY <1>5, <1>6, <2>1
  <2>2. CASE i # opened + 1
    <3>1. i \in 1 .. opened /\ i \notin known
      BY <1>0, <1>7, <2>2
    <3>2. PICK q \in Request : InHand(work[q], i)
      BY <3>1 DEF TaskInv, IssuesHeld
    <3> QED
      BY <1>0, <1>6, <3>2 DEF InHand
  <2> QED
    BY <2>1, <2>2
<1>11. LinkedOnce'
  BY <1>0 DEF TaskInv, LinkedOnce, Stands
<1> QED
  BY <1>0, <1>4, <1>7, <1>8, <1>9, <1>10, <1>11, TaskFacts
     DEF TaskInv, TaskTypeInv, TaskTypeOK, EnvTypeOK

\* A row changes, or is new; every other row and every other handler stays.
LEMMA RowMoves ==
    ASSUME TaskInv, NEW r \in Request, NEW k \in TaskId, NEW to \in Work,
           NEW row \in Task \union {Nil},
           work' = [work EXCEPT ![r] = to], tasks' = [tasks EXCEPT ![k] = row],
           k <= lastTask', lastTask <= lastTask', lastTask' \in 0 .. MaxTasks,
           k > lastTask => lastTask' = k,
           k <= lastTask => lastTask' = lastTask,
           wished' \in [TaskId -> OptTime], backfills' \in [TaskId -> Nat],
           had' \in [TaskId -> SUBSET OptTime],
           \A j \in TaskId : j # k => /\ wished'[j] = wished[j] /\ had'[j] = had[j]
                                      /\ backfills'[j] = backfills[j],
           had[k] \subseteq had'[k],
           RowFits(k)', WorkFits(to)',
           row # Nil /\ Stands(k) => row.issue = tasks[k].issue,
           row # Nil /\ ~Stands(k) => k > lastTask /\ ~Linked(row.issue),
           known \subseteq known', known' \subseteq Issue,
           \A i \in 1 .. opened : InHand(work[r], i) => i \in known',
           now' \in Nat, faults' \in Nat, UNCHANGED <<resolvedAt, opened>>
    PROVE  TaskInv'
<1>1. \A q \in Request : work'[q] = IF q = r THEN to ELSE work[q]
  BY TaskFacts
<1>2. \A j \in TaskId : tasks'[j] = IF j = k THEN row ELSE tasks[j]
  BY TaskFacts
<1>3. work' \in [Request -> Work] /\ tasks' \in [TaskId -> Task \union {Nil}]
  BY TaskFacts
<1>4. ASSUME NEW j \in TaskId PROVE RowFits(j)' /\ (j > lastTask' => tasks'[j] = Nil)
  <2>1. CASE j = k
    BY <1>2, <2>1, TaskFacts DEF TaskId
  <2>2. CASE j # k
    <3>1. RowFits(j) /\ tasks'[j] = tasks[j] /\ (j > lastTask' => j > lastTask)
      BY <1>2, <2>2, TaskFacts DEF TaskId
    <3> QED
      BY <2>2, <3>1, TaskFacts DEF RowFits, Stands
  <2> QED
    BY <2>1, <2>2
<1>5. ASSUME NEW q \in Request PROVE WorkFits(work[q])'
  <2>1. CASE q = r
    BY <1>1, <2>1 DEF WorkFits
  <2>2. CASE q # r
    <3>1. work'[q] = work[q] /\ WorkFits(work[q]) /\ work[q] \in Work
      BY <1>1, <2>2, TaskFacts
    <3>2. CASE work[q].pc = "update"
      <4>1. PICK j \in TaskId : j = work[q].id
        BY <3>1, <3>2, WorkStates DEF Updating
      <4>2. j <= lastTask /\ (Stands(j) => tasks[j].issue = work[q].task.issue)
            /\ work[q].task.due # Nil
        BY <3>1, <3>2, <4>1 DEF WorkFits
      <4>3. tasks'[j] # Nil => tasks[j] # Nil /\ tasks'[j].issue = tasks[j].issue
        BY <1>2, <4>2, TaskFacts DEF Stands, TaskId
      <4>4. j <= lastTask'
        BY <4>2, TaskFacts DEF TaskId
      <4> QED
        BY <3>1, <3>2, <4>1, <4>2, <4>3, <4>4 DEF WorkFits, Stands
    <3>3. CASE work[q].pc = "backfill"
      <4>1. \A s \in work[q].shown : s[1] \in TaskId
        BY <3>1, <3>3, WorkStates DEF Filling
      <4> QED
        BY <3>1, <3>3, <4>1 DEF WorkFits
    <3>4. CASE work[q].pc \notin {"update", "backfill"}
      BY <3>1, <3>4 DEF WorkFits
    <3> QED
      BY <3>2, <3>3, <3>4
  <2> QED
    BY <2>1, <2>2
<1>6. IssuesHeld'
  <2> SUFFICES ASSUME NEW i \in 1 .. opened, i \notin known'
               PROVE  \E q \in Request : InHand(work'[q], i)
    BY DEF IssuesHeld, InHand
  <2>1. PICK q \in Request : InHand(work[q], i)
    BY DEF TaskInv, IssuesHeld
  <2> QED
    BY <1>1, <2>1
<1>7. LinkedOnce'
  <2>1. \A j \in TaskId : j # k /\ row # Nil /\ tasks[j] # Nil =>
            tasks[j].issue # row.issue
    BY DEF TaskInv, LinkedOnce, Linked, Stands
  <2> QED
    BY <1>2, <2>1 DEF TaskInv, LinkedOnce, Stands
<1> QED
  BY <1>3, <1>4, <1>5, <1>6, <1>7, TaskFacts DEF TaskInv, TaskTypeInv, TaskTypeOK, EnvTypeOK

LEMMA CreateTaskFits ==
    ASSUME TaskInv, NEW r \in Request, CreateTask(r)
    PROVE  TaskInv'
<1>0. /\ work[r] \in Creating /\ WorkFits(work[r]) /\ WorkFits(NoWork) /\ NoWork \in Work
      /\ work[r].pc = "create" /\ work' = [work EXCEPT ![r] = NoWork]
      /\ UNCHANGED <<resolvedAt, opened, backfills>>
  BY TaskFacts, WorkStates DEF CreateTask, Doing, Finish, WorkFits
<1>1. PICK task \in Task, want \in OptTime : task = work[r].task /\ want = work[r].asked
  BY <1>0 DEF Creating
<1>2. task.issue \in Issue /\ task.due \in OptTime /\ (want # Nil => task.due = want)
  BY <1>0, <1>1 DEF Task, WorkFits
<1>3. PICK k : k = lastTask + 1
  OBVIOUS
<1>4. PICK to \in Work : to = NoWork
  BY <1>0
<1>5. ASSUME ~Linked(task.issue), lastTask < MaxTasks, tasks' = [tasks EXCEPT ![k] = task],
             lastTask' = k, wished' = [wished EXCEPT ![k] = want],
             had' = [had EXCEPT ![k] = {task.due}], known' = known \union {task.issue},
             UNCHANGED env
      PROVE  TaskInv'
  <2>1. k \in TaskId /\ k > lastTask /\ lastTask' \in 0 .. MaxTasks /\ k <= lastTask'
        /\ lastTask <= lastTask'
    BY <1>3, <1>5, TaskFacts DEF TaskId
  <2>2. RowFits(k) /\ tasks[k] = Nil /\ backfills[k] = 0 /\ had[k] = {}
    BY <2>1, TaskFacts DEF RowFits
  <2>3. /\ tasks'[k] = task /\ wished'[k] = want /\ had'[k] = {task.due}
        /\ backfills'[k] = 0 /\ lastTask' = k
    BY <1>0, <1>5, <2>1, <2>2, TaskFacts
  <2>4. RowFits(k)'
    BY <1>2, <2>1, <2>3, TaskFacts DEF RowFits, Stands, TaskId
  <2>5. /\ wished' \in [TaskId -> OptTime] /\ had' \in [TaskId -> SUBSET OptTime]
        /\ backfills' \in [TaskId -> Nat]
        /\ \A j \in TaskId : j # k => /\ wished'[j] = wished[j] /\ had'[j] = had[j]
                                      /\ backfills'[j] = backfills[j]
    BY <1>0, <1>2, <1>5, <2>1, TaskFacts
  <2>6. \A i \in 1 .. opened : InHand(work[r], i) => i \in known'
    BY <1>1, <1>5 DEF InHand
  <2>7. WorkFits(to)'
    BY <1>4, WorkStates DEF WorkFits
  <2>8. known \subseteq known' /\ known' \subseteq Issue /\ now' \in Nat /\ faults' \in Nat
    BY <1>2, <1>5, TaskFacts DEF env
  <2>9. ~Stands(k) /\ had[k] \subseteq had'[k] /\ (k > lastTask => lastTask' = k)
        /\ (k <= lastTask => lastTask' = lastTask)
    BY <1>3, <2>2, <2>3, TaskFacts DEF Stands
  <2> QED
    BY <1>0, <1>4, <1>5, <2>1, <2>4, <2>5, <2>6, <2>7, <2>8, <2>9, RowMoves
<1>6. ASSUME Report(r), UNCHANGED <<tasks, lastTask, wished, had>>,
             UNCHANGED env \/ Fail("store")
      PROVE  TaskInv'
  <2>1. now' \in Nat /\ faults' \in Nat
    BY <1>6, TaskFacts DEF Fail, env
  <2>2. /\ known \subseteq known' /\ known' \subseteq Issue
        /\ \A i \in 1 .. opened : InHand(work[r], i) => i \in known'
    BY <1>1, <1>2, <1>6, TaskFacts DEF Report, InHand
  <2> QED
    BY <1>0, <1>6, <2>1, <2>2, WorkMoves
<1> QED
  BY <1>1, <1>3, <1>5, <1>6 DEF CreateTask

LEMMA DeleteTaskFits ==
    ASSUME TaskInv, NEW r \in Request, DeleteTask(r)
    PROVE  TaskInv'
<1>1. /\ work[r].pc = "delete" /\ work[r] \in Deleting /\ work[r].id \in TaskId
      /\ work' = [work EXCEPT ![r] = NoWork]
      /\ UNCHANGED <<resolvedAt, lastTask, opened, wished, backfills, had, known, env>>
  BY TaskFacts, WorkStates DEF DeleteTask, Doing, Finish, Deleting
<1>2. PICK k \in TaskId : k = work[r].id
  BY <1>1
<1>3. tasks' = [tasks EXCEPT ![k] = Nil] /\ tasks'[k] = Nil
  BY <1>2, TaskFacts DEF DeleteTask
<1>4. CASE k <= lastTask
  <2>1. RowFits(k)'
    BY <1>1, <1>3, TaskFacts DEF RowFits, Stands
  <2>2. PICK to \in Work : to = NoWork
    BY WorkStates
  <2>3. WorkFits(to)' /\ ~\E i \in 1 .. opened : InHand(work[r], i)
    BY <1>1, <2>2, WorkStates DEF WorkFits, InHand
  <2>4. /\ now' \in Nat /\ faults' \in Nat /\ known \subseteq known' /\ known' \subseteq Issue
        /\ wished' \in [TaskId -> OptTime] /\ had' \in [TaskId -> SUBSET OptTime]
        /\ backfills' \in [TaskId -> Nat] /\ had[k] \subseteq had'[k]
    BY <1>1, TaskFacts DEF env
  <2>5. /\ \A j \in TaskId : j # k => /\ wished'[j] = wished[j] /\ had'[j] = had[j]
                                      /\ backfills'[j] = backfills[j]
        /\ lastTask' = lastTask /\ lastTask <= lastTask' /\ lastTask' \in 0 .. MaxTasks
        /\ k <= lastTask' /\ ~(k > lastTask) /\ UNCHANGED <<resolvedAt, opened>>
    BY <1>1, <1>4, TaskFacts DEF TaskId
  <2> QED
    BY <1>1, <1>3, <2>1, <2>2, <2>3, <2>4, <2>5, RowMoves
<1>5. CASE k > lastTask
  <2>1. tasks' = tasks
    BY <1>3, <1>5, TaskFacts
  <2>2. WorkFits(NoWork) /\ ~\E i \in 1 .. opened : InHand(work[r], i)
    BY <1>1, WorkStates DEF WorkFits, InHand
  <2> QED
    BY <1>1, <2>1, <2>2, TaskFacts, WorkStates, WorkMoves DEF env
<1> QED
  BY <1>4, <1>5, TaskFacts DEF TaskId

LEMMA UpdateTaskFits ==
    ASSUME TaskInv, NEW r \in Request, UpdateTask(r)
    PROVE  TaskInv'
<1>1. /\ work[r].pc = "update" /\ work[r] \in Updating /\ WorkFits(work[r])
      /\ work' = [work EXCEPT ![r] = NoWork]
      /\ UNCHANGED <<resolvedAt, lastTask, opened, backfills, known, env>>
  BY TaskFacts, WorkStates DEF UpdateTask, Doing, Finish
<1>2. PICK k \in TaskId, task \in Task : k = work[r].id /\ task = work[r].task
  BY <1>1 DEF Updating
<1>3. /\ k <= lastTask /\ task.due # Nil /\ task.due \in OptTime
      /\ Stands(k) => tasks[k].issue = task.issue
  BY <1>1, <1>2 DEF WorkFits, Task
<1>4. PICK to \in Work : to = NoWork
  BY WorkStates
<1>5. WorkFits(to) /\ WorkFits(to)' /\ ~\E i \in 1 .. opened : InHand(work[r], i)
  BY <1>1, <1>4, WorkStates DEF WorkFits, InHand
<1>6. now' \in Nat /\ faults' \in Nat /\ known \subseteq known' /\ known' \subseteq Issue
  BY <1>1, TaskFacts DEF env
<1>7. CASE Stands(k)
  <2>1. /\ tasks' = [tasks EXCEPT ![k] = task] /\ wished' = [wished EXCEPT ![k] = task.due]
        /\ had' = [had EXCEPT ![k] = @ \union {task.due}]
    BY <1>2, <1>7 DEF UpdateTask
  <2>2. /\ tasks'[k] = task /\ wished'[k] = task.due /\ had'[k] = had[k] \union {task.due}
        /\ backfills'[k] = backfills[k]
    BY <1>1, <2>1, TaskFacts
  <2>3. RowFits(k)'
    BY <1>1, <1>3, <2>2, TaskFacts DEF RowFits, Stands, TaskId
  <2>4. /\ wished' \in [TaskId -> OptTime] /\ had' \in [TaskId -> SUBSET OptTime]
        /\ backfills' \in [TaskId -> Nat]
        /\ \A j \in TaskId : j # k => /\ wished'[j] = wished[j] /\ had'[j] = had[j]
                                      /\ backfills'[j] = backfills[j]
        /\ had[k] \subseteq had'[k]
    BY <1>1, <1>3, <2>1, <2>2, TaskFacts
  <2>5. /\ lastTask' = lastTask /\ lastTask <= lastTask' /\ lastTask' \in 0 .. MaxTasks
        /\ k <= lastTask' /\ ~(k > lastTask) /\ UNCHANGED <<resolvedAt, opened>>
    BY <1>1, <1>3, TaskFacts DEF TaskId
  <2> QED
    BY <1>1, <1>3, <1>4, <1>5, <1>6, <1>7, <2>1, <2>3, <2>4, <2>5, RowMoves
<1>8. CASE ~Stands(k)
  <2>1. UNCHANGED <<tasks, wished, had>>
    BY <1>2, <1>8 DEF UpdateTask
  <2> QED
    BY <1>1, <1>4, <1>5, <1>6, <2>1, WorkMoves
<1> QED
  BY <1>7, <1>8

LEMMA FillFits ==
    ASSUME TaskInv, NEW r \in Request, Doing(r, "backfill"),
           NEW item \in work[r].todo, SetDueDateIfUnset(r, item)
    PROVE  TaskInv'
<1>1. /\ work[r] \in Filling /\ WorkFits(work[r]) /\ work[r].pc = "backfill"
      /\ UNCHANGED <<resolvedAt, lastTask, opened, wished, known>>
  BY TaskFacts, WorkStates DEF SetDueDateIfUnset, Doing
<1>2. PICK k \in TaskId, due \in Nat :
         k = item.id /\ due = ComputeDueDate(item.days, work[r].resolved)
  BY <1>1, DueDateType DEF Filling, OptTime
<1>3. PICK todo \in SUBSET [id : TaskId, days : Days] : todo = work[r].todo \ {item}
  BY <1>1 DEF Filling
<1>4. due # Nil /\ due \in OptTime
  BY NilAssumption DEF OptTime
<1>5. ~\E i \in 1 .. opened : InHand(work[r], i)
  BY <1>1 DEF InHand
<1>6. ASSUME Applies(k), tasks' = [tasks EXCEPT ![k].due = due],
             backfills' = [backfills EXCEPT ![k] = @ + 1],
             had' = [had EXCEPT ![k] = @ \union {due}],
             work' = [work EXCEPT ![r].todo = todo, ![r].shown = @ \union {<<k, due>>}],
             UNCHANGED env
      PROVE  TaskInv'
  <2>1. /\ tasks[k] \in Task /\ tasks[k].due = Nil /\ Stands(k) /\ RowFits(k)
        /\ backfills[k] = 0 /\ wished[k] = Nil
    BY <1>6, TaskFacts DEF Applies, RowFits, Stands
  <2>2. PICK row \in Task : /\ tasks' = [tasks EXCEPT ![k] = row]
                            /\ row.due = due /\ row.issue = tasks[k].issue
    <3>1. PICK row : row = [tasks[k] EXCEPT !.due = due]
      OBVIOUS
    <3>2. row \in Task /\ row.due = due /\ row.issue = tasks[k].issue
      BY <1>4, <2>1, <3>1 DEF Task
    <3>3. tasks' = [tasks EXCEPT ![k] = row]
      BY <1>6, <3>1
    <3> QED
      BY <3>2, <3>3
  <2>3. PICK shown : shown = work[r].shown \union {<<k, due>>}
    OBVIOUS
  <2>4. PICK to \in Filling : /\ work' = [work EXCEPT ![r] = to]
                              /\ to.pc = "backfill" /\ to.shown = shown
    <3>1. shown \in SUBSET (TaskId \X OptTime)
      BY <1>1, <1>4, <2>3 DEF Filling
    <3>2. PICK to : to = [work[r] EXCEPT !.todo = todo, !.shown = shown]
      OBVIOUS
    <3>3. to \in Filling /\ to.pc = "backfill" /\ to.shown = shown
      BY <1>1, <3>1, <3>2 DEF Filling
    <3>4. work' = [work EXCEPT ![r] = to]
      BY <1>6, <2>3, <3>2
    <3> QED
      BY <3>3, <3>4
  <2>5. tasks'[k] = row
    BY <2>2, TaskFacts
  <2>6. /\ backfills'[k] = 1 /\ had'[k] = had[k] \union {due} /\ wished'[k] = Nil
        /\ k <= lastTask /\ lastTask' = lastTask /\ lastTask <= lastTask'
        /\ lastTask' \in 0 .. MaxTasks /\ k <= lastTask' /\ ~(k > lastTask)
        /\ had[k] \subseteq had'[k]
    BY <1>1, <1>6, <2>1, TaskFacts DEF Stands, TaskId
  <2>7. RowFits(k)'
    BY <1>4, <2>2, <2>5, <2>6 DEF RowFits, Stands, TaskId
  <2>8. had' \in [TaskId -> SUBSET OptTime] /\ backfills' \in [TaskId -> Nat]
        /\ wished' \in [TaskId -> OptTime] /\ known \subseteq known' /\ known' \subseteq Issue
        /\ now' \in Nat /\ faults' \in Nat
    BY <1>1, <1>4, <1>6, TaskFacts DEF env
  <2>9. /\ \A j \in TaskId : j # k => /\ wished'[j] = wished[j] /\ had'[j] = had[j]
                                      /\ backfills'[j] = backfills[j]
        /\ UNCHANGED <<resolvedAt, opened>>
    BY <1>1, <1>6, TaskFacts
  <2>10. WorkFits(to)'
    <3>1. ASSUME NEW s \in shown, s[2] # Nil PROVE s[2] \in had'[s[1]]
      <4>1. CASE s \in work[r].shown
        <5>1. s[2] \in had[s[1]] /\ s[1] \in TaskId
          BY <1>1, <3>1, <4>1 DEF WorkFits, Filling
        <5> QED
          BY <2>6, <2>9, <5>1
      <4>2. CASE s = <<k, due>>
        BY <2>6, <4>2
      <4> QED
        BY <2>3, <4>1, <4>2
    <3> QED
      BY <2>4, <3>1 DEF WorkFits
  <2> QED
    BY <1>5, <2>1, <2>2, <2>4, <2>6, <2>7, <2>8, <2>9, <2>10, WorkStates, RowMoves
<1>7. ASSUME work' = [work EXCEPT ![r].todo = todo, ![r].fresh = @ \union {k}],
             UNCHANGED <<tasks, backfills, had, env>>
      PROVE  TaskInv'
  <2>1. PICK to : to = [work[r] EXCEPT !.todo = todo, !.fresh = @ \union {k}]
    OBVIOUS
  <2>2. to \in Filling /\ to.pc = "backfill" /\ to.shown = work[r].shown
    BY <1>1, <2>1 DEF Filling
  <2>3. work' = [work EXCEPT ![r] = to]
    BY <1>7, <2>1
  <2>4. WorkFits(to)
    BY <1>1, <2>2 DEF WorkFits
  <2> QED
    BY <1>1, <1>5, <1>7, <2>2, <2>3, <2>4, TaskFacts, WorkStates, WorkMoves DEF env
<1>8. ASSUME work' = [work EXCEPT ![r].todo = todo, ![r].shown = @ \union {<<k, Nil>>}],
             UNCHANGED <<tasks, backfills, had>>, UNCHANGED env \/ Fail("store")
      PROVE  TaskInv'
  <2>1. PICK to : to = [work[r] EXCEPT !.todo = todo, !.shown = @ \union {<<k, Nil>>}]
    OBVIOUS
  <2>2. work[r].shown \union {<<k, Nil>>} \in SUBSET (TaskId \X OptTime)
    BY <1>1 DEF Filling, OptTime
  <2>3. to \in Filling /\ to.pc = "backfill" /\ to.shown = work[r].shown \union {<<k, Nil>>}
    BY <1>1, <2>1, <2>2 DEF Filling
  <2>4. work' = [work EXCEPT ![r] = to]
    BY <1>8, <2>1
  <2>5. WorkFits(to)
    BY <1>1, <2>3 DEF WorkFits
  <2>6. now' \in Nat /\ faults' \in Nat
    BY <1>8, TaskFacts DEF Fail, env
  <2> QED
    BY <1>1, <1>5, <1>8, <2>3, <2>4, <2>5, <2>6, TaskFacts, WorkStates, WorkMoves
<1> QED
  BY <1>2, <1>3, <1>6, <1>7, <1>8 DEF SetDueDateIfUnset

LEMMA GetTaskFits ==
    ASSUME TaskInv, NEW r \in Request, NEW k \in TaskId, GetTask(r, k)
    PROVE  TaskInv'
<1>1. /\ work[r] \in Filling /\ WorkFits(work[r]) /\ work[r].pc = "backfill"
      /\ UNCHANGED <<resolvedAt, tasks, lastTask, opened, wished, backfills, had, known, env>>
  BY TaskFacts, WorkStates DEF GetTask, Doing
<1>2. PICK due \in OptTime : /\ due = IF Stands(k) THEN tasks[k].due ELSE Nil
                             /\ due # Nil => due \in had[k]
  BY TaskFacts DEF RowFits, Task, OptTime
<1>3. PICK to \in Filling : /\ work' = [work EXCEPT ![r] = to] /\ to.pc = "backfill"
                            /\ to.shown = work[r].shown \union {<<k, due>>}
  <2>1. PICK to : to = [work[r] EXCEPT !.fresh = @ \ {k}, !.shown = @ \union {<<k, due>>}]
    OBVIOUS
  <2>2. work[r].shown \union {<<k, due>>} \in SUBSET (TaskId \X OptTime)
    BY <1>1 DEF Filling
  <2>3. to \in Filling /\ to.pc = "backfill" /\ to.shown = work[r].shown \union {<<k, due>>}
    BY <1>1, <2>1, <2>2 DEF Filling
  <2>4. work' = [work EXCEPT ![r] = to]
    BY <1>2, <2>1 DEF GetTask
  <2> QED
    BY <2>3, <2>4
<1>4. WorkFits(to)
  BY <1>1, <1>2, <1>3 DEF WorkFits
<1>5. ~\E i \in 1 .. opened : InHand(work[r], i)
  BY <1>1 DEF InHand
<1> QED
  BY <1>1, <1>3, <1>4, <1>5, TaskFacts, WorkStates, WorkMoves DEF env

LEMMA StopServerFits ==
    ASSUME TaskInv, StopServer
    PROVE  TaskInv'
<1>1. /\ UNCHANGED <<resolvedAt, tasks, lastTask, opened, wished, backfills, had>>
      /\ now' \in Nat /\ faults' \in Nat /\ work' \in [Request -> Work]
      /\ \A r \in Request : work'[r].pc = "idle"
  BY TaskFacts, WorkStates DEF StopServer, Fail
<1>2. known \subseteq known' /\ known' \subseteq Issue
  <2>1. \A r \in Request : Doing(r, "create") => work[r].task.issue \in Issue
    BY TaskFacts, WorkStates DEF Doing, Creating, Task
  <2> QED
    BY <2>1, TaskFacts DEF StopServer
<1>3. IssuesHeld'
  <2> SUFFICES ASSUME NEW i \in 1 .. opened PROVE i \in known'
    BY <1>1 DEF IssuesHeld, InHand
  <2>1. CASE i \in known
    BY <1>2, <2>1
  <2>2. CASE i \notin known
    <3>1. PICK q \in Request : InHand(work[q], i)
      BY <2>2 DEF TaskInv, IssuesHeld
    <3> QED
      BY <3>1 DEF StopServer, InHand, Doing
  <2> QED
    BY <2>1, <2>2
<1>4. \A k \in TaskId : RowFits(k)'
  BY <1>1, TaskFacts DEF RowFits, Stands
<1>5. \A r \in Request : WorkFits(work[r])'
  BY <1>1 DEF WorkFits
<1>6. LinkedOnce'
  BY <1>1 DEF TaskInv, LinkedOnce, Stands
<1> QED
  BY <1>1, <1>2, <1>3, <1>4, <1>5, <1>6, TaskFacts
     DEF TaskInv, TaskTypeInv, TaskTypeOK, EnvTypeOK

LEMMA TaskInvStep ==
    ASSUME TaskInv, [TaskNext]_<<taskVars, env>>
    PROVE  TaskInv'
<1>1. ASSUME \/ UNCHANGED <<taskVars, env>>
             \/ \E t \in Resolved : ResolveSEV(t)
      PROVE  TaskInv'
  <2>1. /\ UNCHANGED <<tasks, lastTask, opened, work, wished, backfills, had, known, env>>
        /\ resolvedAt' \in OptTime
    BY <1>1, TaskFacts, TasksAssumption DEF ResolveSEV, taskVars, OptTime
  <2>2. \A k \in TaskId : RowFits(k)'
    BY <2>1, TaskFacts DEF RowFits, Stands
  <2>3. \A r \in Request : WorkFits(work[r])'
    BY <2>1, TaskFacts DEF WorkFits, Stands
  <2>4. IssuesHeld' /\ LinkedOnce'
    BY <2>1 DEF TaskInv, IssuesHeld, InHand, LinkedOnce, Stands
  <2> QED
    BY <2>1, <2>2, <2>3, <2>4, TaskFacts
       DEF TaskInv, TaskTypeInv, TaskTypeOK, EnvTypeOK, env
<1> QED
  BY <1>1, BeginSteps, OpenIssueFits, CreateTaskFits, DeleteTaskFits, UpdateTaskFits, FillFits,
     GetTaskFits, StopServerFits DEF TaskNext

\* Every task, issue and handler keeps its type, and a row past the last id given out is empty.
THEOREM TaskTypeCorrect == TaskSpec => []TaskTypeOK
<1>1. TaskInit /\ EnvInit => TaskInv
  BY TaskInvInit
<1>2. TaskInv /\ [TaskNext]_<<taskVars, env>> => TaskInv'
  BY TaskInvStep
<1>3. TaskInv => TaskTypeOK
  BY DEF TaskInv, TaskTypeInv
<1> QED
  BY <1>1, <1>2, <1>3, PTL DEF TaskSpec

\* However many callers list at once, a task is backfilled once at most, never over a date
\* somebody asked for, and what is shown is a date the task has had.
THEOREM DueDatesCorrect == TaskSpec => []DueDatesKept
<1>1. TaskInit /\ EnvInit => TaskInv
  BY TaskInvInit
<1>2. TaskInv /\ [TaskNext]_<<taskVars, env>> => TaskInv'
  BY TaskInvStep
<1>3. TaskInv => DueDatesKept
  BY DEF TaskInv, RowFits, WorkFits, DueDatesKept, Doing
<1> QED
  BY <1>1, <1>2, <1>3, PTL DEF TaskSpec

\* No issue the handlers opened in the tracker is forgotten, and no two tasks share one.
THEOREM IssuesCorrect == TaskSpec => []IssuesAccounted
<1>1. TaskInit /\ EnvInit => TaskInv
  BY TaskInvInit
<1>2. TaskInv /\ [TaskNext]_<<taskVars, env>> => TaskInv'
  BY TaskInvStep
<1>3. TaskInv => IssuesAccounted
  BY DEF TaskInv, IssuesHeld, InHand, LinkedOnce, IssuesAccounted, Doing
<1> QED
  BY <1>1, <1>2, <1>3, PTL DEF TaskSpec

-------------------------------------------------------------------------------
(***************************************************************************)
(* BotSession: what a call that nothing has excused may rely on. The       *)
(* account stands; in its second try the cached token, any answer under    *)
(* way and its own token bear the secret in force, and so does the answer  *)
(* of the login it made for that try; and every token that is handed out   *)
(* lasts for the margin, since a login's answer comes in time.             *)
(***************************************************************************)
LoggingIn == [by : Goroutine, step : {"ask", "sign", "answer"}, since : Nat,
              answer : Session \union {Nil}]

BotCall == [pc : {"idle", "token", "send", "relogin", "failed"},
            try : {1, 2}, token : Session \union {Nil}, at : Nat]

CallFits(call) ==
    /\ call \in BotCall
    /\ call.pc = "send" => call.token \in Session /\ call.at + Margin <= call.token.exp
    /\ call.pc # "send" => call.token = Nil
    /\ call.pc = "relogin" => call.try = 1

LoginFits(l, at) ==
    /\ l \in {NoLogin} \union LoggingIn
    /\ l.since <= at
    /\ l.step \in {"ask", "sign"} => l.answer = Nil
    /\ l.step = "answer" => l.answer \in Session /\ l.since + BotTtl <= l.answer.exp

MayRely(c) ==
    /\ rpc[c].pc # "failed"
    /\ rpc[c].pc # "idle" => botActive
    /\ rpc[c].try = 2 => /\ cached # Nil /\ cached.secret = key
                         /\ login.step = "answer" => login.answer.secret = key
                         /\ rpc[c].pc = "send" => rpc[c].token.secret = key
    /\ rpc[c].pc = "relogin" /\ login.by = c /\ login.step = "answer" =>
          login.answer.secret = key

RetryInv ==
    /\ now \in Nat /\ faults \in Nat
    /\ botActive \in BOOLEAN /\ key \in Nat
    /\ cached \in Session \union {Nil}
    /\ excused \subseteq Request
    /\ LoginFits(login, now)
    /\ login.by \in Request => rpc[login.by].pc \in {"token", "relogin"}
    /\ rpc \in [Request -> BotCall]
    /\ \A c \in Request : CallFits(rpc[c])
    /\ \A c \in Request \ excused : MayRely(c)

\* A call moves on while no login begins or ends and account, secret and cache stay.
LEMMA CallKept ==
    ASSUME RetryInv, NEW c \in Request, NEW to, CallFits(to),
           rpc' = [rpc EXCEPT ![c] = to],
           login.by = c => to.pc \in {"token", "relogin"},
           excused' \ {c} = excused \ {c}, excused' \subseteq Request,
           c \in excused' \/ MayRely(c)',
           UNCHANGED <<botActive, key, cached, login, env>>
    PROVE  RetryInv'
<1>1. \A d \in Request : rpc'[d] = IF d = c THEN to ELSE rpc[d]
  BY DEF RetryInv
<1>2. rpc' \in [Request -> BotCall]
  BY DEF RetryInv, CallFits
<1>3. ASSUME NEW d \in Request, d \notin excused', d # c PROVE MayRely(d)'
  BY <1>1, <1>3 DEF RetryInv, MayRely
<1> QED
  BY <1>1, <1>2, <1>3 DEF RetryInv, env

\* A login begins, or goes a step further, and nothing else happens.
LEMMA LoginKept ==
    ASSUME RetryInv, LoginFits(login', now),
           login'.by \in Request => rpc[login'.by].pc \in {"token", "relogin"},
           login'.step = "answer" => login'.answer.secret = key,
           UNCHANGED <<botActive, key, cached, rpc, excused, env>>
    PROVE  RetryInv'
<1>1. \A c \in Request \ excused' : MayRely(c)'
  BY DEF RetryInv, MayRely
<1> QED
  BY <1>1 DEF RetryInv, env

LEMMA BeginFits ==
    ASSUME RetryInv, NEW g \in Goroutine
    PROVE  /\ LoginFits(Begin(g), now)
           /\ Begin(g).by = g /\ Begin(g).step = "ask"
BY DEF RetryInv, Begin, LoginFits, LoggingIn

LEMMA NoLoginFits ==
    RetryInv => LoginFits(NoLogin, now) /\ NoLogin.by \notin Request /\ NoLogin.step = "none"
BY EnvironmentAssumption DEF RetryInv, NoLogin, LoginFits

LEMMA StartCallRelies ==
    ASSUME RetryInv, NEW c \in Request, StartCall(c)
    PROVE  RetryInv'
<1>1. PICK to : to = [NoRpc EXCEPT !.pc = "token"]
  OBVIOUS
<1>2. CallFits(to) /\ to.pc = "token" /\ to.try = 1
  BY <1>1 DEF NoRpc, CallFits, BotCall
<1>3. rpc' = [rpc EXCEPT ![c] = to] /\ rpc'[c] = to
  BY <1>1 DEF StartCall, RetryInv
<1>4. c \in excused' \/ MayRely(c)'
  <2>1. c \in excused' \/ botActive'
    BY Zenon DEF StartCall
  <2> QED
    BY <1>2, <1>3, <2>1 DEF MayRely
<1>5. login.by # c
  BY DEF StartCall, RetryInv
<1> QED
  BY <1>2, <1>3, <1>4, <1>5, CallKept DEF StartCall, RetryInv

LEMMA GetTokenRelies ==
    ASSUME RetryInv, NEW c \in Request, GetToken(c)
    PROVE  RetryInv'
<1>1. CASE Lasts(cached)
  <2>1. PICK t : t = cached
    OBVIOUS
  <2>2. t \in Session /\ now + Margin <= t.exp /\ now \in Nat
    BY <1>1, <2>1 DEF Lasts, RetryInv
  <2>3. PICK to : to = [rpc[c] EXCEPT !.pc = "send", !.token = t, !.at = now]
    OBVIOUS
  <2>4. CallFits(to) /\ to.pc = "send" /\ to.try = rpc[c].try /\ to.token = t
    BY <2>2, <2>3 DEF RetryInv, CallFits, BotCall
  <2>5. rpc' = [rpc EXCEPT ![c] = to] /\ rpc'[c] = to
    BY <1>1, <2>1, <2>3 DEF GetToken, RetryInv
  <2>6. c \in excused' \/ MayRely(c)'
    BY <1>1, <2>1, <2>4, <2>5 DEF GetToken, MayRely, RetryInv
  <2>7. login.by # c
    BY EnvironmentAssumption DEF GetToken, Unlocked
  <2> QED
    BY <1>1, <2>4, <2>5, <2>6, <2>7, CallKept DEF GetToken, RetryInv
<1>2. CASE ~Lasts(cached)
  BY <1>2, BeginFits, LoginKept DEF GetToken, Goroutine
<1> QED
  BY <1>1, <1>2

LEMMA InvokeRelies ==
    ASSUME RetryInv, NEW c \in Request, Invoke(c)
    PROVE  RetryInv'
<1>1. /\ rpc[c] \in BotCall /\ rpc[c].token \in Session /\ now \in Nat /\ rpc[c].at \in Nat
      /\ rpc[c].at + Margin <= rpc[c].token.exp /\ rpc[c].pc = "send"
  BY DEF RetryInv, CallFits, Invoke, BotCall
<1>2. login.by # c
  BY <1>1 DEF RetryInv
<1>3. /\ UNCHANGED <<botActive, key, cached, login, env>>
      /\ excused' \ {c} = excused \ {c} /\ excused' \subseteq Request
  BY DEF Invoke, RetryInv
<1>4. CASE Accepted(rpc[c].token)
  <2>1. PICK to : to = NoRpc
    OBVIOUS
  <2>2. CallFits(to) /\ to.pc = "idle" /\ to.try = 1
    BY <2>1 DEF NoRpc, CallFits, BotCall
  <2>3. rpc' = [rpc EXCEPT ![c] = to] /\ rpc'[c] = to /\ excused' = excused \ {c}
    BY <1>4, <2>1 DEF Invoke, RetryInv
  <2>4. MayRely(c)'
    BY <2>2, <2>3 DEF MayRely
  <2> QED
    BY <1>2, <1>3, <2>2, <2>3, <2>4, CallKept
<1>5. CASE ~Accepted(rpc[c].token)
  <2>1. PICK to : to = Refused(rpc[c])
    OBVIOUS
  <2>2. /\ CallFits(to) /\ to.try = rpc[c].try
        /\ to.pc = IF to.try = 1 THEN "relogin" ELSE "failed"
    BY <1>1, <2>1, BotSessionAssumption DEF Refused, CallFits, BotCall
  <2>3. rpc' = [rpc EXCEPT ![c] = to] /\ rpc'[c] = to
    BY <1>5, <2>1 DEF Invoke, RetryInv
  <2>4. excused' \in {excused, excused \union {c}}
    BY <1>5 DEF Invoke
  <2>5. CASE to.try = 1
    <3>1. c \in excused' \/ botActive'
      BY <1>1, <2>4 DEF Invoke, RetryInv, MayRely
    <3>2. c \in excused' \/ MayRely(c)'
      BY <1>2, <2>2, <2>3, <2>5, <3>1 DEF Invoke, MayRely
    <3> QED
      BY <1>2, <1>3, <2>2, <2>3, <3>2, CallKept
  <2>6. CASE to.try = 2
    <3>1. ASSUME c \notin excused
          PROVE  c \in excused'
      <4>1. rpc[c].token.secret = key /\ botActive
        BY <1>1, <2>2, <2>6, <3>1 DEF RetryInv, MayRely
      <4>2. rpc[c].token.exp <= now
        BY <1>1, <1>5, <4>1 DEF Accepted, Session
      <4>3. now >= rpc[c].at + Margin
        BY <1>1, <4>2, BotSessionAssumption DEF Session
      <4> QED
        BY <1>5, <2>2, <2>6, <4>3 DEF Invoke
    <3>2. c \in excused'
      BY <2>4, <3>1
    <3> QED
      BY <1>2, <1>3, <2>2, <2>3, <3>2, CallKept
  <2> QED
    BY <1>1, <2>2, <2>5, <2>6 DEF BotCall
<1> QED
  BY <1>4, <1>5

LEMMA ReturnFailureRelies ==
    ASSUME RetryInv, NEW c \in Request, ReturnFailure(c)
    PROVE  RetryInv'
<1>1. PICK to : to = NoRpc
  OBVIOUS
<1>2. CallFits(to) /\ to.pc = "idle" /\ to.try = 1
  BY <1>1 DEF NoRpc, CallFits, BotCall
<1>3. rpc' = [rpc EXCEPT ![c] = to] /\ rpc'[c] = to
  BY <1>1 DEF ReturnFailure, RetryInv
<1>4. MayRely(c)'
  BY <1>2, <1>3 DEF MayRely
<1>5. login.by # c
  BY DEF ReturnFailure, RetryInv
<1> QED
  BY <1>2, <1>3, <1>4, <1>5, CallKept DEF ReturnFailure, RetryInv

LEMMA LoginGoesOn ==
    ASSUME RetryInv, LoginAsked \/ LoginSigned
    PROVE  RetryInv'
<1>1. /\ login \in LoggingIn /\ login.since <= now /\ login.answer = Nil
      /\ now \in Nat /\ key \in Nat
  BY DEF RetryInv, LoginFits, LoginAsked, LoginSigned, NoLogin
<1>2. CASE LoginAsked
  <2>1. PICK to : to = [login EXCEPT !.step = "sign"]
    OBVIOUS
  <2>2. LoginFits(to, now) /\ to.by = login.by /\ to.step = "sign"
    BY <1>1, <2>1 DEF LoginFits, LoggingIn
  <2> QED
    BY <1>2, <2>1, <2>2, LoginKept DEF LoginAsked, RetryInv
<1>3. CASE LoginSigned
  <2>1. PICK t : t = [secret |-> key, exp |-> now + BotTtl]
    OBVIOUS
  <2>2. t \in Session /\ t.secret = key /\ login.since + BotTtl <= t.exp
    BY <1>1, <2>1, BotSessionAssumption DEF Session, LoggingIn
  <2>3. PICK to : to = [login EXCEPT !.step = "answer", !.answer = t]
    OBVIOUS
  <2>4. /\ LoginFits(to, now) /\ to.by = login.by /\ to.step = "answer"
        /\ to.answer = t
    BY <1>1, <2>2, <2>3 DEF LoginFits, LoggingIn
  <2> QED
    BY <1>3, <2>1, <2>2, <2>3, <2>4, LoginKept DEF LoginSigned, RetryInv
<1> QED
  BY <1>2, <1>3

LEMMA LoginAnsweredRelies ==
    ASSUME RetryInv, LoginAnswered
    PROVE  RetryInv'
<1>1. /\ login \in LoggingIn /\ login.answer \in Session /\ login.step = "answer"
      /\ login.since + BotTtl <= login.answer.exp /\ login.since \in Nat
      /\ now \in Nat /\ now <= login.since + Timeout
  BY DEF RetryInv, LoginFits, LoginAnswered, InTime, NoLogin, LoggingIn
<1>2. PICK t \in Session : t = login.answer
  BY <1>1
<1>3. now + Margin <= t.exp /\ t # Nil
  BY <1>1, <1>2, BotSessionAssumption DEF Session
<1>4. cached' = t /\ login' = NoLogin /\ UNCHANGED <<botActive, key, excused, env>>
  BY <1>2 DEF LoginAnswered
<1>5. /\ LoginFits(NoLogin, now) /\ NoLogin.by \notin Request
      /\ NoLogin.step = "none"
  BY NoLoginFits
<1>6. ASSUME NEW c \in Request \ excused, rpc'[c] = rpc[c] PROVE MayRely(c)'
  BY <1>2, <1>3, <1>4, <1>5, <1>1, <1>6 DEF RetryInv, MayRely
<1>7. CASE login.by \notin Request
  BY <1>3, <1>4, <1>5, <1>6, <1>7 DEF LoginAnswered, RetryInv, env
<1>8. CASE login.by \in Request
  <2>1. PICK c \in Request : c = login.by
    BY <1>8
  <2>2. CallFits(rpc[c]) /\ rpc[c] \in BotCall /\ rpc[c].pc \in {"token", "relogin"}
    BY <2>1 DEF RetryInv
  <2>3. PICK to : to = IF rpc[c].pc = "token"
                       THEN [rpc[c] EXCEPT !.pc = "send", !.token = t, !.at = now]
                       ELSE [rpc[c] EXCEPT !.pc = "token", !.try = 2]
    OBVIOUS
  <2>4. rpc' = [rpc EXCEPT ![c] = to]
    <3>1. rpc \in [Request -> BotCall]
      BY DEF RetryInv
    <3>2. CASE rpc[c].pc = "token"
      BY <1>2, <2>1, <2>3, <3>1, <3>2 DEF LoginAnswered
    <3>3. CASE rpc[c].pc # "token"
      BY <1>2, <2>1, <2>3, <3>1, <3>3 DEF LoginAnswered
    <3> QED
      BY <3>2, <3>3
  <2>5. CallFits(to) /\ (IF rpc[c].pc = "token"
                         THEN to.pc = "send" /\ to.try = rpc[c].try /\ to.token = t
                         ELSE to.pc = "token" /\ to.try = 2)
    <3>1. CASE rpc[c].pc = "token"
      BY <1>1, <1>3, <2>2, <2>3, <3>1 DEF CallFits, BotCall
    <3>2. CASE rpc[c].pc # "token"
      BY <2>2, <2>3, <3>2 DEF CallFits, BotCall
    <3> QED
      BY <3>1, <3>2
  <2>6. \A d \in Request : rpc'[d] = IF d = c THEN to ELSE rpc[d]
    BY <2>4 DEF RetryInv
  <2>7. rpc' \in [Request -> BotCall]
    BY <2>4, <2>5 DEF RetryInv, CallFits
  <2>8. ASSUME c \notin excused PROVE MayRely(c)'
    <3>1. MayRely(c)
      BY <2>8 DEF RetryInv
    <3>2. rpc'[c] = to
      BY <2>6
    <3>3. CASE rpc[c].pc = "token"
      BY <1>1, <1>2, <1>3, <1>4, <1>5, <2>5, <3>1, <3>2, <3>3 DEF MayRely
    <3>4. CASE rpc[c].pc = "relogin"
      BY <1>1, <1>2, <1>3, <1>4, <1>5, <2>1, <2>5, <3>1, <3>2, <3>4 DEF MayRely
    <3> QED
      BY <2>2, <3>3, <3>4
  <2>9. \A d \in Request \ excused : MayRely(d)'
    BY <1>6, <2>6, <2>8
  <2> QED
    BY <1>4, <1>5, <2>5, <2>6, <2>7, <2>9 DEF RetryInv, env
<1> QED
  BY <1>7, <1>8

LEMMA LoginFailedRelies ==
    ASSUME RetryInv, LoginFailed
    PROVE  RetryInv'
<1>1. /\ login' = NoLogin /\ UNCHANGED <<botActive, key, cached>>
      /\ now' = now /\ faults' \in Nat /\ now \in Nat
  BY DEF LoginFailed, AfterFailure, Fail, RetryInv, env
<1>2. /\ LoginFits(NoLogin, now) /\ NoLogin.by \notin Request
      /\ NoLogin.step = "none"
  BY NoLoginFits
<1>3. ASSUME NEW c \in Request \ excused, rpc'[c] = rpc[c] PROVE MayRely(c)'
  BY <1>1, <1>2, <1>3 DEF RetryInv, MayRely
<1>4. CASE login.by \notin Request
  BY <1>1, <1>2, <1>3, <1>4 DEF LoginFailed, AfterFailure, RetryInv
<1>5. CASE login.by \in Request
  <2>1. PICK c \in Request : c = login.by
    BY <1>5
  <2>2. CallFits(rpc[c]) /\ rpc[c] \in BotCall /\ rpc[c].pc \in {"token", "relogin"}
    BY <2>1 DEF RetryInv
  <2>3. PICK to : to = IF rpc[c].pc = "token" THEN Refused(rpc[c])
                       ELSE [rpc[c] EXCEPT !.pc = "failed"]
    OBVIOUS
  <2>4. rpc' = [rpc EXCEPT ![c] = to] /\ excused' = excused \union {c}
    <3>1. CASE rpc[c].pc = "token"
      BY <2>1, <2>3, <3>1 DEF LoginFailed, AfterFailure
    <3>2. CASE rpc[c].pc # "token"
      BY <2>1, <2>3, <3>2 DEF LoginFailed, AfterFailure
    <3> QED
      BY <3>1, <3>2
  <2>5. CallFits(to)
    BY <2>2, <2>3, BotSessionAssumption DEF CallFits, BotCall, Refused
  <2>6. \A d \in Request : rpc'[d] = IF d = c THEN to ELSE rpc[d]
    BY <2>4 DEF RetryInv
  <2>7. rpc' \in [Request -> BotCall]
    BY <2>4, <2>5 DEF RetryInv, CallFits
  <2>8. \A d \in Request \ excused' : MayRely(d)'
    BY <1>3, <2>4, <2>6
  <2> QED
    BY <1>1, <1>2, <2>4, <2>5, <2>6, <2>7, <2>8 DEF RetryInv
<1> QED
  BY <1>4, <1>5

LEMMA RotateSecretRelies ==
    ASSUME RetryInv, RotateSecret
    PROVE  RetryInv'
<1>1. excused' = excused \union PastMending /\ PastMending \subseteq Request
  BY DEF RotateSecret, PastMending
<1>2. ASSUME NEW c \in Request \ excused' PROVE MayRely(c)'
  BY <1>1, <1>2 DEF RotateSecret, PastMending, RetryInv, MayRely, CallFits, BotCall
<1> QED
  BY <1>1, <1>2 DEF RotateSecret, RetryInv, env

LEMMA SetBotActiveRelies ==
    ASSUME RetryInv, NEW active \in BOOLEAN, SetBotActive(active)
    PROVE  RetryInv'
<1>1. \A c \in Request \ excused' : MayRely(c)'
  BY DEF SetBotActive, RetryInv, MayRely
<1> QED
  BY <1>1 DEF SetBotActive, RetryInv, env

LEMMA RestartBotRelies ==
    ASSUME RetryInv, RestartBot
    PROVE  RetryInv'
<1>1. CallFits(NoRpc) /\ NoRpc \in BotCall /\ NoRpc.pc = "idle" /\ NoRpc.try = 1
  BY DEF NoRpc, CallFits, BotCall
<1>2. \A c \in Request : rpc'[c] = NoRpc
  BY DEF RestartBot
<1>3. \A c \in Request \ excused' : MayRely(c)'
  BY <1>1, <1>2 DEF MayRely
<1>4. rpc' \in [Request -> BotCall] /\ \A c \in Request : CallFits(rpc[c])'
  BY <1>1, <1>2 DEF RestartBot
<1>5. /\ LoginFits(NoLogin, now) /\ NoLogin.by \notin Request
  BY NoLoginFits
<1>6. now' = now /\ faults' \in Nat
  BY DEF RestartBot, Fail, RetryInv
<1> QED
  BY <1>3, <1>4, <1>5, <1>6 DEF RestartBot, RetryInv

LEMMA BotTickRelies ==
    ASSUME RetryInv, BotTick \/ UNCHANGED <<botVars, env>>
    PROVE  RetryInv'
<1>1. now' \in Nat /\ faults' \in Nat /\ now <= now' /\ UNCHANGED botVars
  BY DEF BotTick, Tick, env, RetryInv
<1>2. LoginFits(login', now')
  BY <1>1 DEF RetryInv, LoginFits, botVars, LoggingIn, NoLogin
<1>3. \A c \in Request \ excused' : MayRely(c)'
  BY <1>1 DEF botVars, RetryInv, MayRely
<1> QED
  BY <1>1, <1>2, <1>3 DEF botVars, RetryInv

LEMMA RetryStep ==
    ASSUME RetryInv, [BotNext]_<<botVars, env>>
    PROVE  RetryInv'
<1>1. ASSUME NEW c \in Request, ForceLogin(c) PROVE RetryInv'
  BY <1>1, BeginFits, LoginKept DEF ForceLogin, Goroutine
<1>2. ASSUME RefreshToken PROVE RetryInv'
  BY <1>2, BeginFits, LoginKept, BotSessionAssumption DEF RefreshToken, Goroutine
<1> QED
  BY <1>1, <1>2, StartCallRelies, GetTokenRelies, InvokeRelies, ReturnFailureRelies,
     LoginGoesOn, LoginAnsweredRelies, LoginFailedRelies, RotateSecretRelies,
     SetBotActiveRelies, RestartBotRelies, BotTickRelies DEF BotNext, LoginStep

LEMMA RetryInit == BotInit /\ EnvInit => RetryInv
<1> SUFFICES ASSUME BotInit, EnvInit PROVE RetryInv
  OBVIOUS
<1>1. CallFits(NoRpc) /\ NoRpc \in BotCall /\ NoRpc.pc = "idle" /\ NoRpc.try = 1
  BY DEF NoRpc, CallFits, BotCall
<1>2. LoginFits(NoLogin, 0) /\ NoLogin.by \notin Request
  BY EnvironmentAssumption DEF NoLogin, LoginFits
<1> QED
  BY <1>1, <1>2 DEF BotInit, EnvInit, RetryInv, MayRely

LEMMA RetryTypes == RetryInv => BotTypeOK
<1> SUFFICES ASSUME RetryInv PROVE BotTypeOK
  OBVIOUS
<1>1. rpc \in [Request -> BotCall] /\ \A c \in Request : CallFits(rpc[c])
  BY DEF RetryInv
<1>2. \/ login = NoLogin
      \/ /\ login.by \in Goroutine
         /\ login.since \in Nat
         /\ \/ login.step \in {"ask", "sign"} /\ login.answer = Nil
            \/ login.step = "answer" /\ login.answer \in Session
  BY DEF RetryInv, LoginFits, LoggingIn
<1>3. \A c \in Request : rpc[c].pc = "send" <=> rpc[c].token # Nil
  BY <1>1, BotSessionAssumption DEF CallFits
<1> QED
  BY <1>1, <1>2, <1>3 DEF RetryInv, BotTypeOK, CallFits, BotCall

\* Token, lock, logins and calls keep their types, and the lock is held by who logs in.
THEOREM BotTypeCorrect == BotSpec => []BotTypeOK
<1>1. BotInit /\ EnvInit => RetryInv
  BY RetryInit
<1>2. RetryInv /\ [BotNext]_<<botVars, env>> => RetryInv'
  BY RetryStep
<1>3. RetryInv => BotTypeOK
  BY RetryTypes
<1> QED
  BY <1>1, <1>2, <1>3, PTL DEF BotSpec

\* One retry after a forced login is enough, for any number of calls at once, whoever logs
\* in between and however the secret is changed, but for the four causes the property names.
THEOREM RetryCorrect == BotSpec => []RetrySuffices
<1>1. BotInit /\ EnvInit => RetryInv
  BY RetryInit
<1>2. RetryInv /\ [BotNext]_<<botVars, env>> => RetryInv'
  BY RetryStep
<1>3. RetryInv => RetrySuffices
  BY DEF RetryInv, MayRely, RetrySuffices
<1> QED
  BY <1>1, <1>2, <1>3, PTL DEF BotSpec

-------------------------------------------------------------------------------
(***************************************************************************)
(* SlaRisk: what is told and what is marked. A level that the marker does  *)
(* not cover was told no more often than its marker failed to be stored,   *)
(* and a scan about to store one may have told it once more. The marker    *)
(* only rises, since nothing but the one scan changes it: what a scan      *)
(* copied of it still is so when it decides. A scan nothing happened under *)
(* has found the row and the services there are.                           *)
(***************************************************************************)
SlaScanning == [pc : {"listed", "decide", "mark", "done"}, row : Row,
                services : SUBSET Service, already : OptLevel,
                at : Nat, level : OptLevel, still : BOOLEAN]

\* No notification of level l is due any more.
Covered(l) == IF l = "breached" THEN marker = "breached" ELSE marker # Nil

\* The scan has told l and is to store the marker.
ToMark(l) == slaScan.pc = "mark" /\ slaScan.level = l

ToldOf(l) ==
    /\ told[l] <= unmarked[l] + (IF Covered(l) \/ ToMark(l) THEN 1 ELSE 0)
    /\ ToMark(l) => told[l] > 0 /\ ~Covered(l)
    /\ marker = l => told[l] > 0

ScanSees ==
    /\ sevRow # Nil
    /\ slaScan.pc # "done" => slaScan.already = marker
    /\ slaScan.still /\ slaScan.pc = "listed" =>
          slaScan.row = sevRow /\ slaScan.services = attached
    /\ slaScan.still /\ slaScan.pc \in {"decide", "mark"} /\ Missed =>
          slaScan.level = "breached"
    /\ slaScan.still /\ slaScan.pc = "done" /\ Missed =>
          marker = "breached" \/ unmarked["breached"] > 0

SlaInv ==
    /\ EnvTypeOK /\ SlaTypeOK
    /\ \A l \in Level : ToldOf(l)
    /\ slaScan # NoSlaScan => ScanSees

\* A set of natural numbers has a least one.
LEMMA LeastTarget ==
    ASSUME NEW S \in SUBSET Nat, S # {}
    PROVE  \E t \in S : \A u \in S : t <= u
<1>1. PICK t \in S : \A u \in S : ~(<<u, t>> \in OpToRel(<, Nat))
  BY WFMin, NatLessThanWellFounded, Zenon
<1>2. ASSUME NEW u \in S, u < t PROVE <<u, t>> \in OpToRel(<, Nat)
  BY <1>2, Zenon DEF OpToRel
<1>3. \A u \in S : ~(u < t)
  BY <1>1, <1>2
<1>4. t \in Nat /\ \A u \in S : u \in Nat
  OBVIOUS
<1> QED
  BY <1>3, <1>4

\* MostStrictSLA: no row's target for the metric is below it.
LEMMA MostStrictLeast ==
    ASSUME NEW rows \in SUBSET [Metric -> OptTime], NEW m \in Metric,
           NEW r \in rows, r[m] # Nil
    PROVE  MostStrict(rows, m) \in Nat /\ MostStrict(rows, m) <= r[m]
<1> DEFINE given == {q[m] : q \in rows} \ {Nil}
<1>1. given \subseteq Nat /\ r[m] \in given
  BY DEF OptTime
<1>2. MostStrict(rows, m) = CHOOSE t \in given : \A u \in given : t <= u
  BY <1>1 DEF MostStrict
<1> HIDE DEF given
<1>3. \E t \in given : \A u \in given : t <= u
  BY <1>1, LeastTarget
<1>4. /\ MostStrict(rows, m) \in given
      /\ \A u \in given : MostStrict(rows, m) <= u
  BY <1>2, <1>3
<1> QED
  BY <1>1, <1>4

LEMMA OverallType ==
    ASSUME NEW row, NEW rows, NEW at
    PROVE  Overall(row, rows, at) \in OptLevel
BY DEF Overall, OptLevel, Level

\* EvaluateSLA: a SEV over any one target of any one service is breached.
LEMMA OverallBreached ==
    ASSUME NEW row \in Row, NEW rows \in SUBSET [Metric -> OptTime], NEW at,
           NEW m \in Metric, NEW r \in rows, r[m] # Nil, row[m] # Nil, row[m] > r[m]
    PROVE  Overall(row, rows, at) = "breached"
<1>1. PICK t : t = MostStrict(rows, m)
  OBVIOUS
<1>2. t \in Nat /\ t <= r[m]
  BY <1>1, MostStrictLeast
<1>3. row[m] \in Int /\ r[m] \in Nat /\ t # Nil
  BY <1>2, NilAssumption DEF Row, OptMetric, OptTime, Metric
<1>4. row[m] > t
  BY <1>2, <1>3
<1>5. EvalMetric(row, m, t, at) = "breached"
  BY <1>3, <1>4 DEF EvalMetric
<1>6. "breached" \in {EvalMetric(row, k, MostStrict(rows, k), at) : k \in Metric}
  BY <1>1, <1>5
<1> QED
  BY <1>6 DEF Overall

LEMMA SlaScans ==
    /\ \A sc \in SlaScanning : sc # NoSlaScan /\ sc.pc # "idle"
    /\ NoSlaScan.pc = "idle"
BY DEF SlaScanning, NoSlaScan

LEMMA SlaTypes ==
    SlaInv => slaScan \in {NoSlaScan} \union SlaScanning
BY DEF SlaInv, SlaTypeOK, SlaScanning

\* A handler changes the SEV or its targets under the scan.
LEMMA DisturbedKeeps ==
    ASSUME SlaInv, slaScan' = Disturbed(slaScan),
           sevRow' \in Row \union {Nil}, sevRow # Nil => sevRow' # Nil, attached' \subseteq Service,
           targets' \in [Service -> [Metric -> OptTime] \union {Nil}],
           UNCHANGED <<marker, told, unmarked, env>>
    PROVE  SlaInv'
<1>1. CASE slaScan = NoSlaScan
  BY <1>1, SlaScans DEF SlaInv, SlaTypeOK, EnvTypeOK, env, Disturbed, ToldOf, ToMark, Covered
<1>2. CASE slaScan # NoSlaScan
  <2>1. slaScan \in SlaScanning
    BY <1>2, SlaTypes
  <2>2. PICK to : to = [slaScan EXCEPT !.still = FALSE]
    OBVIOUS
  <2>3. /\ to \in SlaScanning /\ to.still = FALSE /\ to.pc = slaScan.pc
        /\ to.level = slaScan.level /\ to.already = slaScan.already
    BY <2>1, <2>2 DEF SlaScanning
  <2>4. slaScan' = to
    BY <1>2, <2>2 DEF Disturbed
  <2>5. ScanSees'
    BY <1>2, <2>3, <2>4 DEF SlaInv, ScanSees
  <2>6. SlaTypeOK' /\ EnvTypeOK'
    BY <2>3, <2>4 DEF SlaInv, SlaTypeOK, EnvTypeOK, env, SlaScanning
  <2>7. \A l \in Level : ToldOf(l)'
    BY <2>3, <2>4 DEF SlaInv, ToldOf, ToMark, Covered
  <2> QED
    BY <2>5, <2>6, <2>7 DEF SlaInv
<1> QED
  BY <1>1, <1>2

LEMMA OpenSEVTold ==
    ASSUME SlaInv, NEW draft \in Drafts, NEW affected \in SUBSET Service,
           OpenSEV(draft, affected)
    PROVE  SlaInv'
<1>1. PICK row : row = NewSEV(draft)
  OBVIOUS
<1>2. row \in Row
  BY <1>1, NewSEVType, SlaRiskAssumption
<1>3. slaScan = NoSlaScan
  BY DEF OpenSEV, SlaInv, ScanSees
<1> QED
  BY <1>1, <1>2, <1>3, SlaScans
     DEF OpenSEV, SlaInv, SlaTypeOK, EnvTypeOK, env, ToldOf, ToMark, Covered

LEMMA SlaHandlersTold ==
    ASSUME SlaInv,
           \/ \E patch \in Patches, affected \in SUBSET Service : AmendSEV(patch, affected)
           \/ \E to \in Moves, stamp \in Stamps : MoveSEV(to, stamp)
           \/ \E v \in Service, choice \in TargetChoices \union {Nil} : SetServiceSLA(v, choice)
    PROVE  SlaInv'
<1>0. /\ sevRow \in Row \union {Nil} /\ now \in Nat
      /\ targets \in [Service -> [Metric -> OptTime] \union {Nil}]
  BY DEF SlaInv, SlaTypeOK, EnvTypeOK
<1>1. ASSUME NEW patch \in Patches, NEW affected \in SUBSET Service, AmendSEV(patch, affected)
      PROVE  SlaInv'
  <2>1. PICK row \in Row : row = sevRow
    BY <1>0, <1>1 DEF AmendSEV
  <2>2. PICK next : next = ApplySEVUpdate(row, patch)
    OBVIOUS
  <2>3. next \in Row
    BY <2>2, UpdateType, SlaRiskAssumption
  <2>4. ComputeMetrics(next) \in Row
    BY <2>3, ComputeMetricsType
  <2>5. sevRow' \in Row
    BY <1>1, <2>1, <2>2, <2>4 DEF AmendSEV
  <2> QED
    BY <1>0, <1>1, <2>5, DisturbedKeeps, NilAssumption DEF AmendSEV
<1>2. ASSUME NEW to \in Moves, NEW stamp \in Stamps, MoveSEV(to, stamp) PROVE SlaInv'
  <2>1. PICK row \in Row : row = sevRow
    BY <1>0, <1>2 DEF MoveSEV
  <2>2. PICK at \in Nat : at = now
    BY <1>0
  <2>3. PICK next : next = ApplyTransition(row, to, stamp, at)
    OBVIOUS
  <2>4. next \in Row
    BY <2>3, TransitionType, SlaRiskAssumption
  <2>5. ComputeMetrics(next) \in Row
    BY <2>4, ComputeMetricsType
  <2>6. sevRow' \in Row
    BY <1>2, <2>1, <2>2, <2>3, <2>5 DEF MoveSEV
  <2>7. attached' \subseteq Service
    BY <1>2 DEF MoveSEV, SlaInv, SlaTypeOK
  <2> QED
    BY <1>0, <1>2, <2>6, <2>7, DisturbedKeeps, NilAssumption DEF MoveSEV
<1>3. ASSUME NEW v \in Service, NEW choice \in TargetChoices \union {Nil},
             SetServiceSLA(v, choice)
      PROVE  SlaInv'
  <2>1. targets' \in [Service -> [Metric -> OptTime] \union {Nil}]
    BY <1>0, <1>3, SlaRiskAssumption DEF SetServiceSLA
  <2> QED
    BY <1>0, <1>3, <2>1, DisturbedKeeps DEF SetServiceSLA, SlaInv, SlaTypeOK
<1> QED
  BY <1>1, <1>2, <1>3

\* Between its calls the scan moves on; row, services, targets and marker are as they were.
LEMMA ScanMoves ==
    ASSUME SlaInv, NEW to \in SlaScanning, slaScan \in SlaScanning, slaScan' = to,
           slaScan.pc # "mark", to.pc \in {"decide", "done"},
           slaScan.pc = "done" => to.pc = "done",
           to.pc = "decide" => to.already = marker,
           to.still /\ Missed =>
              \/ to.pc = "decide" /\ to.level = "breached"
              \/ to.pc = "done" /\ (marker = "breached" \/ unmarked["breached"] > 0),
           UNCHANGED <<sevRow, attached, targets, marker, told, unmarked, now>>,
           faults' \in Nat
    PROVE  SlaInv'
<1>1. SlaTypeOK' /\ EnvTypeOK'
  BY DEF SlaInv, SlaTypeOK, EnvTypeOK, SlaScanning
<1>2. \A l \in Level : ToldOf(l)'
  BY DEF SlaInv, ToldOf, ToMark, Covered
<1>3. Missed' <=> Missed
  BY DEF Missed
<1>4. ScanSees'
  BY <1>3, SlaScans DEF SlaInv, ScanSees
<1> QED
  BY <1>1, <1>2, <1>4 DEF SlaInv

\* The scan is over, or there was none.
LEMMA NoScanKeeps ==
    ASSUME SlaInv, slaScan' = NoSlaScan, \A l \in Level : ~ToMark(l),
           UNCHANGED <<sevRow, attached, targets, marker, told, unmarked, now>>,
           faults' \in Nat
    PROVE  SlaInv'
BY SlaScans DEF SlaInv, SlaTypeOK, EnvTypeOK, ToldOf, ToMark, Covered

LEMMA ListCandidatesTold ==
    ASSUME SlaInv, ListCandidates
    PROVE  SlaInv'
<1>1. PICK to : to = [pc |-> "listed", row |-> sevRow, services |-> attached,
                      already |-> marker, at |-> now, level |-> Nil, still |-> TRUE]
  OBVIOUS
<1>2. /\ slaScan' = to /\ to.pc = "listed" /\ to.row = sevRow /\ to.services = attached
      /\ to.already = marker
  BY <1>1 DEF ListCandidates
<1>3. to \in SlaScanning
  BY <1>1 DEF ListCandidates, SlaInv, SlaTypeOK, EnvTypeOK, SlaScanning, OptLevel
<1>4. SlaTypeOK' /\ EnvTypeOK'
  BY <1>2, <1>3 DEF ListCandidates, SlaInv, SlaTypeOK, EnvTypeOK, env, SlaScanning
<1>5. \A l \in Level : ToldOf(l)'
  BY <1>2, SlaScans DEF ListCandidates, SlaInv, ToldOf, ToMark, Covered
<1>6. ScanSees'
  BY <1>2 DEF ListCandidates, ScanSees
<1> QED
  BY <1>4, <1>5, <1>6 DEF SlaInv

LEMMA ListForServicesTold ==
    ASSUME SlaInv, ListForServices
    PROVE  SlaInv'
<1>0. /\ slaScan \in SlaScanning /\ slaScan.pc = "listed" /\ ScanSees
      /\ targets \in [Service -> [Metric -> OptTime] \union {Nil}] /\ attached \subseteq Service
      /\ faults' \in Nat /\ UNCHANGED <<sevRow, attached, targets, marker, told, unmarked, now>>
  BY SlaScans, SlaTypes DEF SlaInv, SlaTypeOK, EnvTypeOK, ListForServices, Fail, env
<1>1. CASE slaScan' = NoSlaScan
  BY <1>0, <1>1, NoScanKeeps DEF ToMark
<1>2. CASE slaScan' # NoSlaScan
  <2>1. PICK rows : rows = {targets[v] : v \in slaScan.services} \ {Nil}
    OBVIOUS
  <2>2. PICK level : level = Overall(slaScan.row, rows, slaScan.at)
    OBVIOUS
  <2>3. PICK to : to = [slaScan EXCEPT !.pc = "decide", !.level = level]
    OBVIOUS
  <2>4. slaScan' = to
    BY <1>2, <2>1, <2>2, <2>3 DEF ListForServices
  <2>5. level \in OptLevel
    BY <2>2, OverallType
  <2>6. /\ to \in SlaScanning /\ to.pc = "decide" /\ to.level = level
        /\ to.already = slaScan.already /\ to.still = slaScan.still
    BY <1>0, <2>3, <2>5 DEF SlaScanning
  <2>7. ASSUME to.still, Missed PROVE level = "breached"
    <3>1. slaScan.row = sevRow /\ slaScan.services = attached /\ sevRow \in Row
      BY <1>0, <2>6, <2>7 DEF ScanSees, SlaScanning
    <3>2. PICK v \in attached, m \in Metric :
             /\ targets[v] # Nil /\ targets[v][m] # Nil /\ sevRow[m] # Nil
             /\ sevRow[m] > targets[v][m]
      BY <2>7 DEF Missed
    <3>3. PICK r : r = targets[v]
      OBVIOUS
    <3>4. rows \in SUBSET [Metric -> OptTime] /\ r \in rows
      BY <1>0, <2>1, <3>1, <3>2, <3>3
    <3>5. PICK row \in Row : row = sevRow
      BY <3>1
    <3>6. Overall(row, rows, slaScan.at) = "breached"
      BY <3>2, <3>3, <3>4, <3>5, OverallBreached
    <3> QED
      BY <2>2, <3>1, <3>5, <3>6
  <2>8. to.already = marker
    BY <1>0, <2>6 DEF ScanSees
  <2> QED
    BY <1>0, <2>4, <2>6, <2>7, <2>8, ScanMoves
<1> QED
  BY <1>1, <1>2

LEMMA NotifyTold ==
    ASSUME SlaInv, NotifySlaStatus
    PROVE  SlaInv'
<1>0. /\ slaScan \in SlaScanning /\ slaScan.pc = "decide" /\ ScanSees
      /\ slaScan.level \in OptLevel /\ slaScan.already = marker
      /\ marker \in OptLevel
      /\ UNCHANGED <<sevRow, attached, targets, marker, unmarked, now, faults>>
      /\ now \in Nat /\ faults \in Nat
  BY SlaScans, SlaTypes
     DEF SlaInv, SlaTypeOK, EnvTypeOK, NotifySlaStatus, ScanSees, env, SlaScanning
<1>1. CASE DueLevel(slaScan.level, slaScan.already)
  <2>1. PICK level \in Level : level = slaScan.level
    BY <1>1 DEF DueLevel, Level
  <2>2. ~Covered(level) /\ \A l \in Level : ~ToMark(l)
    BY <1>0, <1>1, <2>1, NilAssumption DEF DueLevel, Covered, ToMark
  <2>3. PICK to : to = [slaScan EXCEPT !.pc = "mark"]
    OBVIOUS
  <2>4. /\ slaScan' = to /\ to \in SlaScanning /\ to.pc = "mark" /\ to.level = level
        /\ to.already = slaScan.already /\ to.still = slaScan.still
    BY <1>0, <1>1, <2>1, <2>3 DEF NotifySlaStatus, SlaScanning
  <2>5. /\ told' = [told EXCEPT ![level] = told[level] + 1]
        /\ told \in [Level -> Nat] /\ unmarked \in [Level -> Nat]
    BY <1>1, <2>1 DEF NotifySlaStatus, SlaInv, SlaTypeOK
  <2>6. \A l \in Level : /\ ToMark(l)' <=> l = level
                         /\ Covered(l)' <=> Covered(l)
                         /\ told'[l] = IF l = level THEN told[l] + 1 ELSE told[l]
                         /\ told[l] \in Nat /\ unmarked[l] \in Nat
    BY <1>0, <2>4, <2>5 DEF ToMark, Covered
  <2>7. \A l \in Level : ToldOf(l)'
    BY <1>0, <2>2, <2>6 DEF SlaInv, ToldOf
  <2>8. SlaTypeOK' /\ EnvTypeOK'
    <3>1. level # Nil
      BY SlaRiskAssumption
    <3>2. told' \in [Level -> Nat]
      BY <2>5
    <3> QED
      BY <1>0, <2>4, <3>1, <3>2 DEF SlaInv, SlaTypeOK, EnvTypeOK, SlaScanning
  <2>9. Missed' <=> Missed
    BY <1>0 DEF Missed
  <2>10. ScanSees'
    BY <1>0, <2>1, <2>4, <2>9 DEF ScanSees
  <2> QED
    BY <2>7, <2>8, <2>10 DEF SlaInv
<1>2. CASE ~DueLevel(slaScan.level, slaScan.already)
  <2>1. PICK to : to = [slaScan EXCEPT !.pc = "done"]
    OBVIOUS
  <2>2. slaScan' = to /\ to \in SlaScanning /\ to.pc = "done" /\ to.still = slaScan.still
    BY <1>0, <1>2, <2>1 DEF NotifySlaStatus, SlaScanning
  <2>3. to.still /\ Missed => marker = "breached"
    BY <1>0, <1>2, <2>2 DEF ScanSees, DueLevel
  <2> QED
    BY <1>0, <1>2, <2>2, <2>3, ScanMoves DEF NotifySlaStatus
<1> QED
  BY <1>1, <1>2

\* The marker of a level that was told is stored, or it is not.
LEMMA UpdateMarkerTold ==
    ASSUME SlaInv, UpdateSLANotifiedStatus
    PROVE  SlaInv'
<1>0. /\ slaScan \in SlaScanning /\ slaScan.pc = "mark" /\ ScanSees
      /\ slaScan.level \in Level /\ slaScan.already = marker
      /\ marker \in OptLevel /\ unmarked \in [Level -> Nat] /\ told \in [Level -> Nat]
      /\ UNCHANGED <<sevRow, attached, targets, told, now>>
      /\ now \in Nat /\ faults' \in Nat
  BY SlaScans, SlaTypes
     DEF SlaInv, SlaTypeOK, EnvTypeOK, UpdateSLANotifiedStatus, ScanSees, env, Fail,
         SlaScanning, OptLevel
<1>1. PICK level \in Level : level = slaScan.level
  BY <1>0
<1>2. told[level] > 0 /\ ~Covered(level) /\ \A l \in Level : ToMark(l) <=> l = level
  BY <1>0, <1>1 DEF SlaInv, ToldOf, ToMark
<1>3. PICK to : to = [slaScan EXCEPT !.pc = "done"]
  OBVIOUS
<1>4. slaScan' = to /\ to \in SlaScanning /\ to.pc = "done" /\ to.still = slaScan.still
  BY <1>0, <1>3 DEF UpdateSLANotifiedStatus, SlaScanning
<1>5. \A l \in Level : ~ToMark(l)'
  BY <1>4 DEF ToMark
<1>6. Missed' <=> Missed
  BY <1>0 DEF Missed
<1>7. CASE marker' = level /\ unmarked' = unmarked
  <2>1. SlaTypeOK' /\ EnvTypeOK'
    BY <1>0, <1>4, <1>7 DEF SlaInv, SlaTypeOK, EnvTypeOK, SlaScanning, OptLevel
  <2>2. \A l \in Level : l # level /\ Covered(l) => Covered(l)'
    BY <1>0, <1>2, <1>7, SlaRiskAssumption DEF Covered, Level, OptLevel
  <2>3. Covered(level)'
    BY <1>7, SlaRiskAssumption DEF Covered, Level
  <2>4. \A l \in Level : ToldOf(l)'
    BY <1>0, <1>2, <1>5, <1>7, <2>2, <2>3 DEF SlaInv, ToldOf
  <2>5. ScanSees'
    BY <1>0, <1>1, <1>4, <1>6, <1>7 DEF ScanSees
  <2> QED
    BY <2>1, <2>4, <2>5 DEF SlaInv
<1>8. CASE marker' = marker /\ unmarked' = [unmarked EXCEPT ![level] = unmarked[level] + 1]
  <2>1. SlaTypeOK' /\ EnvTypeOK'
    BY <1>0, <1>4, <1>8 DEF SlaInv, SlaTypeOK, EnvTypeOK, SlaScanning
  <2>2. \A l \in Level : /\ unmarked'[l] = IF l = level THEN unmarked[l] + 1 ELSE unmarked[l]
                         /\ told[l] \in Nat /\ unmarked[l] \in Nat
                         /\ Covered(l)' <=> Covered(l)
    BY <1>0, <1>8 DEF Covered
  <2>3. \A l \in Level : ToldOf(l)'
    BY <1>0, <1>2, <1>5, <1>8, <2>2 DEF SlaInv, ToldOf
  <2>4. ScanSees'
    <3>1. level = "breached" => unmarked'["breached"] > 0
      BY <2>2
    <3> QED
      BY <1>0, <1>1, <1>4, <1>6, <3>1 DEF ScanSees
  <2> QED
    BY <2>1, <2>3, <2>4 DEF SlaInv
<1> QED
  BY <1>1, <1>7, <1>8 DEF UpdateSLANotifiedStatus

LEMMA StopScannerTold ==
    ASSUME SlaInv, StopScanner
    PROVE  SlaInv'
<1>0. /\ slaScan' = NoSlaScan
      /\ UNCHANGED <<sevRow, attached, targets, marker, told, now>>
      /\ now \in Nat /\ faults' \in Nat
  BY DEF StopScanner, Fail, SlaInv, EnvTypeOK
<1>1. CASE slaScan.pc = "mark"
  <2>1. PICK level \in Level : level = slaScan.level
    <3>1. slaScan \in SlaScanning /\ slaScan.level # Nil
      BY <1>1, SlaScans, SlaTypes DEF SlaInv, SlaTypeOK
    <3> QED
      BY <3>1 DEF SlaScanning, OptLevel
  <2>2. \A l \in Level : ToMark(l) <=> l = level
    BY <1>1, <2>1 DEF ToMark
  <2>3. unmarked' = [unmarked EXCEPT ![level] = unmarked[level] + 1]
    BY <1>1, <2>1 DEF StopScanner
  <2>4. unmarked \in [Level -> Nat] /\ told \in [Level -> Nat]
    BY DEF SlaInv, SlaTypeOK
  <2>5. \A l \in Level : /\ unmarked'[l] = IF l = level THEN unmarked[l] + 1 ELSE unmarked[l]
                         /\ told[l] \in Nat /\ unmarked[l] \in Nat
                         /\ Covered(l)' <=> Covered(l)
                         /\ ~ToMark(l)'
    BY <1>0, <2>3, <2>4, SlaScans DEF Covered, ToMark
  <2>6. \A l \in Level : ToldOf(l)'
    BY <1>0, <2>2, <2>5 DEF SlaInv, ToldOf
  <2>7. unmarked' \in [Level -> Nat] /\ slaScan'.pc # "mark"
    BY <1>0, <2>3, <2>4, SlaScans
  <2>8. SlaTypeOK' /\ EnvTypeOK'
    BY <1>0, <2>7 DEF SlaInv, SlaTypeOK, EnvTypeOK
  <2> QED
    BY <1>0, <2>6, <2>8 DEF SlaInv
<1>2. CASE slaScan.pc # "mark"
  BY <1>0, <1>2, NoScanKeeps DEF StopScanner, ToMark
<1> QED
  BY <1>1, <1>2

LEMMA SlaInvStep ==
    ASSUME SlaInv, [SlaNext]_<<slaVars, env>>
    PROVE  SlaInv'
<1>1. ASSUME EndScan PROVE SlaInv'
  BY <1>1, NoScanKeeps DEF EndScan, ToMark, SlaInv, EnvTypeOK, env
<1>2. ASSUME SlaTick \/ UNCHANGED <<slaVars, env>> PROVE SlaInv'
  <2>1. UNCHANGED slaVars /\ now' \in Nat /\ faults' \in Nat
    BY <1>2 DEF SlaTick, Tick, env, SlaInv, EnvTypeOK
  <2> QED
    BY <2>1 DEF slaVars, SlaInv, SlaTypeOK, EnvTypeOK, ToldOf, ToMark, Covered, ScanSees, Missed
<1> QED
  BY <1>1, <1>2, OpenSEVTold, SlaHandlersTold, ListCandidatesTold, ListForServicesTold,
     NotifyTold, UpdateMarkerTold, StopScannerTold DEF SlaNext

LEMMA SlaInvInit == SlaInit /\ EnvInit => SlaInv
BY SlaScans, SlaRiskAssumption
   DEF SlaInit, EnvInit, SlaInv, SlaTypeOK, EnvTypeOK, ToldOf, ToMark, Covered, OptLevel

\* The SEV, its targets, the marker and a scan half way keep their types.
THEOREM SlaTypeCorrect == SlaSpec => []SlaTypeOK
<1>1. SlaInit /\ EnvInit => SlaInv
  BY SlaInvInit
<1>2. SlaInv /\ [SlaNext]_<<slaVars, env>> => SlaInv'
  BY SlaInvStep
<1>3. SlaInv => SlaTypeOK
  BY DEF SlaInv
<1> QED
  BY <1>1, <1>2, <1>3, PTL DEF SlaSpec

LEMMA SlaInvTold == SlaInv => SlaTold
<1> SUFFICES ASSUME SlaInv PROVE SlaTold
  OBVIOUS
<1>1. told \in [Level -> Nat] /\ unmarked \in [Level -> Nat] /\ marker \in OptLevel
  BY DEF SlaInv, SlaTypeOK
<1>2. \A l \in Level : told[l] \in Nat /\ unmarked[l] \in Nat /\ ToldOf(l)
  BY <1>1 DEF SlaInv
<1>3. \A l \in Level : told[l] <= 1 + unmarked[l]
  BY <1>2 DEF ToldOf
<1>4. marker # Nil => told[marker] > 0
  BY <1>1, <1>2 DEF ToldOf, OptLevel
<1> QED
  BY <1>3, <1>4, SlaScans DEF SlaInv, ScanSees, SlaTold

\* However the SEV and its targets change between and under the scans, no level is told
\* again unless its marker was not stored, the marker claims nothing that was not told,
\* and a SEV over a target is told of as breached by a scan nothing changed under.
THEOREM SlaToldCorrect == SlaSpec => []SlaTold
<1>1. SlaInit /\ EnvInit => SlaInv
  BY SlaInvInit
<1>2. SlaInv /\ [SlaNext]_<<slaVars, env>> => SlaInv'
  BY SlaInvStep
<1>3. SlaInv => SlaTold
  BY SlaInvTold
<1> QED
  BY <1>1, <1>2, <1>3, PTL DEF SlaSpec

\* EvaluateSLA: breached is what a final value over some service's own target makes it.
LEMMA BreachedOver ==
    ASSUME NEW row \in Row, NEW rows \in SUBSET [Metric -> OptTime], NEW at,
           Overall(row, rows, at) = "breached"
    PROVE  \E m \in Metric, r \in rows : r[m] # Nil /\ row[m] # Nil /\ row[m] > r[m]
<1>1. PICK m \in Metric : EvalMetric(row, m, MostStrict(rows, m), at) = "breached"
  BY SlaRiskAssumption DEF Overall, Level
<1>2. PICK t : t = MostStrict(rows, m)
  OBVIOUS
<1>3. t # Nil /\ row[m] # Nil /\ row[m] > t
  BY <1>1, <1>2 DEF EvalMetric
<1> DEFINE given == {r[m] : r \in rows} \ {Nil}
<1>4. given # {} /\ given \subseteq Nat
  BY <1>2, <1>3 DEF MostStrict, OptTime
<1>5. t = CHOOSE u \in given : \A v \in given : u <= v
  BY <1>2, <1>4 DEF MostStrict
<1>6. t \in given
  <2> HIDE DEF given
  <2>1. \E u \in given : \A v \in given : u <= v
    BY <1>4, LeastTarget
  <2> QED
    BY <1>5, <2>1
<1>7. PICK r \in rows : t = r[m]
  BY <1>6
<1> QED
  BY <1>3, <1>7

\* A scan nothing happened under decides on a breach only where there is one.
BreachSeen ==
    slaScan # NoSlaScan /\ slaScan.pc \in {"decide", "mark"} /\ slaScan.still
      /\ slaScan.level = "breached" => Missed

LEMMA BreachUndisturbed ==
    ASSUME SlaInv, slaScan' = Disturbed(slaScan)
    PROVE  BreachSeen'
<1>1. CASE slaScan = NoSlaScan
  BY <1>1 DEF Disturbed, BreachSeen
<1>2. CASE slaScan # NoSlaScan
  <2>1. slaScan \in SlaScanning
    BY <1>2, SlaTypes
  <2>2. slaScan'.still = FALSE
    BY <1>2, <2>1 DEF Disturbed, SlaScanning
  <2> QED
    BY <2>2 DEF BreachSeen
<1> QED
  BY <1>1, <1>2

LEMMA ListForServicesSees ==
    ASSUME SlaInv, ListForServices
    PROVE  BreachSeen'
<1>0. /\ slaScan \in SlaScanning /\ slaScan.pc = "listed" /\ ScanSees
      /\ targets \in [Service -> [Metric -> OptTime] \union {Nil}] /\ attached \subseteq Service
      /\ UNCHANGED <<sevRow, attached, targets>>
  BY SlaScans, SlaTypes DEF SlaInv, SlaTypeOK, ListForServices
<1>1. CASE slaScan' = NoSlaScan
  BY <1>1 DEF BreachSeen
<1>2. CASE slaScan' # NoSlaScan
  <2>1. PICK rows : rows = {targets[v] : v \in slaScan.services} \ {Nil}
    OBVIOUS
  <2>2. PICK level : level = Overall(slaScan.row, rows, slaScan.at)
    OBVIOUS
  <2>3. PICK to : to = [slaScan EXCEPT !.pc = "decide", !.level = level]
    OBVIOUS
  <2>4. slaScan' = to /\ to.level = level /\ to.still = slaScan.still
    BY <1>0, <1>2, <2>1, <2>2, <2>3 DEF ListForServices, SlaScanning
  <2>5. ASSUME slaScan.still, level = "breached" PROVE Missed
    <3>1. slaScan.row = sevRow /\ slaScan.services = attached /\ sevRow \in Row
      BY <1>0, <2>5 DEF ScanSees, SlaScanning
    <3>2. rows \in SUBSET [Metric -> OptTime]
      BY <1>0, <2>1, <3>1
    <3>3. PICK row \in Row : row = sevRow
      BY <3>1
    <3>4. PICK m \in Metric, r \in rows : r[m] # Nil /\ row[m] # Nil /\ row[m] > r[m]
      BY <2>2, <2>5, <3>1, <3>2, <3>3, BreachedOver
    <3>5. PICK v \in attached : targets[v] = r /\ targets[v] # Nil
      BY <2>1, <3>1, <3>4
    <3> QED
      BY <3>3, <3>4, <3>5 DEF Missed
  <2>6. Missed' <=> Missed
    BY <1>0 DEF Missed
  <2> QED
    BY <2>4, <2>5, <2>6 DEF BreachSeen
<1> QED
  BY <1>1, <1>2

\* The level and still stay as they are from the decision to the marker.
LEMMA NotifySees ==
    ASSUME SlaInv, BreachSeen, NotifySlaStatus
    PROVE  BreachSeen'
<1>1. slaScan \in SlaScanning /\ slaScan.pc = "decide" /\ slaScan # NoSlaScan
  BY SlaScans, SlaTypes DEF NotifySlaStatus
<1>2. PICK pc \in {"mark", "done"} : slaScan' = [slaScan EXCEPT !.pc = pc]
  BY DEF NotifySlaStatus
<1>3. slaScan'.level = slaScan.level /\ slaScan'.still = slaScan.still
  BY <1>1, <1>2 DEF SlaScanning
<1>4. Missed' <=> Missed
  BY DEF NotifySlaStatus, Missed
<1> QED
  BY <1>1, <1>3, <1>4 DEF BreachSeen

LEMMA BreachStep ==
    ASSUME SlaInv, BreachSeen, [SlaNext]_<<slaVars, env>>
    PROVE  BreachSeen'
<1>1. ASSUME NEW draft \in Drafts, NEW affected \in SUBSET Service, OpenSEV(draft, affected)
      PROVE  BreachSeen'
  BY <1>1 DEF OpenSEV, BreachSeen, SlaInv, ScanSees
<1>2. ASSUME NEW patch \in Patches, NEW affected \in SUBSET Service, AmendSEV(patch, affected)
      PROVE  BreachSeen'
  BY <1>2, BreachUndisturbed DEF AmendSEV
<1>3. ASSUME NEW to \in Moves, NEW stamp \in Stamps, MoveSEV(to, stamp) PROVE BreachSeen'
  BY <1>3, BreachUndisturbed DEF MoveSEV
<1>4. ASSUME NEW v \in Service, NEW choice \in TargetChoices \union {Nil},
             SetServiceSLA(v, choice)
      PROVE  BreachSeen'
  BY <1>4, BreachUndisturbed DEF SetServiceSLA
<1>5. ASSUME ListCandidates PROVE BreachSeen'
  <2>1. slaScan'.pc = "listed"
    BY <1>5 DEF ListCandidates
  <2> QED
    BY <2>1 DEF BreachSeen
<1>6. ASSUME UpdateSLANotifiedStatus PROVE BreachSeen'
  <2>1. slaScan \in SlaScanning
    BY <1>6, SlaScans, SlaTypes DEF UpdateSLANotifiedStatus
  <2>2. slaScan'.pc = "done"
    BY <1>6, <2>1 DEF UpdateSLANotifiedStatus, SlaScanning
  <2> QED
    BY <2>2 DEF BreachSeen
<1>7. ASSUME EndScan \/ StopScanner PROVE BreachSeen'
  BY <1>7 DEF EndScan, StopScanner, BreachSeen
<1>8. ASSUME SlaTick \/ UNCHANGED <<slaVars, env>> PROVE BreachSeen'
  BY <1>8 DEF SlaTick, slaVars, BreachSeen, Missed
<1> QED
  BY <1>1, <1>2, <1>3, <1>4, <1>5, <1>6, <1>7, <1>8, ListForServicesSees, NotifySees
     DEF SlaNext

\* A SEV is told of as breached only when it is over some service's target, by a scan
\* nothing changed under.
BreachesMeant ==
    [][told'["breached"] # told["breached"] /\ slaScan.still => Missed]_<<slaVars, env>>

\* EvaluateSLA raises no false breach: of several services' targets it takes one that a
\* service has, and the final value of that very metric is over it.
THEOREM BreachesMeantCorrect == SlaSpec => BreachesMeant
<1>1. SlaInit /\ EnvInit => SlaInv /\ BreachSeen
  BY SlaInvInit DEF SlaInit, BreachSeen
<1>2. SlaInv /\ BreachSeen /\ [SlaNext]_<<slaVars, env>> => SlaInv' /\ BreachSeen'
  BY SlaInvStep, BreachStep
<1>3. SlaInv /\ BreachSeen /\ [SlaNext]_<<slaVars, env>> =>
        [told'["breached"] # told["breached"] /\ slaScan.still => Missed]_<<slaVars, env>>
  <2> SUFFICES ASSUME SlaInv, BreachSeen, SlaNext, told'["breached"] # told["breached"],
                      slaScan.still
               PROVE  Missed
    BY DEF slaVars
  <2>1. NotifySlaStatus /\ told' = [told EXCEPT ![slaScan.level] = @ + 1]
    BY DEF SlaNext, OpenSEV, AmendSEV, MoveSEV, SetServiceSLA, ListCandidates,
           ListForServices, NotifySlaStatus, UpdateSLANotifiedStatus, EndScan, StopScanner,
           SlaTick, slaVars
  <2>2. slaScan.pc = "decide" /\ slaScan # NoSlaScan
    BY <2>1, SlaScans DEF NotifySlaStatus
  <2>3. told \in [Level -> Nat]
    BY DEF SlaInv, SlaTypeOK
  <2>4. slaScan.level = "breached"
    BY <2>1, <2>3 DEF Level
  <2> QED
    BY <2>2, <2>4 DEF BreachSeen
<1> QED
  BY <1>1, <1>2, <1>3, PTL DEF SlaSpec, BreachesMeant

-------------------------------------------------------------------------------
(***************************************************************************)
(* The services together, as ServicesMC runs them: they share the clock    *)
(* and the failures, so a step of one must leave the invariants of all     *)
(* others. They say nothing of the clock but its type, apart from a login  *)
(* of the bot's, and there is none where the bot keeps still.              *)
(***************************************************************************)
ServicesInv ==
    /\ FirstInv /\ ShutInv /\ InForceInv /\ ShareInv /\ TaskInv /\ RetryInv /\ SlaInv
    /\ focus # "bot" => login = NoLogin

LEMMA AccountsRest ==
    ASSUME FirstInv, ShutInv, EnvTypeOK', UNCHANGED accVars
    PROVE  FirstInv' /\ ShutInv'
<1>1. AccTypeInv'
  BY DEF FirstInv, accVars, AccTypeInv, AccTypeOK, CallersRegistered, At, Registered
<1>2. FirstInv'
  BY <1>1, FirstKept DEF accVars, Registered
<1>3. ColumnInv'
  BY <1>1 DEF ShutInv, accVars, ColumnInv, ColumnsAsAsked, CopiesAgree, Registered, At
<1>4. ShutInv'
  BY <1>3 DEF ShutInv, accVars, ShutStands, At, Shut, Registered
<1> QED
  BY <1>2, <1>4

LEMMA IntegrationsRest ==
    ASSUME InForceInv, EnvTypeOK', UNCHANGED intVars
    PROVE  InForceInv'
<1>1. IntTypeInv'
  BY DEF InForceInv, intVars, IntTypeInv, IntTypeOK
<1> QED
  BY <1>1 DEF intVars, InForceInv, ConfigInForce, Settled, HasTheRow, Undoing, OverlapTold,
              Half, OldConfig

LEMMA SharingRests ==
    ASSUME ShareInv, EnvTypeOK', UNCHANGED shareVars
    PROVE  ShareInv'
<1>1. ASSUME NEW r \in Request PROVE VisitFits(visit[r])'
  BY <1>1 DEF ShareInv, VisitFits, shareVars, MaySee
<1> QED
  BY <1>1 DEF shareVars, ShareInv, ShareTypeInv, ShareTypeOK

LEMMA TasksRest ==
    ASSUME TaskInv, EnvTypeOK', UNCHANGED taskVars
    PROVE  TaskInv'
<1>1. \A k \in TaskId : RowFits(k)'
  BY DEF taskVars, TaskInv, RowFits, Stands
<1>2. \A r \in Request : WorkFits(work[r])'
  BY DEF taskVars, TaskInv, WorkFits, Stands
<1>3. IssuesHeld' /\ LinkedOnce'
  BY DEF taskVars, TaskInv, IssuesHeld, InHand, LinkedOnce, Stands
<1> QED
  BY <1>1, <1>2, <1>3 DEF taskVars, TaskInv, TaskTypeInv, TaskTypeOK

LEMMA BotRests ==
    ASSUME RetryInv, EnvTypeOK', UNCHANGED botVars, login = NoLogin
    PROVE  RetryInv'
<1>1. LoginFits(NoLogin, now')
  BY DEF EnvTypeOK, LoginFits, NoLogin
<1>2. \A c \in Request \ excused' : MayRely(c)'
  BY DEF botVars, RetryInv, MayRely
<1> QED
  BY <1>1, <1>2 DEF botVars, RetryInv, EnvTypeOK

LEMMA SlaRests ==
    ASSUME SlaInv, EnvTypeOK', UNCHANGED slaVars
    PROVE  SlaInv'
BY DEF slaVars, SlaInv, SlaTypeOK, ToldOf, ToMark, Covered, ScanSees, Missed

LEMMA EnvTyped ==
    /\ ShutInv => EnvTypeOK /\ AccTypeOK
    /\ InForceInv => EnvTypeOK /\ IntTypeOK
    /\ ShareInv => EnvTypeOK /\ ShareTypeOK
    /\ TaskInv => EnvTypeOK /\ TaskTypeOK
    /\ RetryInv => EnvTypeOK
    /\ SlaInv => EnvTypeOK /\ SlaTypeOK
<1>1. ShutInv => EnvTypeOK /\ AccTypeOK
  BY DEF ShutInv, ColumnInv, AccTypeInv
<1>2. InForceInv => EnvTypeOK /\ IntTypeOK
  BY DEF InForceInv, IntTypeInv
<1>3. ShareInv => EnvTypeOK /\ ShareTypeOK
  BY DEF ShareInv, ShareTypeInv
<1>4. TaskInv => EnvTypeOK /\ TaskTypeOK
  BY DEF TaskInv, TaskTypeInv
<1>5. RetryInv => EnvTypeOK
  BY DEF RetryInv, EnvTypeOK
<1>6. SlaInv => EnvTypeOK /\ SlaTypeOK
  BY DEF SlaInv
<1> QED
  BY <1>1, <1>2, <1>3, <1>4, <1>5, <1>6

LEMMA ServicesInvInit == ServicesInit => ServicesInv
<1> SUFFICES ASSUME ServicesInit PROVE ServicesInv
  OBVIOUS
<1>1. FirstInv /\ ShutInv
  BY FirstInit, ShutInit DEF ServicesInit
<1>2. InForceInv /\ ShareInv /\ TaskInv
  BY InForceInit, ShareInvInit, TaskInvInit DEF ServicesInit
<1>3. RetryInv /\ SlaInv /\ login = NoLogin
  BY RetryInit, SlaInvInit DEF ServicesInit, BotInit
<1> QED
  BY <1>1, <1>2, <1>3 DEF ServicesInv

LEMMA ServicesInvStep ==
    ASSUME ServicesInv, [ServicesNext]_services
    PROVE  ServicesInv'
<1>0. /\ FirstInv /\ ShutInv /\ InForceInv /\ ShareInv /\ TaskInv /\ RetryInv /\ SlaInv
      /\ focus # "bot" => login = NoLogin
      /\ EnvTypeOK
  BY EnvTyped DEF ServicesInv
<1>1. CASE AccStep
  <2>1. FirstInv' /\ ShutInv' /\ login = NoLogin
    BY <1>0, <1>1, FirstStep, ShutStep DEF AccStep
  <2>2. EnvTypeOK'
    BY <2>1 DEF ShutInv, ColumnInv, AccTypeInv
  <2>3. UNCHANGED <<botVars, intVars, taskVars, shareVars, slaVars, focus>>
    BY <1>1 DEF AccStep
  <2>4. /\ InForceInv' /\ ShareInv' /\ TaskInv' /\ RetryInv' /\ SlaInv'
        /\ login' = NoLogin
    BY <1>0, <2>1, <2>2, <2>3, IntegrationsRest, SharingRests, TasksRest, BotRests, SlaRests
       DEF botVars
  <2> QED
    BY <2>1, <2>4 DEF ServicesInv
<1>2. CASE BotStep
  <2>1. RetryInv' /\ focus' = "bot"
    BY <1>0, <1>2, RetryStep DEF BotStep
  <2>2. EnvTypeOK'
    BY <2>1 DEF RetryInv, EnvTypeOK
  <2>3. UNCHANGED <<accVars, intVars, taskVars, shareVars, slaVars>>
    BY <1>2 DEF BotStep
  <2>4. FirstInv' /\ ShutInv' /\ InForceInv' /\ ShareInv' /\ TaskInv' /\ SlaInv'
    BY <1>0, <2>2, <2>3, AccountsRest, IntegrationsRest, SharingRests, TasksRest, SlaRests
  <2> QED
    BY <2>1, <2>4 DEF ServicesInv
<1>3. CASE IntStep
  <2>1. InForceInv' /\ login = NoLogin
    BY <1>0, <1>3, InForceStep DEF IntStep
  <2>2. EnvTypeOK'
    BY <2>1 DEF InForceInv, IntTypeInv
  <2>3. UNCHANGED <<accVars, botVars, taskVars, shareVars, slaVars, focus>>
    BY <1>3 DEF IntStep
  <2>4. /\ FirstInv' /\ ShutInv' /\ ShareInv' /\ TaskInv' /\ RetryInv' /\ SlaInv'
        /\ login' = NoLogin
    BY <1>0, <2>1, <2>2, <2>3, AccountsRest, SharingRests, TasksRest, BotRests, SlaRests
       DEF botVars
  <2> QED
    BY <2>1, <2>4 DEF ServicesInv
<1>4. CASE TaskStep
  <2>1. TaskInv' /\ login = NoLogin
    BY <1>0, <1>4, TaskInvStep DEF TaskStep
  <2>2. EnvTypeOK'
    BY <2>1 DEF TaskInv, TaskTypeInv
  <2>3. UNCHANGED <<accVars, botVars, intVars, shareVars, slaVars, focus>>
    BY <1>4 DEF TaskStep
  <2>4. /\ FirstInv' /\ ShutInv' /\ InForceInv' /\ ShareInv' /\ RetryInv' /\ SlaInv'
        /\ login' = NoLogin
    BY <1>0, <2>1, <2>2, <2>3, AccountsRest, IntegrationsRest, SharingRests, BotRests, SlaRests
       DEF botVars
  <2> QED
    BY <2>1, <2>4 DEF ServicesInv
<1>5. CASE ShareStep
  <2>1. ShareInv' /\ login = NoLogin
    BY <1>0, <1>5, ShareInvStep DEF ShareStep
  <2>2. EnvTypeOK'
    BY <2>1 DEF ShareInv, ShareTypeInv
  <2>3. UNCHANGED <<accVars, botVars, intVars, taskVars, slaVars, focus>>
    BY <1>5 DEF ShareStep
  <2>4. /\ FirstInv' /\ ShutInv' /\ InForceInv' /\ TaskInv' /\ RetryInv' /\ SlaInv'
        /\ login' = NoLogin
    BY <1>0, <2>1, <2>2, <2>3, AccountsRest, IntegrationsRest, TasksRest, BotRests, SlaRests
       DEF botVars
  <2> QED
    BY <2>1, <2>4 DEF ServicesInv
<1>6. CASE SlaStep
  <2>1. SlaInv' /\ login = NoLogin
    BY <1>0, <1>6, SlaInvStep DEF SlaStep
  <2>2. EnvTypeOK'
    BY <2>1 DEF SlaInv
  <2>3. UNCHANGED <<accVars, botVars, intVars, taskVars, shareVars, focus>>
    BY <1>6 DEF SlaStep
  <2>4. /\ FirstInv' /\ ShutInv' /\ InForceInv' /\ ShareInv' /\ TaskInv' /\ RetryInv'
        /\ login' = NoLogin
    BY <1>0, <2>1, <2>2, <2>3, AccountsRest, IntegrationsRest, SharingRests, TasksRest, BotRests
       DEF botVars
  <2> QED
    BY <2>1, <2>4 DEF ServicesInv
<1>7. CASE UNCHANGED services
  <2>1. /\ UNCHANGED <<accVars, intVars, taskVars, shareVars, slaVars, focus>>
        /\ UNCHANGED <<botVars, env>> /\ EnvTypeOK' /\ login' = login
    BY <1>0, <1>7 DEF services, env, EnvTypeOK, botVars
  <2>2. FirstInv' /\ ShutInv' /\ InForceInv' /\ ShareInv' /\ TaskInv' /\ SlaInv'
    BY <1>0, <2>1, AccountsRest, IntegrationsRest, SharingRests, TasksRest, SlaRests
  <2> QED
    BY <1>0, <2>1, <2>2, BotTickRelies DEF ServicesInv
<1> QED
  BY <1>1, <1>2, <1>3, <1>4, <1>5, <1>6, <1>7 DEF ServicesNext

\* The services keep their types beside each other.
THEOREM ServicesTypeCorrect == ServicesSpec => []ServicesTypeOK
<1>1. ServicesInit => ServicesInv
  BY ServicesInvInit
<1>2. ServicesInv /\ [ServicesNext]_services => ServicesInv'
  BY ServicesInvStep
<1>3. ServicesInv => ServicesTypeOK
  BY EnvTyped, RetryTypes DEF ServicesInv, ServicesTypeOK
<1> QED
  BY <1>1, <1>2, <1>3, PTL DEF ServicesSpec

\* Every safety property of a service holds where the services share clock and failures.
THEOREM ServicesSafe ==
    ServicesSpec => [](/\ Bootstrapped /\ ColumnsAsAsked /\ DeactivatedRefused
                       /\ RetrySuffices /\ ConfigInForce /\ DueDatesKept /\ IssuesAccounted
                       /\ DisclosedWithReason /\ SlaTold)
<1>1. ServicesInit => ServicesInv
  BY ServicesInvInit
<1>2. ServicesInv /\ [ServicesNext]_services => ServicesInv'
  BY ServicesInvStep
<1>3. ASSUME ServicesInv
      PROVE  /\ Bootstrapped /\ ColumnsAsAsked /\ DeactivatedRefused
             /\ RetrySuffices /\ ConfigInForce /\ DueDatesKept /\ IssuesAccounted
             /\ DisclosedWithReason /\ SlaTold
  <2>1. Bootstrapped /\ ColumnsAsAsked /\ DeactivatedRefused
    BY <1>3 DEF ServicesInv, FirstInv, ShutInv, ColumnInv, ShutStands, DeactivatedRefused
  <2>2. RetrySuffices
    BY <1>3 DEF ServicesInv, RetryInv, MayRely, RetrySuffices
  <2>3. ConfigInForce /\ DisclosedWithReason
    BY <1>3 DEF ServicesInv, InForceInv, ShareInv, VisitFits, DisclosedWithReason
  <2>4. DueDatesKept
    BY <1>3 DEF ServicesInv, TaskInv, RowFits, WorkFits, DueDatesKept, Doing
  <2>5. IssuesAccounted
    BY <1>3 DEF ServicesInv, TaskInv, IssuesHeld, InHand, LinkedOnce, IssuesAccounted, Doing
  <2>6. SlaTold
    BY <1>3, SlaInvTold DEF ServicesInv
  <2> QED
    BY <2>1, <2>2, <2>3, <2>4, <2>5, <2>6
<1> QED
  BY <1>1, <1>2, <1>3, PTL DEF ServicesSpec

===============================================================================
