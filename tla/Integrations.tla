------------------------------ MODULE Integrations ------------------------------
(***************************************************************************)
(* The configuration of one integration and the client built from it:      *)
(* UpsertIntegrationConfig (internal/api/grpc/config_integration.go) and   *)
(* the resolvers of cmd/server (jira_issue_resolver.go and its likes,      *)
(* integration_credentials.go). The row is in the datastore, the client in *)
(* memory; one is written after the other, with a compensating write when  *)
(* the resolver refuses.                                                   *)
(*                                                                         *)
(* Jira is the type modelled: it needs credentials and settings. A sealed  *)
(* credential is its value and the key that sealed it.                     *)
(***************************************************************************)
EXTENDS Environment

CONSTANTS
    Credential,     \* credentials a request may supply
    Setting,        \* settings a request may supply
    Complete,       \* those of them that hold a cloud_id
    MaxKeys         \* bound: changes of ENCRYPTION_KEY

Sealed == [value : Credential, key : Nat]

Config == [creds : Sealed \union {Nil}, settings : Setting \union {Nil}]

ASSUME IntegrationsAssumption ==
    /\ Nil \notin Credential /\ Nil \notin Setting /\ Nil \notin Config
    /\ Complete \subseteq Setting /\ MaxKeys \in Nat

Empty == [creds |-> Nil, settings |-> Nil]

\* What a client is built from.
Client == [value : Credential, settings : Setting]

VARIABLES
    config,     \* the row of integration_configs, or Nil
    current,    \* the resolver's client, or Nil for the static fallback
    encKey,     \* ENCRYPTION_KEY
    upsert,     \* upsert[r]: where UpsertIntegrationConfig r stands
    apart       \* history variable: why row and client may differ

intVars == <<config, current, encKey, upsert, apart>>

NoUpsert == [pc |-> "idle"]

IntInit ==
    /\ config = Nil
    /\ current = Nil
    /\ encKey = 0
    /\ upsert = [r \in Request |-> NoUpsert]
    /\ apart = {}

Usable(cfg) == cfg.creds # Nil /\ cfg.settings \in Complete

\* What a row may hold when no update is half way.
Proper(cfg) == Usable(cfg) \/ cfg = Empty

\* apply: the client for these credentials and settings, or the fallback.
Apply(cfg) ==
    IF Usable(cfg) THEN [value |-> cfg.creds.value, settings |-> cfg.settings] ELSE Nil

\* Other updates that have written the row and are not done.
Others(r) == {q \in Request \ {r} : upsert[q].pc \in {"refresh", "rollback"}}

-------------------------------------------------------------------------------

\* What is not supplied is kept from the existing row.
Merged(old, creds, settings) ==
    [creds    |-> IF creds = Nil THEN old.creds ELSE [value |-> creds, key |-> encKey],
     settings |-> OrElse(settings, old.settings)]

OldConfig == IF config = Nil THEN Empty ELSE config

\* Credentials that stay in effect must be readable.
Readable(cfg) == cfg.creds # Nil => cfg.creds.key = encKey

LoadConfig(r, creds, settings) ==
    /\ upsert[r] = NoUpsert
    /\ creds = Nil => Readable(OldConfig)
    /\ upsert' = [upsert EXCEPT ![r] =
                    [pc |-> "write", cfg |-> Merged(OldConfig, creds, settings),
                     old |-> OldConfig, alone |-> TRUE]]
    /\ UNCHANGED <<config, current, encKey, apart, env>>

\* r goes on to next, having written the row while those others were half way.
Crowded(r, next) ==
    [q \in Request |-> IF q = r THEN next
                       ELSE IF q \in Others(r) THEN [upsert[q] EXCEPT !.alone = FALSE]
                       ELSE upsert[q]]

WriteConfig(r) ==
    /\ upsert[r].pc = "write"
    /\ config' = upsert[r].cfg
    /\ upsert' = Crowded(r, [upsert[r] EXCEPT !.pc = "refresh",
                                              !.alone = Others(r) = {}])
    /\ UNCHANGED <<current, encKey, apart, env>>

\* Mutant: a resolver that had to fall back is not heard.
RefreshUnheard(r) ==
    /\ upsert[r].pc = "refresh"
    /\ current' = Apply(upsert[r].cfg)
    /\ upsert' = [upsert EXCEPT ![r] = NoUpsert]
    /\ apart' = IF upsert[r].alone THEN {} ELSE {"overlap"}
    /\ UNCHANGED <<config, encKey, env>>

\* RefreshIntegrationCredentials: the client is swapped whatever it is; falling back
\* is an error, and the update is to be undone.
RefreshClient(r) ==
    /\ upsert[r].pc = "refresh"
    /\ current' = Apply(upsert[r].cfg)
    /\ upsert' = IF Usable(upsert[r].cfg) THEN [upsert EXCEPT ![r] = NoUpsert]
                 ELSE [upsert EXCEPT ![r].pc = "rollback"]
    /\ apart' = IF upsert[r].alone THEN {} ELSE {"overlap"}
    /\ UNCHANGED <<config, encKey, env>>

\* The row is put back. The client is not.
RollBack(r) ==
    /\ upsert[r].pc = "rollback"
    /\ \/ /\ config' = upsert[r].old
          /\ apart' = apart \union (IF Usable(upsert[r].old) THEN {"refused"} ELSE {})
                            \union (IF Proper(upsert[r].old) THEN {} ELSE {"kept"})
                            \union (IF upsert[r].alone THEN {} ELSE {"overlap"})
          /\ UNCHANGED env
       \/ /\ Fail("rollback")
          /\ apart' = apart \union {"kept"}
          /\ UNCHANGED config
    /\ upsert' = Crowded(r, NoUpsert)
    /\ UNCHANGED <<current, encKey>>

AbandonUpsert(r) ==
    /\ upsert[r].pc = "write"
    /\ upsert' = [upsert EXCEPT ![r] = NoUpsert]
    /\ UNCHANGED <<config, current, encKey, apart, env>>

\* The server starts anew, perhaps with another ENCRYPTION_KEY; the resolver takes
\* what it can read of the row. An update that was to be undone is there to stay.
StartServer(key) ==
    /\ key \in {encKey, encKey + 1}
    /\ key <= MaxKeys
    /\ encKey' = key
    /\ upsert' = [r \in Request |-> NoUpsert]
    /\ \/ /\ current' = IF OldConfig.creds # Nil /\ OldConfig.creds.key = key
                        THEN Apply(OldConfig) ELSE Nil
          /\ apart' = (IF Usable(OldConfig) /\ OldConfig.creds.key # key
                       THEN {"unread"} ELSE {})
                      \union (IF Proper(OldConfig) THEN {} ELSE {"kept"})
          /\ UNCHANGED env
       \/ /\ Fail("lookup")
          /\ current' = Nil
          /\ apart' = {"unread", "kept"}
    /\ UNCHANGED config

IntNext ==
    \/ \E r \in Request, creds \in Credential \union {Nil}, settings \in Setting \union {Nil} :
          LoadConfig(r, creds, settings)
    \/ \E r \in Request :
          WriteConfig(r) \/ RefreshClient(r) \/ RollBack(r) \/ AbandonUpsert(r)
    \/ \E key \in 0 .. MaxKeys : StartServer(key)

IntSpec == IntInit /\ EnvInit /\ [][IntNext]_<<intVars, env>>

-------------------------------------------------------------------------------

\* Every variable has its type; an upsert that is under way has a configuration to store
\* and the one to return to.
IntTypeOK ==
    /\ config \in Config \union {Nil}
    /\ current \in Client \union {Nil}
    /\ encKey \in Nat
    /\ upsert \in [Request -> {NoUpsert}
                     \union [pc : {"write", "refresh", "rollback"}, cfg : Config,
                             old : Config, alone : BOOLEAN]]
    /\ apart \subseteq {"overlap", "refused", "kept", "unread"}

Settled == \A r \in Request : upsert[r].pc \in {"idle", "write"}

\* "The datastore and the in-process state it drives never end up disagreeing": with no
\* update half way, the client in use is the one the stored row asks for, and the row
\* holds no configuration the resolver has refused. What there is against it: two updates
\* that overlapped, an update refused while a working configuration was stored (the row
\* is put back, the client is not), a rollback that failed or was cut short by a
\* restart, and a start that could not read the row or unseal it.
ConfigInForce ==
    Settled =>
        /\ current = Apply(OldConfig) \/ apart \intersect {"overlap", "refused", "unread"} # {}
        /\ Proper(OldConfig) \/ apart \intersect {"overlap", "kept"} # {}

===============================================================================
