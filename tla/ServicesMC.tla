------------------------------- MODULE ServicesMC -------------------------------
(***************************************************************************)
(* The smaller services, each on a small instance, for TLC. They share the *)
(* clock and the budget of failures and nothing else, so every behaviour   *)
(* is one of focus's; the others keep still in it.                         *)
(***************************************************************************)
EXTENDS Accounts, BotSession, Integrations, Tasks, Sharing, SlaRisk

VARIABLE focus

services == <<accVars, botVars, intVars, taskVars, shareVars, slaVars, env, focus>>

Focus == {"accounts", "bot", "integrations", "tasks", "sharing", "sla"}

ServicesInit ==
    /\ focus \in Focus
    /\ EnvInit
    /\ AccInit /\ BotInit /\ IntInit /\ TaskInit /\ ShareInit /\ SlaInit
    /\ focus # "sharing" => ~sensitive

AccStep   == /\ focus = "accounts" /\ AccNext
             /\ UNCHANGED <<botVars, intVars, taskVars, shareVars, slaVars, focus>>
BotStep   == /\ focus = "bot" /\ BotNext
             /\ UNCHANGED <<accVars, intVars, taskVars, shareVars, slaVars, focus>>
IntStep   == /\ focus = "integrations" /\ IntNext
             /\ UNCHANGED <<accVars, botVars, taskVars, shareVars, slaVars, focus>>
TaskStep  == /\ focus = "tasks" /\ TaskNext
             /\ UNCHANGED <<accVars, botVars, intVars, shareVars, slaVars, focus>>
ShareStep == /\ focus = "sharing" /\ ShareNext
             /\ UNCHANGED <<accVars, botVars, intVars, taskVars, slaVars, focus>>
SlaStep   == /\ focus = "sla" /\ SlaNext
             /\ UNCHANGED <<accVars, botVars, intVars, taskVars, shareVars, focus>>

ServicesNext == AccStep \/ BotStep \/ IntStep \/ TaskStep \/ ShareStep \/ SlaStep

ServicesSpec == ServicesInit /\ [][ServicesNext]_services

\* The fairness of BotFairSpec.
ServicesFairSpec ==
    /\ ServicesSpec
    /\ WF_services(BotStep /\ RefreshToken)
    /\ WF_services(BotStep /\ LoginStep)

\* The type invariant of each service.
ServicesTypeOK ==
    /\ EnvTypeOK /\ AccTypeOK /\ BotTypeOK /\ IntTypeOK
    /\ TaskTypeOK /\ ShareTypeOK /\ SlaTypeOK

\* SignsInAgain, where it is the bot that runs: after any rotation of the secret, restart
\* or failed login, and with no call made at all, it comes to hold a token the server
\* takes, if its account stays active.
BotSignsInAgain == focus = "bot" => SignsInAgain

-------------------------------------------------------------------------------

\* A read, each of the writes, by and about anybody.
SomeCalls == {[kind |-> "read"], [kind |-> "identity", value |-> "n1"],
              [kind |-> "role", on |-> "a1", value |-> "viewer"],
              [kind |-> "active", on |-> "a1", value |-> FALSE],
              [kind |-> "active", on |-> "a1", value |-> TRUE]}

\* Targets for the resolution time; one minute over is over the first.
SomeTargets == {[mttd |-> Nil, mttm |-> Nil, mttr |-> t, rtpc |-> Nil] : t \in {0, 1}}
SomeDrafts  == {[sensitive |-> FALSE, startedAt |-> 0, detectedAt |-> Nil]}
SomePatches == {[category |-> Nil, sensitive |-> Nil, startedAt |-> 1, detectedAt |-> Nil]}
SomeStamps  == {[mitigatedAt |-> Nil, resolvedAt |-> t, completedAt |-> Nil] : t \in {Nil, 1}}

===============================================================================
