# sevitout: TLA+ models, TLC runs and TLAPS proofs

sevitout is an incident ("SEV") management server. This directory holds the
specifications of its concurrent core: what the gRPC handlers do to a stored SEV
when they interleave and fail, the WebSocket hub, the escalation and SLA risk scanners,
the AI dispatcher with its rate limiter, the Slack bot that makes incident channels and
the session it calls the server with, accounts and sign-in, integration settings, tasks
and the issues opened for them, and who is shown a SEV. Paths below are relative to `src/`.

## 1. The system

One server process (`cmd/server`) runs fifteen gRPC services, the REST gateway,
the WebSocket hub and the background scanners over one PostgreSQL database. The
Slack bot (`cmd/slackbot`) is a second process: a gRPC client that follows the hub.
The web client talks to the gateway and to the hub.

| Component | State it keeps | Operations | What makes it correct | Module |
|---|---|---|---|---|
| SEV lifecycle (`internal/api/grpc/sev.go`, `internal/sev`) | `sevs` row: status, lock, sensitivity, five timestamps, five metrics; `sev_status_history` | CreateSEV, UpdateSEV, TransitionStatus | lock ⇔ completed; metrics are those of the timestamps; the log precedes the row and is connected; nothing is announced before it is logged and stored | SevRecord, SevLifecycle |
| Postmortem and unlock (`internal/api/grpc/postmortem.go`, `internal/postmortem`) | `postmortems` row; signed, stateless tokens | UpdatePostmortem, TransitionPostmortemStatus, UnlockSEV | a completed record is read-only until unlocked; a token is for one completed SEV and for 15 minutes | SevLifecycle, SevContract |
| WebSocket hub (`internal/api/ws`) | rooms, each client's rooms and buffered channel, two goroutines per connection | Publish, Subscribe, Unsubscribe, Close, read loop, write pump | an event reaches those subscribed at one moment, once and in order; no send on a closed channel, no publisher blocked by a slow client, gone clients leave | WsHub, HubContract |
| Escalation scanner (`cmd/server/main.go`, `internal/sev/escalation.go`) | `escalation_notified_at` marker of a SEV | a scan per tick; races with AssignRole, RemoveRole and the SEV handlers | an overdue SEV is alarmed, once per marker, and not without cause | Escalation |
| AI dispatcher (`internal/ai`) | task channel, workers, rate-limit windows; `ai_outputs` | Dispatch, the workers' loop, TriggerAction, StreamAction; plugin administration | no prompt is built for an ineligible SEV nor names a sensitive one, the limit holds, each accepted trigger is run and each action once | AiDispatcher |
| Incident roles (`internal/api/grpc/role.go`) | `sev_roles` | AssignRole, RemoveRole, on-call assignment | the Incident Commander's assignment clears the marker; a holder gets into the incident channel | Escalation (Incident Commander only), SlackBot (invitations) |
| SLA risk scanner (`cmd/server/main.go`, `internal/sev/sla.go`, `config_service_sla.go`) | `sla_notified_status` marker, `service_slas` | a scan per tick; races with the SEV handlers and UpsertServiceSLA | each level is told once per stored marker, never a lesser one after a greater, and none is skipped | SlaRisk |
| Accounts (`internal/auth`, `config_user.go`, `auth.go`) | users, JWTs | Register, Login, the interceptor, UpdateUserRole, DeactivateUser, ReactivateUser, identities | the first user is Admin; a deactivated user is refused, whatever the token; role and activity change only as asked | Accounts |
| The bot's session (`cmd/slackbot/auth.go`) | a cached token under a lock | calls with one retry, forceLogin, the refresher | one retry is enough; the bot signs in again after anything | BotSession |
| Integrations (`config_integration.go`, the resolvers of `cmd/server`) | `integration_configs` row; the client in memory | UpsertIntegrationConfig with its rollback, start of the server | row and client agree; no refused settings stay stored | Integrations |
| Tasks (`task.go`) | `sev_linked_tasks`; issues in Jira/GitHub | LinkTask, UnlinkTask, UpdateTaskDueDate, CreateGitHubIssue, CreateJiraIssue, ListTasks with its backfill | a due date is backfilled once and never over an asked one; no issue is opened and forgotten | Tasks |
| Sharing (`share.go`, `share_view.go`, `sev_access.go`, `visibility.go`, `announcement.go`, `internal/share`) | links, grants, announcements; the Sensitive flag | CreateShareLink, RevokeShareLink, the public view, GrantAccess, RevokeAccess, announcements | nobody is shown a SEV without a reason since the call began; a revoked link shows nothing | Sharing |
| Slack bot (`cmd/slackbot`) | `channels` of SEVs, `pendingOpeners`; the connection to the hub | slash commands, the hub's events, restart | the opener and the role holders end up in the incident channel, no opener is left in the map | SlackBot |
| Other configuration, search, reports, SEV links, chat linking, audit log, telemetry, gateway, web client, generated code | rows or none | reads, single-row writes, I/O | no interplay that a model would add to | not modelled |

How they interact: a handler writes its row and then calls, best effort, the audit
log, the hub, the notifier, the on-call assignment and the dispatcher (`Effect` in
SevLifecycle records which ones and in what order relative to the stores). The
dispatcher and the scanner read the rows handlers write; AssignRole and the scanner
both write the escalation marker. The bot's listener follows the hub and writes the
channel it made back through UpdateSEV, where AssignRole and JoinSlackChannel read it;
its commands call the handlers as any client does. There is no row version and no transaction around
a Get and the Update that follows it, so handlers of one SEV interleave at their
store calls. Every call passes the interceptor (`Accounts`) before a handler sees it; the
bot's calls carry the token of its session (`BotSession`). ListTasks reads the SEV's
resolution time, the SLA scanner the metrics the handlers store (`SlaRisk` uses
`SevRecord`'s row and its metrics), and the public view the flag UpdateSEV sets.

What is hard: read-modify-write races on whole rows, a handler that stops between
two store calls, a lock checked on a copy, two goroutines per connection that must
bring each other down, a publisher that fans out while connections close, a scan
made of many store calls, queues, windows and maps that live in memory only, two
goroutines and a handler that each may leave an invitation to the other, a check before
a slow password hash or a list, a row and the client built from it, an outside tracker
whose answer may be lost. `PROJECT.json`
lists each hazard with its line and the properties that cover it.

## 2. Modules

| Module | What it holds |
|---|---|
| `SevRecord` | the SEV row; state machine, metrics, field updates as pure operators |
| `SevLifecycle` | the six handlers that write a SEV or its postmortem, split at store calls; the refinement mapping to SevContract |
| `SevContract` | what the documentation promises of a SEV, as atomic steps |
| `SevLifecycleMC` | TLC instances of SevLifecycle |
| `SevRecordProofs` | lemmas about the row's operators: what updates, transitions and metrics preserve |
| `SevLifecycleProofs` | types, lock and metrics; the log, the tokens and the events; what passes the lock and the log; what is left of a creation that stops; SevContract |
| `WsHub`, `WsHubMC` | the hub, its publishers and the goroutines of its connections, with the refinement mapping to HubContract; its instance |
| `HubContract` | what the hub promises its connections, as atomic steps |
| `WsHubProofs` | types, rooms, open channels and order; HubContract |
| `Escalation`, `EscalationMC`, `EscalationProofs` | the scanner and what it races with; its instances; its theorems |
| `AiDispatcher`, `AiDispatcherMC`, `AiDispatcherProofs` | the dispatcher, its instance, its theorems |
| `SlackBot`, `SlackBotProofs` | incident channels and who gets into them; its theorems (the cfgs instantiate `SlackBot` itself) |
| `Environment` | the clock, the budget of failures and the requests in flight the modules below share |
| `Accounts`, `AccountsProofs` | registration, sign-in, the interceptor, user administration; its theorems |
| `BotSession` | the Slack bot's token, its lock, the refresher and the one retry |
| `Integrations` | the settings of an integration and the client built from them |
| `Tasks` | follow-up tasks, their due dates and the issues opened for them |
| `Sharing` | public links, grants on a Sensitive SEV, and the announcements they show |
| `SlaRisk` | the SLA risk scanner and what changes under it |
| `ServicesMC` | a small instance of each of these six, and their behaviours taken together (`ServicesSpec`) |
| `ServicesProofs` | theorems about Integrations, Tasks, Sharing, BotSession and SlaRisk, and about the six together |

### SevLifecycle

One `Request` is one handler invocation; `loc[r]` holds where it stands and its
private copies (`read`: the row as loaded, `row` and `pm`: what it will store).
A handler's first action is everything up to its first store write: lookup, lock
check, validation, and the new row computed from the copy. `saveSEV` then writes the
*whole* private row, whatever has been stored since, as `SEVStore.Update` does.
`emitted` holds the calls to other components made by the last step. `Abort` ends a
handler at any store call with its effects kept: a failing store, a cancelled context
and a dead process all look like this to the database.

`category` stands for every field a partial update copies. The content of a
postmortem is abstracted to the handler that wrote it. A token is a member of the set
of tokens signed; the HMAC is that membership. Authorization is before the model: a
caller who may not see a SEV is answered NotFound before any write. `entry` and `stored` of
a handler are history: which log entry it has written, and whether its row is stored.

`SevContract` is the record the documentation describes. An unlock gives a key of one SEV
for `Lifetime`; while it is good, a session of that SEV may begin; a locked SEV, its
postmortem and the review included, changes only by the one save of a session, after which
it is locked again. The mapping takes a handler that read a locked row and got past the
check as the session (`Sessions`), the tokens as the keys. Two things the documentation says
are not so: a token opens any number of sessions until it expires, each for one save, which
the contract therefore allows; and reviews look at no lock, which the contract
forbids. `KeepsContract` is `SpecButReviews`, the contract with `ReviewLocked` as the only
other step (finding 3).

### WsHub

`Publish` holds the read lock for its whole fan-out (`pub[p].todo` # {} until
`PublishDone`), so `Join`, `SubscribeFrame`, `UnsubscribeFrame` and `Close`, which
take the write lock, need every publisher to be out. `rooms` and `joined` are the
code's two copies of membership (`Hub.rooms`, `Client.rooms`). `PeerGone` is a peer
that vanishes without a word; `ReadFails` is then the read deadline.

`HubContract` knows of no lock, queue or fan-out: an event is published in one step and then
due to each of its audience, which gets it, or misses it to a full buffer of others, or
fails. The mapping says an event is due to a client as long as the client is to be served
(`Underway`) or holds it in its queue (`Queued`); `Publish` is the contract's step, `Deliver`
none, unless the buffer is full, and then it is `Miss`; `Write` is `Get`. A failed write
takes the head of the queue and closes the connection: to the contract, the connection
fails.

### Escalation

A scan is `ScanList` (open, non-sensitive SEVs, newest first, first page; thresholds),
`ScanRoles` per SEV, `ScanEvaluate`, then `ScanAlarm` and `ScanMark` per SEV due. The
list is a set of SEVs, each numbered in the order of `created_at`; a loop over it takes the
newest member that is left (`Newest`), and the page is the members with fewer than
`Limit` newer ones (`FirstPage`). `scan.read` is the copy of rows and thresholds. The
handlers' full-row update does not name the marker column, so the SEV handlers are
atomic here. `Faults` selects which calls may fail; a crash ends the scan and the
AssignRole calls in flight. `told` and `stale` are history: `told` has the SEVs alarmed since
they were last without a commander and open, `stale` those whose marker speaks of an earlier
such time (the clear failed, was lost, came before the marker, or is never made because the
SEV left the open statuses). No guard reads them.

### AiDispatcher

A job is one accepted trigger or one request. Its goroutine goes through `gate`
(the SEV is read again and its eligibility checked), `resolve` (the plugins are
read and copied), and for each call `Allow` (the limiter, under its mutex), `BuildContext`
(the prompt), `Store` (the provider's answer, stored). A prompt is abstracted to the SEVs it
names: the job's own and up to five others that share a service with it, whichever those
are, of which only the sensitive ones are left out (`Unhidden`); `prompt` holds what a
goroutine has sent until its next step. The status history and the announcements of the
job's own SEV, which the code reads for the prompt as well, are of that SEV. `Restart`
empties everything held in memory. `grants` and `fit` are history variables: they record
what the limiter let through and for which jobs the SEV was eligible; no guard reads them.

### SlackBot

Three parties. A *filing* is one CreateSEV and, when `/sev open` called it, the bot's
goroutine behind it: on-call assignment, publication, then `ChannelOrRegisterOpener`
(one critical section of the bot's mutex) and perhaps `InviteOpener`. The *listener* makes
one channel at a time, in the order of `createIncidentChannel`: `CreateChannel`,
`WriteBack`, `ResolveRoleHolders`, `ResolveCreator`, `TakePendingOpener`, `InviteUsers`.
An *assigner* is one AssignRole: the SEV is read, the role stored, its holder invited if
the SEV *as read* had a channel. `CreateChannel` puts channel and map entry in place in one
step: the answer of Slack and the locked write are consecutive and only the opener's
critical section sees the map.

`stream` is the hub's buffer for the bot (`WsHub` models the hub itself): an event is
dropped when the bot is away or the buffer full. `spoiled` records the SEVs for which a
promise was excused: a call failed, an event was lost, a restart found them in flight.
`due` records the role holders somebody was bound to invite. No guard reads either. A
failure of one call for a SEV excuses that SEV only, and the other calls for it still go
on as in the code. Neither the bot's gRPC connection nor the Slack client has a deadline
(main.go:68, commands.go:165, integrations/slack/client.go:63): `NoAnswer` is a command whose
own call never returns (`hung`, until a restart), and the listener may stand still at any
step.

Left out: posted messages, Slack identities (users without one are skipped by the code),
the commands that only forward to a handler. Slack is taken to accept an invitation of
someone who is in the channel already. A pending opener whose channel could not be made
stays in the map until the bot restarts, one entry per such SEV (`spoiled` in
`PendingTaken`).

### Accounts

A handler reads before the bcrypt hash and writes after it, so `Register`/`CreateUser` and
`Login`/`RespondWithToken` are two steps each. `Validate` is the signature, the expiry and
the claims of a presented token, which may be any token ever signed; `Authorize` is the
interceptor's look at the account and the role check by the *claims*; then the handler.
UpdateUserRole, DeactivateUser and ReactivateUser read a row (`ReadUser`) and store role
and activity together (`SaveUser`). `origin`, `asked`, `overrun` and the `shut` field of a call
are history.

### BotSession

`cached` is the token, `login` the holder of the lock with how far its login is: asked,
signed by the server, answered. A call gets a token, is sent, and when it is refused logs in
by force and is sent once more. `RefreshToken` is the refresher's tick; it and a call
may both log in, one after the other. The server's side is what the bot can tell of it:
secret and activity.

### Integrations

UpsertIntegrationConfig is `LoadConfig` (the stored row, merged with what is asked),
`WriteConfig`, `RefreshClient` (the resolver, which refuses incomplete settings) and, if it
refused, `RollBack`. `StartServer` builds the client from the row, which fails for a row it
cannot read or unseal. `apart` records the causes for which row and client may differ.

### Tasks

`Task.days` stands for the priority. CreateGitHubIssue and CreateJiraIssue open the issue
(`OpenIssue`, `RefuseIssue`, or an answer that is lost), then store the task
(`CreateTask`), and otherwise `Report` the URL with the error. ListTasks is `ListTasks` (the
SEV), `ListBySEVID`, and `SetDueDateIfUnset` per task without a date: a conditional
write, which on losing reads the row again (`GetTask`). The tracker is external.

### Sharing

Every call that shows something reads the SEV, then perhaps the grant (`HasAccess`), then
lists (`ListPosts`). `may` and `late` are history fields of the call. A link's token is
its claims, so two links of one SEV with the same second and lifetime are one token.

### SlaRisk

One SEV stands for all: a scan treats each by itself. `ListCandidates` copies the row,
`ListForServices` reads the targets, `NotifySlaStatus` sends the notification that is due,
`UpdateSLANotifiedStatus` stores the marker. The evaluation is that of `EvaluateSLA`: the
smallest target over the services attached; at risk while the time elapsed is over it and
the metric is not final, breached when its final value is over it.

## 3. Runs

All runs use 2 workers, and each takes less than two minutes.

| Run | Bounds | What it shows |
|---|---|---|
| `lifecycle_one` | 2 SEVs, 1 handler, 1 category, log ≤ 5, token life 1, clock ≤ 1 | with one handler at a time, stopped anywhere, SevLifecycle implements `SevContract` but for reviews of a locked postmortem (finding 3): legal moves only, and under the lock nothing but the one save of a session begun while a token of *that* SEV was good; tokens expire in the run |
| `lifecycle_race` | 1 SEV, 2 handlers, clock ≤ 1, log ≤ 5 | lock, metrics, log and tokens stay consistent under every interleaving and stop, and an event of a change is sent only when the handler's row is stored and its log entry written |
| `unrecorded_change` (violation) | 1 SEV, 2 handlers | see finding 1 |
| `lock_race` (violation) | 1 SEV, 2 handlers | see finding 2 |
| `locked_review` (violation) | 1 SEV, 1 handler | see finding 3 |
| `wshub` | 2 connections, 2 publishers, buffer 2, 3 events, 1 SEV and the broadcast room; connections made and events published 4 together (`MaxTurns`) | rooms agree, no send on a closed channel; the fan-out implements `HubContract`: each event to those subscribed at one moment, once, in its publisher's order, missed by a full buffer or a failed connection only; publishers return, gone clients leave |
| `escalation` | 2 SEVs, all statuses and back to open, page of 2, 1 role, 1 failure of any kind, clock ≤ 1 | no alarm twice for one marker, no marker without an alarm, no alarm without cause; every overdue SEV is alarmed for the time it is overdue now, again after its marker was cleared, unless a marker left from before silences it |
| `escalation_page` (violation) | 2 SEVs, page of 1 | see finding 4 |
| `dispatcher` | 2 workers, 1 client, 2 SEVs of which 1 has jobs, rows plain, sensitive, closed to AI and minor, 1 plugin (on triggers with limit 2, or on demand without limit), 2 jobs, queue of 1, window of 2, clock ≤ 2, restarts | queue and limiter keep their bounds, prompts are built for eligible SEVs and name no sensitive one beside, no action twice, every accepted trigger is run |
| `slackbot` | 2 SEVs, 1 user, 1 filing, 1 AssignRole at a time, buffer 1, 1 failure of any kind, calls that never answer | registered openers are collected, openers and timely role holders are invited, every command is answered unless a call of its own never is |
| `uninvited_holder` (violation) | 1 SEV, no failures | see finding 5 |
| `services` | 2 requests at once, 1 failure of any kind, clock ≤ 1; 2 accounts, 2 tokens; 1 change of the bot's secret; 1 credential, complete or partial settings, 1 change of the encryption key; 1 task, 1 issue; 1 viewer, 1 trusted user, 1 announcement, 1 change of the share secret; 1 service with a target of 0 or 1 | each of the six services keeps what section 1 says of it, under stale writes, refusals, lost answers and restarts |

Why these bounds are enough. *Lifecycle*: a race needs one SEV and two handlers; two
SEVs matter only where a token of one might open the other, which is `lifecycle_one`; its
one tick of the clock ends the life of the tokens signed before it.
The log bound of five entries is a full main path (open, mitigated, resolved,
in progress, complete) plus the reopening. Times 0 to 2 order every pair of
timestamps, negative metrics included. *Hub*: with three events and two publishers one
publishes twice while the other fans out; a buffer of two has an order, and is full before
the third event, so events can be reordered, repeated or dropped; with two
connections one can be closing while the other is served. `MaxTurns` leaves out only the
runs in which both connections are made and all three events are published. *Escalation*:
thresholds of 0 and a clock of 1 make a SEV due; two SEVs make a scan that fails in the
middle; the way through the statuses ends where it began, and one role is assigned and
removed, so a SEV is overdue a second time with or without the marker of the first.
*Dispatcher*: with a window of 2 ticks and a clock to 2 two windows meet; the second SEV
is one a prompt may name; the deeper
counts are the business of the proof, which has no bound on any of them.
*Slack bot*: the races are between the parties of one SEV, and roles come and go;
a second SEV keeps the listener busy, fills the buffer and is what the restart, the
lost event or the failing call leaves alone. One user is opener, creator and holder, so
an invitation by either way counts, and the proofs cover any number of them.
*Escalation page*: a page of one stands for the hundred rows of the store, with two SEVs
for a hundred and one. *Services*: the races are between two handlers of one row, or one
handler and a restart; two accounts are the first user and another, two tokens an old
one and a new one. One clock tick ends every lifetime (1) and separates a request from
what it read. `MaxSecrets` is 0, so tokens meet a changed secret in the proof of
`DeactivationCorrect` only; `RetrySuffices` and `BotSignsInAgain` have the secret changed. The
six services share nothing but `Environment`, so one run takes them in turn: `focus` says
whose behaviour it is, and the others keep still.
Four runs take states as one that differ in nothing their properties or guards can tell
(`View` in the MC modules). `lifecycle_one` leaves out `emitted`, which no guard reads and
`SevContract` does not see, and of the log all but its length; `wshub` what was written to
the connections, `got`, of which `HubKeepsContract` asks only what each step appends;
`escalation` the parts of a scan's copy that can make no SEV due any more, and of the two
counters all but how far they are apart and whether there was an alarm; `dispatcher` a
window that is over, grants that share no minute with a later one, and the order of a
job's outputs. `lifecycle_race` treats handlers as interchangeable
(symmetry), which is sound as no liveness property is checked there.

`CHECK_DEADLOCK FALSE` is everywhere: the bounds on clock, log, events and jobs stop the
models where the system would go on, and a system with no request really is idle.

Fairness. The hub's goroutines run, reads and writes have deadlines (`pongWait`,
`writeWait`), hence weak fairness of each publisher and each write pump; the handler's own
goroutine (`HandlerStep`) needs strong fairness, since its `Join` and `Close` take the write
lock, which is free only between publications, and `sync.RWMutex` lets no new reader in
while a writer waits. No fairness is assumed of clients, of
subscriptions or of new publications. The escalation scanner's ticker runs while the
server does (`WF_vars(Scan)`); no fairness of handlers. The bot's refresher has a ticker of
its own and each of its logins a deadline (`WF` of `RefreshToken` and of `LoginStep` in
BotSession, restated in ServicesMC for its behaviours): no call is needed for the bot to sign in again. The dispatcher's workers loop
until the background context is cancelled and each provider call has a timeout:
`WF_vars(Take(w) \/ Step(w))` of each worker, none of the clients. The goroutine of a
`/sev` command and the handler it calls run, `WF_vars(FilingStep(f))`, but for a call of the
command that never answers, which may happen at any time (`NoAnswer`, no step of
`FilingStep`). No fairness is assumed of the listener, whose calls have no deadline either,
nor of reconnections, assignments or clients.

Every property has a mutant in `PROJECT.json`: an operator marked `Mutant:` in the
module, which changes one definition as a plausible bug would, and makes the property
fail. They are not part of any specification.

## 4. Findings

1. **A status change no log entry records** (`unrecorded_change`). UpdateSEV stores the
   row it read. If a transition is stored in between, its status is undone;
   docs/architecture.md:210 says every transition records from and to.
2. **A locked SEV changes with no token** (`lock_race`). The lock is checked on the copy
   UpdateSEV read; a completion stored before its Update is overwritten, lock included
   (docs/architecture.md:241). `LockFollowsStatus` survives, since flag and status are
   overwritten together.
3. **The postmortem of a locked SEV can be reviewed** (`locked_review`).
   TransitionPostmortemStatus reads no lock; docs/requirements.md:186 says the document
   becomes read-only.
4. **Overdue SEVs beyond the first page** (`escalation_page`). The scanner lists with no
   limit, for which the store takes 100, newest first. With more open SEVs than that the
   oldest are never evaluated (main.go:816 says every open SEV is).
5. **A role holder nobody invites** (`uninvited_holder`). AssignRole reads the SEV, stores
   the role, and invites if the SEV it read had a channel. When the bot makes the channel
   and lists the roles between the read and the store, AssignRole saw no channel and the
   bot no role; role.go:149 says the holder is invited if the SEV already has one. Reading
   the SEV again after the store would close the gap (the bot writes the channel back
   before it lists the roles).

Met while modelling, and without a run of its own:

- Two transitions from one status can both be validated, logged and stored
  (docs/architecture.md:202 has one state machine); `HistoryConnected` still holds.
- A token can be used any number of times until it expires: the record relocks on the next
  save (docs/architecture.md:241, docs/requirements.md:189), but the same token opens it again
  (docs/user-guide.md:342 "the next save uses up the unlock").
- The reason of an unlock is logged best effort, after the token was signed
  (docs/requirements.md:188); `SignToken` has `logged` for it.
- A SEV completed a second time keeps the first completion time, unless the request
  carries one (docs/requirements.md:30).
- UpdatePostmortem and TransitionPostmortemStatus overwrite each other's columns
  (docs/user-guide.md:318).
- A SEV can be stored without its postmortem when CreateSEV stops between the two
  (store/models.go:371); nothing makes one later (theorem `UndocumentedOnlyByStop`).
- A SEV whose roles cannot be listed is alarmed as one without a commander
  (main.go:849, against 799): `AlarmsSound` allows for it.
- The scanner can store its marker after AssignRole has cleared it (role.go:134). The
  SEV is then silent should the commander be removed; `AlarmsCounted` and
  `NoSilentMarker` hold nevertheless.
- The marker outlives a SEV's leaving the open statuses (store/models.go:200-202 has it
  cleared then), so a SEV that is opened again stays silent: one of the causes `stale`
  stands for in `OverdueAlarmed`. The others are a clear that failed or was lost with the
  server, and a marker stored after the clear.
- A prompt names up to five other SEVs of the same services by id, title and root cause
  category. The listing leaves out the sensitive ones, not those with `ai_disabled`
  (ai/dispatcher.go:567-583; 186-190 "excluded from every dispatch path"). `CallsWarranted`
  says what does hold of them.
- The bot's calls to the server and to Slack have no deadline (cmd/slackbot/main.go:68,
  integrations/slack/client.go:63), and an event is handled where the listener reads the next:
  one call that never answers ends the making of channels until the bot restarts, and a
  command whose own call never answers is not answered either. That the listener blocks no
  command is `CommandsAnswered`.
- Two first registrations that are both past the count before either is stored are both
  Admin (password.go:83; docs/requirements.md:281 has one first user). `Bootstrapped` says
  that nobody else is.
- A role change that read the row before a deactivation puts the activity back, and a
  deactivation puts back an old role (config_user.go:55; docs/requirements.md:359).
  `ColumnsAsAsked` and `DeactivatedRefused` say that this is the only way.
- The role checked is the token's (auth/interceptor.go): a role taken away is in force at
  the next sign-in, or when the token expires.
- An update of an integration that the resolver refuses is rolled back in the row, but the
  refusal has left the resolver on its fallback, not on the client the restored row asks
  for, until the next update or start (config_integration.go:193 "never end up
  disagreeing"): cause `refused` in `ConfigInForce`.
- A link between two SEVs can be stored both ways round, and deleting it removes one of
  them: sev_link.go:123 says "a single canonical row", migrations/000002_schema.up.sql:189
  that both are inserted; the code does neither.
- A missed RTPC target is never told: the scan lists no completed SEVs, and RTPC is final
  with completion (main.go:879).
- At risk can be undone by editing the timestamps, which store/models.go:212 does not name
  among its exceptions.
- `isOverdue` and `CountOverdue` differ on the day a task is due (store/store.go:81 calls
  one a mirror of the other): the column is a date, the comparison is with an instant.
- Two share links of one SEV with the same lifetime, made in the same second, are the same
  token; the second is refused as an internal error.
- A worker holding a copy of a deleted plugin creates its rate-limit window anew after it
  was evicted (ai/dispatcher.go:397): one leaked entry, no effect on a limit.

## 5. Proofs

The theorems hold for every value of the constants that meets the named assumptions:
`NilAssumption` and `ConstantsAssumption` (nil is no other value, be it a number, a status or
a row; the requests come from the declared types), `DispatcherAssumption` (the same; the window is not empty; workers and
clients are different goroutines), `BotAssumption` (nil is no other value; a buffer of one
event at least), `EscalationAssumption`, `EnvironmentAssumption`, `AccountsAssumption`,
`IntegrationsAssumption`, `TasksAssumption`, `SharingAssumption`, `BotSessionAssumption`,
`SlaRiskAssumption` and the hub's own (nil is no other value, what requests come with has its
type, bounds are natural numbers). TLC evaluates them on
every run.

| Theorem | Inductive invariant |
|---|---|
| `SevLifecycleProofs!TypeCorrect` | `TypeInv`: `TypeOK` and `HandlersOK`, the shape of a handler's private copies at each `pc` (at `saveSEV` it holds a row, and so on): without it the whole-row write could store nil |
| `!LockCorrect`, `!MetricsCorrect` | `SoundInv`: the stored rows *and every copy in flight* have lock ⇔ completed and metrics of their timestamps. The copies are needed: a stale one may be stored at any time, and what saves the invariant is that each copy is sound in itself |
| `!StatusLoggedCorrect`, `!HistoryCorrect`, `!TokensCorrect` | `LogInv`: every status held or stored has been reached by the log, which only grows; a handler past `addHistory` has its target in the log; UnlockSEV past its check has a logged completion behind it |
| `!EventsCorrect` (an action property) | `RecordInv`: a handler past `addHistory` knows its own entry in the log, from the status it read to the one it is to store, and one past `saveSEV` has stored its row; entries are never taken out. The calls that tell of the change are made by `AnnounceSEV` only |
| `!CompletionsEarned` | the same `LogInv`: each entry starts where an earlier one ended, so from a completion the chain of entries leads back through in progress and resolved to mitigated. A SEV that is locked, or that a token was signed for, has that whole way in its log, in order |
| `!LockPassedOnlyBy`, `!UnloggedOnlyByStale` (action properties, of every interleaving) | `BackedInv`: a handler that has read a locked row has seen a token signed for the SEV; what a handler is to store has the status it read, or the log has an entry from the one to the other. So a write that passes the lock, or changes a status unlogged, is one whose copy was overtaken, or a review, or the end of a creation |
| `!UndocumentedOnlyByStop` (an action property, of every interleaving) | `DocInv`: a handler about to store a row or a postmortem over the one it has read stores it over something, since neither store ever loses one. So only CreateSEV makes a SEV, or the first postmortem of one, and only its stop between the two leaves a SEV without |
| `!ContractKept`, `!ChangesRecordedAlone`, `!LockGuardsAlone`, `!DocumentGuardedAlone`, each under `[]OnePerSEV` | `AloneInv`: what a handler has read of its SEV (`Current`) is still so when it writes: the status, or the entry for its change; that the lock is open or was opened; that the document is there. A step touches the stores of its own SEV only (`OtherSEVsStay`), so the handlers of other SEVs keep theirs. Each write is then a step of `SevContract`, or `ReviewLocked`; the check of the lock begins a session if the row is locked and a token good, the save or a stop ends it, and with one handler on a SEV no other opens or ends it meanwhile; every other step is a stutter |
| `AiDispatcherProofs!TypeCorrect` | `TypeInv`: `TypeOK` and `GrantsNumbered` (grants of a plugin are numbered 1 to their count) |
| `!RateCorrect` | `RateInv`: the windows of a plugin do not overlap, each has at most `Ceiling` grants and begins with one. A minute meets at most two windows; if both are full, the minute would have to hold the first grant of each, which lie a whole window apart |
| `!RateOverSpans` | `PaceInv`, with `RateInv`: grants are numbered without gaps, those of the open window are the last ones, each window has a grant at its start before its others, and `Spread`: k times `Ceiling` grants on, k windows have passed. A new grant is the `Ceiling`-th at most of its window, so one of an earlier window lies within `Ceiling` before it, to which `Spread` applies with k - 1; so no induction over the minutes is needed beyond the one over the steps |
| `!CallsCorrect` (an action property) | `FitInv`: a job past the gate is in `fit`, and nothing takes it out before the job ends; only `BuildContext` makes a prompt (`StepPrompts`), and it names those it lists |
| `!OnceCorrect` | `OnceInv`: a job number is in the channel once, or in one goroutine's hands, or over; in the channel it has no output, and in hand none of a call still to be made, of which it has one for each plugin and action |
| `SlackBotProofs!TypeCorrect` | `TypeInv`: `TypeOK`, and wherever a command, a handler, the listener or an event stands, its SEV is stored; a command that is to register an opener has one |
| `!PendingCorrect`, `!OpenerCorrect` | `BotInv`: `PlacesInv`, a SEV is filed, published, read by the listener and in the map of channels in this order and in one place at a time, so that a command which finds no channel has the listener's take still ahead; and `Promise(s)`, the opener of s is in the channel, or a command is still on its way, or it is registered with the take ahead, or in the listener's list. Without `PlacesInv` an event could be read after its SEV's opener was taken |
| `!HoldersCorrect` | `HolderInv`: `BotInv`, the channel exists once the listener is past making it, and each holder in `due` is in the channel, or on the list of roles the listener has yet to read, or among its invitees, or an AssignRole is about to invite them; a SEV without a channel has that reading ahead, which is what covers an AssignRole that finds none |
| `WsHubProofs!HubTypeCorrect`, `!RoomsCorrect`, `!TargetsCorrect`, `!OrderCorrect` | `HubInv`: the properties; a client whose channel is closed is past reading frames, so it joins no room again; and an event on its way is younger than whatever its publisher has put into the queue of a client it has yet to serve, which is what makes the order inductive |
| `!HubContractKept` | `ServedInv`: `HubInv`, and `Phases`: a connection whose handler has yet to read a frame has not failed, and one past reading has. So a failed connection joins no room, only a failed one is closed, and a full queue holds as many different events as the buffer has places, none of them the one being delivered |
| `EscalationProofs!EscTypeCorrect`, `!AlarmsCountedCorrect`, `!NoSilentMarkerCorrect` | `EscInv`: a SEV that bears no marker and whose alarm is not just being sent has had no more alarms than markers cleared or lost; and whatever a scan has read or found due without a marker has none still. The second is why nothing but the scanner may set one |
| `!MarkerTracedCorrect` | itself, with `TypeOK`: whoever stores a marker puts the SEV in `told` or in `stale`, and a step that takes it out of one puts it into the other, takes the marker away, or begins an AssignRole that will (`Clearing`) |
| `!AlarmsSoundCorrect` (an action property) | `BareInv`: during a scan a SEV without a commander is in `bare`, a SEV read is yet to be looked at, counted as having one, or in `bare`, and what is due is in `bare` |
| `!OverdueListedCorrect`, for finitely many SEVs | `TypeOK`: while the open, non-sensitive SEVs are no more than `Limit`, the first page is all of them, so every overdue one is listed. Finding 4 is the case beyond |
| `AccountsProofs!AccTypeCorrect` | `AccTypeInv`: `AccTypeOK`, and whoever was let in has a row (no row is ever deleted) |
| `!BootstrapCorrect` | `FirstInv`: whoever is about to be stored as Admin was under way when the first was stored, or nobody is stored; a viewer is stored only after somebody |
| `!ColumnsCorrect` | `ColumnInv`: a copy no other write has overtaken agrees with the row on the column its handler leaves alone |
| `!DeactivationCorrect` | `ShutInv`: a call that has yet to be let in remembers a deactivation only while it stands, and then the row still shows it; it rests on `ColumnInv`, since a stale write may undo one |
| `ServicesProofs!IntTypeCorrect`, `!InForceCorrect` | `InForceInv`: an update half way that no other has overlapped has the row to itself; one that is to be undone has left the fallback; one that was overlapped has said so in `apart`, or will |
| `!ShareTypeCorrect`, `!DisclosedCorrect` | `ShareInv`: before the check, a caller who may be shown the SEV now has `may` set; past it `may` is set; a call past the check of the link's row is not late, and a public list holds what is external |
| `!TaskTypeCorrect`, `!DueDatesCorrect`, `!IssuesCorrect` | `TaskInv`: a backfilled row has its date, a row without one was never backfilled nor asked for; the dates a list has gathered are dates the tasks have had; an opened issue is in one place at a time |
| `!BotTypeCorrect`, `!RetryCorrect` | `RetryInv`: a call that may rely on the retry, and has been refused or has yet to be sent again, holds or will get a token of the server's present secret; a login under way fits the secret it was asked under, or the secret has changed since, and then nobody relies on it |
| `!SlaTypeCorrect`, `!SlaToldCorrect` | `SlaInv`: a level the marker does not cover was told no more often than its marker failed to be stored, and a scan about to store one may have told it once more; what a scan copied of the marker still is so when it decides; a scan nothing happened under holds the row and the services there are, and has found a breach if there is one. That rests on `MostStrictLeast`, the target `MostStrict` chooses is no larger than any service's (a set of numbers has a least one: well-foundedness of <) |
| `!BreachesMeantCorrect` (an action property) | `BreachSeen`, with `SlaInv`: the other way about, a scan nothing happened under decides on a breach only where some service's own target is exceeded |
| `!ServicesTypeCorrect`, `!ServicesSafe` | `ServicesInv`: the six invariants side by side. They share the clock and the failures, so the steps of one are shown to leave the invariants of the others alone |

The hypothesis `[]OnePerSEV` of four theorems says that no two handlers are at
work on one SEV at once; handlers of different SEVs interleave as they like, and each may stop
anywhere. The server does not see to it: findings 1 and 2 are what happens when it does not
hold, and the theorems say that this is the only way to get there. `lifecycle_one`
checks the case of a single handler. `LockPassedOnlyBy` and `UnloggedOnlyByStale` need no such
hypothesis and name the writes findings 1 to 3 come from: a fix that checks the row again
when it stores it would leave the review and the creation. `DocumentGuardedAlone` says what
finding 3 comes to without a race: the content of a locked postmortem stays, its status moves
legally.

`OrderCorrect` is about the queues and what was written to the connections together; no run
states it, as `HubKeepsContract` says of what was written what it says, and more.

Only model-checked: the liveness properties (`PublishersReturn`, `GoneClientsLeave`,
`OverdueAlarmed`, `AcceptedRuns`, `CommandsAnswered`, `BotSignsInAgain`), since fairness is out
of the prover's reach. Every safety property a passing run checks is proved; of the five
properties a run finds violated, `StatusChangesRecorded` and `LockedRowGuarded` are proved under
`[]OnePerSEV`, and `LockedDocumentGuarded` but for the review (`DocumentGuardedAlone`).

## 6. Not modelled, and why

Text and I/O (prompts, provider protocols, Slack and Jira payloads, SQL, encryption,
telemetry); read-only services (search, reports); configuration rows nothing else
depends on (retention, leveling criteria, services, on-call schedules); single inserts and
deletes (SEV links, chat references); the web client, whose requests are the models'
inputs. Of the models' own components: pagination other than the scanner's, role types other
than the Incident Commander's, the order of an AI job's calls, the text of a
postmortem, the integrations other than Jira (which apply the same two steps with fewer
settings), the bot's commands that only forward to a handler. Stores are taken to be
linearizable for single rows, as PostgreSQL is.

How much of the source this covers. Of the 56,800 lines of Go outside the tests, some 31,900 are
generated from the protocol files (`internal/api/pb`) and 3,900 by sqlc
(`internal/store/queries`). Of the remaining 21,000, most is conversion between
messages, rows and models, SQL, text for providers and chat, HTTP clients and wiring, which
has no state of its own and no order of steps a property could be about. The models
therefore map a small share of all lines, and a large one of those that decide anything:
the scanners, queues, pools, caches and retries, and the handlers that read a row and then
write it, save those of the rows listed above.

## 7. Plan

Done: 1. SevRecord, SevLifecycle, SevContract and their proofs; 2. WsHub and its
proofs; 3. Escalation and its proofs; 4. AiDispatcher and its proofs; 5. SlackBot and its
proofs; 6. Tasks, Sharing, Integrations and their proofs; 7. Accounts and its proofs,
BotSession; 8. SlaRisk; 9. proofs of `SlaTold` and `RetrySuffices`, of the six services
together, and of SevContract for SevLifecycle with one handler per SEV; 10. HubContract and
its proof, and theorems on what passes a SEV's lock and log when handlers interleave and on
what a stopped creation leaves; and on the limiter over any number of minutes.

Next:

11. Further theorems: an abstract specification of the invitations to an incident channel.
12. The bot's settings refresh, and the other role types.
