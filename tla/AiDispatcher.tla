------------------------------ MODULE AiDispatcher ------------------------------
(***************************************************************************)
(* The AI plugin dispatcher (internal/ai/dispatcher.go) and its rate       *)
(* limiter (internal/ai/ratelimit.go), with the administrator who          *)
(* registers, changes and deletes plugins (internal/api/grpc/config_ai.go) *)
(* and the handlers that change a SEV's flags.                             *)
(*                                                                         *)
(* The lifecycle handlers enqueue triggers, a pool of workers drains the   *)
(* queue, and clients run single actions on their own goroutine; both go   *)
(* through the same steps, each a store call, a provider call or a visit   *)
(* to the limiter. A job is one trigger accepted or one request made.      *)
(* The order in which a job makes its calls (plugins by name, actions as   *)
(* listed) is left open.                                                   *)
(***************************************************************************)
EXTENDS Integers, Sequences, FiniteSets

CONSTANTS
    Nil,
    SevId,
    Worker,         \* the pool's goroutines
    Client,         \* goroutines of TriggerAction and StreamAction
    QueueSize,      \* taskQueueSize (256)
    Minute,         \* length of a rate-limit window
    Ceiling,        \* no plugin is configured with a higher limit
    Events,         \* the lifecycle events that happen
    Asked,          \* the actions users ask for
    Subject,        \* the SEVs that events happen to and users ask about
    Rows,           \* the flags the SEV handlers store
    Settings,       \* what an administrator stores of a plugin
    MaxPlugins,     \* bound: plugins ever created
    MaxJobs,        \* bound: triggers and requests
    MaxTime         \* bound: the clock stops here

Event == {"sev.opened", "sev.mitigated", "sev.resolved", "postmortem.in_review"}

Action == {"summarize", "suggest_root_cause", "draft_postmortem", "suggest_tasks",
           "find_similar", "suggest_responders", "draft_announcement"}

PluginId == 1 .. MaxPlugins
JobId == 1 .. MaxJobs
Actor == Worker \union Client

\* major: severity level 1 or 2.
SevRow == [sensitive : BOOLEAN, aiDisabled : BOOLEAN, major : BOOLEAN]

\* limit 0 is "unlimited"; on is the set of trigger flags.
Setting == [enabled : BOOLEAN, on : SUBSET Event, limit : 0 .. Ceiling]

Win == [start : Nat, count : Nat]

\* The most SEVs a prompt names beside its own.
MaxSimilar == 5

ASSUME DispatcherAssumption ==
    /\ Nil \notin SevId /\ Nil \notin Setting /\ Nil \notin Win
    /\ Worker \intersect Client = {}
    /\ Events \subseteq Event /\ Asked \subseteq Action /\ Subject \subseteq SevId
    /\ Settings \subseteq Setting
    /\ Rows \subseteq SevRow
    /\ QueueSize \in Nat /\ Minute \in Nat \ {0} /\ Ceiling \in Nat
    /\ MaxPlugins \in Nat /\ MaxJobs \in Nat /\ MaxTime \in Nat

VARIABLES
    sevs,       \* sevs[s]: the columns of s the dispatcher's gates read
    plugins,    \* plugins[p]: the stored plugin, Nil before and after its time
    lastPlugin, \* the last plugin id given out
    queue,      \* the tasks channel
    lastJob,    \* the last job number given out
    loc,        \* loc[a]: where goroutine a stands
    wins,       \* wins[p]: the limiter's window of p, or Nil
    outputs,    \* outputs[j]: the ai_outputs rows of job j
    now,
    prompt,     \* prompt[a]: the SEVs named in what goroutine a has sent to a provider
    grants,     \* history variable: grants[p], the requests of p the limiter let
                \* through since the server started, numbered, each with its
                \* time and its window's start
    fit         \* history variable: goroutines whose job was fit for AI at some
                \* time since they began it

vars == <<sevs, plugins, lastPlugin, queue, lastJob, loc, wins, outputs, now,
          prompt, grants, fit>>

QueuedTask == [job : JobId, event : Event, sev : SevId]

Call == [plugin : PluginId, limit : 0 .. Ceiling, action : Action]

Output == [plugin : PluginId, action : Action]

Granted == [n : Nat, at : Nat, start : Nat]

\* calls: still to be made; call: being made.
Loc == [pc : {"idle", "gate", "resolve", "next", "call", "store"}, job : 0 .. MaxJobs,
        event : Event \union {"manual"}, sev : SevId \union {Nil},
        calls : SUBSET Call, call : Call \union {Nil}]

Idle == [pc |-> "idle", job |-> 0, event |-> "manual", sev |-> Nil,
         calls |-> {}, call |-> Nil]

Registered == {p \in PluginId : plugins[p] # Nil}

Init ==
    /\ sevs \in [SevId -> {[sensitive |-> FALSE, aiDisabled |-> FALSE, major |-> TRUE]}]
    /\ plugins = [p \in PluginId |-> Nil]
    /\ lastPlugin = 0
    /\ queue = <<>>
    /\ lastJob = 0
    /\ loc = [a \in Actor |-> Idle]
    /\ wins = [p \in PluginId |-> Nil]
    /\ outputs = [j \in JobId |-> <<>>]
    /\ now = 0
    /\ grants = [p \in PluginId |-> {}]
    /\ fit = {}
    /\ prompt = [a \in Actor |-> {}]

-------------------------------------------------------------------------------
(***************************************************************************)
(* The administrator, the SEV handlers and the clock.                      *)
(***************************************************************************)

\* Whether a job about this event may go ahead for a SEV with this row.
FitFor(event, row) ==
    /\ ~row.sensitive /\ ~row.aiDisabled
    /\ event = "sev.opened" => row.major

UpdateSEV(s, row) ==
    /\ sevs' = [sevs EXCEPT ![s] = row]
    /\ fit' = fit \union {a \in Actor : loc[a].sev = s /\ FitFor(loc[a].event, row)}
    /\ UNCHANGED <<plugins, lastPlugin, queue, lastJob, loc, wins, outputs, now, grants,
                   prompt>>

CreateAIPlugin(setting) ==
    /\ lastPlugin < MaxPlugins
    /\ lastPlugin' = lastPlugin + 1
    /\ plugins' = [plugins EXCEPT ![lastPlugin + 1] = setting]
    /\ UNCHANGED <<sevs, queue, lastJob, loc, wins, outputs, now, grants, fit, prompt>>

UpdateAIPlugin(p, setting) ==
    /\ p \in Registered
    /\ plugins' = [plugins EXCEPT ![p] = setting]
    /\ UNCHANGED <<sevs, lastPlugin, queue, lastJob, loc, wins, outputs, now, grants, fit, prompt>>

\* A plugin some output names cannot be deleted (the foreign key of ai_outputs).
\* Its window is dropped in a second call; a request let through between the two
\* might as well have been let through before the first.
DeleteAIPlugin(p) ==
    /\ p \in Registered
    /\ \A j \in JobId : \A i \in DOMAIN outputs[j] : outputs[j][i].plugin # p
    /\ plugins' = [plugins EXCEPT ![p] = Nil]
    /\ wins' = [wins EXCEPT ![p] = Nil]
    /\ UNCHANGED <<sevs, lastPlugin, queue, lastJob, loc, outputs, now, grants, fit, prompt>>

Tick ==
    /\ now < MaxTime
    /\ now' = now + 1
    /\ UNCHANGED <<sevs, plugins, lastPlugin, queue, lastJob, loc, wins, outputs,
                   grants, fit, prompt>>

\* The queue, the windows and the jobs in progress are in memory only.
Restart ==
    /\ queue' = <<>>
    /\ loc' = [a \in Actor |-> Idle]
    /\ wins' = [p \in PluginId |-> Nil]
    /\ grants' = [p \in PluginId |-> {}]
    /\ fit' = {}
    /\ prompt' = [a \in Actor |-> {}]
    /\ UNCHANGED <<sevs, plugins, lastPlugin, lastJob, outputs, now>>

-------------------------------------------------------------------------------
(***************************************************************************)
(* Starting a job.                                                         *)
(***************************************************************************)
Task(event, s) == [job |-> lastJob + 1, event |-> event, sev |-> s]

\* Mutant: the channel takes any number of tasks.
DispatchAll(event, s) ==
    /\ lastJob < MaxJobs
    /\ queue' = Append(queue, Task(event, s))
    /\ lastJob' = lastJob + 1
    /\ UNCHANGED <<sevs, plugins, lastPlugin, loc, wins, outputs, now, grants, fit, prompt>>

\* A task for which the channel has no room is dropped, and nothing changes.
Dispatch(event, s) ==
    /\ lastJob < MaxJobs
    /\ Len(queue) < QueueSize
    /\ queue' = Append(queue, Task(event, s))
    /\ lastJob' = lastJob + 1
    /\ UNCHANGED <<sevs, plugins, lastPlugin, loc, wins, outputs, now, grants, fit, prompt>>

Began(a, event, s) ==
    fit' = IF FitFor(event, sevs[s]) THEN fit \union {a} ELSE fit \ {a}

\* Mutant: the task is left in the channel.
TakeACopy(w) ==
    /\ loc[w].pc = "idle"
    /\ queue # <<>>
    /\ LET t == Head(queue) IN
       /\ loc' = [loc EXCEPT ![w] = [Idle EXCEPT !.pc = "gate", !.job = t.job,
                                                 !.event = t.event, !.sev = t.sev]]
       /\ Began(w, t.event, t.sev)
    /\ UNCHANGED <<sevs, plugins, lastPlugin, queue, lastJob, wins, outputs, now, grants,
                   prompt>>

Take(w) ==
    /\ loc[w].pc = "idle"
    /\ queue # <<>>
    /\ LET t == Head(queue) IN
       /\ loc' = [loc EXCEPT ![w] = [Idle EXCEPT !.pc = "gate", !.job = t.job,
                                                 !.event = t.event, !.sev = t.sev]]
       /\ Began(w, t.event, t.sev)
    /\ queue' = Tail(queue)
    /\ UNCHANGED <<sevs, plugins, lastPlugin, lastJob, wins, outputs, now, grants,
                   prompt>>

\* TriggerAction or StreamAction.
Request(c, s) ==
    /\ loc[c].pc = "idle"
    /\ lastJob < MaxJobs
    /\ lastJob' = lastJob + 1
    /\ loc' = [loc EXCEPT ![c] = [Idle EXCEPT !.pc = "gate", !.job = lastJob + 1,
                                              !.sev = s]]
    /\ Began(c, "manual", s)
    /\ UNCHANGED <<sevs, plugins, lastPlugin, queue, wins, outputs, now, grants, prompt>>

-------------------------------------------------------------------------------
(***************************************************************************)
(* The steps of a job.                                                     *)
(***************************************************************************)
\* What a listing of the SEVs that leaves out the sensitive ones returns.
Unhidden == {s \in SevId : ~sevs[s].sensitive}

Goto(a, l) ==
    /\ loc' = [loc EXCEPT ![a] = l]
    /\ fit' = IF l = Idle THEN fit \ {a} ELSE fit
    /\ prompt' = [prompt EXCEPT ![a] = {}]

\* On to the job's next call, if it has one.
Resume(a) ==
    IF loc[a].calls = {} THEN Idle ELSE [loc[a] EXCEPT !.pc = "next", !.call = Nil]

AIEligible(row) == ~row.sensitive /\ ~row.aiDisabled

\* Mutant: a trigger that does not pass ends the worker.
GateEndsWorker(a) ==
    /\ loc[a].pc = "gate"
    /\ LET row == sevs[loc[a].sev] IN
       Goto(a, [loc[a] EXCEPT !.pc = IF AIEligible(row) THEN "resolve" ELSE "gone"])
    /\ UNCHANGED <<sevs, plugins, lastPlugin, queue, lastJob, wins, outputs, now, grants>>

Gate(a) ==
    /\ loc[a].pc = "gate"
    /\ LET row == sevs[loc[a].sev] IN
       Goto(a, IF /\ AIEligible(row)
                  /\ loc[a].event = "sev.opened" => row.major
               THEN [loc[a] EXCEPT !.pc = "resolve"]
               ELSE Idle)
    /\ UNCHANGED <<sevs, plugins, lastPlugin, queue, lastJob, wins, outputs, now, grants>>

TriggerActions(event) ==
    CASE event = "sev.opened"            -> {"suggest_responders"}
      [] event = "sev.mitigated"         -> {"summarize", "suggest_root_cause"}
      [] event = "sev.resolved"          -> {"draft_postmortem"}
      [] event = "postmortem.in_review"  -> {"suggest_tasks"}

CallOf(p, action) == [plugin |-> p, limit |-> plugins[p].limit, action |-> action]

EnabledPlugins == {p \in Registered : plugins[p].enabled}

\* runTrigger: every plugin that opts in, each with all the event's actions.
ListPlugins(w) ==
    /\ w \in Worker
    /\ loc[w].pc = "resolve"
    /\ LET willing == {p \in EnabledPlugins : loc[w].event \in plugins[p].on}
           calls   == {CallOf(p, action) : p \in willing,
                                           action \in TriggerActions(loc[w].event)}
       IN Goto(w, IF calls = {} THEN Idle
                  ELSE [loc[w] EXCEPT !.pc = "next", !.calls = calls])
    /\ UNCHANGED <<sevs, plugins, lastPlugin, queue, lastJob, wins, outputs, now, grants>>

\* resolvePlugin: the enabled plugin that was named, or the first there is.
ResolvePlugin(c) ==
    /\ c \in Client
    /\ loc[c].pc = "resolve"
    /\ \E p \in EnabledPlugins, action \in Asked :
          Goto(c, [loc[c] EXCEPT !.pc = "next", !.calls = {CallOf(p, action)}])
    /\ UNCHANGED <<sevs, plugins, lastPlugin, queue, lastJob, wins, outputs, now, grants>>

\* The window a request made now is counted in.
Window(p) ==
    IF wins[p] = Nil \/ now - wins[p].start >= Minute
    THEN [start |-> now, count |-> 0]
    ELSE wins[p]

\* Mutant: the window is looked at, not counted in.
Uncounted(p) == Window(p)

Counted(p) == [Window(p) EXCEPT !.count = @ + 1]

HasRoom(p, limit) == Window(p).count < limit

Allow(a) ==
    /\ loc[a].pc = "next"
    /\ \E call \in loc[a].calls :
       LET p    == call.plugin
           left == [loc[a] EXCEPT !.calls = @ \ {call}]
           made == [left EXCEPT !.pc = "call", !.call = call]
       IN \/ /\ call.limit = 0
             /\ Goto(a, made)
             /\ UNCHANGED <<wins, grants>>
          \/ /\ call.limit > 0
             /\ HasRoom(p, call.limit)
             /\ wins' = [wins EXCEPT ![p] = Counted(p)]
             /\ grants' = [grants EXCEPT ![p] = @ \union
                             {[n |-> Cardinality(@) + 1, at |-> now,
                               start |-> Window(p).start]}]
             /\ Goto(a, made)
          \/ /\ call.limit > 0
             /\ ~HasRoom(p, call.limit)
             /\ wins' = [wins EXCEPT ![p] = Window(p)]
             /\ Goto(a, IF left.calls = {} THEN Idle ELSE left)
             /\ UNCHANGED grants
    /\ UNCHANGED <<sevs, plugins, lastPlugin, queue, lastJob, outputs, now>>

\* Mutant: the sensitive SEVs are listed too.
BuildFromAll(a) ==
    /\ loc[a].pc = "call"
    /\ \E similar \in SUBSET (SevId \ {loc[a].sev}) :
          /\ Cardinality(similar) <= MaxSimilar
          /\ prompt' = [prompt EXCEPT ![a] = {loc[a].sev} \union similar]
    /\ loc' = [loc EXCEPT ![a].pc = "store"]
    /\ UNCHANGED <<sevs, plugins, lastPlugin, queue, lastJob, wins, outputs, now, grants,
                   fit>>

\* buildContext: the SEV as the gate has read it, and up to five others that share a
\* service with it, whichever those are. Of these only the sensitive ones are left out:
\* one with AI disabled is named.
BuildContext(a) ==
    /\ loc[a].pc = "call"
    /\ \E similar \in SUBSET (Unhidden \ {loc[a].sev}) :
          /\ Cardinality(similar) <= MaxSimilar
          /\ prompt' = [prompt EXCEPT ![a] = {loc[a].sev} \union similar]
    /\ loc' = [loc EXCEPT ![a].pc = "store"]
    /\ UNCHANGED <<sevs, plugins, lastPlugin, queue, lastJob, wins, outputs, now, grants,
                   fit>>

\* The provider has answered, within its timeout, and the output is stored and announced; an
\* output of no stored plugin is refused.
Store(a) ==
    LET call == loc[a].call IN
    /\ loc[a].pc = "store"
    /\ call.plugin \in Registered
    /\ outputs' = [outputs EXCEPT ![loc[a].job] =
                     Append(@, [plugin |-> call.plugin, action |-> call.action])]
    /\ Goto(a, Resume(a))
    /\ UNCHANGED <<sevs, plugins, lastPlugin, queue, lastJob, wins, now, grants>>

\* A store call, the provider or its set-up fails, or the client goes away.
Fail(a) ==
    /\ \/ loc[a].pc \in {"gate", "resolve"} /\ Goto(a, Idle)
       \/ loc[a].pc \in {"call", "store"} /\ Goto(a, Resume(a))
    /\ UNCHANGED <<sevs, plugins, lastPlugin, queue, lastJob, wins, outputs, now, grants>>

Step(a) ==
    \/ Gate(a) \/ ListPlugins(a) \/ ResolvePlugin(a)
    \/ Allow(a) \/ BuildContext(a) \/ Store(a) \/ Fail(a)

Next ==
    \/ \E s \in SevId, row \in Rows : UpdateSEV(s, row)
    \/ \E setting \in Settings : CreateAIPlugin(setting)
    \/ \E p \in PluginId, setting \in Settings : UpdateAIPlugin(p, setting)
    \/ \E p \in PluginId : DeleteAIPlugin(p)
    \/ \E event \in Events, s \in Subject : Dispatch(event, s)
    \/ \E c \in Client, s \in Subject : Request(c, s)
    \/ \E w \in Worker : Take(w)
    \/ \E a \in Actor : Step(a)
    \/ Tick
    \/ Restart

Spec == Init /\ [][Next]_vars

\* The workers of a running server keep running, and every provider call ends by
\* its timeout.
FairSpec == Spec /\ \A w \in Worker : WF_vars(Take(w) \/ Step(w))

-------------------------------------------------------------------------------

\* Every variable has its type; the queue stays within its capacity, and a job
\* in progress is about a SEV.
TypeOK ==
    /\ sevs \in [SevId -> SevRow]
    /\ plugins \in [PluginId -> Setting \union {Nil}]
    /\ lastPlugin \in 0 .. MaxPlugins
    /\ queue \in Seq(QueuedTask)
    /\ Len(queue) <= QueueSize
    /\ lastJob \in 0 .. MaxJobs
    /\ loc \in [Actor -> Loc]
    /\ \A a \in Actor : /\ loc[a].pc # "idle" => loc[a].sev \in SevId /\ loc[a].job \in JobId
                        /\ loc[a].pc \in {"call", "store"} => loc[a].call \in Call
    /\ wins \in [PluginId -> Win \union {Nil}]
    /\ outputs \in [JobId -> Seq(Output)]
    /\ now \in Nat
    /\ grants \in [PluginId -> SUBSET Granted]
    /\ fit \subseteq Actor
    /\ prompt \in [Actor -> SUBSET SevId]

\* What the limiter counted for p in the minute that begins at t.
Span(p, t) == {g \in grants[p] : t <= g.at /\ g.at < t + Minute}

\* "A plugin that bursts N requests right at a window boundary can briefly exceed
\* N in a 60s span": while the server runs it never reaches 2N, however the
\* goroutines interleave and whatever the administrator changes.
RateHeld ==
    \A p \in Registered : \A t \in 0 .. now :
        Span(p, t) # {} => Cardinality(Span(p, t)) < 2 * Ceiling

\* "Re-checked by runTrigger against a freshly-fetched record": a prompt is built only for
\* a SEV that was eligible, and severe enough for the trigger, at some time after the job had
\* begun (being so when it was enqueued is not enough), and names beside it no SEV that is
\* sensitive. The flag ai_disabled is asked of the first only: another SEV that bears it is
\* named all the same, against aiEligible's comment.
CallsWarranted ==
    [][\A a \in Actor :
          prompt'[a] # {} /\ prompt'[a] # prompt[a] =>
              /\ a \in fit
              /\ \A u \in prompt'[a] \ {loc[a].sev} : ~sevs[u].sensitive]_vars

\* A trigger runs each of its actions at most once for each plugin, whatever the
\* pool's goroutines do.
OncePerJob ==
    \A j \in JobId : \A i, k \in DOMAIN outputs[j] :
        i # k => outputs[j][i] # outputs[j][k]

Pending(j) ==
    \/ \E i \in DOMAIN queue : queue[i].job = j
    \/ \E w \in Worker : loc[w].job = j

\* A trigger the queue accepted is run to its end while the server runs, whatever
\* happened to the ones before it.
AcceptedRuns == \A j \in JobId : []<>~Pending(j)

===============================================================================
