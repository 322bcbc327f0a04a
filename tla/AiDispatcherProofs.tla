--------------------------- MODULE AiDispatcherProofs ---------------------------
(***************************************************************************)
(* Theorems about AiDispatcher for any number of SEVs, plugins, workers,   *)
(* clients and jobs, any queue size, window length and limit.              *)
(***************************************************************************)
EXTENDS AiDispatcher, FiniteSetTheorems, TLAPS

\* What TypeOK says of one goroutine.
LocOK(l) ==
    /\ l \in Loc
    /\ l.pc # "idle" => l.sev \in SevId /\ l.job \in JobId
    /\ l.pc \in {"call", "store"} => l.call \in Call

\* The numbers of grants are those of a count, so a new one is fresh.
GrantsNumbered ==
    \A p \in PluginId :
        /\ IsFiniteSet(grants[p])
        /\ \A g \in grants[p] : g.n <= Cardinality(grants[p])

TypeInv == TypeOK /\ GrantsNumbered

LEMMA IdleOK == LocOK(Idle)
BY DispatcherAssumption DEF LocOK, Loc, Idle

\* One goroutine moves, the others stay where they are.
LEMMA GotoOK ==
    ASSUME TypeInv, NEW a \in Actor, NEW l, LocOK(l), Goto(a, l)
    PROVE  /\ loc' \in [Actor -> Loc]
           /\ \A b \in Actor : LocOK(loc'[b])
           /\ fit' \subseteq Actor
           /\ prompt' \in [Actor -> SUBSET SevId]
<1>1. loc' \in [Actor -> Loc]
  BY DEF TypeInv, TypeOK, Goto, LocOK
<1>2. ASSUME NEW b \in Actor PROVE LocOK(loc'[b])
  <2>1. CASE b = a
    BY <2>1 DEF TypeInv, TypeOK, Goto
  <2>2. CASE b # a
    BY <2>2 DEF TypeInv, TypeOK, Goto, LocOK
  <2> QED
    BY <2>1, <2>2
<1>3. fit' \subseteq Actor /\ prompt' \in [Actor -> SUBSET SevId]
  BY DEF TypeInv, TypeOK, Goto
<1> QED
  BY <1>1, <1>2, <1>3

LEMMA ResumeOK ==
    ASSUME TypeInv, NEW a \in Actor, loc[a].pc # "idle"
    PROVE  LocOK(Resume(a))
<1>1. CASE loc[a].calls = {}
  BY <1>1, IdleOK DEF Resume
<1>2. CASE loc[a].calls # {}
  <2>1. loc[a] \in Loc /\ LocOK(loc[a])
    BY DEF TypeInv, TypeOK, LocOK
  <2>2. PICK l : l = [loc[a] EXCEPT !.pc = "next", !.call = Nil]
    OBVIOUS
  <2>3. /\ l \in Loc /\ l.pc = "next" /\ l.call = Nil
        /\ l.job = loc[a].job /\ l.event = loc[a].event /\ l.sev = loc[a].sev
        /\ l.calls = loc[a].calls
    BY <2>1, <2>2 DEF Loc
  <2>4. LocOK(l)
    BY <2>1, <2>3 DEF LocOK
  <2> QED
    BY <1>2, <2>2, <2>4 DEF Resume
<1> QED
  BY <1>1, <1>2

LEMMA CallOfType ==
    ASSUME TypeInv, NEW p \in Registered, NEW action \in Action
    PROVE  CallOf(p, action) \in Call
<1>1. p \in PluginId /\ plugins[p] \in Setting
  BY DEF Registered, TypeInv, TypeOK
<1> QED
  BY <1>1 DEF CallOf, Call, Setting

LEMMA TriggerActionsType ==
    ASSUME NEW event \in Event
    PROVE  TriggerActions(event) \subseteq Action
BY DEF Event, Action, TriggerActions

\* A window that is current or new.
LEMMA WindowType ==
    ASSUME TypeInv, NEW p \in PluginId
    PROVE  /\ Window(p) \in Win /\ Counted(p) \in Win
           /\ Counted(p).start = Window(p).start
           /\ Counted(p).count = Window(p).count + 1
<1>1. now \in Nat /\ wins[p] \in Win \union {Nil}
  BY DEF TypeInv, TypeOK
<1>2. Window(p) \in Win
  <2>1. CASE wins[p] = Nil \/ now - wins[p].start >= Minute
    BY <2>1, <1>1 DEF Window, Win
  <2>2. CASE ~(wins[p] = Nil \/ now - wins[p].start >= Minute)
    BY <2>2, <1>1 DEF Window
  <2> QED
    BY <2>1, <2>2
<1> QED
  BY <1>2 DEF Counted, Win

LEMMA TaskType ==
    ASSUME TypeInv, lastJob < MaxJobs, NEW event \in Event, NEW s \in SevId
    PROVE  /\ lastJob + 1 \in JobId
           /\ Task(event, s) \in QueuedTask
<1>1. lastJob + 1 \in JobId
  BY DispatcherAssumption DEF TypeInv, TypeOK, JobId
<1> QED
  BY <1>1 DEF Task, QueuedTask

LEMMA AppendType ==
    ASSUME NEW S, NEW seq \in Seq(S), NEW e \in S
    PROVE  Append(seq, e) \in Seq(S)
OBVIOUS

\* A goroutine that starts, goes on or ends a job keeps the types, the rest of
\* the state being as it was.
LEMMA MoveOK ==
    ASSUME TypeInv, NEW a \in Actor, NEW l, LocOK(l), Goto(a, l),
           UNCHANGED <<sevs, plugins, lastPlugin, queue, lastJob, wins, outputs, now, grants>>
    PROVE  TypeInv'
<1>1. /\ loc' \in [Actor -> Loc]
      /\ \A b \in Actor : LocOK(loc'[b])
      /\ fit' \subseteq Actor
      /\ prompt' \in [Actor -> SUBSET SevId]
  BY GotoOK
<1> QED
  BY <1>1 DEF TypeInv, TypeOK, GrantsNumbered, LocOK

LEMMA StepOK ==
    ASSUME TypeInv, NEW a \in Actor, loc[a].pc # "idle"
    PROVE  /\ loc[a] \in Loc /\ loc[a].sev \in SevId /\ loc[a].job \in JobId
           /\ \A pc \in {"resolve", "next"} : LocOK([loc[a] EXCEPT !.pc = pc])
<1>1. loc[a] \in Loc /\ loc[a].sev \in SevId /\ loc[a].job \in JobId
  BY DEF TypeInv, TypeOK
<1> QED
  BY <1>1 DEF LocOK, Loc

LEMMA GateType ==
    ASSUME TypeInv, NEW a \in Actor, Gate(a)
    PROVE  TypeInv'
<1> DEFINE passed == [loc[a] EXCEPT !.pc = "resolve"]
<1>1. LocOK(passed)
  BY StepOK DEF Gate
<1>2. \/ Goto(a, passed)
      \/ Goto(a, Idle)
  BY DEF Gate
<1> HIDE DEF passed
<1> QED
  BY <1>1, <1>2, IdleOK, MoveOK DEF Gate

LEMMA ListPluginsType ==
    ASSUME TypeInv, NEW a \in Actor, ListPlugins(a)
    PROVE  TypeInv'
<1> DEFINE willing == {p \in EnabledPlugins : loc[a].event \in plugins[p].on}
           calls   == {CallOf(p, action) : p \in willing,
                                           action \in TriggerActions(loc[a].event)}
           listed  == [loc[a] EXCEPT !.pc = "next", !.calls = calls]
<1>1. ASSUME NEW p \in willing, NEW action \in TriggerActions(loc[a].event)
      PROVE  CallOf(p, action) \in Call
  <2>1. p \in Registered /\ plugins[p] \in Setting
    BY DEF EnabledPlugins, Registered, TypeInv, TypeOK
  <2>2. loc[a].event \in Event
    BY <2>1 DEF Setting
  <2>3. action \in Action
    BY <2>2, TriggerActionsType
  <2> QED
    BY <2>1, <2>3, CallOfType
<1>2. calls \subseteq Call
  BY <1>1
<1>3. Goto(a, IF calls = {} THEN Idle ELSE listed)
  BY DEF ListPlugins
<1> HIDE DEF calls
<1>4. LocOK(listed)
  BY <1>2, StepOK DEF LocOK, Loc, ListPlugins
<1> HIDE DEF listed
<1>5. LocOK(IF calls = {} THEN Idle ELSE listed)
  BY <1>4, IdleOK
<1> QED
  BY <1>3, <1>5, MoveOK DEF ListPlugins

LEMMA ResolvePluginType ==
    ASSUME TypeInv, NEW a \in Actor, ResolvePlugin(a)
    PROVE  TypeInv'
<1>1. PICK p \in EnabledPlugins, action \in Asked :
        Goto(a, [loc[a] EXCEPT !.pc = "next", !.calls = {CallOf(p, action)}])
  BY DEF ResolvePlugin
<1>2. CallOf(p, action) \in Call
  BY CallOfType, DispatcherAssumption DEF EnabledPlugins
<1>3. LocOK([loc[a] EXCEPT !.pc = "next", !.calls = {CallOf(p, action)}])
  BY <1>2, StepOK DEF LocOK, Loc, ResolvePlugin
<1> QED
  BY <1>1, <1>3, MoveOK DEF ResolvePlugin

\* What Allow does with one call: the goroutine goes on to l, and the limiter
\* counts, refuses or does not look.
AllowCall(a, call, l) ==
    /\ Goto(a, l)
    /\ UNCHANGED <<sevs, plugins, lastPlugin, queue, lastJob, outputs, now>>
    /\ \/ UNCHANGED <<wins, grants>>
       \/ /\ HasRoom(call.plugin, call.limit)
          /\ wins' = [wins EXCEPT ![call.plugin] = Counted(call.plugin)]
          /\ grants' = [grants EXCEPT ![call.plugin] = @ \union
                          {[n |-> Cardinality(@) + 1, at |-> now,
                            start |-> Window(call.plugin).start]}]
       \/ /\ call.limit > 0 /\ ~HasRoom(call.plugin, call.limit)
          /\ wins' = [wins EXCEPT ![call.plugin] = Window(call.plugin)]
          /\ UNCHANGED grants

LEMMA AllowCases ==
    ASSUME TypeInv, NEW a \in Actor, Allow(a)
    PROVE  \E call \in loc[a].calls : \E l :
              /\ call \in Call
              /\ LocOK(l)
              /\ l = Idle \/ (l.sev = loc[a].sev /\ l.event = loc[a].event)
              /\ l.calls \subseteq loc[a].calls \ {call}
              /\ AllowCall(a, call, l)
<1>1. PICK call \in loc[a].calls :
        LET p    == call.plugin
            left == [loc[a] EXCEPT !.calls = @ \ {call}]
            made == [left EXCEPT !.pc = "call", !.call = call]
        IN \/ /\ call.limit = 0
              /\ Goto(a, made)
              /\ UNCHANGED <<wins, grants>>
           \/ /\ call.limit > 0
              /\ HasRoom(p, call.limit)
              /\ wins' = [wins EXCEPT ![p] = Counted(p)]
              /\ grants' = [grants EXCEPT ![p] = @ \union
                              {[n |-> Cardinality(@) + 1, at |-> now,
                                start |-> Window(p).start]}]
              /\ Goto(a, made)
           \/ /\ call.limit > 0
              /\ ~HasRoom(p, call.limit)
              /\ wins' = [wins EXCEPT ![p] = Window(p)]
              /\ Goto(a, IF left.calls = {} THEN Idle ELSE left)
              /\ UNCHANGED grants
  BY DEF Allow
<1> DEFINE left == [loc[a] EXCEPT !.calls = @ \ {call}]
           made == [left EXCEPT !.pc = "call", !.call = call]
<1>2. loc[a] \in Loc /\ loc[a].sev \in SevId /\ loc[a].job \in JobId /\ call \in Call
  BY StepOK DEF Allow, Loc
<1>3. LocOK(left) /\ LocOK(made)
  BY <1>2, DispatcherAssumption DEF LocOK, Loc, Allow
<1>4. Idle.calls = {} /\ LocOK(Idle)
  BY IdleOK DEF Idle
<1>5. PICK l \in {made, left, Idle} : AllowCall(a, call, l)
  <2>1. Goto(a, made) \/ Goto(a, IF left.calls = {} THEN Idle ELSE left)
    BY <1>1
  <2>2. UNCHANGED <<sevs, plugins, lastPlugin, queue, lastJob, outputs, now>>
    BY DEF Allow
  <2> QED
    BY <1>1, <2>2 DEF AllowCall
<1>6. \A k \in {made, left} : k.sev = loc[a].sev /\ k.event = loc[a].event
  BY <1>2 DEF Loc
<1>7. \A k \in {made, left} : k.calls = loc[a].calls \ {call}
  BY <1>2 DEF Loc
<1> HIDE DEF made, left
<1> QED
  BY <1>2, <1>3, <1>4, <1>5, <1>6, <1>7

LEMMA AllowType ==
    ASSUME TypeInv, NEW a \in Actor, Allow(a)
    PROVE  TypeInv'
<1>1. PICK call, l : call \in Call /\ LocOK(l) /\ AllowCall(a, call, l)
  BY AllowCases
<1>2. /\ loc' \in [Actor -> Loc]
      /\ \A b \in Actor : LocOK(loc'[b])
      /\ fit' \subseteq Actor
      /\ prompt' \in [Actor -> SUBSET SevId]
  BY <1>1, GotoOK DEF AllowCall
<1> DEFINE p == call.plugin
<1>3. p \in PluginId /\ now \in Nat
  BY <1>1 DEF Call, TypeInv, TypeOK
<1>4. Window(p) \in Win /\ Counted(p) \in Win
  BY <1>3, WindowType
<1> HIDE DEF p
<1>5. wins' \in [PluginId -> Win \union {Nil}]
  BY <1>1, <1>3, <1>4 DEF AllowCall, TypeInv, TypeOK, p
<1>6. grants' \in [PluginId -> SUBSET Granted] /\ GrantsNumbered'
  <2> DEFINE g == [n |-> Cardinality(grants[p]) + 1, at |-> now, start |-> Window(p).start]
  <2>1. CASE UNCHANGED grants
    BY <2>1 DEF TypeInv, TypeOK, GrantsNumbered
  <2>2. CASE grants' = [grants EXCEPT ![p] = @ \union {g}]
    <3>1. IsFiniteSet(grants[p]) /\ Cardinality(grants[p]) \in Nat
      BY <1>3, FS_CardinalityType DEF TypeInv, GrantsNumbered
    <3>2. g \in Granted
      BY <3>1, <1>3, <1>4 DEF Granted, Win
    <3>3. g \notin grants[p]
      BY <3>1, <1>3 DEF TypeInv, GrantsNumbered
    <3>4. /\ IsFiniteSet(grants[p] \union {g})
          /\ Cardinality(grants[p] \union {g}) = Cardinality(grants[p]) + 1
      BY <3>1, <3>3, FS_AddElement
    <3>5. g.n = Cardinality(grants[p]) + 1
      OBVIOUS
    <3> HIDE DEF g
    <3>6. grants' \in [PluginId -> SUBSET Granted]
      BY <2>2, <3>2, <1>3 DEF TypeInv, TypeOK
    <3>7. ASSUME NEW q \in PluginId
          PROVE  /\ IsFiniteSet(grants'[q])
                 /\ \A h \in grants'[q] : h.n <= Cardinality(grants'[q])
      <4>1. CASE q = p
        <5>1. grants'[p] = grants[p] \union {g}
          BY <2>2, <1>3 DEF TypeInv, TypeOK
        <5>2. \A h \in grants[p] : h.n \in Nat /\ h.n <= Cardinality(grants[p])
          BY <1>3 DEF TypeInv, TypeOK, GrantsNumbered, Granted
        <5>3. \A h \in grants'[p] : h.n <= Cardinality(grants'[p])
          BY <5>1, <5>2, <3>1, <3>4, <3>5
        <5>4. IsFiniteSet(grants'[p])
          BY <5>1, <3>4
        <5> QED
          BY <4>1, <5>3, <5>4
      <4>2. CASE q # p
        <5>1. grants'[q] = grants[q]
          BY <2>2, <4>2 DEF TypeInv, TypeOK
        <5> QED
          BY <5>1 DEF TypeInv, GrantsNumbered
      <4> QED
        BY <4>1, <4>2
    <3> QED
      BY <3>6, <3>7 DEF GrantsNumbered
  <2> QED
    BY <1>1, <2>1, <2>2 DEF AllowCall, p
<1> QED
  BY <1>1, <1>2, <1>5, <1>6 DEF AllowCall, TypeInv, TypeOK, LocOK

LEMMA BuildContextType ==
    ASSUME TypeInv, NEW a \in Actor, BuildContext(a)
    PROVE  TypeInv'
<1>1. PICK l : l = [loc[a] EXCEPT !.pc = "store"]
  OBVIOUS
<1>2. loc[a] \in Loc /\ loc[a].sev \in SevId /\ loc[a].job \in JobId /\ loc[a].call \in Call
  BY DEF BuildContext, TypeInv, TypeOK
<1>3. LocOK(l)
  BY <1>1, <1>2 DEF LocOK, Loc
<1>4. loc' = [loc EXCEPT ![a] = l]
  BY <1>1 DEF BuildContext
<1>5. loc' \in [Actor -> Loc] /\ \A b \in Actor : LocOK(loc'[b])
  BY <1>3, <1>4 DEF TypeInv, TypeOK, LocOK
<1>6. prompt' \in [Actor -> SUBSET SevId]
  BY <1>2 DEF BuildContext, Unhidden, TypeInv, TypeOK
<1> QED
  BY <1>5, <1>6 DEF BuildContext, TypeInv, TypeOK, GrantsNumbered, LocOK

LEMMA StoreType ==
    ASSUME TypeInv, NEW a \in Actor, Store(a)
    PROVE  TypeInv'
<1> DEFINE out == [plugin |-> loc[a].call.plugin, action |-> loc[a].call.action]
<1>1. LocOK(Resume(a))
  BY ResumeOK DEF Store
<1>2. /\ loc' \in [Actor -> Loc]
      /\ \A b \in Actor : LocOK(loc'[b])
      /\ fit' \subseteq Actor
      /\ prompt' \in [Actor -> SUBSET SevId]
  BY <1>1, GotoOK DEF Store
<1>3. out \in Output /\ loc[a].job \in JobId
  BY DEF TypeInv, TypeOK, Store, Call, Output
<1>4. outputs' = [outputs EXCEPT ![loc[a].job] = Append(@, out)]
  BY DEF Store
<1> HIDE DEF out
<1>5. outputs' \in [JobId -> Seq(Output)]
  BY <1>3, <1>4, AppendType DEF TypeInv, TypeOK
<1> QED
  BY <1>2, <1>5 DEF Store, TypeInv, TypeOK, GrantsNumbered, LocOK

LEMMA FailType ==
    ASSUME TypeInv, NEW a \in Actor, Fail(a)
    PROVE  TypeInv'
<1>1. loc[a].pc # "idle"
  BY DEF Fail
<1>2. Goto(a, Idle) \/ Goto(a, Resume(a))
  BY DEF Fail
<1> QED
  BY <1>1, <1>2, IdleOK, ResumeOK, MoveOK DEF Fail

LEMMA StepType ==
    ASSUME TypeInv, NEW a \in Actor, Step(a)
    PROVE  TypeInv'
BY GateType, ListPluginsType, ResolvePluginType, AllowType, BuildContextType, StoreType, FailType
   DEF Step

LEMMA BeginType ==
    ASSUME TypeInv, NEW a \in Actor, NEW l, LocOK(l), NEW event, NEW s,
           loc' = [loc EXCEPT ![a] = l], Began(a, event, s)
    PROVE  /\ loc' \in [Actor -> Loc]
           /\ \A b \in Actor : LocOK(loc'[b])
           /\ fit' \subseteq Actor
<1>1. loc' \in [Actor -> Loc]
  BY DEF TypeInv, TypeOK, LocOK
<1>2. ASSUME NEW b \in Actor PROVE LocOK(loc'[b])
  BY DEF TypeInv, TypeOK, LocOK
<1>3. fit' \subseteq Actor
  BY DEF TypeInv, TypeOK, Began
<1> QED
  BY <1>1, <1>2, <1>3

LEMMA TakeType ==
    ASSUME TypeInv, NEW w \in Worker, Take(w)
    PROVE  TypeInv'
<1> DEFINE t == Head(queue)
           l == [Idle EXCEPT !.pc = "gate", !.job = t.job, !.event = t.event, !.sev = t.sev]
<1>1. t \in QueuedTask /\ queue' \in Seq(QueuedTask) /\ Len(queue') <= QueueSize
  BY DispatcherAssumption DEF Take, TypeInv, TypeOK
<1>2. loc' = [loc EXCEPT ![w] = l] /\ Began(w, t.event, t.sev)
  BY DEF Take
<1> HIDE DEF t
<1>3. LocOK(l)
  <2>1. t.job \in JobId /\ t.event \in Event /\ t.sev \in SevId
    BY <1>1 DEF QueuedTask
  <2>2. t.job \in 0 .. MaxJobs
    BY <2>1, DispatcherAssumption DEF JobId
  <2>3. l \in Loc /\ l.pc = "gate" /\ l.job = t.job /\ l.sev = t.sev
    BY <2>1, <2>2 DEF Loc, Idle
  <2> QED
    BY <2>1, <2>3 DEF LocOK
<1> HIDE DEF l
<1>4. /\ loc' \in [Actor -> Loc]
      /\ \A b \in Actor : LocOK(loc'[b])
      /\ fit' \subseteq Actor
  BY <1>2, <1>3, BeginType DEF Actor
<1> QED
  BY <1>1, <1>4 DEF Take, TypeInv, TypeOK, GrantsNumbered, LocOK

LEMMA RequestType ==
    ASSUME TypeInv, NEW c \in Client, NEW s \in SevId, Request(c, s)
    PROVE  TypeInv'
<1> DEFINE l == [Idle EXCEPT !.pc = "gate", !.job = lastJob + 1, !.sev = s]
<1>1. lastJob + 1 \in 0 .. MaxJobs /\ lastJob + 1 \in JobId
  BY DispatcherAssumption DEF Request, TypeInv, TypeOK, JobId
<1>2. LocOK(l)
  BY <1>1, DispatcherAssumption DEF LocOK, Loc, Idle, JobId
<1>3. loc' = [loc EXCEPT ![c] = l] /\ Began(c, "manual", s)
  BY DEF Request
<1> HIDE DEF l
<1>4. /\ loc' \in [Actor -> Loc]
      /\ \A b \in Actor : LocOK(loc'[b])
      /\ fit' \subseteq Actor
  BY <1>2, <1>3, BeginType DEF Actor
<1> QED
  BY <1>1, <1>4 DEF Request, TypeInv, TypeOK, GrantsNumbered, LocOK

LEMMA DispatchType ==
    ASSUME TypeInv, NEW event \in Event, NEW s \in SevId, Dispatch(event, s)
    PROVE  TypeInv'
<1>1. lastJob + 1 \in JobId /\ Task(event, s) \in QueuedTask
  BY TaskType DEF Dispatch
<1>2. queue' \in Seq(QueuedTask) /\ Len(queue') = Len(queue) + 1
  BY <1>1, AppendType DEF Dispatch, TypeInv, TypeOK
<1>3. Len(queue') <= QueueSize /\ lastJob' \in 0 .. MaxJobs
  BY <1>1, <1>2, DispatcherAssumption DEF Dispatch, TypeInv, TypeOK, JobId
<1> QED
  BY <1>2, <1>3 DEF Dispatch, TypeInv, TypeOK, GrantsNumbered

\* The steps of the administrator, the SEV handlers and the clock.
LEMMA OutsideType ==
    ASSUME TypeInv,
           \/ \E s \in SevId, row \in Rows : UpdateSEV(s, row)
           \/ \E setting \in Settings : CreateAIPlugin(setting)
           \/ \E p \in PluginId, setting \in Settings : UpdateAIPlugin(p, setting)
           \/ \E p \in PluginId : DeleteAIPlugin(p)
           \/ Tick
    PROVE  TypeInv'
<1>1. ASSUME NEW s \in SevId, NEW row \in Rows, UpdateSEV(s, row) PROVE TypeInv'
  BY <1>1, DispatcherAssumption DEF UpdateSEV, TypeInv, TypeOK, GrantsNumbered
<1>2. ASSUME NEW setting \in Settings, CreateAIPlugin(setting) PROVE TypeInv'
  BY <1>2, DispatcherAssumption DEF CreateAIPlugin, TypeInv, TypeOK, GrantsNumbered, PluginId
<1>3. ASSUME NEW p \in PluginId, NEW setting \in Settings, UpdateAIPlugin(p, setting)
      PROVE TypeInv'
  BY <1>3, DispatcherAssumption DEF UpdateAIPlugin, TypeInv, TypeOK, GrantsNumbered
<1>4. ASSUME NEW p \in PluginId, DeleteAIPlugin(p) PROVE TypeInv'
  BY <1>4 DEF DeleteAIPlugin, TypeInv, TypeOK, GrantsNumbered
<1>5. ASSUME Tick PROVE TypeInv'
  BY <1>5 DEF Tick, TypeInv, TypeOK, GrantsNumbered
<1> QED
  BY <1>1, <1>2, <1>3, <1>4, <1>5

LEMMA RestartType ==
    ASSUME TypeInv, Restart
    PROVE  TypeInv'
<1>1. /\ sevs' \in [SevId -> SevRow] /\ plugins' \in [PluginId -> Setting \union {Nil}]
      /\ lastPlugin' \in 0 .. MaxPlugins /\ lastJob' \in 0 .. MaxJobs /\ now' \in Nat
      /\ outputs' \in [JobId -> Seq(Output)]
  BY DEF Restart, TypeInv, TypeOK
<1>2. queue' \in Seq(QueuedTask) /\ Len(queue') <= QueueSize
  <2>1. queue' = <<>> /\ QueueSize \in Nat
    BY DispatcherAssumption DEF Restart
  <2>2. \A S : <<>> \in Seq(S)
    OBVIOUS
  <2> QED
    BY <2>1, <2>2
<1>3. loc' \in [Actor -> Loc] /\ \A a \in Actor : LocOK(loc'[a])
  BY IdleOK DEF Restart, LocOK
<1>4. /\ wins' \in [PluginId -> Win \union {Nil}]
      /\ grants' \in [PluginId -> SUBSET Granted]
      /\ fit' \subseteq Actor
      /\ prompt' \in [Actor -> SUBSET SevId]
  BY DEF Restart
<1>5. GrantsNumbered'
  BY FS_EmptySet DEF Restart, GrantsNumbered
<1> QED
  BY <1>1, <1>2, <1>3, <1>4, <1>5 DEF TypeInv, TypeOK, LocOK

LEMMA InitType == Init => TypeInv
<1> SUFFICES ASSUME Init PROVE TypeInv
  OBVIOUS
<1>1. TypeOK
  <2>1. loc \in [Actor -> Loc] /\ \A a \in Actor : LocOK(loc[a])
    BY IdleOK DEF Init, LocOK
  <2>2. sevs \in [SevId -> SevRow]
    <3> DEFINE plain == [sensitive |-> FALSE, aiDisabled |-> FALSE, major |-> TRUE]
    <3>1. plain \in SevRow
      BY DEF SevRow
    <3>2. sevs \in [SevId -> {plain}]
      BY DEF Init
    <3> HIDE DEF plain
    <3> QED
      BY <3>1, <3>2
  <2>3. /\ queue \in Seq(QueuedTask) /\ Len(queue) <= QueueSize
        /\ outputs \in [JobId -> Seq(Output)]
    <3>1. queue = <<>> /\ outputs = [j \in JobId |-> <<>>] /\ QueueSize \in Nat
      BY DispatcherAssumption DEF Init
    <3>2. \A S : <<>> \in Seq(S)
      OBVIOUS
    <3> QED
      BY <3>1, <3>2
  <2>4. /\ plugins \in [PluginId -> Setting \union {Nil}]
        /\ wins \in [PluginId -> Win \union {Nil}]
        /\ grants \in [PluginId -> SUBSET Granted]
        /\ fit \subseteq Actor
        /\ prompt \in [Actor -> SUBSET SevId]
    BY DEF Init
  <2>5. lastPlugin \in 0 .. MaxPlugins /\ lastJob \in 0 .. MaxJobs /\ now \in Nat
    BY DispatcherAssumption DEF Init
  <2> QED
    BY <2>1, <2>2, <2>3, <2>4, <2>5 DEF TypeOK, LocOK
<1>2. GrantsNumbered
  BY FS_EmptySet DEF Init, GrantsNumbered
<1> QED
  BY <1>1, <1>2 DEF TypeInv

\* Every step of the dispatcher keeps the types.
LEMMA NextType == TypeInv /\ [Next]_vars => TypeInv'
<1> SUFFICES ASSUME TypeInv, [Next]_vars PROVE TypeInv'
  OBVIOUS
<1>1. CASE UNCHANGED vars
  BY <1>1 DEF vars, TypeInv, TypeOK, GrantsNumbered
<1>2. ASSUME NEW event \in Events, NEW s \in Subject, Dispatch(event, s) PROVE TypeInv'
  BY <1>2, DispatchType, DispatcherAssumption
<1>3. ASSUME NEW c \in Client, NEW s \in Subject, Request(c, s) PROVE TypeInv'
  BY <1>3, RequestType, DispatcherAssumption
<1> QED
  BY <1>1, <1>2, <1>3, OutsideType, RestartType, TakeType, StepType DEF Next

\* Every variable keeps its type and the queue its capacity (taskQueueSize), for
\* any number of goroutines and plugins.
THEOREM TypeCorrect == Spec => []TypeOK
<1>1. Spec => []TypeInv
  BY InitType, NextType, PTL DEF Spec
<1> QED
  BY <1>1, PTL DEF TypeInv

-------------------------------------------------------------------------------
(***************************************************************************)
(* The limiter. Windows of a plugin do not overlap, each holds at most     *)
(* Ceiling grants, and each begins with one: so a minute that meets two    *)
(* windows misses the first grant of the earlier one.                      *)
(***************************************************************************)
InWindow(p, s) == {g \in grants[p] : g.start = s}

WindowCounts(p) ==
    LET s == wins[p].start IN
    /\ s <= now
    /\ Cardinality(InWindow(p, s)) = wins[p].count
    /\ \E f \in InWindow(p, s) : f.at = s
    /\ \A g \in grants[p] : g.start = s \/ g.start + Minute <= s

GrantsApart(p) ==
    /\ \A g \in grants[p] :
          /\ g.start <= g.at /\ g.at < g.start + Minute
          /\ Cardinality(InWindow(p, g.start)) <= Ceiling
          /\ \E f \in InWindow(p, g.start) : f.at = g.start
    /\ \A g, h \in grants[p] : g.start < h.start => g.start + Minute <= h.start

RatePart(p) ==
    /\ wins[p] = Nil => grants[p] = {}
    /\ wins[p] # Nil => WindowCounts(p)
    /\ GrantsApart(p)

\* Deleting a plugin drops its window: nothing is said of it any more.
RateInv ==
    /\ \A p \in Registered : p <= lastPlugin
    /\ \A p \in PluginId : p \in Registered \/ p > lastPlugin => RatePart(p)

LEMMA RateKept ==
    ASSUME TypeInv, now' \in Nat, now <= now', NEW p \in PluginId, RatePart(p),
           wins'[p] = wins[p], grants'[p] = grants[p]
    PROVE  RatePart(p)'
<1>1. \A s : InWindow(p, s)' = InWindow(p, s)
  BY DEF InWindow
<1>2. wins[p] # Nil => wins[p].start \in Nat
  BY DEF TypeInv, TypeOK, Win
<1>3. wins[p] # Nil => WindowCounts(p)'
  BY <1>1, <1>2 DEF RatePart, WindowCounts, TypeInv, TypeOK
<1>4. GrantsApart(p)'
  BY <1>1 DEF RatePart, GrantsApart
<1> QED
  BY <1>3, <1>4 DEF RatePart

\* The window the next grant is counted in: the grants there are, are in it or a window
\* before it.
LEMMA CurrentWindow ==
    ASSUME TypeInv, NEW p \in PluginId, RatePart(p), NEW s, s = Window(p).start
    PROVE  /\ s <= now /\ now < s + Minute
           /\ Cardinality(InWindow(p, s)) = Window(p).count
           /\ (\E f \in InWindow(p, s) : f.at = s) \/ s = now
           /\ \A g \in grants[p] : g.start = s \/ g.start + Minute <= s
<1>a. s \in Nat /\ now \in Nat /\ Ceiling \in Nat
  BY WindowType, DispatcherAssumption DEF Win, TypeInv, TypeOK
<1>b. \A g \in grants[p] : g.n \in Nat /\ g.start \in Nat /\ g.at \in Nat
  BY DEF TypeInv, TypeOK, Granted
<1>1. CASE wins[p] = Nil
  <2>1. grants[p] = {} /\ InWindow(p, s) = {}
    BY <1>1 DEF RatePart, InWindow
  <2>2. s = now /\ Window(p).count = 0
    BY <1>1 DEF Window
  <2> QED
    BY <2>1, <2>2, <1>a, FS_EmptySet, DispatcherAssumption
<1>2. CASE wins[p] # Nil /\ now - wins[p].start >= Minute
  <2>1. s = now /\ Window(p).count = 0
    BY <1>2 DEF Window
  <2>2. wins[p].start \in Nat /\ WindowCounts(p)
    BY <1>2 DEF RatePart, TypeInv, TypeOK, Win
  <2>3. \A g \in grants[p] : g.start + Minute <= s
    BY <2>1, <2>2, <1>2, <1>a, <1>b, DispatcherAssumption DEF WindowCounts
  <2>4. InWindow(p, s) = {}
    BY <2>3, <1>a, <1>b, DispatcherAssumption DEF InWindow
  <2> QED
    BY <2>1, <2>3, <2>4, <1>a, FS_EmptySet, DispatcherAssumption
<1>3. CASE wins[p] # Nil /\ ~(now - wins[p].start >= Minute)
  <2>1. Window(p) = wins[p]
    BY <1>3 DEF Window
  <2>2. wins[p].start \in Nat /\ WindowCounts(p)
    BY <1>3 DEF RatePart, TypeInv, TypeOK, Win
  <2> QED
    BY <2>1, <2>2, <1>3, <1>a, DispatcherAssumption DEF WindowCounts
<1> QED
  BY <1>1, <1>2, <1>3

\* A grant counted in the current window, or the first of a new one.
LEMMA RateCounted ==
    ASSUME TypeInv, NEW p \in PluginId, RatePart(p), now' = now,
           NEW limit \in 0 .. Ceiling, HasRoom(p, limit),
           wins'[p] = Counted(p),
           grants'[p] = grants[p] \union
               {[n |-> Cardinality(grants[p]) + 1, at |-> now, start |-> Window(p).start]}
    PROVE  RatePart(p)'
<1>a. PICK s : s = Window(p).start
  OBVIOUS
<1>b. PICK new : new = [n |-> Cardinality(grants[p]) + 1, at |-> now, start |-> s]
  OBVIOUS
<1>1. /\ Window(p) \in Win /\ s \in Nat /\ Window(p).count \in Nat
      /\ Counted(p).start = s /\ Counted(p).count = Window(p).count + 1
      /\ Counted(p) \in Win /\ now \in Nat /\ Ceiling \in Nat
  BY <1>a, WindowType, DispatcherAssumption DEF Win, TypeInv, TypeOK
<1>2. /\ IsFiniteSet(grants[p]) /\ Cardinality(grants[p]) \in Nat
      /\ \A g \in grants[p] : g.n \in Nat /\ g.start \in Nat /\ g.at \in Nat
                             /\ g.n <= Cardinality(grants[p])
  BY FS_CardinalityType DEF TypeInv, TypeOK, GrantsNumbered, Granted
<1>3. new \notin grants[p] /\ new.start = s /\ new.at = now
  BY <1>b, <1>2
<1>4. /\ s <= now /\ now < s + Minute
      /\ Cardinality(InWindow(p, s)) = Window(p).count
      /\ (\E f \in InWindow(p, s) : f.at = s) \/ s = now
      /\ \A g \in grants[p] : g.start = s \/ g.start + Minute <= s
  BY <1>a, CurrentWindow
<1>5. /\ grants'[p] = grants[p] \union {new}
      /\ InWindow(p, s)' = InWindow(p, s) \union {new}
      /\ \A t : t # s => InWindow(p, t)' = InWindow(p, t)
  <2>1. grants'[p] = grants[p] \union {new}
    BY <1>a, <1>b
  <2> QED
    BY <2>1, <1>3 DEF InWindow
<1>6. /\ IsFiniteSet(InWindow(p, s))
      /\ Cardinality(InWindow(p, s)') = Window(p).count + 1
  <2>1. IsFiniteSet(InWindow(p, s)) /\ new \notin InWindow(p, s)
    BY <1>2, <1>3, FS_Subset DEF InWindow
  <2>2. PICK window : window = InWindow(p, s)
    OBVIOUS
  <2>3. Cardinality(window \union {new}) = Cardinality(window) + 1
    BY <2>1, <2>2, FS_AddElement
  <2>4. Cardinality(window) = Window(p).count
    BY <2>2, <1>4
  <2>5. InWindow(p, s)' = window \union {new}
    BY <2>2, <1>5
  <2> QED
    BY <2>1, <2>3, <2>4, <2>5
<1>7. grants'[p] = grants[p] \union {new} /\ new \in InWindow(p, s)'
  BY <1>5
<1>8. Window(p).count + 1 <= Ceiling
  BY <1>1 DEF HasRoom
<1>9. \E f \in InWindow(p, s)' : f.at = s
  BY <1>3, <1>4, <1>5, <1>7
<1>10. WindowCounts(p)'
  <2>1. wins'[p].start = s /\ wins'[p].count = Window(p).count + 1
    BY <1>1
  <2>2. \A g \in grants'[p] : g.start = s \/ g.start + Minute <= s
    BY <1>3, <1>4, <1>7
  <2> QED
    BY <2>1, <2>2, <1>4, <1>6, <1>9 DEF WindowCounts
<1>11. GrantsApart(p)'
  <2>1. ASSUME NEW g \in grants'[p]
        PROVE  /\ g.start <= g.at /\ g.at < g.start + Minute
               /\ Cardinality(InWindow(p, g.start)') <= Ceiling
               /\ \E f \in InWindow(p, g.start)' : f.at = g.start
    <3>1. CASE g.start = s
      <4>1. g.start <= g.at /\ g.at < g.start + Minute
        BY <3>1, <1>3, <1>4, <1>7 DEF RatePart, GrantsApart
      <4> QED
        BY <3>1, <4>1, <1>6, <1>8, <1>9
    <3>2. CASE g.start # s
      <4>1. g \in grants[p]
        BY <3>2, <1>3, <1>7
      <4> QED
        BY <3>2, <4>1, <1>5 DEF RatePart, GrantsApart
    <3> QED
      BY <3>1, <3>2
  <2>2. ASSUME NEW g \in grants'[p], NEW h \in grants'[p], g.start < h.start
        PROVE  g.start + Minute <= h.start
    <3>1. g.start \in Nat /\ h.start \in Nat /\ Minute \in Nat
      BY <1>1, <1>2, <1>3, <1>7, DispatcherAssumption
    <3>2. CASE h.start = s
      BY <3>1, <3>2, <2>2, <1>3, <1>4, <1>7
    <3>3. CASE h.start # s
      <4>1. h \in grants[p] /\ h.start + Minute <= s
        BY <3>3, <1>3, <1>4, <1>7
      <4>2. g \in grants[p]
        BY <4>1, <3>1, <2>2, <1>3, <1>7, <1>1
      <4> QED
        BY <4>1, <4>2, <2>2 DEF RatePart, GrantsApart
    <3> QED
      BY <3>2, <3>3
  <2> QED
    BY <2>1, <2>2 DEF GrantsApart
<1> QED
  BY <1>1, <1>10, <1>11, DispatcherAssumption DEF RatePart

\* A minute meets two windows at most, and not the first grant of the earlier.
LEMMA SpanBound ==
    ASSUME TypeInv, NEW p \in PluginId, GrantsApart(p), NEW t \in Nat, Span(p, t) # {}
    PROVE  Cardinality(Span(p, t)) < 2 * Ceiling
<1>1. /\ IsFiniteSet(grants[p]) /\ Minute \in Nat \ {0} /\ Ceiling \in Nat
      /\ \A g \in grants[p] : g.start \in Nat /\ g.at \in Nat
  BY DispatcherAssumption DEF TypeInv, TypeOK, GrantsNumbered, Granted
<1>2. /\ Span(p, t) \subseteq grants[p]
      /\ \A g \in Span(p, t) : t <= g.at /\ g.at < t + Minute
  BY DEF Span
<1>3. \A s : /\ InWindow(p, s) \subseteq grants[p] /\ IsFiniteSet(InWindow(p, s))
             /\ Cardinality(InWindow(p, s)) \in Nat
  BY <1>1, FS_Subset, FS_CardinalityType DEF InWindow
<1>4. IsFiniteSet(Span(p, t)) /\ Cardinality(Span(p, t)) \in Nat
  BY <1>1, <1>2, FS_Subset, FS_CardinalityType
<1>5. ASSUME NEW g \in Span(p, t)
      PROVE  /\ g \in InWindow(p, g.start)
             /\ Cardinality(InWindow(p, g.start)) <= Ceiling
             /\ g.start <= g.at /\ g.at < g.start + Minute
             /\ \E f \in InWindow(p, g.start) : f.at = g.start
  BY <1>2 DEF GrantsApart, InWindow
<1>6. CASE \E s : Span(p, t) \subseteq InWindow(p, s)
  <2>1. PICK g \in Span(p, t) : TRUE
    OBVIOUS
  <2>2. Span(p, t) \subseteq InWindow(p, g.start)
    BY <1>6, <2>1 DEF InWindow
  <2>3. InWindow(p, g.start) # {} /\ Cardinality(InWindow(p, g.start)) # 0
    BY <1>3, <1>5, FS_EmptySet
  <2> QED
    BY <1>1, <1>3, <1>4, <1>5, <2>2, <2>3, FS_Subset
<1>7. CASE ~\E s : Span(p, t) \subseteq InWindow(p, s)
  <2>1. PICK g \in Span(p, t), h \in Span(p, t) : g.start < h.start
    <3>1. PICK g \in Span(p, t) : TRUE
      OBVIOUS
    <3>2. PICK h \in Span(p, t) : h \notin InWindow(p, g.start)
      BY <1>7, <3>1
    <3>3. h.start # g.start
      BY <3>2, <1>2 DEF InWindow
    <3> QED
      BY <3>1, <3>2, <3>3, <1>1, <1>2
  <2>2. g.start + Minute <= h.start
    BY <2>1, <1>2 DEF GrantsApart
  <2>3. g.start < t
    BY <2>2, <1>1, <1>2, <1>5
  <2>4. ASSUME NEW k \in Span(p, t) PROVE k.start = g.start \/ k.start = h.start
    <3>1. /\ k.start < g.start => k.start + Minute <= g.start
          /\ g.start < k.start => g.start + Minute <= k.start
          /\ k.start < h.start => k.start + Minute <= h.start
          /\ h.start < k.start => h.start + Minute <= k.start
      BY <1>2 DEF GrantsApart
    <3>2. /\ t < k.start + Minute /\ k.start < t + Minute
          /\ t < g.start + Minute /\ g.start < t + Minute
          /\ t < h.start + Minute /\ h.start < t + Minute
      BY <1>1, <1>2, <1>5
    <3> QED
      BY <3>1, <3>2, <2>2, <1>1, <1>2
  <2>5. PICK f \in InWindow(p, g.start) : f.at = g.start
    BY <1>5
  <2> DEFINE early == InWindow(p, g.start) \ {f}
             late  == InWindow(p, h.start)
  <2>6. Span(p, t) \subseteq early \union late
    <3>1. f \notin Span(p, t)
      BY <2>3, <2>5, <1>1, <1>2
    <3> QED
      BY <3>1, <2>4, <1>5
  <2>7. /\ IsFiniteSet(early) /\ IsFiniteSet(late)
        /\ Cardinality(early) = Cardinality(InWindow(p, g.start)) - 1
        /\ Cardinality(late) <= Ceiling
    BY <1>3, <1>5, <2>5, FS_RemoveElement
  <2> HIDE DEF early, late
  <2>8. /\ IsFiniteSet(early \union late)
        /\ Cardinality(early \union late) <= Cardinality(early) + Cardinality(late)
    <3>1. IsFiniteSet(early \intersect late) /\ Cardinality(early \intersect late) \in Nat
      BY <2>7, FS_Subset, FS_CardinalityType
    <3>2. Cardinality(early) \in Nat /\ Cardinality(late) \in Nat
      BY <2>7, FS_CardinalityType
    <3>3. /\ IsFiniteSet(early \union late)
          /\ Cardinality(early \union late)
                = Cardinality(early) + Cardinality(late) - Cardinality(early \intersect late)
      BY <2>7, FS_Union, Zenon
    <3> QED
      BY <3>1, <3>2, <3>3
  <2>9. Cardinality(Span(p, t)) <= Cardinality(early \union late)
    BY <2>6, <2>8, FS_Subset
  <2>10. Cardinality(early \union late) \in Nat /\ Cardinality(late) \in Nat
    BY <2>7, <2>8, FS_CardinalityType
  <2> QED
    BY <1>1, <1>3, <1>4, <1>5, <2>7, <2>8, <2>9, <2>10
<1> QED
  BY <1>6, <1>7

LEMMA AllowRate ==
    ASSUME TypeInv, RateInv, NEW a \in Actor, Allow(a)
    PROVE  RateInv'
<1>1. PICK call, l : call \in Call /\ AllowCall(a, call, l)
  BY AllowCases
<1>2. call.plugin \in PluginId /\ call.limit \in 0 .. Ceiling /\ now \in Nat
  BY <1>1 DEF Call, TypeInv, TypeOK
<1>3. Registered' = Registered /\ lastPlugin' = lastPlugin /\ now' = now
  BY <1>1 DEF AllowCall, Registered
<1>4. ASSUME NEW p \in PluginId, RatePart(p) PROVE RatePart(p)'
  <2>1. CASE wins'[p] = wins[p] /\ grants'[p] = grants[p]
    BY <2>1, <1>2, <1>3, <1>4, RateKept
  <2>2. CASE /\ p = call.plugin
             /\ HasRoom(p, call.limit)
             /\ wins'[p] = Counted(p)
             /\ grants'[p] = grants[p] \union
                    {[n |-> Cardinality(grants[p]) + 1, at |-> now, start |-> Window(p).start]}
    BY <2>2, <1>2, <1>3, <1>4, RateCounted
  <2>3. CASE /\ p = call.plugin
             /\ call.limit > 0 /\ ~HasRoom(p, call.limit)
             /\ wins'[p] = Window(p)
             /\ grants'[p] = grants[p]
    <3>1. Window(p) = wins[p]
      BY <2>3, <1>2 DEF HasRoom, Window
    <3> QED
      BY <3>1, <2>3, <2>1
  <2> QED
    BY <1>1, <1>2, <2>1, <2>2, <2>3 DEF AllowCall, TypeInv, TypeOK
<1> QED
  BY <1>3, <1>4 DEF RateInv

LEMMA NextRate == TypeInv /\ RateInv /\ [Next]_vars => RateInv'
<1> SUFFICES ASSUME TypeInv, RateInv, [Next]_vars PROVE RateInv'
  OBVIOUS
<1>1. ASSUME UNCHANGED <<wins, grants, now, plugins, lastPlugin>> PROVE RateInv'
  <2>1. Registered' = Registered
    BY <1>1 DEF Registered
  <2>2. ASSUME NEW p \in PluginId, RatePart(p) PROVE RatePart(p)'
    BY <1>1, <2>2, RateKept DEF TypeInv, TypeOK
  <2> QED
    BY <1>1, <2>1, <2>2 DEF RateInv
<1>2. ASSUME NEW a \in Actor, Allow(a) PROVE RateInv'
  BY <1>2, AllowRate
<1>3. ASSUME NEW setting \in Settings, CreateAIPlugin(setting) PROVE RateInv'
  <2>1. \A p \in PluginId : RatePart(p) => RatePart(p)'
    BY <1>3, RateKept DEF CreateAIPlugin, TypeInv, TypeOK
  <2>2. Registered' \subseteq Registered \union {lastPlugin + 1}
    BY <1>3 DEF CreateAIPlugin, Registered, TypeInv, TypeOK
  <2>3. lastPlugin' = lastPlugin + 1 /\ lastPlugin \in Nat
    BY <1>3 DEF CreateAIPlugin, TypeInv, TypeOK
  <2>4. Registered \subseteq PluginId /\ PluginId \subseteq Nat
    BY DEF Registered, PluginId
  <2> QED
    BY <2>1, <2>2, <2>3, <2>4 DEF RateInv
<1>4. ASSUME NEW q \in PluginId, NEW setting \in Settings, UpdateAIPlugin(q, setting)
      PROVE RateInv'
  <2>1. \A p \in PluginId : RatePart(p) => RatePart(p)'
    BY <1>4, RateKept DEF UpdateAIPlugin, TypeInv, TypeOK
  <2>2. Registered' \subseteq Registered /\ lastPlugin' = lastPlugin
    BY <1>4 DEF UpdateAIPlugin, Registered, TypeInv, TypeOK
  <2> QED
    BY <2>1, <2>2 DEF RateInv
<1>5. ASSUME NEW q \in PluginId, DeleteAIPlugin(q) PROVE RateInv'
  <2>1. ASSUME NEW p \in PluginId, p # q, RatePart(p) PROVE RatePart(p)'
    BY <1>5, <2>1, RateKept DEF DeleteAIPlugin, TypeInv, TypeOK
  <2>2. Registered' \subseteq Registered \ {q} /\ lastPlugin' = lastPlugin /\ q \in Registered
    BY <1>5 DEF DeleteAIPlugin, Registered, TypeInv, TypeOK
  <2>3. ~(q > lastPlugin)
    BY <2>2 DEF RateInv, PluginId, TypeInv, TypeOK
  <2> QED
    BY <2>1, <2>2, <2>3 DEF RateInv
<1>6. ASSUME Tick PROVE RateInv'
  <2>1. \A p \in PluginId : RatePart(p) => RatePart(p)'
    BY <1>6, RateKept DEF Tick, TypeInv, TypeOK
  <2>2. Registered' = Registered /\ lastPlugin' = lastPlugin
    BY <1>6 DEF Tick, Registered
  <2> QED
    BY <2>1, <2>2 DEF RateInv
<1>7. CASE \/ UNCHANGED vars
           \/ \E s \in SevId, row \in Rows : UpdateSEV(s, row)
           \/ \E event \in Events, s \in Subject : Dispatch(event, s)
           \/ \E c \in Client, s \in Subject : Request(c, s)
           \/ \E w \in Worker : Take(w)
  BY <1>1, <1>7 DEF vars, UpdateSEV, Dispatch, Request, Take
<1>8. ASSUME NEW a \in Actor, Step(a) PROVE RateInv'
  <2>1. CASE Allow(a)
    BY <2>1, <1>2
  <2>2. CASE Gate(a)
    BY <2>2, <1>1 DEF Gate
  <2>3. CASE ListPlugins(a)
    BY <2>3, <1>1 DEF ListPlugins
  <2>4. CASE ResolvePlugin(a)
    BY <2>4, <1>1 DEF ResolvePlugin
  <2>5. CASE BuildContext(a)
    BY <2>5, <1>1 DEF BuildContext
  <2>6. CASE Store(a)
    BY <2>6, <1>1 DEF Store
  <2>7. CASE Fail(a)
    BY <2>7, <1>1 DEF Fail
  <2> QED
    BY <1>8, <2>1, <2>2, <2>3, <2>4, <2>5, <2>6, <2>7 DEF Step
<1>9. ASSUME Restart PROVE RateInv'
  <2>1. \A p \in PluginId : RatePart(p)'
    BY <1>9 DEF Restart, RatePart, GrantsApart
  <2>2. Registered' = Registered /\ lastPlugin' = lastPlugin
    BY <1>9 DEF Restart, Registered
  <2> QED
    BY <2>1, <2>2 DEF RateInv
<1> QED
  BY <1>3, <1>4, <1>5, <1>6, <1>7, <1>8, <1>9 DEF Next

\* No minute sees 2N requests let through for a plugin whose limit is at most N:
\* the bound on the burst the comment in ratelimit.go allows for.
THEOREM RateCorrect == Spec => []RateHeld
<1>1. Init => RateInv
  BY DispatcherAssumption
     DEF Init, RateInv, RatePart, GrantsApart, Registered, PluginId
<1>2. TypeInv /\ RateInv => RateHeld
  <2> SUFFICES ASSUME TypeInv, RateInv, NEW p \in Registered, NEW t \in 0 .. now,
                      Span(p, t) # {}
               PROVE  Cardinality(Span(p, t)) < 2 * Ceiling
    BY DEF RateHeld
  <2>1. p \in PluginId /\ GrantsApart(p) /\ t \in Nat
    BY DEF Registered, RateInv, RatePart, TypeInv, TypeOK
  <2> QED
    BY <2>1, SpanBound
<1> QED
  BY <1>1, <1>2, InitType, NextType, NextRate, PTL DEF Spec

-------------------------------------------------------------------------------
(***************************************************************************)
(* The limiter over any number of minutes. Grants are numbered as they are *)
(* given, so a window's are consecutive, and a window has at most Ceiling  *)
(* of them: k times Ceiling grants on, k windows have passed.              *)
(***************************************************************************)
Live(p) == p \in Registered \/ p > lastPlugin

Consecutive(p) ==
    /\ \A i \in 1 .. Cardinality(grants[p]) : \E g \in grants[p] : g.n = i
    /\ \A g, h \in grants[p] : g.n = h.n => g = h
    /\ \A g \in grants[p] : g.n > 0

\* The grants of the window that is open are the last ones.
LastOnes(p) ==
    wins[p] # Nil =>
        \A g \in grants[p] :
            g.start = wins[p].start <=> g.n > Cardinality(grants[p]) - wins[p].count

FirstOfWindow(p) ==
    \A g \in grants[p] : \E f \in InWindow(p, g.start) : f.at = f.start /\ f.n <= g.n

Spread(p) ==
    \A k \in Nat : \A g, h \in grants[p] :
        h.n >= g.n + k * Ceiling => h.start >= g.start + k * Minute

PacePart(p) == Consecutive(p) /\ LastOnes(p) /\ FirstOfWindow(p) /\ Spread(p)
PaceInv     == \A p \in PluginId : Live(p) => PacePart(p)

LEMMA OneLess ==
    ASSUME NEW k \in Nat, k # 0, NEW c \in Nat
    PROVE  /\ k - 1 \in Nat /\ k * c \in Nat /\ (k - 1) * c \in Nat
           /\ k * c = (k - 1) * c + c
OBVIOUS

LEMMA OneMore ==
    ASSUME NEW k \in Nat, NEW c \in Nat
    PROVE  /\ k * c \in Nat /\ (k + 1) * c \in Nat
           /\ (k + 1) * c = k * c + c
OBVIOUS

\* One more grant. It follows those of the open window, which are fewer than Ceiling; the
\* one before them is of an earlier window.
LEMMA PaceCounted ==
    ASSUME TypeInv, NEW p \in PluginId, RatePart(p), PacePart(p), now' = now,
           NEW limit \in 0 .. Ceiling, HasRoom(p, limit),
           wins'[p] = Counted(p),
           grants'[p] = grants[p] \union
               {[n |-> Cardinality(grants[p]) + 1, at |-> now, start |-> Window(p).start]}
    PROVE  PacePart(p)'
<1>a. PICK s, m, N : s = Window(p).start /\ m = Window(p).count /\ N = Cardinality(grants[p])
  OBVIOUS
<1>b. PICK new : new = [n |-> N + 1, at |-> now, start |-> s]
  OBVIOUS
<1>1. /\ s \in Nat /\ m \in Nat /\ m < Ceiling /\ Ceiling \in Nat /\ now \in Nat
      /\ Minute \in Nat /\ Minute > 0
  BY <1>a, WindowType, DispatcherAssumption DEF Win, TypeInv, TypeOK, HasRoom
<1>2. /\ IsFiniteSet(grants[p]) /\ N \in Nat
      /\ \A g \in grants[p] : g.n \in Nat /\ g.start \in Nat /\ g.at \in Nat /\ g.n <= N
  BY <1>a, FS_CardinalityType DEF TypeInv, TypeOK, GrantsNumbered, Granted
<1>3. new.n = N + 1 /\ new.start = s /\ new.at = now /\ new \notin grants[p]
  BY <1>b, <1>2
<1>4. /\ grants'[p] = grants[p] \union {new}
      /\ Cardinality(grants'[p]) = N + 1
      /\ wins'[p].start = s /\ wins'[p].count = m + 1
  <2>1. grants'[p] = grants[p] \union {new}
    BY <1>a, <1>b
  <2>2. Cardinality(grants[p] \union {new}) = N + 1
    BY <1>a, <1>2, <1>3, FS_AddElement
  <2>3. wins'[p].start = s /\ wins'[p].count = m + 1
    BY <1>a, WindowType
  <2> QED
    BY <2>1, <2>2, <2>3
<1>5. /\ Cardinality(InWindow(p, s)) = m
      /\ (\E f \in InWindow(p, s) : f.at = s) \/ s = now
      /\ \A g \in grants[p] : g.start = s \/ g.start + Minute <= s
  BY <1>a, CurrentWindow
<1>6. \A g \in grants[p] : g.start = s <=> g.n > N - m
  <2>1. CASE m = 0
    <3>1. IsFiniteSet(InWindow(p, s))
      BY <1>2, FS_Subset DEF InWindow
    <3>2. InWindow(p, s) = {}
      BY <2>1, <3>1, <1>5, FS_EmptySet
    <3> QED
      BY <2>1, <3>2, <1>2 DEF InWindow
  <2>2. CASE m # 0
    <3>1. wins[p] # Nil /\ wins[p] = Window(p)
      BY <1>a, <2>2 DEF Window
    <3> QED
      BY <3>1, <1>a DEF PacePart, LastOnes
  <2> QED
    BY <2>1, <2>2
<1>7. Consecutive(p)'
  <2>1. ASSUME NEW i \in 1 .. N + 1 PROVE \E g \in grants'[p] : g.n = i
    <3>1. CASE i = N + 1
      BY <3>1, <1>3, <1>4
    <3>2. CASE i # N + 1
      <4>1. i \in 1 .. N
        BY <3>2, <1>2
      <4> QED
        BY <4>1, <1>a, <1>4 DEF PacePart, Consecutive
    <3> QED
      BY <3>1, <3>2
  <2>2. \A g, h \in grants'[p] : g.n = h.n => g = h
    BY <1>2, <1>3, <1>4 DEF PacePart, Consecutive
  <2>3. \A g \in grants'[p] : g.n > 0
    BY <1>2, <1>3, <1>4 DEF PacePart, Consecutive
  <2> QED
    BY <2>1, <2>2, <2>3, <1>4 DEF Consecutive
<1>8. LastOnes(p)'
  <2>1. ASSUME NEW g \in grants'[p] PROVE g.start = s <=> g.n > (N + 1) - (m + 1)
    BY <1>1, <1>2, <1>3, <1>4, <1>6
  <2> QED
    BY <2>1, <1>4 DEF LastOnes
<1>9. FirstOfWindow(p)'
  <2>1. ASSUME NEW g \in grants[p]
        PROVE  \E f \in InWindow(p, g.start)' : f.at = f.start /\ f.n <= g.n
    BY <1>4 DEF PacePart, FirstOfWindow, InWindow
  <2>2. \E f \in InWindow(p, s)' : f.at = f.start /\ f.n <= N + 1
    <3>1. CASE s = now
      BY <3>1, <1>1, <1>2, <1>3, <1>4 DEF InWindow
    <3>2. CASE s # now
      <4>1. PICK f \in InWindow(p, s) : f.at = s
        BY <3>2, <1>5
      <4> QED
        BY <4>1, <1>2, <1>4 DEF InWindow
    <3> QED
      BY <3>1, <3>2
  <2> QED
    BY <2>1, <2>2, <1>3, <1>4 DEF FirstOfWindow
<1>10. Spread(p)'
  <2>1. ASSUME NEW k \in Nat, NEW g \in grants[p], N + 1 >= g.n + k * Ceiling
        PROVE  s >= g.start + k * Minute
    <3>1. CASE k = 0
      BY <3>1, <1>1, <1>2, <1>5
    <3>2. CASE k # 0
      <4>1. PICK j \in Nat : j = k - 1
        BY <3>2, OneLess
      <4>2. PICK jc \in Nat, jm \in Nat : /\ jc = j * Ceiling /\ jm = j * Minute
                                          /\ k * Ceiling = jc + Ceiling
                                          /\ k * Minute = jm + Minute
        BY <3>2, <4>1, <1>1, OneLess
      <4>3. g.n + jc <= N - m /\ N - m \in 1 .. N
        BY <2>1, <4>2, <1>1, <1>2 DEF PacePart, Consecutive
      <4>4. PICK h \in grants[p] : h.n = N - m
        BY <4>3, <1>a DEF PacePart, Consecutive
      <4>5. h.start + Minute <= s
        BY <4>4, <1>1, <1>2, <1>5, <1>6
      <4>6. h.start >= g.start + jm
        BY <4>1, <4>2, <4>3, <4>4 DEF PacePart, Spread
      <4> QED
        BY <4>2, <4>5, <4>6, <1>1, <1>2
    <3> QED
      BY <3>1, <3>2
  <2>2. ASSUME NEW k \in Nat, NEW h \in grants'[p], h.n >= N + 1 + k * Ceiling
        PROVE  h.start >= s + k * Minute
    <3>1. h.n <= N + 1 /\ h.n \in Nat
      BY <1>2, <1>3, <1>4
    <3>2. k = 0
      <4>1. SUFFICES ASSUME k # 0 PROVE FALSE
        OBVIOUS
      <4>2. PICK jc \in Nat : k * Ceiling = jc + Ceiling
        BY <4>1, <1>1, OneLess
      <4> QED
        BY <2>2, <3>1, <4>2, <1>1, <1>2
    <3>3. h = new
      BY <2>2, <3>1, <3>2, <1>1, <1>2, <1>3, <1>4
    <3> QED
      BY <3>2, <3>3, <1>1, <1>3
  <2>3. ASSUME NEW k \in Nat, NEW g \in grants'[p], NEW h \in grants'[p],
               h.n >= g.n + k * Ceiling
        PROVE  h.start >= g.start + k * Minute
    <3>1. CASE g \in grants[p] /\ h \in grants[p]
      BY <2>3, <3>1 DEF PacePart, Spread
    <3>2. CASE g \in grants[p] /\ h = new
      BY <2>1, <2>3, <3>2, <1>3
    <3>3. CASE g = new
      BY <2>2, <2>3, <3>3, <1>3
    <3> QED
      BY <3>1, <3>2, <3>3, <1>4
  <2> QED
    BY <2>3 DEF Spread
<1> QED
  BY <1>7, <1>8, <1>9, <1>10 DEF PacePart

\* What a step does to the limiter's window and grants of a plugin.
LEMMA LimiterSteps ==
    ASSUME TypeInv, RateInv, [Next]_vars, NEW p \in PluginId, Live(p)'
    PROVE  /\ Live(p)
           /\ \/ wins'[p] = wins[p] /\ grants'[p] = grants[p]
              \/ wins'[p] = Nil /\ grants'[p] = {}
              \/ \E limit \in 0 .. Ceiling :
                    /\ HasRoom(p, limit) /\ now' = now
                    /\ wins'[p] = Counted(p)
                    /\ grants'[p] = grants[p] \union
                          {[n |-> Cardinality(grants[p]) + 1, at |-> now,
                            start |-> Window(p).start]}
<1> DEFINE Kept    == wins'[p] = wins[p] /\ grants'[p] = grants[p]
           Counts  == \E limit \in 0 .. Ceiling :
                         /\ HasRoom(p, limit) /\ now' = now
                         /\ wins'[p] = Counted(p)
                         /\ grants'[p] = grants[p] \union
                               {[n |-> Cardinality(grants[p]) + 1, at |-> now,
                                 start |-> Window(p).start]}
<1>1. wins \in [PluginId -> Win \union {Nil}] /\ grants \in [PluginId -> SUBSET Granted]
  BY DEF TypeInv, TypeOK
<1>2. ASSUME UNCHANGED <<wins, grants, plugins, lastPlugin>> PROVE Live(p) /\ Kept
  BY <1>2 DEF Live, Registered
<1>3. ASSUME NEW a \in Actor, Allow(a) PROVE Live(p) /\ (Kept \/ Counts)
  <2>1. PICK call, l : call \in Call /\ AllowCall(a, call, l)
    BY <1>3, AllowCases
  <2>2. call.plugin \in PluginId /\ call.limit \in 0 .. Ceiling
    BY <2>1 DEF Call
  <2>3. Live(p) /\ now' = now
    BY <2>1 DEF AllowCall, Live, Registered
  <2>4. CASE UNCHANGED <<wins, grants>> \/ p # call.plugin
    BY <2>1, <2>2, <2>3, <2>4, <1>1 DEF AllowCall
  <2>5. CASE /\ p = call.plugin /\ HasRoom(p, call.limit)
             /\ wins' = [wins EXCEPT ![p] = Counted(p)]
             /\ grants' = [grants EXCEPT ![p] = @ \union
                          {[n |-> Cardinality(@) + 1, at |-> now, start |-> Window(p).start]}]
    BY <2>2, <2>3, <2>5, <1>1
  <2>6. CASE /\ p = call.plugin /\ call.limit > 0 /\ ~HasRoom(p, call.limit)
             /\ wins' = [wins EXCEPT ![p] = Window(p)] /\ UNCHANGED grants
    <3>1. Window(p) = wins[p]
      BY <2>2, <2>6 DEF HasRoom, Window
    <3> QED
      BY <2>3, <2>6, <3>1, <1>1
  <2> QED
    BY <2>1, <2>4, <2>5, <2>6 DEF AllowCall
<1>4. ASSUME NEW setting \in Settings, CreateAIPlugin(setting) PROVE Live(p) /\ Kept
  <2>1. /\ UNCHANGED <<wins, grants>> /\ lastPlugin' = lastPlugin + 1 /\ lastPlugin \in Nat
        /\ Registered' \subseteq Registered \union {lastPlugin + 1}
    BY <1>4 DEF CreateAIPlugin, Registered, TypeInv, TypeOK
  <2> QED
    BY <2>1 DEF Live, PluginId
<1>5. ASSUME NEW q \in PluginId, NEW setting \in Settings, UpdateAIPlugin(q, setting)
      PROVE Live(p) /\ Kept
  <2>1. UNCHANGED <<wins, grants, lastPlugin>> /\ Registered' \subseteq Registered
    BY <1>5 DEF UpdateAIPlugin, Registered, TypeInv, TypeOK
  <2> QED
    BY <2>1 DEF Live
<1>6. ASSUME NEW q \in PluginId, DeleteAIPlugin(q) PROVE Live(p) /\ Kept
  <2>1. /\ UNCHANGED <<grants, lastPlugin>> /\ q \in Registered
        /\ Registered' \subseteq Registered \ {q} /\ (p # q => wins'[p] = wins[p])
    BY <1>6 DEF DeleteAIPlugin, Registered, TypeInv, TypeOK
  <2>2. ~(q > lastPlugin)
    BY <2>1 DEF RateInv, PluginId, TypeInv, TypeOK
  <2> QED
    BY <2>1, <2>2 DEF Live
<1>7. ASSUME Restart PROVE Live(p) /\ wins'[p] = Nil /\ grants'[p] = {}
  BY <1>7 DEF Restart, Live, Registered
<1>8. ASSUME \/ UNCHANGED vars \/ Tick
             \/ \E s \in SevId, row \in Rows : UpdateSEV(s, row)
             \/ \E event \in Events, s \in Subject : Dispatch(event, s)
             \/ \E c \in Client, s \in Subject : Request(c, s)
             \/ \E w \in Worker : Take(w)
      PROVE  Live(p) /\ Kept
  BY <1>2, <1>8 DEF vars, Tick, UpdateSEV, Dispatch, Request, Take
<1>9. ASSUME NEW a \in Actor, Step(a) PROVE Live(p) /\ (Kept \/ Counts)
  <2>1. CASE Gate(a) \/ ListPlugins(a) \/ ResolvePlugin(a)
    <3>1. UNCHANGED <<wins, grants, plugins, lastPlugin>>
      <4>1. CASE Gate(a)
        BY <4>1 DEF Gate
      <4>2. CASE ListPlugins(a)
        BY <4>2 DEF ListPlugins
      <4>3. CASE ResolvePlugin(a)
        BY <4>3 DEF ResolvePlugin
      <4> QED
        BY <2>1, <4>1, <4>2, <4>3
    <3> QED
      BY <1>2, <3>1
  <2>2. CASE BuildContext(a) \/ Store(a) \/ Fail(a)
    <3>1. UNCHANGED <<wins, grants, plugins, lastPlugin>>
      <4>1. CASE BuildContext(a)
        BY <4>1 DEF BuildContext
      <4>2. CASE Store(a)
        BY <4>2 DEF Store
      <4>3. CASE Fail(a)
        BY <4>3 DEF Fail
      <4> QED
        BY <2>2, <4>1, <4>2, <4>3
    <3> QED
      BY <1>2, <3>1
  <2> QED
    BY <1>3, <1>9, <2>1, <2>2 DEF Step
<1> HIDE DEF Kept, Counts
<1>10. Live(p) /\ (Kept \/ Counts \/ (wins'[p] = Nil /\ grants'[p] = {}))
  BY <1>4, <1>5, <1>6, <1>7, <1>8, <1>9 DEF Next
<1> QED
  BY <1>10 DEF Kept, Counts

LEMMA NextPace == TypeInv /\ RateInv /\ PaceInv /\ [Next]_vars => PaceInv'
<1> SUFFICES ASSUME TypeInv, RateInv, PaceInv, [Next]_vars, NEW p \in PluginId, Live(p)'
             PROVE  PacePart(p)'
  BY DEF PaceInv
<1>1. Live(p) /\ RatePart(p) /\ PacePart(p)
  BY LimiterSteps DEF PaceInv, RateInv, Live
<1>2. CASE wins'[p] = wins[p] /\ grants'[p] = grants[p]
  BY <1>1, <1>2
     DEF PacePart, Consecutive, LastOnes, FirstOfWindow, Spread, InWindow
<1>3. CASE wins'[p] = Nil /\ grants'[p] = {}
  <2>1. Cardinality(grants'[p]) = 0
    BY <1>3, FS_EmptySet
  <2>2. Consecutive(p)'
    BY <1>3, <2>1 DEF Consecutive
  <2> QED
    BY <1>3, <2>2 DEF PacePart, LastOnes, FirstOfWindow, Spread
<1>4. CASE \E limit \in 0 .. Ceiling :
              /\ HasRoom(p, limit) /\ now' = now
              /\ wins'[p] = Counted(p)
              /\ grants'[p] = grants[p] \union
                    {[n |-> Cardinality(grants[p]) + 1, at |-> now, start |-> Window(p).start]}
  BY <1>1, <1>4, PaceCounted
<1> QED
  BY <1>2, <1>3, <1>4, LimiterSteps

\* How many requests were counted from g to h, both included.
FromTo(g, h) == h.n - g.n + 1

\* Whatever the interleaving and the administrator's changes, in any k minutes the limiter
\* lets fewer than k + 1 times the highest limit through for a plugin. So the burst at a
\* boundary that the comment in ratelimit.go allows for is had once: the boundaries of a
\* longer time add nothing to it.
THEOREM RateOverSpans ==
    Spec => [](\A p \in Registered, k \in Nat : \A g, h \in grants[p] :
                  h.at < g.at + k * Minute => FromTo(g, h) < (k + 1) * Ceiling)
<1>1. Init => RateInv /\ PaceInv
  <2>1. SUFFICES ASSUME Init PROVE RateInv /\ PaceInv
    OBVIOUS
  <2>2. RateInv
    BY <2>1, DispatcherAssumption
       DEF Init, RateInv, RatePart, GrantsApart, Registered, PluginId
  <2>3. ASSUME NEW p \in PluginId PROVE PacePart(p)
    <3>1. wins[p] = Nil /\ grants[p] = {} /\ Cardinality(grants[p]) = 0
      BY <2>1, FS_EmptySet DEF Init
    <3> QED
      BY <3>1 DEF PacePart, Consecutive, LastOnes, FirstOfWindow, Spread
  <2> QED
    BY <2>2, <2>3 DEF PaceInv
<1>2. ASSUME TypeInv, RateInv, PaceInv, NEW p \in Registered, NEW k \in Nat,
             NEW g \in grants[p], NEW h \in grants[p], h.at < g.at + k * Minute
      PROVE  FromTo(g, h) < (k + 1) * Ceiling
  <2>1. p \in PluginId /\ PacePart(p) /\ RatePart(p)
    BY <1>2 DEF Registered, PaceInv, Live, RateInv
  <2>2. /\ \A e \in grants[p] : e.n \in Nat /\ e.at \in Nat /\ e.start \in Nat
        /\ Minute \in Nat /\ Ceiling \in Nat
    BY <1>2, <2>1, DispatcherAssumption DEF TypeInv, TypeOK, Granted
  <2>3. PICK kc \in Nat, km \in Nat : /\ kc = k * Ceiling /\ km = k * Minute
                                      /\ (k + 1) * Ceiling = kc + Ceiling
                                      /\ (k + 1) * Minute = km + Minute
    BY <2>2, OneMore
  <2>4. PICK f \in grants[p] : f.start = g.start /\ f.at = f.start /\ f.n <= g.n
    BY <2>1 DEF PacePart, FirstOfWindow, InWindow
  <2>5. h.start <= h.at /\ g.at < g.start + Minute
    BY <2>1 DEF RatePart, GrantsApart
  <2>6. Ceiling > 0
    <3>1. InWindow(p, g.start) # {} /\ IsFiniteSet(InWindow(p, g.start))
      BY <1>2, <2>1, FS_Subset DEF InWindow, TypeInv, GrantsNumbered
    <3>2. /\ Cardinality(InWindow(p, g.start)) # 0
          /\ Cardinality(InWindow(p, g.start)) \in Nat
      BY <3>1, FS_EmptySet, FS_CardinalityType
    <3>3. Cardinality(InWindow(p, g.start)) <= Ceiling
      BY <2>1 DEF RatePart, GrantsApart
    <3> QED
      BY <2>2, <3>2, <3>3
  <2>7. CASE f.n = g.n
    <3>1. f = g
      BY <2>1, <2>7 DEF PacePart, Consecutive
    <3>2. h.start < f.start + km
      BY <1>2, <2>2, <2>3, <2>4, <2>5, <3>1
    <3>3. ~(h.n >= f.n + k * Ceiling)
      BY <2>1, <2>2, <2>3, <3>2 DEF PacePart, Spread
    <3> QED
      BY <2>2, <2>3, <2>6, <3>1, <3>3 DEF FromTo
  <2>8. CASE f.n # g.n
    <3>1. h.start < f.start + (k + 1) * Minute
      BY <1>2, <2>2, <2>3, <2>4, <2>5
    <3>2. ~(h.n >= f.n + (k + 1) * Ceiling)
      <4>1. k + 1 \in Nat
        OBVIOUS
      <4> QED
        BY <2>1, <2>2, <2>3, <3>1, <4>1 DEF PacePart, Spread
    <3> QED
      BY <2>2, <2>3, <2>4, <2>8, <3>2 DEF FromTo
  <2> QED
    BY <2>7, <2>8
<1>3. TypeInv /\ RateInv /\ PaceInv =>
        \A p \in Registered, k \in Nat : \A g, h \in grants[p] :
            h.at < g.at + k * Minute => FromTo(g, h) < (k + 1) * Ceiling
  BY <1>2
<1> QED
  BY <1>1, <1>3, InitType, NextType, NextRate, NextPace, PTL DEF Spec

-------------------------------------------------------------------------------
(***************************************************************************)
(* The gate. A job past it is in fit, and so is one that would pass it now *)
(* (UpdateSEV adds the jobs a change makes fit).                           *)
(***************************************************************************)
FitInv ==
    \A a \in Actor :
        /\ loc[a].pc # "idle"
        /\ loc[a].pc = "gate" => FitFor(loc[a].event, sevs[loc[a].sev])
        => a \in fit

LEMMA GotoFit ==
    ASSUME TypeInv, FitInv, NEW a \in Actor, NEW l, Goto(a, l), UNCHANGED sevs,
           l = Idle \/ a \in fit
    PROVE  FitInv'
<1> SUFFICES ASSUME NEW b \in Actor, loc'[b].pc # "idle",
                    loc'[b].pc = "gate" => FitFor(loc'[b].event, sevs[loc'[b].sev])
             PROVE  b \in fit'
  BY DEF FitInv, FitFor
<1>1. CASE b = a
  BY <1>1 DEF Goto, Idle, TypeInv, TypeOK
<1>2. CASE b # a
  BY <1>2 DEF Goto, FitInv, TypeInv, TypeOK
<1> QED
  BY <1>1, <1>2

LEMMA StepGoes ==
    ASSUME TypeInv, NEW a \in Actor, Step(a)
    PROVE  /\ UNCHANGED sevs
           /\ loc[a].pc # "idle"
           /\ \/ Gate(a)
              \/ Goto(a, Idle)
              \/ BuildContext(a)
              \/ loc[a].pc # "gate" /\ \E l : Goto(a, l)
<1>1. CASE Gate(a)
  BY <1>1 DEF Gate
<1>2. CASE ListPlugins(a)
  BY <1>2 DEF ListPlugins
<1>3. CASE ResolvePlugin(a)
  BY <1>3 DEF ResolvePlugin
<1>4. CASE Allow(a)
  <2>1. UNCHANGED sevs /\ loc[a].pc = "next"
    BY <1>4 DEF Allow
  <2>2. \E l : Goto(a, l)
    BY <1>4, AllowCases DEF AllowCall
  <2> QED
    BY <2>1, <2>2
<1>5. CASE BuildContext(a)
  BY <1>5 DEF BuildContext
<1>6. CASE Store(a)
  BY <1>6 DEF Store
<1>7. CASE Fail(a)
  BY <1>7 DEF Fail
<1> QED
  BY <1>1, <1>2, <1>3, <1>4, <1>5, <1>6, <1>7 DEF Step

\* What is past the gate got there by being fit; what is not ends its job.
LEMMA StepFit ==
    ASSUME TypeInv, FitInv, NEW a \in Actor, Step(a)
    PROVE  FitInv'
<1>1. CASE Gate(a)
  <2> DEFINE row == sevs[loc[a].sev]
  <2>1. CASE AIEligible(row) /\ (loc[a].event = "sev.opened" => row.major)
    <3>1. a \in fit
      BY <1>1, <2>1 DEF Gate, FitInv, FitFor, AIEligible
    <3> QED
      BY <1>1, <3>1, GotoFit DEF Gate
  <2>2. CASE ~(AIEligible(row) /\ (loc[a].event = "sev.opened" => row.major))
    BY <1>1, <2>2, GotoFit DEF Gate
  <2> QED
    BY <2>1, <2>2
<1>2. CASE Goto(a, Idle)
  BY <1>2, StepGoes, GotoFit
<1>3. CASE loc[a].pc # "gate" /\ \E l : Goto(a, l)
  <2>1. a \in fit
    BY <1>3, StepGoes DEF FitInv
  <2> QED
    BY <1>3, <2>1, StepGoes, GotoFit
<1>4. CASE BuildContext(a)
  <2>1. a \in fit
    BY <1>4 DEF FitInv, BuildContext
  <2>2. loc'[a].pc = "store" /\ \A b \in Actor : b # a => loc'[b] = loc[b]
    BY <1>4 DEF BuildContext, TypeInv, TypeOK, Loc
  <2>3. UNCHANGED <<sevs, fit>>
    BY <1>4 DEF BuildContext
  <2> QED
    BY <2>1, <2>2, <2>3 DEF FitInv, FitFor
<1> QED
  BY <1>1, <1>2, <1>3, <1>4, StepGoes

LEMMA BeginFit ==
    ASSUME TypeInv, FitInv, UNCHANGED sevs, NEW a \in Actor, NEW l \in Loc, l.pc = "gate",
           loc' = [loc EXCEPT ![a] = l], Began(a, l.event, l.sev)
    PROVE  FitInv'
<1> SUFFICES ASSUME NEW b \in Actor, loc'[b].pc # "idle",
                    loc'[b].pc = "gate" => FitFor(loc'[b].event, sevs[loc'[b].sev])
             PROVE  b \in fit'
  BY DEF FitInv, FitFor
<1>1. CASE b = a
  BY <1>1 DEF Began, FitFor, TypeInv, TypeOK
<1>2. CASE b # a
  BY <1>2 DEF Began, FitInv, TypeInv, TypeOK
<1> QED
  BY <1>1, <1>2

LEMMA NextFit == TypeInv /\ FitInv /\ [Next]_vars => FitInv'
<1> SUFFICES ASSUME TypeInv, FitInv, [Next]_vars PROVE FitInv'
  OBVIOUS
<1>1. ASSUME UNCHANGED <<sevs, loc, fit>> PROVE FitInv'
  BY <1>1 DEF FitInv, FitFor
<1>2. ASSUME NEW s \in SevId, NEW row \in Rows, UpdateSEV(s, row) PROVE FitInv'
  <2>1. ASSUME NEW b \in Actor, loc[b].sev # s PROVE sevs'[loc[b].sev] = sevs[loc[b].sev]
    BY <1>2, <2>1 DEF UpdateSEV, TypeInv, TypeOK
  <2>2. ASSUME NEW b \in Actor, loc[b].sev = s PROVE sevs'[loc[b].sev] = row
    BY <1>2, <2>2 DEF UpdateSEV, TypeInv, TypeOK
  <2>3. /\ loc' = loc
        /\ fit' = fit \union {b \in Actor : loc[b].sev = s /\ FitFor(loc[b].event, row)}
    BY <1>2 DEF UpdateSEV
  <2> QED
    BY <2>1, <2>2, <2>3 DEF FitInv
<1>3. ASSUME NEW w \in Worker, Take(w) PROVE FitInv'
  <2> DEFINE t == Head(queue)
             l == [Idle EXCEPT !.pc = "gate", !.job = t.job, !.event = t.event, !.sev = t.sev]
  <2>1. t \in QueuedTask
    BY <1>3 DEF Take, TypeInv, TypeOK
  <2>2. /\ loc' = [loc EXCEPT ![w] = l] /\ Began(w, t.event, t.sev)
        /\ UNCHANGED sevs
    BY <1>3 DEF Take
  <2> HIDE DEF t
  <2>3. l \in Loc /\ l.pc = "gate" /\ l.event = t.event /\ l.sev = t.sev
    <3>1. t.job \in JobId /\ t.event \in Event /\ t.sev \in SevId
      BY <2>1 DEF QueuedTask
    <3>2. t.job \in 0 .. MaxJobs
      BY <3>1, DispatcherAssumption DEF JobId
    <3> QED
      BY <3>1, <3>2 DEF Loc, Idle
  <2> HIDE DEF l
  <2> QED
    BY <2>2, <2>3, BeginFit DEF Actor
<1>4. ASSUME NEW c \in Client, NEW s \in Subject, Request(c, s) PROVE FitInv'
  <2> DEFINE l == [Idle EXCEPT !.pc = "gate", !.job = lastJob + 1, !.sev = s]
  <2>1. /\ loc' = [loc EXCEPT ![c] = l] /\ Began(c, "manual", s)
        /\ UNCHANGED sevs
    BY <1>4 DEF Request
  <2>2. lastJob + 1 \in 0 .. MaxJobs
    BY <1>4, DispatcherAssumption DEF Request, TypeInv, TypeOK
  <2>3. l \in Loc /\ l.pc = "gate" /\ l.event = "manual" /\ l.sev = s
    BY <2>2, DispatcherAssumption DEF Loc, Idle
  <2> HIDE DEF l
  <2> QED
    BY <2>1, <2>3, BeginFit DEF Actor
<1>5. ASSUME NEW a \in Actor, Step(a) PROVE FitInv'
  BY <1>5, StepFit
<1>6. CASE \/ UNCHANGED vars
           \/ \E setting \in Settings : CreateAIPlugin(setting)
           \/ \E p \in PluginId, setting \in Settings : UpdateAIPlugin(p, setting)
           \/ \E p \in PluginId : DeleteAIPlugin(p)
           \/ \E event \in Events, s \in Subject : Dispatch(event, s)
           \/ Tick
  BY <1>1, <1>6 DEF vars, CreateAIPlugin, UpdateAIPlugin, DeleteAIPlugin, Dispatch, Tick
<1>7. ASSUME Restart PROVE FitInv'
  BY <1>7 DEF Restart, FitInv, Idle
<1> QED
  BY <1>2, <1>3, <1>4, <1>5, <1>6, <1>7 DEF Next

\* What the property asks of one step of the server.
PromptsFit ==
    \A a \in Actor :
        prompt'[a] # {} /\ prompt'[a] # prompt[a] =>
            /\ a \in fit
            /\ \A u \in prompt'[a] \ {loc[a].sev} : ~sevs[u].sensitive

\* A prompt is built by BuildContext alone; whatever else a goroutine does drops its own.
LEMMA StepPrompts ==
    ASSUME TypeInv, FitInv, NEW a \in Actor, Step(a)
    PROVE  PromptsFit
<1>1. ASSUME NEW l, Goto(a, l) PROVE PromptsFit
  <2>1. \A b \in Actor : prompt'[b] = {} \/ prompt'[b] = prompt[b]
    BY <1>1 DEF Goto, TypeInv, TypeOK
  <2> QED
    BY <2>1 DEF PromptsFit
<1>2. CASE Gate(a)
  BY <1>1, <1>2 DEF Gate
<1>3. CASE ListPlugins(a)
  BY <1>1, <1>3 DEF ListPlugins
<1>4. CASE ResolvePlugin(a)
  BY <1>1, <1>4 DEF ResolvePlugin
<1>5. CASE Allow(a)
  BY <1>1, <1>5, AllowCases DEF AllowCall
<1>6. CASE Store(a)
  BY <1>1, <1>6 DEF Store
<1>7. CASE Fail(a)
  BY <1>1, <1>7 DEF Fail
<1>8. CASE BuildContext(a)
  <2>1. a \in fit
    BY <1>8 DEF FitInv, BuildContext
  <2>2. PICK similar \in SUBSET (Unhidden \ {loc[a].sev}) :
           prompt' = [prompt EXCEPT ![a] = {loc[a].sev} \union similar]
    BY <1>8 DEF BuildContext
  <2>3. /\ prompt'[a] = {loc[a].sev} \union similar
        /\ \A b \in Actor : b # a => prompt'[b] = prompt[b]
    BY <2>2 DEF TypeInv, TypeOK
  <2>4. \A u \in similar : ~sevs[u].sensitive
    BY <2>2 DEF Unhidden
  <2> QED
    BY <2>1, <2>3, <2>4 DEF PromptsFit
<1> QED
  BY <1>2, <1>3, <1>4, <1>5, <1>6, <1>7, <1>8 DEF Step

LEMMA NextPrompts == TypeInv /\ FitInv /\ [Next]_vars => [PromptsFit]_vars
<1> SUFFICES ASSUME TypeInv, FitInv, [Next]_vars PROVE PromptsFit
  OBVIOUS
<1>1. CASE UNCHANGED prompt
  BY <1>1 DEF PromptsFit
<1>2. ASSUME NEW a \in Actor, Step(a) PROVE PromptsFit
  BY <1>2, StepPrompts
<1>3. CASE Restart
  BY <1>3 DEF Restart, PromptsFit
<1>4. ASSUME NEW s \in SevId, NEW row \in Rows, UpdateSEV(s, row) PROVE UNCHANGED prompt
  BY <1>4 DEF UpdateSEV
<1>5. ASSUME \/ UNCHANGED vars
             \/ \E setting \in Settings : CreateAIPlugin(setting)
             \/ \E p \in PluginId, setting \in Settings : UpdateAIPlugin(p, setting)
             \/ \E p \in PluginId : DeleteAIPlugin(p)
             \/ Tick
      PROVE  UNCHANGED prompt
  BY <1>5 DEF vars, CreateAIPlugin, UpdateAIPlugin, DeleteAIPlugin, Tick
<1>6. ASSUME \/ \E event \in Events, s \in Subject : Dispatch(event, s)
             \/ \E c \in Client, s \in Subject : Request(c, s)
             \/ \E w \in Worker : Take(w)
      PROVE  UNCHANGED prompt
  BY <1>6 DEF Dispatch, Request, Take
<1> QED
  BY <1>1, <1>2, <1>3, <1>4, <1>5, <1>6 DEF Next

\* A prompt is built only for a SEV that was eligible, and severe enough for the trigger,
\* after the job had begun, and names no sensitive SEV beside it: the gate is never
\* bypassed, and the listing of the similar SEVs is of the flags as they are then.
THEOREM CallsCorrect == Spec => CallsWarranted
<1>1. Init => FitInv
  BY DEF Init, FitInv, Idle
<1>2. TypeInv /\ FitInv /\ [Next]_vars =>
         [\A a \in Actor :
             prompt'[a] # {} /\ prompt'[a] # prompt[a] =>
                 /\ a \in fit
                 /\ \A u \in prompt'[a] \ {loc[a].sev} : ~sevs[u].sensitive]_vars
  BY NextPrompts DEF PromptsFit
<1> QED
  BY <1>1, <1>2, InitType, NextType, NextFit, PTL DEF Spec, CallsWarranted

-------------------------------------------------------------------------------
(***************************************************************************)
(* Outputs. A job is in the channel, in the hands of one goroutine, or     *)
(* over; in the channel it has no output yet, and in hand it has none of a *)
(* call that is still to be made.                                          *)
(***************************************************************************)
Same(c, d) == c.plugin = d.plugin /\ c.action = d.action

Written(j, c) == \E i \in DOMAIN outputs[j] : Same(outputs[j][i], c)

CallsFresh(l) ==
    /\ l.pc \in {"gate", "resolve"} => outputs[l.job] = <<>>
    /\ l.pc \in {"next", "call", "store"} =>
          \A c \in l.calls : /\ ~Written(l.job, c)
                             /\ \A d \in l.calls : Same(c, d) => c = d
    /\ l.pc \in {"call", "store"} =>
          ~Written(l.job, l.call) /\ \A c \in l.calls : ~Same(c, l.call)

JobsApart ==
    /\ \A j \in JobId : j > lastJob => outputs[j] = <<>>
    /\ \A i \in DOMAIN queue :
          /\ queue[i].job <= lastJob /\ outputs[queue[i].job] = <<>>
          /\ \A a \in Actor : loc[a].pc # "idle" => loc[a].job # queue[i].job
          /\ \A k \in DOMAIN queue : queue[i].job = queue[k].job => i = k
    /\ \A a \in Actor : loc[a].pc # "idle" =>
          /\ loc[a].job <= lastJob
          /\ \A b \in Actor : loc[b].pc # "idle" /\ loc[b].job = loc[a].job => a = b

OnceInv == TypeInv /\ OncePerJob /\ JobsApart /\ \A a \in Actor : CallsFresh(loc[a])

LEMMA OnceFacts ==
    ASSUME TypeInv
    PROVE  /\ lastJob \in Nat /\ JobId \subseteq Nat /\ MaxJobs \in Nat
           /\ outputs \in [JobId -> Seq(Output)] /\ queue \in Seq(QueuedTask)
           /\ loc \in [Actor -> Loc]
           /\ \A i \in DOMAIN queue : queue[i] \in QueuedTask /\ queue[i].job \in JobId
           /\ \A a \in Actor : loc[a].pc # "idle" => loc[a].job \in JobId
<1>1. ASSUME NEW i \in DOMAIN queue
      PROVE  queue[i] \in QueuedTask /\ queue[i].job \in JobId
  <2>1. queue \in Seq(QueuedTask)
    BY DEF TypeInv, TypeOK
  <2>2. queue[i] \in QueuedTask
    BY <2>1
  <2> QED
    BY <2>2 DEF QueuedTask
<1> QED
  BY <1>1, DispatcherAssumption DEF TypeInv, TypeOK, JobId

\* A goroutine goes on with its job, or ends it; it may have stored an output of it.
LEMMA OnceMove ==
    ASSUME OnceInv, TypeInv', OncePerJob', NEW a \in Actor, loc[a].pc # "idle",
           loc' = [loc EXCEPT ![a] = loc'[a]], UNCHANGED <<queue, lastJob>>,
           \A j \in JobId : j # loc[a].job => outputs'[j] = outputs[j],
           loc'[a].pc # "idle" => loc'[a].job = loc[a].job /\ CallsFresh(loc[a])'
    PROVE  OnceInv'
<1>1. \A b \in Actor : b # a => loc'[b] = loc[b]
  BY OnceFacts DEF OnceInv
<1>2. JobsApart'
  <2>1. \A j \in JobId : j > lastJob => outputs'[j] = <<>>
    BY OnceFacts DEF OnceInv, JobsApart
  <2>2. \A i \in DOMAIN queue : queue[i].job \in JobId /\ outputs'[queue[i].job] = <<>>
    BY OnceFacts DEF OnceInv, JobsApart
  <2>3. \A b \in Actor : loc'[b].pc # "idle" => loc[b].pc # "idle" /\ loc'[b].job = loc[b].job
    BY <1>1
  <2> QED
    BY <2>1, <2>2, <2>3 DEF OnceInv, JobsApart
<1>3. ASSUME NEW b \in Actor PROVE CallsFresh(loc[b])'
  <2>1. CASE b = a /\ loc'[a].pc # "idle"
    BY <2>1
  <2>2. CASE b = a /\ loc'[a].pc = "idle"
    BY <2>2 DEF CallsFresh
  <2>3. CASE b # a /\ loc[b].pc = "idle"
    BY <1>1, <2>3 DEF CallsFresh
  <2>4. CASE b # a /\ loc[b].pc # "idle"
    <3>1. outputs'[loc[b].job] = outputs[loc[b].job]
      BY <2>4, OnceFacts DEF OnceInv, JobsApart
    <3> QED
      BY <1>1, <2>4, <3>1 DEF OnceInv, CallsFresh, Written
  <2> QED
    BY <2>1, <2>2, <2>3, <2>4
<1> QED
  BY <1>2, <1>3 DEF OnceInv

\* The same for a step that stores nothing.
LEMMA OnceGoes ==
    ASSUME OnceInv, TypeInv', NEW a \in Actor, NEW l, Goto(a, l), loc[a].pc # "idle",
           UNCHANGED <<queue, lastJob, outputs>>,
           l.pc # "idle" => l.job = loc[a].job /\ CallsFresh(l)
    PROVE  OnceInv'
<1>1. loc'[a] = l /\ loc' = [loc EXCEPT ![a] = loc'[a]]
  BY OnceFacts DEF Goto, OnceInv
<1>2. OncePerJob'
  BY DEF OnceInv, OncePerJob
<1>3. l.pc # "idle" => CallsFresh(loc[a])'
  BY <1>1 DEF CallsFresh, Written
<1> QED
  BY <1>1, <1>2, <1>3, OnceMove

\* On to the next call, the last one having failed.
LEMMA ResumeFresh ==
    ASSUME OnceInv, NEW a \in Actor, loc[a].pc \in {"call", "store"}
    PROVE  Resume(a).pc # "idle" => /\ Resume(a).pc = "next"
                                    /\ Resume(a).job = loc[a].job
                                    /\ Resume(a).calls = loc[a].calls
                                    /\ CallsFresh(Resume(a))
<1>1. loc[a] \in Loc
  BY OnceFacts DEF OnceInv
<1>2. CASE loc[a].calls = {}
  BY <1>2 DEF Resume, Idle
<1>3. CASE loc[a].calls # {}
  <2>1. /\ Resume(a).pc = "next" /\ Resume(a).job = loc[a].job
        /\ Resume(a).calls = loc[a].calls
    BY <1>1, <1>3 DEF Resume, Loc
  <2> QED
    BY <2>1 DEF OnceInv, CallsFresh
<1> QED
  BY <1>2, <1>3

LEMMA GateOnce == ASSUME OnceInv, NEW a \in Actor, Gate(a) PROVE OnceInv'
<1>1. TypeInv' /\ loc[a] \in Loc /\ loc[a].pc = "gate"
  BY GateType, OnceFacts DEF OnceInv, Gate
<1>2. PICK l : l = [loc[a] EXCEPT !.pc = "resolve"]
  OBVIOUS
<1>3. l.pc = "resolve" /\ l.job = loc[a].job
  BY <1>1, <1>2 DEF Loc
<1>4. CallsFresh(l)
  BY <1>1, <1>3 DEF OnceInv, CallsFresh
<1>5. PICK i : i = Idle
  OBVIOUS
<1>6. i.pc = "idle"
  BY <1>5 DEF Idle
<1>7. Goto(a, l) \/ Goto(a, i)
  BY <1>2, <1>5 DEF Gate
<1>8. UNCHANGED <<queue, lastJob, outputs>>
  BY DEF Gate
<1> QED
  BY <1>1, <1>3, <1>4, <1>6, <1>7, <1>8, OnceGoes

LEMMA ListPluginsOnce == ASSUME OnceInv, NEW w \in Actor, ListPlugins(w) PROVE OnceInv'
<1> DEFINE willing == {p \in EnabledPlugins : loc[w].event \in plugins[p].on}
           calls   == {CallOf(p, action) : p \in willing,
                                           action \in TriggerActions(loc[w].event)}
           l       == IF calls = {} THEN Idle
                      ELSE [loc[w] EXCEPT !.pc = "next", !.calls = calls]
<1>1. TypeInv' /\ TypeInv
  BY ListPluginsType DEF OnceInv
<1>2. loc[w] \in Loc /\ loc[w].pc = "resolve"
  BY <1>1, OnceFacts DEF ListPlugins
<1>3. Goto(w, l)
  BY DEF ListPlugins
<1>4. \A c \in calls, d \in calls : Same(c, d) => c = d
  BY DEF Same, CallOf
<1> HIDE DEF calls
<1>5. l.pc # "idle" => l.pc = "next" /\ l.job = loc[w].job /\ l.calls = calls
  BY <1>2 DEF Loc, Idle
<1> HIDE DEF l
<1>6. \A c \in calls : ~Written(loc[w].job, c)
  BY <1>2 DEF OnceInv, CallsFresh, Written
<1>7. l.pc # "idle" => CallsFresh(l)
  BY <1>4, <1>5, <1>6 DEF CallsFresh
<1>8. UNCHANGED <<queue, lastJob, outputs>>
  BY DEF ListPlugins
<1> QED
  BY <1>1, <1>2, <1>3, <1>5, <1>7, <1>8, OnceGoes

LEMMA ResolvePluginOnce == ASSUME OnceInv, NEW c \in Actor, ResolvePlugin(c) PROVE OnceInv'
<1>1. TypeInv' /\ loc[c] \in Loc /\ loc[c].pc = "resolve"
  BY ResolvePluginType, OnceFacts DEF OnceInv, ResolvePlugin
<1>2. PICK p \in EnabledPlugins, action \in Asked :
         Goto(c, [loc[c] EXCEPT !.pc = "next", !.calls = {CallOf(p, action)}])
  BY DEF ResolvePlugin
<1>3. PICK call : call = CallOf(p, action)
  OBVIOUS
<1>4. PICK l : l = [loc[c] EXCEPT !.pc = "next", !.calls = {call}]
  OBVIOUS
<1>5. l.pc = "next" /\ l.job = loc[c].job /\ l.calls = {call}
  BY <1>1, <1>4 DEF Loc
<1>6. CallsFresh(l)
  BY <1>1, <1>5 DEF OnceInv, CallsFresh, Written
<1>7. Goto(c, l)
  BY <1>2, <1>3, <1>4
<1>8. UNCHANGED <<queue, lastJob, outputs>>
  BY DEF ResolvePlugin
<1> QED
  BY <1>1, <1>5, <1>6, <1>7, <1>8, OnceGoes

LEMMA AllowOnce == ASSUME OnceInv, NEW a \in Actor, Allow(a) PROVE OnceInv'
<1>1. TypeInv' /\ loc[a] \in Loc /\ loc[a].pc = "next"
  BY AllowType, OnceFacts DEF OnceInv, Allow
<1>2. PICK call \in loc[a].calls :
         \/ Goto(a, [[loc[a] EXCEPT !.calls = @ \ {call}] EXCEPT !.pc = "call", !.call = call])
         \/ Goto(a, IF [loc[a] EXCEPT !.calls = @ \ {call}].calls = {} THEN Idle
                    ELSE [loc[a] EXCEPT !.calls = @ \ {call}])
  BY DEF Allow
<1>3. PICK left : left = [loc[a] EXCEPT !.calls = @ \ {call}]
  OBVIOUS
<1>4. PICK made : made = [left EXCEPT !.pc = "call", !.call = call]
  OBVIOUS
<1>5. /\ left.pc = "next" /\ left.job = loc[a].job /\ left.calls = loc[a].calls \ {call}
      /\ made.pc = "call" /\ made.job = loc[a].job /\ made.calls = loc[a].calls \ {call}
      /\ made.call = call
  BY <1>1, <1>3, <1>4 DEF Loc
<1>6. CallsFresh(left) /\ CallsFresh(made)
  <2>1. /\ \A c \in loc[a].calls : ~Written(loc[a].job, c)
        /\ \A c \in loc[a].calls, d \in loc[a].calls : Same(c, d) => c = d
    BY <1>1 DEF OnceInv, CallsFresh
  <2> QED
    BY <1>5, <2>1 DEF CallsFresh
<1>7. PICK i : i = Idle
  OBVIOUS
<1>8. i.pc = "idle"
  BY <1>7 DEF Idle
<1>9. Goto(a, made) \/ Goto(a, left) \/ Goto(a, i)
  BY <1>2, <1>3, <1>4, <1>7
<1>10. UNCHANGED <<queue, lastJob, outputs>>
  BY DEF Allow
<1> QED
  BY <1>1, <1>5, <1>6, <1>8, <1>9, <1>10, OnceGoes

LEMMA BuildContextOnce == ASSUME OnceInv, NEW a \in Actor, BuildContext(a) PROVE OnceInv'
<1>1. TypeInv' /\ loc[a] \in Loc /\ loc[a].pc = "call"
  BY BuildContextType, OnceFacts DEF OnceInv, BuildContext
<1>2. PICK l : l = [loc[a] EXCEPT !.pc = "store"]
  OBVIOUS
<1>3. /\ l.pc = "store" /\ l.job = loc[a].job /\ l.calls = loc[a].calls
      /\ l.call = loc[a].call
  BY <1>1, <1>2 DEF Loc
<1>4. CallsFresh(l)
  BY <1>1, <1>3 DEF OnceInv, CallsFresh
<1>5. /\ loc' = [loc EXCEPT ![a] = l] /\ loc'[a] = l
      /\ UNCHANGED <<queue, lastJob, outputs>>
  BY <1>2, OnceFacts DEF BuildContext, OnceInv
<1>6. CallsFresh(loc[a])'
  BY <1>4, <1>5 DEF CallsFresh, Written
<1>7. OncePerJob'
  BY <1>5 DEF OnceInv, OncePerJob
<1> QED
  BY <1>1, <1>3, <1>5, <1>6, <1>7, OnceMove

LEMMA FailOnce == ASSUME OnceInv, NEW a \in Actor, Fail(a) PROVE OnceInv'
<1>1. TypeInv' /\ loc[a].pc # "idle"
  BY FailType DEF OnceInv, Fail
<1>2. PICK l, i : l = Resume(a) /\ i = Idle
  OBVIOUS
<1>3. i.pc = "idle"
  BY <1>2 DEF Idle
<1>4. \/ Goto(a, i)
      \/ Goto(a, l) /\ loc[a].pc \in {"call", "store"}
  BY <1>2 DEF Fail
<1>5. UNCHANGED <<queue, lastJob, outputs>>
  BY DEF Fail
<1> QED
  BY <1>1, <1>2, <1>3, <1>4, <1>5, OnceGoes, ResumeFresh

\* The output stored is of a call of which there was none.
LEMMA StoreOnce == ASSUME OnceInv, NEW a \in Actor, Store(a) PROVE OnceInv'
<1>1. TypeInv' /\ loc[a] \in Loc /\ loc[a].pc = "store" /\ loc[a].job \in JobId
  BY StoreType, OnceFacts DEF OnceInv, Store
<1>2. PICK out : out = [plugin |-> loc[a].call.plugin, action |-> loc[a].call.action]
  OBVIOUS
<1>3. PICK j \in JobId : j = loc[a].job
  BY <1>1
<1>4. out \in Output /\ Same(out, loc[a].call)
  <2>1. loc[a].call \in Call
    BY <1>1 DEF OnceInv, TypeInv, TypeOK
  <2> QED
    BY <1>2, <2>1 DEF Call, Output, Same
<1>5. outputs' = [outputs EXCEPT ![j] = Append(@, out)]
  BY <1>2, <1>3 DEF Store
<1>6. /\ \A k \in JobId : k # j => outputs'[k] = outputs[k]
      /\ outputs'[j] = Append(outputs[j], out) /\ outputs[j] \in Seq(Output)
  BY <1>5, OnceFacts DEF OnceInv
<1>7. PICK old : old = outputs[j] /\ old \in Seq(Output)
  BY <1>6
<1>8. /\ outputs'[j] = Append(old, out)
      /\ DOMAIN outputs'[j] = 1 .. Len(old) + 1 /\ DOMAIN old = 1 .. Len(old) /\ Len(old) \in Nat
      /\ outputs'[j][Len(old) + 1] = out
      /\ \A i \in DOMAIN old : outputs'[j][i] = old[i]
  BY <1>4, <1>6, <1>7
<1>9. ~Written(j, loc[a].call) /\ \A c \in loc[a].calls : ~Same(c, loc[a].call)
  BY <1>1, <1>3 DEF OnceInv, CallsFresh
<1>10. \A i \in DOMAIN old : old[i] # out
  BY <1>4, <1>7, <1>9 DEF Written
<1>11. OncePerJob'
  <2> SUFFICES ASSUME NEW n \in JobId, NEW i \in DOMAIN outputs'[n], NEW k \in DOMAIN outputs'[n],
                      i # k
               PROVE  outputs'[n][i] # outputs'[n][k]
    BY DEF OncePerJob
  <2>1. CASE n # j
    BY <1>6, <2>1 DEF OnceInv, OncePerJob
  <2>2. CASE n = j
    <3>1. \A x \in DOMAIN old, y \in DOMAIN old : x # y => old[x] # old[y]
      BY <1>7 DEF OnceInv, OncePerJob
    <3>2. \A x \in DOMAIN outputs'[j] : x \in DOMAIN old \/ x = Len(old) + 1
      BY <1>8
    <3> QED
      BY <1>8, <1>10, <2>2, <3>1, <3>2
  <2> QED
    BY <2>1, <2>2
<1>12. loc'[a] = Resume(a) /\ loc' = [loc EXCEPT ![a] = loc'[a]]
       /\ UNCHANGED <<queue, lastJob>>
  BY OnceFacts DEF Store, Goto, OnceInv
<1>13. loc'[a].pc # "idle" => loc'[a].job = loc[a].job /\ CallsFresh(loc[a])'
  <2> SUFFICES ASSUME loc'[a].pc # "idle"
               PROVE  loc'[a].job = loc[a].job /\ CallsFresh(loc[a])'
    OBVIOUS
  <2>1. /\ loc'[a].pc = "next" /\ loc'[a].job = j /\ loc'[a].calls = loc[a].calls
        /\ \A c \in loc[a].calls : /\ ~Written(j, c)
                                   /\ \A d \in loc[a].calls : Same(c, d) => c = d
    BY <1>1, <1>3, <1>12, ResumeFresh DEF CallsFresh
  <2>2. ASSUME NEW c \in loc[a].calls, NEW i \in DOMAIN outputs'[j], Same(outputs'[j][i], c)
        PROVE  FALSE
    <3>1. CASE i \in DOMAIN old
      BY <1>7, <1>8, <2>1, <2>2, <3>1 DEF Written
    <3>2. CASE i = Len(old) + 1
      BY <1>4, <1>8, <1>9, <2>2, <3>2 DEF Same
    <3> QED
      BY <1>8, <3>1, <3>2
  <2> QED
    BY <1>3, <2>1, <2>2 DEF CallsFresh, Written
<1> QED
  BY <1>1, <1>3, <1>6, <1>11, <1>12, <1>13, OnceMove

\* A job begins with nothing stored, and nobody else is at it.
LEMMA BeginOnce ==
    ASSUME OnceInv, TypeInv', NEW a \in Actor, NEW l, loc[a].pc = "idle",
           loc' = [loc EXCEPT ![a] = l], l.pc = "gate", UNCHANGED outputs,
           l.job \in JobId, outputs[l.job] = <<>>, lastJob <= lastJob', l.job <= lastJob',
           \A b \in Actor : loc[b].pc # "idle" => loc[b].job # l.job,
           \A i \in DOMAIN queue' :
              /\ queue'[i].job # l.job
              /\ \E k \in DOMAIN queue : queue'[i] = queue[k]
              /\ \A k \in DOMAIN queue' : queue'[i].job = queue'[k].job => i = k
    PROVE  OnceInv'
<1>1. loc'[a] = l /\ \A b \in Actor : b # a => loc'[b] = loc[b]
  BY OnceFacts DEF OnceInv
<1>2. /\ lastJob \in Nat /\ lastJob' \in Nat /\ JobId \subseteq Nat
      /\ \A i \in DOMAIN queue : queue[i].job \in Nat
      /\ \A b \in Actor : loc[b].pc # "idle" => loc[b].job \in Nat
  BY OnceFacts DEF OnceInv, TypeInv, TypeOK
<1>3. JobsApart'
  <2>1. \A j \in JobId : j > lastJob' => outputs'[j] = <<>>
    BY <1>2 DEF OnceInv, JobsApart
  <2>2. \A i \in DOMAIN queue' :
          /\ queue'[i].job <= lastJob' /\ outputs'[queue'[i].job] = <<>>
          /\ \A b \in Actor : loc'[b].pc # "idle" => loc'[b].job # queue'[i].job
    <3> SUFFICES ASSUME NEW i \in DOMAIN queue'
                 PROVE  /\ queue'[i].job <= lastJob' /\ outputs'[queue'[i].job] = <<>>
                        /\ \A b \in Actor : loc'[b].pc # "idle" => loc'[b].job # queue'[i].job
      OBVIOUS
    <3>1. PICK k \in DOMAIN queue : queue'[i] = queue[k]
      OBVIOUS
    <3>2. queue[k].job <= lastJob /\ outputs[queue[k].job] = <<>>
          /\ \A b \in Actor : loc[b].pc # "idle" => loc[b].job # queue[k].job
      BY DEF OnceInv, JobsApart
    <3> QED
      BY <1>1, <1>2, <3>1, <3>2
  <2>3. \A b \in Actor : loc'[b].pc # "idle" =>
          /\ loc'[b].job <= lastJob'
          /\ \A c \in Actor : loc'[c].pc # "idle" /\ loc'[c].job = loc'[b].job => b = c
    <3> SUFFICES ASSUME NEW b \in Actor, loc'[b].pc # "idle"
                 PROVE  /\ loc'[b].job <= lastJob'
                        /\ \A c \in Actor :
                              loc'[c].pc # "idle" /\ loc'[c].job = loc'[b].job => b = c
      OBVIOUS
    <3>1. CASE b = a
      <4>1. \A c \in Actor : c # a /\ loc'[c].pc # "idle" => loc'[c].job # l.job
        BY <1>1
      <4> QED
        BY <1>1, <3>1, <4>1
    <3>2. CASE b # a
      <4>1. loc'[b] = loc[b] /\ loc[b].pc # "idle"
        BY <1>1, <3>2
      <4>2. loc[b].job \in Nat /\ loc[b].job <= lastJob /\ loc[b].job # l.job
        <5>1. loc[b].job \in Nat /\ loc[b].job # l.job
          BY <1>2, <4>1
        <5>2. loc[b].job <= lastJob
          BY <4>1, Zenon DEF OnceInv, JobsApart
        <5> QED
          BY <5>1, <5>2
      <4>3. \A c \in Actor : loc[c].pc # "idle" /\ loc[c].job = loc[b].job => b = c
        BY <4>1, Zenon DEF OnceInv, JobsApart
      <4>4. loc'[b].job <= lastJob'
        BY <1>2, <4>1, <4>2
      <4>5. \A c \in Actor : loc'[c].pc # "idle" /\ loc'[c].job = loc'[b].job => b = c
        BY <1>1, <4>1, <4>2, <4>3
      <4> QED
        BY <4>4, <4>5
    <3> QED
      BY <3>1, <3>2
  <2> QED
    BY <2>1, <2>2, <2>3 DEF JobsApart
<1>4. ASSUME NEW b \in Actor PROVE CallsFresh(loc[b])'
  BY <1>1 DEF OnceInv, CallsFresh, Written
<1>5. OncePerJob'
  BY DEF OnceInv, OncePerJob
<1> QED
  BY <1>3, <1>4, <1>5 DEF OnceInv

LEMMA TakeOnce == ASSUME OnceInv, NEW w \in Worker, Take(w) PROVE OnceInv'
<1>1. TypeInv' /\ w \in Actor /\ loc[w].pc = "idle" /\ queue # <<>>
  BY TakeType DEF OnceInv, Take, Actor
<1>2. PICK t : t = Head(queue)
  OBVIOUS
<1>3. /\ 1 \in DOMAIN queue /\ t = queue[1] /\ t \in QueuedTask /\ t.job \in JobId
      /\ queue' = Tail(queue)
      /\ \A i \in DOMAIN queue' : /\ i \in Nat /\ i + 1 \in DOMAIN queue /\ i + 1 # 1
                                  /\ queue'[i] = queue[i + 1]
  <2>1. queue \in Seq(QueuedTask) /\ queue' = Tail(queue)
    BY OnceFacts DEF OnceInv, Take
  <2>2. 1 \in DOMAIN queue /\ t = queue[1]
    BY <1>1, <1>2, <2>1
  <2>3. t \in QueuedTask
    BY <2>1, <2>2
  <2>4. t.job \in JobId
    BY <2>3 DEF QueuedTask
  <2>5. \A i \in DOMAIN queue' : /\ i \in Nat /\ i + 1 \in DOMAIN queue /\ i + 1 # 1
                                /\ queue'[i] = queue[i + 1]
    BY <1>1, <2>1
  <2> QED
    BY <2>1, <2>2, <2>3, <2>4, <2>5
<1>4. PICK l : l = [Idle EXCEPT !.pc = "gate", !.job = t.job, !.event = t.event, !.sev = t.sev]
  OBVIOUS
<1>5. l.pc = "gate" /\ l.job = t.job
  BY <1>4 DEF Idle
<1>6. /\ outputs[t.job] = <<>> /\ t.job <= lastJob
      /\ \A b \in Actor : loc[b].pc # "idle" => loc[b].job # t.job
      /\ \A k \in DOMAIN queue : queue[k].job = t.job => k = 1
  BY <1>3 DEF OnceInv, JobsApart
<1>7. \A i \in DOMAIN queue' :
         /\ queue'[i].job # l.job
         /\ \E k \in DOMAIN queue : queue'[i] = queue[k]
         /\ \A k \in DOMAIN queue' : queue'[i].job = queue'[k].job => i = k
  <2> SUFFICES ASSUME NEW i \in DOMAIN queue'
               PROVE  /\ queue'[i].job # l.job
                      /\ \E k \in DOMAIN queue : queue'[i] = queue[k]
                      /\ \A k \in DOMAIN queue' : queue'[i].job = queue'[k].job => i = k
    OBVIOUS
  <2>1. \A k \in DOMAIN queue' : queue[i + 1].job = queue[k + 1].job => i + 1 = k + 1
    BY <1>3 DEF OnceInv, JobsApart
  <2> QED
    BY <1>3, <1>5, <1>6, <2>1
<1>8. loc' = [loc EXCEPT ![w] = l] /\ UNCHANGED <<outputs, lastJob>>
  BY <1>2, <1>4 DEF Take
<1>9. lastJob <= lastJob'
  BY <1>8, OnceFacts DEF OnceInv
<1>10. /\ l.job \in JobId /\ outputs[l.job] = <<>> /\ l.job <= lastJob'
       /\ \A b \in Actor : loc[b].pc # "idle" => loc[b].job # l.job
  BY <1>3, <1>5, <1>6, <1>8
<1> QED
  BY <1>1, <1>5, <1>7, <1>8, <1>9, <1>10, BeginOnce

LEMMA RequestOnce ==
    ASSUME OnceInv, NEW c \in Client, NEW s \in SevId, Request(c, s) PROVE OnceInv'
<1>1. TypeInv' /\ c \in Actor /\ loc[c].pc = "idle" /\ lastJob \in Nat /\ lastJob' = lastJob + 1
  BY RequestType, OnceFacts DEF OnceInv, Request, Actor
<1>2. PICK l : l = [Idle EXCEPT !.pc = "gate", !.job = lastJob + 1, !.sev = s]
  OBVIOUS
<1>3. l.pc = "gate" /\ l.job = lastJob + 1
  BY <1>2 DEF Idle
<1>4. l.job \in JobId
  BY <1>1, <1>3, OnceFacts DEF OnceInv, Request, JobId
<1>5. /\ outputs[l.job] = <<>>
      /\ \A b \in Actor : loc[b].pc # "idle" => loc[b].job # l.job
      /\ \A i \in DOMAIN queue : queue[i].job # l.job
  <2>1. /\ \A b \in Actor : loc[b].pc # "idle" => loc[b].job <= lastJob /\ loc[b].job \in Nat
        /\ \A i \in DOMAIN queue : queue[i].job <= lastJob /\ queue[i].job \in Nat
    BY OnceFacts DEF OnceInv, JobsApart
  <2> QED
    BY <1>1, <1>3, <1>4, <2>1 DEF OnceInv, JobsApart
<1>6. loc' = [loc EXCEPT ![c] = l] /\ UNCHANGED <<outputs, queue>>
  BY <1>2 DEF Request
<1>7. \A i \in DOMAIN queue' :
         /\ queue'[i].job # l.job
         /\ \E k \in DOMAIN queue : queue'[i] = queue[k]
         /\ \A k \in DOMAIN queue' : queue'[i].job = queue'[k].job => i = k
  BY <1>5, <1>6 DEF OnceInv, JobsApart
<1>8. lastJob <= lastJob' /\ l.job <= lastJob'
  BY <1>1, <1>3
<1> QED
  BY <1>1, <1>3, <1>4, <1>5, <1>6, <1>7, <1>8, BeginOnce

LEMMA DispatchOnce ==
    ASSUME OnceInv, NEW event \in Events, NEW s \in SevId, Dispatch(event, s) PROVE OnceInv'
<1>1. TypeInv' /\ lastJob \in Nat /\ lastJob' = lastJob + 1 /\ UNCHANGED <<loc, outputs>>
  <2>1. TypeInv'
    BY DispatchType, DispatcherAssumption DEF OnceInv
  <2>2. lastJob \in Nat
    BY OnceFacts DEF OnceInv
  <2> QED
    BY <2>1, <2>2 DEF Dispatch
<1>2. PICK t : t = Task(event, s)
  OBVIOUS
<1>3. t \in QueuedTask /\ t.job = lastJob + 1 /\ t.job \in JobId
  BY <1>2, TaskType, DispatcherAssumption DEF OnceInv, Dispatch, Task, QueuedTask
<1>4. PICK n \in Nat : n = Len(queue) /\ DOMAIN queue = 1 .. n
  BY OnceFacts DEF OnceInv
<1>5. /\ DOMAIN queue' = 1 .. n + 1 /\ queue'[n + 1] = t
      /\ \A i \in 1 .. n : queue'[i] = queue[i]
  <2>1. queue' = Append(queue, t) /\ queue \in Seq(QueuedTask)
    BY <1>2, OnceFacts DEF OnceInv, Dispatch
  <2> QED
    BY <1>3, <1>4, <2>1
<1>6. /\ \A b \in Actor : loc[b].pc # "idle" => loc[b].job <= lastJob /\ loc[b].job \in Nat
      /\ \A i \in 1 .. n : queue[i].job <= lastJob /\ queue[i].job \in Nat
  BY <1>4, OnceFacts DEF OnceInv, JobsApart
<1>7. outputs[t.job] = <<>>
  BY <1>1, <1>3 DEF OnceInv, JobsApart
<1>8. JobsApart'
  <2>1. \A j \in JobId : j > lastJob' => outputs'[j] = <<>>
    BY <1>1, OnceFacts DEF OnceInv, JobsApart
  <2>2. ASSUME NEW i \in DOMAIN queue'
        PROVE  /\ queue'[i].job <= lastJob' /\ outputs'[queue'[i].job] = <<>>
               /\ \A a \in Actor : loc'[a].pc # "idle" => loc'[a].job # queue'[i].job
               /\ \A k \in DOMAIN queue' : queue'[i].job = queue'[k].job => i = k
    <3>1. CASE i = n + 1
      BY <1>1, <1>3, <1>4, <1>5, <1>6, <1>7, <3>1
    <3>2. CASE i \in 1 .. n
      <4>1. /\ outputs[queue[i].job] = <<>>
            /\ \A a \in Actor : loc[a].pc # "idle" => loc[a].job # queue[i].job
            /\ \A k \in 1 .. n : queue[i].job = queue[k].job => i = k
        BY <1>4, <3>2 DEF OnceInv, JobsApart
      <4> QED
        BY <1>1, <1>3, <1>4, <1>5, <1>6, <3>2, <4>1
    <3> QED
      BY <1>4, <1>5, <3>1, <3>2
  <2>3. \A a \in Actor : loc'[a].pc # "idle" =>
          /\ loc'[a].job <= lastJob'
          /\ \A b \in Actor : loc'[b].pc # "idle" /\ loc'[b].job = loc'[a].job => a = b
    BY <1>1, <1>6 DEF OnceInv, JobsApart
  <2> QED
    BY <2>1, <2>2, <2>3 DEF JobsApart
<1>9. OncePerJob' /\ \A a \in Actor : CallsFresh(loc[a])'
  BY <1>1 DEF OnceInv, OncePerJob, CallsFresh, Written
<1> QED
  BY <1>1, <1>8, <1>9 DEF OnceInv

LEMMA NextOnce == OnceInv /\ [Next]_vars => OnceInv'
<1> SUFFICES ASSUME OnceInv, [Next]_vars PROVE OnceInv'
  OBVIOUS
<1>1. TypeInv'
  BY NextType DEF OnceInv
<1>2. ASSUME UNCHANGED <<loc, outputs, queue, lastJob>> PROVE OnceInv'
  BY <1>1, <1>2 DEF OnceInv, OncePerJob, JobsApart, CallsFresh, Written
<1>3. ASSUME NEW a \in Actor, Step(a) PROVE OnceInv'
  BY <1>3, GateOnce, ListPluginsOnce, ResolvePluginOnce, AllowOnce, BuildContextOnce, StoreOnce,
     FailOnce DEF Step
<1>4. CASE Restart
  <2>1. queue' = <<>> /\ DOMAIN queue' = {} /\ UNCHANGED <<outputs, lastJob>>
        /\ \A a \in Actor : loc'[a].pc = "idle"
    BY <1>4 DEF Restart, Idle
  <2> QED
    BY <1>1, <2>1 DEF OnceInv, OncePerJob, JobsApart, CallsFresh
<1>5. ASSUME \/ UNCHANGED vars
             \/ \E s \in SevId, row \in Rows : UpdateSEV(s, row)
             \/ \E setting \in Settings : CreateAIPlugin(setting)
             \/ \E p \in PluginId, setting \in Settings : UpdateAIPlugin(p, setting)
             \/ \E p \in PluginId : DeleteAIPlugin(p)
             \/ Tick
      PROVE  UNCHANGED <<loc, outputs, queue, lastJob>>
  BY <1>5 DEF vars, UpdateSEV, CreateAIPlugin, UpdateAIPlugin, DeleteAIPlugin, Tick
<1>6. ASSUME NEW s \in Subject,
             \/ \E event \in Events : Dispatch(event, s)
             \/ \E c \in Client : Request(c, s)
      PROVE  OnceInv'
  <2>1. s \in SevId
    BY DispatcherAssumption
  <2> QED
    BY <1>6, <2>1, RequestOnce, DispatchOnce
<1> QED
  BY <1>2, <1>3, <1>4, <1>5, <1>6, TakeOnce DEF Next

\* No trigger stores two outputs of one action and plugin, however many workers the pool
\* has: a task leaves the channel with one of them.
THEOREM OnceCorrect == Spec => []OncePerJob
<1>1. Init => OnceInv
  <2> SUFFICES ASSUME Init PROVE OnceInv
    OBVIOUS
  <2>1. TypeInv /\ queue = <<>> /\ DOMAIN queue = {} /\ \A a \in Actor : loc[a].pc = "idle"
    BY InitType DEF Init, Idle
  <2>2. \A j \in JobId : outputs[j] = <<>> /\ DOMAIN outputs[j] = {}
    BY DEF Init
  <2> QED
    BY <2>1, <2>2 DEF OnceInv, OncePerJob, JobsApart, CallsFresh
<1>2. OnceInv => OncePerJob
  BY DEF OnceInv
<1> QED
  BY <1>1, <1>2, NextOnce, PTL DEF Spec

================================================================================
