---------------------------- MODULE AiDispatcherMC ----------------------------
(***************************************************************************)
(* A small instance of AiDispatcher for TLC.                               *)
(***************************************************************************)
EXTENDS AiDispatcher

TwoEvents == {"sev.opened", "sev.mitigated"}
OneAction == {"summarize"}

Plain     == [sensitive |-> FALSE, aiDisabled |-> FALSE, major |-> TRUE]
RowsMC    == {Plain, [Plain EXCEPT !.sensitive = TRUE], [Plain EXCEPT !.aiDisabled = TRUE],
              [Plain EXCEPT !.major = FALSE]}

Willing   == [enabled |-> TRUE, on |-> Event, limit |-> 2]
OnDemand  == [enabled |-> TRUE, on |-> {}, limit |-> 0]
SettingsMC == {Willing, OnDemand}

\* What the state still has a use for. A window that is over is as good as none, what was
\* granted to a plugin that is gone, or more than a minute ago, shares no minute with what
\* will be, and of a job's outputs only which there are matters (and, for a job that has
\* ended, of which plugins: those cannot be deleted).
Current(p) == IF wins[p] = Nil \/ now - wins[p].start >= Minute THEN Nil ELSE wins[p]

Recent(p) ==
    [t \in {u \in 0 .. now : plugins[p] # Nil /\ u > now - Minute} |->
        Cardinality({g \in grants[p] : g.at = t})]

Stored(j) ==
    LET all == {outputs[j][i] : i \in DOMAIN outputs[j]} IN
    IF \E a \in Actor : loc[a].job = j THEN all ELSE {o.plugin : o \in all}

\* Of a SEV no job is about, whether it is hidden; what a prompt names is of no later use.
View ==
    <<[s \in SevId |-> IF s \in Subject THEN sevs[s] ELSE sevs[s].sensitive],
      plugins, lastPlugin, queue, lastJob, loc, now, fit,
      [p \in PluginId |-> <<Current(p), Recent(p)>>], [j \in JobId |-> Stored(j)],
      RateHeld, OncePerJob>>

===============================================================================
