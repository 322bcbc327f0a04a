------------------------------- MODULE SevRecord -------------------------------
(***************************************************************************)
(* The SEV record and the pure functions the handlers apply to it:         *)
(* internal/sev/statemachine.go, internal/sev/metrics.go and the field     *)
(* updates of internal/api/grpc/sev.go.                                    *)
(*                                                                         *)
(* category is root_cause_category; for lost updates it stands for every   *)
(* field a partial update copies (title, description, slack_channel_id...) *)
(* Times are whole seconds. A nil pointer is Nil.                          *)
(***************************************************************************)
EXTENDS Integers

CONSTANTS Nil,          \* the nil pointer
          Category      \* the values of root_cause_category

Status == {"open", "investigating", "mitigated", "resolved",
           "postmortem_in_progress", "postmortem_complete"}

\* validTransitions: the legal (from, to) pairs.
ValidTransitions ==
    {<<"open", "investigating">>, <<"open", "mitigated">>,
     <<"investigating", "mitigated">>, <<"investigating", "open">>,
     <<"mitigated", "resolved">>, <<"mitigated", "investigating">>,
     <<"resolved", "postmortem_in_progress">>, <<"postmortem_in_progress", "postmortem_complete">>,
     <<"postmortem_complete", "open">>}

\* Mutant: any change of status is accepted.
AnyTransition(from, to) == from # to

ValidateTransition(from, to) == <<from, to>> \in ValidTransitions

OptTime   == Nat \union {Nil}
OptMetric == Int \union {Nil}

Row == [status : Status, locked : BOOLEAN, sensitive : BOOLEAN,
        category : Category \union {Nil},
        startedAt : OptTime, detectedAt : OptTime, mitigatedAt : OptTime,
        resolvedAt : OptTime, completedAt : OptTime,
        mttd : OptMetric, mttm : OptMetric, mttr : OptMetric,
        dttm : OptMetric, rtpc : OptMetric]

\* The postmortem document's row: its content is abstracted to who wrote it.
PmStatus == {"draft", "in-review", "approved"}

ValidPmTransitions == {<<"draft", "in-review">>, <<"in-review", "approved">>,
                       <<"in-review", "draft">>}

ASSUME NilAssumption ==
    /\ Nil \notin Int /\ Nil \notin BOOLEAN /\ Nil \notin Category
    /\ Nil \notin Status /\ Nil \notin PmStatus /\ Nil \notin Row

-------------------------------------------------------------------------------

\* Mutant: a metric that has been stored once is never computed again.
RecomputedOnce(from, to, old) ==
    IF old = Nil /\ from # Nil /\ to # Nil THEN to - from ELSE old

\* A metric is recomputed when both its ends are known and kept otherwise.
Recomputed(from, to, old) == IF from # Nil /\ to # Nil THEN to - from ELSE old

ComputeMetrics(row) ==
    [row EXCEPT !.mttd = Recomputed(row.startedAt, row.detectedAt, @),
                !.mttm = Recomputed(row.startedAt, row.mitigatedAt, @),
                !.mttr = Recomputed(row.startedAt, row.resolvedAt, @),
                !.dttm = Recomputed(row.detectedAt, row.mitigatedAt, @),
                !.rtpc = Recomputed(row.resolvedAt, row.completedAt, @)]

\* Mutant: a field is taken from the request whether it was set or not.
AsGiven(given, stored) == given

\* A request field that is set replaces the stored one, an unset one keeps it.
OrElse(given, stored) == IF given = Nil THEN stored ELSE given

\* What CreateSEV can set, what UpdateSEV can set, what TransitionStatus can set.
Draft == [sensitive : BOOLEAN, startedAt : OptTime, detectedAt : OptTime]
Patch == [category : Category \union {Nil}, sensitive : BOOLEAN \union {Nil},
          startedAt : OptTime, detectedAt : OptTime]
Stamp == [mitigatedAt : OptTime, resolvedAt : OptTime, completedAt : OptTime]

NewSEV(draft) ==
    ComputeMetrics(
        [status |-> "open", locked |-> FALSE, sensitive |-> draft.sensitive,
         category |-> Nil,
         startedAt |-> draft.startedAt, detectedAt |-> draft.detectedAt,
         mitigatedAt |-> Nil, resolvedAt |-> Nil, completedAt |-> Nil,
         mttd |-> Nil, mttm |-> Nil, mttr |-> Nil, dttm |-> Nil, rtpc |-> Nil])

ApplySEVUpdate(row, patch) ==
    [row EXCEPT !.category   = OrElse(patch.category, @),
                !.sensitive  = OrElse(patch.sensitive, @),
                !.startedAt  = OrElse(patch.startedAt, @),
                !.detectedAt = OrElse(patch.detectedAt, @)]

\* Mutant: completing locks the record, reopening does not unlock it.
KeepLockOnReopen(row, to, stamp, at) ==
    LET complete == to = "postmortem_complete" IN
    [row EXCEPT !.status      = to,
                !.completedAt = IF complete THEN OrElse(@, at) ELSE @,
                !.locked      = complete \/ @]

\* The lock follows the target status; a completion time already stored is kept.
ApplyTransition(row, to, stamp, at) ==
    LET complete == to = "postmortem_complete" IN
    [row EXCEPT !.status      = to,
                !.mitigatedAt = OrElse(stamp.mitigatedAt, @),
                !.resolvedAt  = OrElse(stamp.resolvedAt, @),
                !.completedAt = IF complete
                                THEN OrElse(OrElse(stamp.completedAt, @), at)
                                ELSE OrElse(stamp.completedAt, @),
                !.locked      = complete]

===============================================================================
