----------------------------- MODULE SevRecordProofs -----------------------------
(***************************************************************************)
(* What the functions of SevRecord return: the rows that CreateSEV,        *)
(* UpdateSEV, TransitionStatus and ComputeMetrics make are rows, with the  *)
(* status and the lock the handler meant.                                  *)
(***************************************************************************)
EXTENDS SevRecord, TLAPS

LEMMA RecomputedType ==
    ASSUME NEW from \in OptTime, NEW to \in OptTime, NEW old \in OptMetric
    PROVE  Recomputed(from, to, old) \in OptMetric
BY DEF Recomputed, OptTime, OptMetric

\* ComputeMetrics changes the five metrics and nothing else.
LEMMA ComputeMetricsType ==
    ASSUME NEW row \in Row
    PROVE  /\ ComputeMetrics(row) \in Row
           /\ ComputeMetrics(row).status = row.status
           /\ ComputeMetrics(row).locked = row.locked
BY RecomputedType DEF ComputeMetrics, Row

LEMMA OrElseType ==
    ASSUME NEW S, NEW given \in S \union {Nil}, NEW stored \in S \union {Nil}
    PROVE  /\ OrElse(given, stored) \in S \union {Nil}
           /\ stored \in S => OrElse(given, stored) \in S
BY DEF OrElse

LEMMA NewSEVType ==
    ASSUME NEW draft \in Draft
    PROVE  /\ NewSEV(draft) \in Row
           /\ NewSEV(draft).status = "open"
           /\ NewSEV(draft).locked = FALSE
<1> DEFINE base == [status |-> "open", locked |-> FALSE, sensitive |-> draft.sensitive,
         category |-> Nil,
         startedAt |-> draft.startedAt, detectedAt |-> draft.detectedAt,
         mitigatedAt |-> Nil, resolvedAt |-> Nil, completedAt |-> Nil,
         mttd |-> Nil, mttm |-> Nil, mttr |-> Nil, dttm |-> Nil, rtpc |-> Nil]
<1>1. base \in Row
  BY DEF Draft, Row, Status, OptTime, OptMetric
<1>2. NewSEV(draft) = ComputeMetrics(base)
  BY DEF NewSEV
<1> HIDE DEF base
<1>3. base.status = "open" /\ base.locked = FALSE
  BY DEF base
<1> QED
  BY <1>1, <1>2, <1>3, ComputeMetricsType

LEMMA UpdateType ==
    ASSUME NEW row \in Row, NEW patch \in Patch
    PROVE  /\ ApplySEVUpdate(row, patch) \in Row
           /\ ApplySEVUpdate(row, patch).status = row.status
           /\ ApplySEVUpdate(row, patch).locked = row.locked
<1>1. OrElse(patch.category, row.category) \in Category \union {Nil}
  BY DEF Row, Patch, OrElse
<1>2. OrElse(patch.sensitive, row.sensitive) \in BOOLEAN
  BY DEF Row, Patch, OrElse
<1>3. /\ OrElse(patch.startedAt, row.startedAt) \in OptTime
      /\ OrElse(patch.detectedAt, row.detectedAt) \in OptTime
  BY DEF Row, Patch, OrElse
<1> QED
  BY <1>1, <1>2, <1>3 DEF ApplySEVUpdate, Row

LEMMA TransitionType ==
    ASSUME NEW row \in Row, NEW to \in Status, NEW stamp \in Stamp, NEW at \in Nat
    PROVE  /\ ApplyTransition(row, to, stamp, at) \in Row
           /\ ApplyTransition(row, to, stamp, at).status = to
           /\ ApplyTransition(row, to, stamp, at).locked = (to = "postmortem_complete")
<1>1. /\ OrElse(stamp.mitigatedAt, row.mitigatedAt) \in OptTime
      /\ OrElse(stamp.resolvedAt, row.resolvedAt) \in OptTime
      /\ OrElse(stamp.completedAt, row.completedAt) \in OptTime
      /\ OrElse(OrElse(stamp.completedAt, row.completedAt), at) \in OptTime
  BY DEF Row, Stamp, OrElse, OptTime
<1>2. (to = "postmortem_complete") \in BOOLEAN
  OBVIOUS
<1> QED
  BY <1>1, <1>2 DEF ApplyTransition, Row

===============================================================================
