-------------------------------- MODULE SlaRisk --------------------------------
(***************************************************************************)
(* The SLA risk scanner (cmd/server/main.go, internal/sev/sla.go), the     *)
(* targets it reads (internal/api/grpc/config_service_sla.go) and the      *)
(* handlers that change the SEV under it.                                  *)
(*                                                                         *)
(* One scan treats each SEV by itself, so one SEV stands for all on the    *)
(* list's first page: the row is copied, the targets of its services are   *)
(* read, then the notification is sent and the marker stored. A list that  *)
(* fails is no scan.                                                       *)
(***************************************************************************)
EXTENDS Environment

CONSTANTS
    Service,        \* services that may be attached to the SEV
    TargetChoices,  \* the targets an administrator sets for a service
    Drafts,         \* what the SEV is created with
    Patches,        \* what UpdateSEV is called with
    Stamps,         \* the timestamps TransitionStatus is called with
    Moves           \* the statuses it is called with

\* The metrics with a target. RTPC is from resolution to completed postmortem.
Metric == {"mttd", "mttm", "mttr", "rtpc"}

\* The levels that are told, and that the marker holds.
Level == {"at_risk", "breached"}

ASSUME SlaRiskAssumption ==
    /\ Nil \notin Level
    /\ TargetChoices \subseteq [Metric -> OptTime]
    /\ Drafts \subseteq Draft /\ Patches \subseteq Patch /\ Stamps \subseteq Stamp
    /\ Moves \subseteq Status

VARIABLES
    sevRow,     \* the SEV, or Nil
    attached,   \* its affected_services
    targets,    \* targets[v]: service_slas of v at the SEV's level, or Nil
    marker,     \* sla_notified_status
    slaScan,    \* where the scan stands and its copies
    told,       \* history variable: notifications of each level
    unmarked    \* history variable: those whose marker was not stored

slaVars == <<sevRow, attached, targets, marker, slaScan, told, unmarked>>

NoSlaScan == [pc |-> "idle"]

SlaInit ==
    /\ sevRow = Nil
    /\ attached = {}
    /\ targets = [v \in Service |-> Nil]
    /\ marker = Nil
    /\ slaScan = NoSlaScan
    /\ told = [l \in Level |-> 0]
    /\ unmarked = [l \in Level |-> 0]

-------------------------------------------------------------------------------
(***************************************************************************)
(* The SEV handlers and UpsertServiceSLA, DeleteServiceSLA. still is a     *)
(* history field of the scan: nothing of this has happened under it.       *)
(***************************************************************************)
Disturbed(sc) == IF sc = NoSlaScan THEN sc ELSE [sc EXCEPT !.still = FALSE]

OpenSEV(draft, services) ==
    /\ sevRow = Nil
    /\ sevRow' = NewSEV(draft)
    /\ attached' = services
    /\ UNCHANGED <<targets, marker, slaScan, told, unmarked, env>>

AmendSEV(patch, services) ==
    /\ sevRow # Nil
    /\ ~sevRow.locked
    /\ sevRow' = ComputeMetrics(ApplySEVUpdate(sevRow, patch))
    /\ attached' = services
    /\ slaScan' = Disturbed(slaScan)
    /\ UNCHANGED <<targets, marker, told, unmarked, env>>

MoveSEV(to, stamp) ==
    /\ sevRow # Nil
    /\ ValidateTransition(sevRow.status, to)
    /\ sevRow' = ComputeMetrics(ApplyTransition(sevRow, to, stamp, now))
    /\ slaScan' = Disturbed(slaScan)
    /\ UNCHANGED <<attached, targets, marker, told, unmarked, env>>

SetServiceSLA(v, choice) ==
    /\ targets' = [targets EXCEPT ![v] = choice]
    /\ slaScan' = Disturbed(slaScan)
    /\ UNCHANGED <<sevRow, attached, marker, told, unmarked, env>>

-------------------------------------------------------------------------------
(***************************************************************************)
(* MostStrictSLA and EvaluateSLA.                                          *)
(***************************************************************************)

\* The smallest target any of the rows has for the metric.
MostStrict(rows, m) ==
    LET given == {row[m] : row \in rows} \ {Nil} IN
    IF given = {} THEN Nil ELSE CHOOSE t \in given : \A u \in given : t <= u

\* What a metric is measured from, and its final value once known.
Baseline(row, m) == IF m = "rtpc" THEN row.resolvedAt ELSE row.startedAt

EvalMetric(row, m, target, at) ==
    CASE target = Nil           -> "not_applicable"
      [] target # Nil /\ row[m] # Nil
                                -> IF row[m] > target THEN "breached" ELSE "ok"
      [] target # Nil /\ row[m] = Nil /\ Baseline(row, m) = Nil
                                -> "not_applicable"
      [] OTHER                  -> IF at - Baseline(row, m) > target THEN "at_risk" ELSE "ok"

\* Overall, as far as it is told: the worse of the two levels any metric has.
Overall(row, rows, at) ==
    LET of == {EvalMetric(row, m, MostStrict(rows, m), at) : m \in Metric} IN
    IF "breached" \in of THEN "breached" ELSE IF "at_risk" \in of THEN "at_risk" ELSE Nil

-------------------------------------------------------------------------------
(***************************************************************************)
(* scanSLARisk and notifySLAStatus.                                        *)
(***************************************************************************)
ScannedStatus == Status \ {"postmortem_complete"}

ListCandidates ==
    /\ slaScan = NoSlaScan
    /\ sevRow # Nil
    /\ sevRow.status \in ScannedStatus
    /\ ~sevRow.sensitive
    /\ slaScan' = [pc |-> "listed", row |-> sevRow, services |-> attached,
                   already |-> marker, at |-> now, level |-> Nil, still |-> TRUE]
    /\ UNCHANGED <<sevRow, attached, targets, marker, told, unmarked, env>>

\* The targets are read, or cannot be: then the SEVs of this severity are left out.
ListForServices ==
    LET rows == {targets[v] : v \in slaScan.services} \ {Nil} IN
    /\ slaScan.pc = "listed"
    /\ \/ /\ slaScan' = [slaScan EXCEPT !.pc = "decide",
                                        !.level = Overall(slaScan.row, rows, slaScan.at)]
          /\ UNCHANGED env
       \/ Fail("targets") /\ slaScan' = NoSlaScan
    /\ UNCHANGED <<sevRow, attached, targets, marker, told, unmarked>>

\* Mutant: a SEV that was told of once is settled.
DueOnce(level, already) == level # Nil /\ already = Nil

\* Breached unless it was told as breached; at risk if nothing was told yet.
DueLevel(level, already) ==
    \/ level = "breached" /\ already # "breached"
    \/ level = "at_risk" /\ already = Nil

NotifySlaStatus ==
    /\ slaScan.pc = "decide"
    /\ IF DueLevel(slaScan.level, slaScan.already)
       THEN /\ told' = [told EXCEPT ![slaScan.level] = @ + 1]
            /\ slaScan' = [slaScan EXCEPT !.pc = "mark"]
       ELSE slaScan' = [slaScan EXCEPT !.pc = "done"] /\ UNCHANGED told
    /\ UNCHANGED <<sevRow, attached, targets, marker, unmarked, env>>

UpdateSLANotifiedStatus ==
    /\ slaScan.pc = "mark"
    /\ slaScan' = [slaScan EXCEPT !.pc = "done"]
    /\ \/ marker' = slaScan.level /\ UNCHANGED <<unmarked, env>>
       \/ /\ Fail("marker")
          /\ unmarked' = [unmarked EXCEPT ![slaScan.level] = @ + 1]
          /\ UNCHANGED marker
    /\ UNCHANGED <<sevRow, attached, targets, told>>

EndScan ==
    /\ slaScan.pc = "done"
    /\ slaScan' = NoSlaScan
    /\ UNCHANGED <<sevRow, attached, targets, marker, told, unmarked, env>>

StopScanner ==
    /\ Fail("crash")
    /\ slaScan' = NoSlaScan
    /\ unmarked' = IF slaScan.pc = "mark"
                   THEN [unmarked EXCEPT ![slaScan.level] = @ + 1] ELSE unmarked
    /\ UNCHANGED <<sevRow, attached, targets, marker, told>>

SlaTick == Tick /\ UNCHANGED slaVars

SlaNext ==
    \/ \E draft \in Drafts, services \in SUBSET Service : OpenSEV(draft, services)
    \/ \E patch \in Patches, services \in SUBSET Service : AmendSEV(patch, services)
    \/ \E to \in Moves, stamp \in Stamps : MoveSEV(to, stamp)
    \/ \E v \in Service, choice \in TargetChoices \union {Nil} : SetServiceSLA(v, choice)
    \/ ListCandidates \/ ListForServices \/ NotifySlaStatus
    \/ UpdateSLANotifiedStatus \/ EndScan \/ StopScanner
    \/ SlaTick

SlaSpec == SlaInit /\ EnvInit /\ [][SlaNext]_<<slaVars, env>>

-------------------------------------------------------------------------------

OptLevel == Level \union {Nil}

\* Every variable has its type; a scan that is to store a marker has one to store.
SlaTypeOK ==
    /\ sevRow \in Row \union {Nil}
    /\ attached \subseteq Service
    /\ targets \in [Service -> [Metric -> OptTime] \union {Nil}]
    /\ marker \in OptLevel
    /\ slaScan \in {NoSlaScan}
                     \union [pc : {"listed", "decide", "mark", "done"}, row : Row,
                             services : SUBSET Service, already : OptLevel,
                             at : Nat, level : OptLevel, still : BOOLEAN]
    /\ slaScan.pc = "mark" => slaScan.level # Nil
    /\ told \in [Level -> Nat]
    /\ unmarked \in [Level -> Nat]

\* Some service attached has a target that the final value of its metric is over.
Missed ==
    \E v \in attached, m \in Metric :
        /\ targets[v] # Nil
        /\ targets[v][m] # Nil /\ sevRow[m] # Nil
        /\ sevRow[m] > targets[v][m]

\* "A SEV already notified at one level never re-fires the same or a less severe one":
\* every notification of a level but one was followed by a marker that could not be
\* stored, though the SEV and its targets change between the scans; and the marker
\* claims nothing that was not told. None is skipped for it: when a scan has ended with
\* nothing changed under it, a SEV over some service's target is marked breached, also
\* if it was told as at risk before, unless that marker could not be stored.
SlaTold ==
    /\ \A l \in Level : told[l] <= 1 + unmarked[l]
    /\ marker # Nil => told[marker] > 0
    /\ slaScan.pc = "done" /\ slaScan.still /\ Missed =>
          marker = "breached" \/ unmarked["breached"] > 0

===============================================================================
