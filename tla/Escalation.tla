------------------------------- MODULE Escalation -------------------------------
(***************************************************************************)
(* The escalation scanner (cmd/server/main.go, internal/sev/escalation.go) *)
(* and what it races with: AssignRole and RemoveRole for the Incident      *)
(* Commander (internal/api/grpc/role.go), the handlers that change a SEV,  *)
(* and the administrator who changes the thresholds.                       *)
(*                                                                         *)
(* One scan is a sequence of store calls: list the open SEVs and the       *)
(* thresholds (one step: a threshold changed in between might as well have *)
(* been changed before), list the roles of each SEV, then send the alarm   *)
(* and store the marker of each SEV found due. A scan whose first two      *)
(* calls fail is no scan. Only the scanner and AssignRole write            *)
(* the marker; the handlers' full-row update leaves the column alone       *)
(* (internal/store/postgres/sev.go).                                       *)
(***************************************************************************)
EXTENDS SevRecord, FiniteSets

CONSTANTS
    SevId,
    Request,        \* AssignRole calls in flight at once
    Level,          \* severity levels
    Thresholds,     \* the settings an administrator chooses among
    Starts,         \* started_at values, Nil for none
    Flags,          \* values of the sensitive flag
    Targets,        \* the statuses TransitionStatus is asked for
    Limit,          \* rows the store's List returns without a limit (100)
    Faults,         \* which calls may fail: "crash", "mark", "clear", "roles"
    MaxFaults,      \* bound: failures
    MaxRoles,       \* bound: role rows ever created
    MaxTime         \* bound: the clock stops here

\* created numbers the SEVs in the order of created_at.
EscRow == [created : Nat, status : Status, sensitive : BOOLEAN, level : Level,
           startedAt : OptTime, escalatedAt : OptTime]

ASSUME EscalationAssumption ==
    /\ Nil \notin SevId /\ Nil \notin EscRow
    /\ Thresholds \subseteq [enabled : BOOLEAN, threshold : Nat]
    /\ Starts \subseteq OptTime /\ Flags \subseteq BOOLEAN /\ Targets \subseteq Status
    /\ Limit \in Nat /\ MaxFaults \in Nat /\ MaxRoles \in Nat /\ MaxTime \in Nat

VARIABLES
    rows,       \* rows[s]: the columns of s the scanner reads, or Nil
    lastSev,    \* how many SEVs were created
    ics,        \* ics[s]: ids of s's Incident Commander role rows
    lastRole,   \* the last role id given out
    config,     \* config[l]: escalation_config of severity level l
    now,
    scan,       \* where the scanner stands
    assign,     \* assign[r]: the SEV whose marker AssignRole r has yet to clear
    faults,     \* failures so far
    alarms,     \* history variable: sev.escalation_no_ic notifications of s
    rearmed,    \* history variable: marker writes of s that unset it or were lost
    bare,       \* history variable: SEVs that in this scan had no IC at some time,
                \* or whose roles could not be listed
    told,       \* history variable: SEVs alarmed since they were last without an IC and open
    stale       \* history variable: SEVs whose marker speaks of an earlier time than that,
                \* the clear that was due having failed or never having been made

vars == <<rows, lastSev, ics, lastRole, config, now, scan, assign, faults,
          alarms, rearmed, bare, told, stale>>

OpenStatus == {"open", "investigating", "mitigated"}

NoScan == [pc |-> "idle", todo |-> {}, read |-> [s \in SevId |-> Nil], hasIC |-> {}, due |-> {}]

Exists(s) == rows[s] # Nil

Marked(s) == Exists(s) /\ rows[s].escalatedAt # Nil

\* An AssignRole has stored the commander of s and has yet to clear its marker.
Clearing(s) == \E r \in Request : assign[r] = s

Init ==
    /\ rows = [s \in SevId |-> Nil]
    /\ lastSev = 0
    /\ ics = [s \in SevId |-> {}]
    /\ lastRole = 0
    /\ config = [l \in Level |-> [enabled |-> FALSE, threshold |-> 0]]
    /\ now = 0
    /\ scan = NoScan
    /\ assign = [r \in Request |-> Nil]
    /\ faults = 0
    /\ alarms = [s \in SevId |-> 0]
    /\ rearmed = [s \in SevId |-> 0]
    /\ bare = {}
    /\ told = {}
    /\ stale = {}

\* A call of this kind fails, once more.
Fail(kind) == kind \in Faults /\ faults < MaxFaults /\ faults' = faults + 1

-------------------------------------------------------------------------------
(***************************************************************************)
(* The SEV handlers, as far as the scanner reads what they store.          *)
(***************************************************************************)
CreateSEV(s, sensitive, level, startedAt) ==
    /\ ~Exists(s)
    /\ lastSev' = lastSev + 1
    /\ rows' = [rows EXCEPT ![s] =
                  [created |-> lastSev', status |-> "open", sensitive |-> sensitive,
                   level |-> level, startedAt |-> startedAt, escalatedAt |-> Nil]]
    /\ UNCHANGED <<ics, lastRole, config, now, scan, assign, faults,
                   alarms, rearmed, bare, told, stale>>

UpdateSEV(s, sensitive, startedAt) ==
    /\ Exists(s)
    /\ rows' = [rows EXCEPT ![s].sensitive = sensitive,
                            ![s].startedAt = OrElse(startedAt, @)]
    /\ UNCHANGED <<lastSev, ics, lastRole, config, now, scan, assign, faults,
                   alarms, rearmed, bare, told, stale>>

TransitionStatus(s, to) ==
    /\ Exists(s)
    /\ ValidateTransition(rows[s].status, to)
    /\ rows' = [rows EXCEPT ![s].status = to]
    /\ IF to \in OpenStatus THEN UNCHANGED <<told, stale>>
       ELSE /\ told' = told \ {s}
            /\ stale' = stale \union {u \in {s} : Marked(u)}
    /\ UNCHANGED <<lastSev, ics, lastRole, config, now, scan, assign, faults,
                   alarms, rearmed, bare>>

UpsertEscalationConfig(l, setting) ==
    /\ config' = [config EXCEPT ![l] = setting]
    /\ UNCHANGED <<rows, lastSev, ics, lastRole, now, scan, assign, faults,
                   alarms, rearmed, bare, told, stale>>

-------------------------------------------------------------------------------
(***************************************************************************)
(* Roles. Only the Incident Commander's matter here.                       *)
(***************************************************************************)

\* Mutant: a new commander leaves the marker where it is.
AssignQuietly(r, s) ==
    /\ assign[r] = Nil
    /\ Exists(s)
    /\ lastRole < MaxRoles
    /\ lastRole' = lastRole + 1
    /\ ics' = [ics EXCEPT ![s] = @ \union {lastRole + 1}]
    /\ told' = told \ {s}
    /\ UNCHANGED <<rows, lastSev, config, now, scan, assign, faults, alarms, rearmed,
                   bare, stale>>

AssignRole(r, s) ==
    /\ assign[r] = Nil
    /\ Exists(s)
    /\ lastRole < MaxRoles
    /\ lastRole' = lastRole + 1
    /\ ics' = [ics EXCEPT ![s] = @ \union {lastRole + 1}]
    /\ assign' = [assign EXCEPT ![r] = s]
    /\ told' = told \ {s}
    /\ UNCHANGED <<rows, lastSev, config, now, scan, faults, alarms, rearmed, bare, stale>>

ClearMarker(r) ==
    LET s == assign[r] IN
    /\ s # Nil
    /\ assign' = [assign EXCEPT ![r] = Nil]
    /\ \/ /\ rows' = [rows EXCEPT ![s].escalatedAt = Nil]
          /\ rearmed' = [rearmed EXCEPT ![s] = @ + 1]
          /\ stale' = stale \ {s}
          /\ UNCHANGED faults
       \/ /\ Fail("clear")
          /\ stale' = stale \union {u \in {s} : Marked(u)}
          /\ UNCHANGED <<rows, rearmed>>
    /\ UNCHANGED <<lastSev, ics, lastRole, config, now, scan, alarms, bare, told>>

RemoveRole(s, id) ==
    /\ id \in ics[s]
    /\ ics' = [ics EXCEPT ![s] = @ \ {id}]
    /\ bare' = IF ics'[s] = {} THEN bare \union {s} ELSE bare
    /\ UNCHANGED <<rows, lastSev, lastRole, config, now, scan, assign, faults,
                   alarms, rearmed, told, stale>>

-------------------------------------------------------------------------------
(***************************************************************************)
(* scanEscalations.                                                        *)
(***************************************************************************)
Scanning(pc) == scan.pc = pc

\* ORDER BY created_at DESC.
Newer(s, u) == rows[s].created > rows[u].created

Newest(set) == {s \in set : \A u \in set : ~Newer(u, s)}

FirstPage(set) == {s \in set : Cardinality({u \in set : Newer(u, s)}) < Limit}

\* The open, non-sensitive SEVs as List returns them: the first page.
Listed ==
    FirstPage({s \in SevId : /\ Exists(s)
                             /\ rows[s].status \in OpenStatus
                             /\ ~rows[s].sensitive})

ScanList ==
    /\ Scanning("idle")
    /\ Listed # {}
    /\ scan' = [NoScan EXCEPT !.pc = "roles", !.todo = Listed,
                              !.read = [s \in SevId |->
                                          IF s \in Listed
                                          THEN [row |-> rows[s], limit |-> config[rows[s].level]]
                                          ELSE Nil]]
    /\ bare' = {s \in SevId : ics[s] = {}}
    /\ UNCHANGED <<rows, lastSev, ics, lastRole, config, now, assign, faults,
                   alarms, rearmed, told, stale>>

\* Mutant: only the SEV listed last is remembered as having a commander.
ForgetRoles ==
    \E s \in Newest(scan.todo) :
        /\ Scanning("roles")
        /\ scan' = [scan EXCEPT !.todo = @ \ {s},
                                !.hasIC = IF ics[s] # {} THEN {s} ELSE {}]
        /\ UNCHANGED <<rows, lastSev, ics, lastRole, config, now, assign, faults,
                       alarms, rearmed, bare, told, stale>>

\* A SEV whose roles cannot be listed counts as one without a commander.
ScanRoles ==
    \E s \in Newest(scan.todo) :
        /\ Scanning("roles")
        /\ \/ /\ scan' = [scan EXCEPT !.todo = @ \ {s},
                                      !.hasIC = IF ics[s] # {} THEN @ \union {s} ELSE @]
              /\ UNCHANGED <<faults, bare>>
           \/ /\ Fail("roles")
              /\ scan' = [scan EXCEPT !.todo = @ \ {s}]
              /\ bare' = bare \union {s}
        /\ UNCHANGED <<rows, lastSev, ics, lastRole, config, now, assign,
                       alarms, rearmed, told, stale>>

\* Mutant: a SEV already marked is due again.
DueAgain(read, hasIC) ==
    {s \in SevId : /\ read[s] # Nil
                   /\ read[s].row.startedAt # Nil
                   /\ s \notin hasIC
                   /\ read[s].limit.enabled
                   /\ now - read[s].row.startedAt > read[s].limit.threshold}

EvaluateEscalations(read, hasIC) ==
    {s \in SevId : /\ read[s] # Nil
                   /\ read[s].row.escalatedAt = Nil
                   /\ read[s].row.startedAt # Nil
                   /\ s \notin hasIC
                   /\ read[s].limit.enabled
                   /\ now - read[s].row.startedAt > read[s].limit.threshold}

\* Mutant: nothing due is not told from something due.
EvaluateToNothing ==
    /\ Scanning("roles")
    /\ scan.todo = {}
    /\ scan' = [NoScan EXCEPT !.pc = "alarm",
                              !.due = EvaluateEscalations(scan.read, scan.hasIC)]
    /\ UNCHANGED <<rows, lastSev, ics, lastRole, config, now, assign, faults,
                   alarms, rearmed, bare, told, stale>>

ScanEvaluate ==
    /\ Scanning("roles")
    /\ scan.todo = {}
    /\ LET due == EvaluateEscalations(scan.read, scan.hasIC) IN
       scan' = IF due = {} THEN NoScan
               ELSE [NoScan EXCEPT !.pc = "alarm", !.due = due]
    /\ UNCHANGED <<rows, lastSev, ics, lastRole, config, now, assign, faults,
                   alarms, rearmed, bare, told, stale>>

\* Mutant: the marker is stored first, and the alarm is left for afterwards.
MarkFirst ==
    \E s \in Newest(scan.due) :
        /\ Scanning("alarm")
        /\ rows' = [rows EXCEPT ![s].escalatedAt = now]
        /\ scan' = [scan EXCEPT !.pc = "mark"]
        /\ UNCHANGED <<lastSev, ics, lastRole, config, now, assign, faults,
                       alarms, rearmed, bare, told, stale>>

ScanAlarm ==
    \E s \in Newest(scan.due) :
        /\ Scanning("alarm")
        /\ alarms' = [alarms EXCEPT ![s] = @ + 1]
        /\ told' = told \union {u \in {s} : ics[u] = {} /\ rows[u].status \in OpenStatus}
        /\ scan' = [scan EXCEPT !.pc = "mark"]
        /\ UNCHANGED <<rows, lastSev, ics, lastRole, config, now, assign, faults,
                       rearmed, bare, stale>>

\* The next SEV due, whether or not this one's marker was stored.
ScanMark ==
    \E s \in Newest(scan.due) :
        /\ Scanning("mark")
        /\ \/ /\ rows' = [rows EXCEPT ![s].escalatedAt = now]
              /\ stale' = IF s \in told THEN stale \ {s} ELSE stale \union {s}
              /\ UNCHANGED <<rearmed, faults>>
           \/ /\ Fail("mark")
              /\ rearmed' = [rearmed EXCEPT ![s] = @ + 1]
              /\ UNCHANGED <<rows, stale>>
        /\ scan' = IF scan.due = {s} THEN NoScan
                   ELSE [scan EXCEPT !.pc = "alarm", !.due = @ \ {s}]
        /\ UNCHANGED <<lastSev, ics, lastRole, config, now, assign, alarms, bare, told>>

\* The server stops: a scan in progress is given up, and so are the handlers.
Crash ==
    /\ Fail("crash")
    /\ rearmed' = [s \in SevId |->
                     IF Scanning("mark") /\ s \in Newest(scan.due)
                     THEN rearmed[s] + 1 ELSE rearmed[s]]
    /\ scan' = NoScan
    /\ assign' = [r \in Request |-> Nil]
    /\ stale' = stale \union {s \in SevId : Marked(s) /\ Clearing(s)}
    /\ UNCHANGED <<rows, lastSev, ics, lastRole, config, now, alarms, bare, told>>

Tick ==
    /\ now < MaxTime
    /\ now' = now + 1
    /\ UNCHANGED <<rows, lastSev, ics, lastRole, config, scan, assign, faults,
                   alarms, rearmed, bare, told, stale>>

Scan == ScanList \/ ScanRoles \/ ScanEvaluate \/ ScanAlarm \/ ScanMark

Next ==
    \/ \E s \in SevId, sensitive \in Flags, level \in Level, startedAt \in Starts :
          CreateSEV(s, sensitive, level, startedAt)
    \/ \E s \in SevId, sensitive \in Flags, startedAt \in Starts :
          UpdateSEV(s, sensitive, startedAt)
    \/ \E s \in SevId, to \in Targets : TransitionStatus(s, to)
    \/ \E l \in Level, setting \in Thresholds : UpsertEscalationConfig(l, setting)
    \/ \E r \in Request, s \in SevId : AssignRole(r, s)
    \/ \E r \in Request : ClearMarker(r)
    \/ \E s \in SevId : \E id \in ics[s] : RemoveRole(s, id)
    \/ Scan
    \/ Crash
    \/ Tick

Spec == Init /\ [][Next]_vars

\* The scanner's ticker goes on for as long as the server runs.
FairSpec == Spec /\ WF_vars(Scan)

-------------------------------------------------------------------------------

Reading == [row : EscRow, limit : [enabled : BOOLEAN, threshold : Nat]]

ScanState == [pc : {"idle", "roles", "alarm", "mark"}, todo : SUBSET SevId,
              read : [SevId -> Reading \union {Nil}], hasIC : SUBSET SevId,
              due : SUBSET SevId]

\* Every variable has its type; the scan and the assignments in progress are about SEVs
\* that exist, no two of which were created at once.
TypeOK ==
    /\ rows \in [SevId -> EscRow \union {Nil}]
    /\ lastSev \in Nat
    /\ \A s \in SevId, u \in SevId :
          Exists(s) /\ Exists(u) /\ rows[s].created = rows[u].created => s = u
    /\ \A s \in SevId : Exists(s) => rows[s].created <= lastSev
    /\ ics \in [SevId -> SUBSET (1 .. MaxRoles)]
    /\ lastRole \in 0 .. MaxRoles
    /\ config \in [Level -> [enabled : BOOLEAN, threshold : Nat]]
    /\ now \in Nat
    /\ scan \in ScanState
    /\ scan.pc \in {"alarm", "mark"} => scan.due # {}
    /\ \A s \in scan.todo \union scan.due : Exists(s)
    /\ \A s \in SevId : scan.read[s] # Nil => Exists(s)
    /\ assign \in [Request -> SevId \union {Nil}]
    /\ \A r \in Request : assign[r] # Nil => Exists(assign[r])
    /\ faults \in 0 .. MaxFaults
    /\ alarms \in [SevId -> Nat]
    /\ rearmed \in [SevId -> Nat]
    /\ bare \subseteq SevId /\ told \subseteq SevId /\ stale \subseteq SevId

\* The scanner alarms once, not at every scan: each alarm after the first has
\* behind it a marker that was cleared for a commander or could not be stored.
AlarmsCounted == \A s \in SevId : alarms[s] <= 1 + rearmed[s]

\* The marker silences the scanner for good, so it is only ever found on a SEV
\* whose alarm went out, wherever the server stopped.
NoSilentMarker ==
    \A s \in SevId : Marked(s) => alarms[s] > 0

\* "Alert if a SEV has been open longer than its threshold with no Incident
\* Commander assigned": the alarm is for a SEV that had none at some moment of
\* the scan that raises it, or whose roles this scan could not list.
AlarmsSound ==
    [][\A s \in SevId : alarms'[s] # alarms[s] => s \in bare]_vars

Overdue(s) ==
    /\ Exists(s)
    /\ rows[s].status \in OpenStatus
    /\ ~rows[s].sensitive
    /\ rows[s].startedAt # Nil
    /\ ics[s] = {}
    /\ config[rows[s].level].enabled
    /\ now - rows[s].startedAt > config[rows[s].level].threshold

\* "Evaluates every open, non-sensitive SEV": a SEV that is and stays overdue without a
\* commander is alarmed in the end, for the time it has been without one now and not only
\* for an earlier one. What keeps it silent is a marker left over from before: of a SEV
\* that was closed and opened again (the code clears no marker then, whatever Sev's comment
\* says), of a commander whose clear failed, was lost or is still to come, or of a scan that
\* stored it after the clear or for an alarm that was due no more.
OverdueAlarmed ==
    \A s \in SevId :
        Overdue(s) ~> (~Overdue(s) \/ s \in told \/ Clearing(s) \/ (s \in stale /\ Marked(s)))

===============================================================================
