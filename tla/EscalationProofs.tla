----------------------------- MODULE EscalationProofs -----------------------------
(***************************************************************************)
(* Theorems about the escalation scanner, for any number of SEVs, of       *)
(* commanders, of AssignRole calls in flight and of failures. What makes   *)
(* the count of alarms inductive: a SEV without a marker, whose alarm is   *)
(* not the one being sent, has had no alarm that nothing accounts for; and *)
(* no marker appears while a scan that read none is on its way.            *)
(***************************************************************************)
EXTENDS Escalation, FiniteSetTheorems, TLAPS

\* The scanner has sent the alarm of s and is about to store its marker.
Pending(s) == scan.pc = "mark" /\ s \in Newest(scan.due)

Accounted ==
    \A s \in SevId :
        /\ ~Marked(s) /\ ~Pending(s) => alarms[s] <= rearmed[s]
        /\ Marked(s) \/ Pending(s) => alarms[s] > 0

\* What the scan has read or found due bore no marker then, and bears none now.
StillUnmarked ==
    \A s \in SevId :
        /\ scan.read[s] # Nil /\ scan.read[s].row.escalatedAt = Nil => ~Marked(s)
        /\ s \in scan.due => ~Marked(s)
        /\ scan.pc # "roles" => scan.read[s] = Nil

EscInv == TypeOK /\ AlarmsCounted /\ Accounted /\ StillUnmarked

LEMMA EscFacts ==
    ASSUME TypeOK
    PROVE  /\ rows \in [SevId -> EscRow \union {Nil}] /\ scan \in ScanState
           /\ alarms \in [SevId -> Nat] /\ rearmed \in [SevId -> Nat]
           /\ \A s \in SevId : Exists(s) => rows[s] \in EscRow /\ rows[s].created \in Nat
           /\ \A s \in SevId : alarms[s] \in Nat /\ rearmed[s] \in Nat
           /\ scan.todo \subseteq SevId /\ scan.due \subseteq SevId /\ scan.hasIC \subseteq SevId
           /\ \A s \in Newest(scan.due) \union Newest(scan.todo) : s \in SevId /\ Exists(s)
           /\ NoScan \in ScanState /\ NoScan.pc = "idle" /\ NoScan.due = {} /\ NoScan.todo = {}
           /\ \A s \in SevId : NoScan.read[s] = Nil
           /\ now \in Nat /\ MaxRoles \in Nat /\ MaxFaults \in Nat
<1>1. NoScan \in ScanState /\ NoScan.pc = "idle" /\ NoScan.due = {} /\ NoScan.todo = {}
      /\ \A s \in SevId : NoScan.read[s] = Nil
  BY DEF NoScan, ScanState
<1>2. /\ scan.todo \subseteq SevId /\ scan.due \subseteq SevId /\ scan.hasIC \subseteq SevId
  BY DEF TypeOK, ScanState
<1>3. \A s \in SevId : Exists(s) => rows[s] \in EscRow /\ rows[s].created \in Nat
  BY DEF TypeOK, Exists, EscRow
<1>4. \A s \in Newest(scan.due) \union Newest(scan.todo) : s \in SevId /\ Exists(s)
  BY <1>2 DEF TypeOK, Newest
<1> QED
  BY <1>1, <1>2, <1>3, <1>4, EscalationAssumption DEF TypeOK

\* The SEV a scan turns to is one: no two were created at once.
LEMMA NewestOne ==
    ASSUME TypeOK, NEW s \in Newest(scan.due), NEW u \in Newest(scan.due)
    PROVE  s = u
<1>1. /\ s \in SevId /\ u \in SevId /\ Exists(s) /\ Exists(u)
      /\ rows[s].created \in Nat /\ rows[u].created \in Nat
  BY EscFacts
<1>2. ~(rows[s].created > rows[u].created) /\ ~(rows[u].created > rows[s].created)
  BY DEF Newest, Newer
<1>3. rows[s].created = rows[u].created
  BY <1>1, <1>2
<1> QED
  BY <1>1, <1>3 DEF TypeOK

LEMMA EscInit == Init => EscInv
<1> SUFFICES ASSUME Init PROVE EscInv
  OBVIOUS
<1>1. NoScan \in ScanState /\ NoScan.pc = "idle" /\ NoScan.due = {} /\ NoScan.todo = {}
      /\ \A s \in SevId : NoScan.read[s] = Nil
  BY DEF NoScan, ScanState
<1>2. TypeOK
  BY <1>1, EscalationAssumption DEF Init, TypeOK, Exists
<1> QED
  BY <1>1, <1>2 DEF Init, EscInv, AlarmsCounted, Accounted, StillUnmarked, Marked, Pending, Exists

\* Every SEV keeps its place in time, its marker or the lack of it; nothing is sent.
LEMMA RowsKept ==
    ASSUME EscInv, TypeOK', UNCHANGED <<scan, alarms, rearmed>>,
           \A s \in SevId : Exists(s) => /\ Exists(s)'
                                         /\ rows'[s].created = rows[s].created
                                         /\ rows'[s].escalatedAt = rows[s].escalatedAt,
           \A s \in SevId : ~Exists(s) /\ Exists(s)' => rows'[s].escalatedAt = Nil
    PROVE  EscInv'
<1>1. \A s \in SevId : Marked(s)' <=> Marked(s)
  BY DEF Marked
<1>2. Newest(scan.due)' = Newest(scan.due)
  <2>1. \A s \in scan.due : s \in SevId /\ Exists(s)
    BY EscFacts DEF EscInv, TypeOK
  <2> QED
    BY <2>1 DEF Newest, Newer
<1>3. \A s \in SevId : Pending(s)' <=> Pending(s)
  BY <1>2 DEF Pending
<1> QED
  BY <1>1, <1>3 DEF EscInv, AlarmsCounted, Accounted, StillUnmarked

-------------------------------------------------------------------------------
(***************************************************************************)
(* Types.                                                                  *)
(***************************************************************************)

\* One SEV's row changes, but not when it was created.
LEMMA RowTypes ==
    ASSUME TypeOK, NEW s \in SevId, NEW row \in EscRow, rows' = [rows EXCEPT ![s] = row],
           lastSev' = lastSev, Exists(s), row.created = rows[s].created,
           scan'.todo \subseteq scan.todo, scan'.due \subseteq scan.due,
           \A t \in SevId : scan'.read[t] = Nil \/ scan'.read[t] = scan.read[t],
           \A r \in Request : assign'[r] = assign[r] \/ assign'[r] = Nil
    PROVE  /\ rows' \in [SevId -> EscRow \union {Nil}] /\ lastSev' \in Nat
           /\ \A u \in SevId : (Exists(u)' <=> Exists(u)) /\ rows'[u].created = rows[u].created
           /\ \A t \in SevId, u \in SevId :
                 Exists(t)' /\ Exists(u)' /\ rows'[t].created = rows'[u].created => t = u
           /\ \A t \in scan'.todo \union scan'.due : Exists(t)'
           /\ \A t \in SevId : scan'.read[t] # Nil => Exists(t)'
           /\ \A t \in SevId : Exists(t)' => rows'[t].created <= lastSev'
           /\ (\A r \in Request : assign[r] # Nil => Exists(assign[r]))'
<1>1. rows' \in [SevId -> EscRow \union {Nil}]
  BY EscFacts
<1>2. \A u \in SevId : rows'[u] = IF u = s THEN row ELSE rows[u]
  BY EscFacts
<1>3. \A u \in SevId : (Exists(u)' <=> Exists(u)) /\ rows'[u].created = rows[u].created
  BY <1>2, EscalationAssumption DEF Exists
<1>4. scan.todo \union scan.due \subseteq SevId
  BY EscFacts
<1>5. \A r \in Request : assign'[r] # Nil => assign'[r] = assign[r] /\ assign[r] \in SevId
                                             /\ Exists(assign[r])
  BY DEF TypeOK
<1>6. (\A r \in Request : assign[r] # Nil => Exists(assign[r]))'
  <2> SUFFICES ASSUME NEW r \in Request, assign'[r] # Nil PROVE Exists(assign[r])'
    OBVIOUS
  <2>1. PICK t \in SevId : t = assign'[r] /\ Exists(t)
    BY <1>5
  <2> QED
    BY <1>3, <2>1 DEF Exists
<1> QED
  BY <1>1, <1>3, <1>4, <1>6 DEF TypeOK

LEMMA HandlerTypes ==
    ASSUME TypeOK,
           \/ \E s \in SevId, sensitive \in Flags, startedAt \in Starts :
                 UpdateSEV(s, sensitive, startedAt)
           \/ \E s \in SevId, to \in Targets : TransitionStatus(s, to)
           \/ \E r \in Request : ClearMarker(r)
    PROVE  TypeOK'
<1>1. ASSUME NEW s \in SevId, NEW sensitive \in Flags, NEW startedAt \in Starts,
             UpdateSEV(s, sensitive, startedAt)
      PROVE  TypeOK'
  <2>1. rows[s] \in EscRow
    BY <1>1, EscFacts DEF UpdateSEV
  <2>2. sensitive \in BOOLEAN /\ startedAt \in OptTime
    BY EscalationAssumption
  <2>3. PICK row : row = [rows[s] EXCEPT !.sensitive = sensitive,
                                         !.startedAt = OrElse(startedAt, @)]
    OBVIOUS
  <2>4. row \in EscRow /\ row.created = rows[s].created
    BY <2>1, <2>2, <2>3 DEF EscRow, OrElse
  <2>5. rows' = [rows EXCEPT ![s] = row]
    BY <1>1, <2>3 DEF UpdateSEV
  <2> QED
    BY <1>1, <2>4, <2>5, RowTypes, EscFacts DEF UpdateSEV, TypeOK
<1>2. ASSUME NEW s \in SevId, NEW to \in Targets, TransitionStatus(s, to) PROVE TypeOK'
  <2>1. rows[s] \in EscRow /\ to \in Status
    BY <1>2, EscFacts, EscalationAssumption DEF TransitionStatus
  <2>2. PICK row : row = [rows[s] EXCEPT !.status = to]
    OBVIOUS
  <2>3. row \in EscRow /\ row.created = rows[s].created
    BY <2>1, <2>2 DEF EscRow
  <2>4. rows' = [rows EXCEPT ![s] = row]
    BY <1>2, <2>2 DEF TransitionStatus
  <2>5. told' \subseteq SevId /\ stale' \subseteq SevId
    BY <1>2 DEF TransitionStatus, TypeOK
  <2> QED
    BY <1>2, <2>3, <2>4, <2>5, RowTypes, EscFacts DEF TransitionStatus, TypeOK
<1>3. ASSUME NEW r \in Request, ClearMarker(r) PROVE TypeOK'
  <2>1. PICK s \in SevId : s = assign[r] /\ s # Nil /\ Exists(s)
    BY <1>3 DEF ClearMarker, TypeOK
  <2>2. assign' \in [Request -> SevId \union {Nil}] /\ faults' \in 0 .. MaxFaults
        /\ rearmed' \in [SevId -> Nat] /\ stale' \subseteq SevId
        /\ \A p \in Request : assign'[p] = assign[p] \/ assign'[p] = Nil
    <3>1. assign' \in [Request -> SevId \union {Nil}]
          /\ \A p \in Request : assign'[p] = assign[p] \/ assign'[p] = Nil
      BY <1>3 DEF ClearMarker, TypeOK
    <3>2. faults' \in 0 .. MaxFaults
      BY <1>3, EscFacts DEF ClearMarker, Fail, TypeOK
    <3>3. rearmed' \in [SevId -> Nat]
      BY <1>3, <2>1, EscFacts DEF ClearMarker
    <3>4. stale' \subseteq SevId
      BY <1>3, <2>1 DEF ClearMarker, TypeOK
    <3> QED
      BY <3>1, <3>2, <3>3, <3>4
  <2>3. CASE rows' = rows
    BY <1>3, <2>2, <2>3, EscFacts DEF ClearMarker, TypeOK, Exists
  <2>4. CASE rows' = [rows EXCEPT ![s].escalatedAt = Nil]
    <3>1. rows[s] \in EscRow
      BY <2>1, EscFacts
    <3>2. PICK row : row = [rows[s] EXCEPT !.escalatedAt = Nil]
      OBVIOUS
    <3>3. row \in EscRow /\ row.created = rows[s].created
      BY <3>1, <3>2 DEF EscRow, OptTime
    <3>4. rows' = [rows EXCEPT ![s] = row]
      BY <2>4, <3>2
    <3> QED
      BY <1>3, <2>1, <2>2, <3>3, <3>4, RowTypes, EscFacts DEF ClearMarker, TypeOK
  <2> QED
    BY <1>3, <2>1, <2>3, <2>4 DEF ClearMarker
<1> QED
  BY <1>1, <1>2, <1>3

LEMMA CreateTypes ==
    ASSUME TypeOK, NEW s \in SevId, NEW sensitive \in Flags, NEW level \in Level,
           NEW startedAt \in Starts, CreateSEV(s, sensitive, level, startedAt)
    PROVE  TypeOK'
<1>1. sensitive \in BOOLEAN /\ startedAt \in OptTime /\ lastSev \in Nat /\ lastSev' = lastSev + 1
  BY EscalationAssumption DEF CreateSEV, TypeOK
<1>2. PICK row : row = [created |-> lastSev + 1, status |-> "open", sensitive |-> sensitive,
                        level |-> level, startedAt |-> startedAt, escalatedAt |-> Nil]
  OBVIOUS
<1>3. row \in EscRow /\ row.created = lastSev + 1 /\ row # Nil
  BY <1>1, <1>2, EscalationAssumption DEF EscRow, Status, OptTime
<1>4. rows' = [rows EXCEPT ![s] = row] /\ ~Exists(s)
  BY <1>1, <1>2 DEF CreateSEV
<1>5. rows' \in [SevId -> EscRow \union {Nil}] /\ \A u \in SevId : rows'[u] = IF u = s THEN row ELSE rows[u]
  BY <1>3, <1>4, EscFacts
<1>6. \A u \in SevId : Exists(u) => Exists(u)' /\ rows'[u] = rows[u] /\ rows[u].created <= lastSev
                                    /\ rows[u].created \in Nat
  BY <1>4, <1>5, EscFacts DEF Exists, TypeOK
<1>7. \A u \in SevId : Exists(u)' => \/ u = s /\ rows'[u].created = lastSev + 1
                                     \/ Exists(u) /\ rows'[u] = rows[u]
  BY <1>3, <1>5 DEF Exists
<1>8. \A t \in SevId, u \in SevId :
         Exists(t)' /\ Exists(u)' /\ rows'[t].created = rows'[u].created => t = u
  <2> SUFFICES ASSUME NEW t \in SevId, NEW u \in SevId, Exists(t)', Exists(u)',
                      rows'[t].created = rows'[u].created
               PROVE  t = u
    OBVIOUS
  <2>1. CASE t = s
    BY <1>1, <1>4, <1>6, <1>7, <2>1
  <2>2. CASE u = s
    BY <1>1, <1>4, <1>6, <1>7, <2>2
  <2>3. CASE t # s /\ u # s
    BY <1>7, <2>3 DEF TypeOK
  <2> QED
    BY <2>1, <2>2, <2>3
<1>9. \A u \in SevId : Exists(u)' => rows'[u].created <= lastSev'
  BY <1>1, <1>6, <1>7
<1>10. /\ \A u \in scan.todo \union scan.due : Exists(u)'
       /\ \A u \in SevId : scan.read[u] # Nil => Exists(u)'
  BY <1>6, EscFacts DEF TypeOK
<1>11. (\A r \in Request : assign[r] # Nil => Exists(assign[r]))'
  <2> SUFFICES ASSUME NEW r \in Request, assign'[r] # Nil PROVE Exists(assign[r])'
    OBVIOUS
  <2>1. PICK t \in SevId : t = assign[r] /\ t = assign'[r] /\ Exists(t)
    BY DEF CreateSEV, TypeOK
  <2> QED
    BY <1>6, <2>1 DEF Exists
<1> QED
  BY <1>1, <1>5, <1>8, <1>9, <1>10, <1>11 DEF CreateSEV, TypeOK

LEMMA RoleTypes ==
    ASSUME TypeOK,
           \/ \E l \in Level, setting \in Thresholds : UpsertEscalationConfig(l, setting)
           \/ \E r \in Request, s \in SevId : AssignRole(r, s)
           \/ \E s \in SevId : \E id \in ics[s] : RemoveRole(s, id)
           \/ Tick
    PROVE  TypeOK'
<1>1. ASSUME NEW l \in Level, NEW setting \in Thresholds, UpsertEscalationConfig(l, setting)
      PROVE  TypeOK'
  <2>1. config' \in [Level -> [enabled : BOOLEAN, threshold : Nat]]
    BY <1>1, EscalationAssumption DEF UpsertEscalationConfig, TypeOK
  <2> QED
    BY <1>1, <2>1 DEF UpsertEscalationConfig, TypeOK, Exists
<1>2. ASSUME NEW r \in Request, NEW s \in SevId, AssignRole(r, s) PROVE TypeOK'
  <2>1. lastRole' \in 0 .. MaxRoles /\ lastRole + 1 \in 1 .. MaxRoles
    BY <1>2, EscFacts DEF AssignRole, TypeOK
  <2>2. ics' \in [SevId -> SUBSET (1 .. MaxRoles)]
    BY <1>2, <2>1 DEF AssignRole, TypeOK
  <2>3. assign' \in [Request -> SevId \union {Nil}]
        /\ \A q \in Request : assign'[q] = IF q = r THEN s ELSE assign[q]
    BY <1>2 DEF AssignRole, TypeOK
  <2>4. (\A q \in Request : assign[q] # Nil => Exists(assign[q]))'
    <3> SUFFICES ASSUME NEW q \in Request, assign'[q] # Nil PROVE Exists(assign[q])'
      OBVIOUS
    <3>1. CASE q = r
      BY <1>2, <2>3, <3>1 DEF AssignRole, Exists
    <3>2. CASE q # r
      BY <1>2, <2>3, <3>2 DEF AssignRole, Exists, TypeOK
    <3> QED
      BY <3>1, <3>2
  <2>5. told' \subseteq SevId
    BY <1>2 DEF AssignRole, TypeOK
  <2> QED
    BY <1>2, <2>1, <2>2, <2>3, <2>4, <2>5 DEF AssignRole, TypeOK, Exists
<1>3. ASSUME NEW s \in SevId, NEW id \in ics[s], RemoveRole(s, id) PROVE TypeOK'
  <2>1. ics' \in [SevId -> SUBSET (1 .. MaxRoles)] /\ bare' \subseteq SevId
    BY <1>3 DEF RemoveRole, TypeOK
  <2> QED
    BY <1>3, <2>1 DEF RemoveRole, TypeOK, Exists
<1>4. CASE Tick
  BY <1>4 DEF Tick, TypeOK, Exists
<1> QED
  BY <1>1, <1>2, <1>3, <1>4

LEMMA StopTypes == ASSUME TypeOK, Crash \/ UNCHANGED vars PROVE TypeOK'
<1>1. CASE Crash
  <2>1. rearmed' \in [SevId -> Nat]
    BY <1>1, EscFacts DEF Crash
  <2>2. faults' \in 0 .. MaxFaults
    BY <1>1, EscFacts DEF Crash, Fail, TypeOK
  <2>3. assign' \in [Request -> SevId \union {Nil}] /\ \A r \in Request : assign'[r] = Nil
    BY <1>1 DEF Crash
  <2>4. /\ scan' \in ScanState /\ scan'.pc = "idle"
        /\ scan'.todo \union scan'.due = {} /\ \A s \in SevId : scan'.read[s] = Nil
    BY <1>1, EscFacts DEF Crash
  <2>5. stale' \subseteq SevId
    BY <1>1 DEF Crash, TypeOK
  <2> QED
    BY <1>1, <2>1, <2>2, <2>3, <2>4, <2>5 DEF Crash, TypeOK, Exists
<1>2. CASE UNCHANGED vars
  BY <1>2 DEF vars, TypeOK, Exists
<1> QED
  BY <1>1, <1>2

\* What a step of the scan that leaves the SEVs alone must establish.
LEMMA ScanMoves ==
    ASSUME TypeOK, UNCHANGED <<rows, lastSev, ics, lastRole, config, now, assign>>,
           scan' \in ScanState, scan'.pc \in {"alarm", "mark"} => scan'.due # {},
           \A s \in scan'.todo \union scan'.due : Exists(s),
           \A s \in SevId : scan'.read[s] # Nil => Exists(s),
           faults' \in 0 .. MaxFaults, alarms' \in [SevId -> Nat], rearmed' = rearmed,
           bare' \subseteq SevId, told' \subseteq SevId, stale' = stale
    PROVE  TypeOK'
BY DEF TypeOK, Exists

LEMMA ListTypes ==
    ASSUME TypeOK, ScanList
    PROVE  /\ TypeOK'
           /\ scan'.pc = "roles" /\ scan'.due = {}
           /\ \A s \in SevId : scan'.read[s] # Nil => scan'.read[s].row = rows[s]
<1>1. Listed \subseteq SevId /\ \A s \in Listed : Exists(s)
  BY DEF Listed, FirstPage
<1>2. PICK read : read = [s \in SevId |->
                            IF s \in Listed
                            THEN [row |-> rows[s], limit |-> config[rows[s].level]] ELSE Nil]
  OBVIOUS
<1>3. ASSUME NEW s \in Listed
      PROVE  /\ read[s] = [row |-> rows[s], limit |-> config[rows[s].level]]
             /\ read[s] \in Reading /\ read[s].row = rows[s]
  <2>1. s \in SevId /\ rows[s] \in EscRow
    BY <1>1, EscFacts
  <2>2. config[rows[s].level] \in [enabled : BOOLEAN, threshold : Nat]
    BY <2>1 DEF EscRow, TypeOK
  <2>3. read[s] = [row |-> rows[s], limit |-> config[rows[s].level]]
    BY <1>2, <2>1
  <2> QED
    BY <2>1, <2>2, <2>3 DEF Reading
<1>4. \A s \in SevId : s \notin Listed => read[s] = Nil
  BY <1>2
<1>5. read \in [SevId -> Reading \union {Nil}]
  BY <1>2, <1>3, <1>4
<1>6. scan' = [NoScan EXCEPT !.pc = "roles", !.todo = Listed, !.read = read]
  BY <1>2 DEF ScanList
<1>7. /\ scan' \in ScanState /\ scan'.pc = "roles" /\ scan'.due = {}
      /\ scan'.todo = Listed /\ scan'.read = read
  BY <1>1, <1>5, <1>6 DEF NoScan, ScanState
<1>8. \A s \in SevId : read[s] # Nil => read[s].row = rows[s] /\ Exists(s)
  BY <1>1, <1>3, <1>4
<1>9. TypeOK'
  <2>1. bare' \subseteq SevId
    BY DEF ScanList
  <2> QED
    BY <1>1, <1>7, <1>8, <2>1, ScanMoves DEF ScanList, TypeOK
<1> QED
  BY <1>7, <1>8, <1>9

LEMMA RolesTypes ==
    ASSUME TypeOK, ScanRoles
    PROVE  TypeOK' /\ scan'.read = scan.read /\ scan'.due = scan.due /\ scan'.pc = scan.pc
<1>1. PICK s \in Newest(scan.todo) :
        /\ Scanning("roles")
        /\ \/ /\ scan' = [scan EXCEPT !.todo = @ \ {s},
                                      !.hasIC = IF ics[s] # {} THEN @ \union {s} ELSE @]
              /\ UNCHANGED <<faults, bare>>
           \/ /\ Fail("roles")
              /\ scan' = [scan EXCEPT !.todo = @ \ {s}]
              /\ bare' = bare \union {s}
        /\ UNCHANGED <<rows, lastSev, ics, lastRole, config, now, assign,
                       alarms, rearmed, told, stale>>
  BY DEF ScanRoles
<1>2. s \in SevId
  BY EscFacts
<1>3. /\ scan' \in ScanState /\ scan'.read = scan.read /\ scan'.due = scan.due
      /\ scan'.pc = scan.pc /\ scan'.todo \subseteq scan.todo
  <2>1. PICK todo, hasIC : /\ todo = scan.todo \ {s}
                           /\ hasIC = IF ics[s] # {} THEN scan.hasIC \union {s} ELSE scan.hasIC
    OBVIOUS
  <2>2. todo \subseteq scan.todo /\ todo \subseteq SevId /\ hasIC \subseteq SevId
    BY <1>2, <2>1, EscFacts
  <2>3. CASE scan' = [scan EXCEPT !.todo = todo, !.hasIC = hasIC]
    BY <2>2, <2>3, EscFacts DEF ScanState
  <2>4. CASE scan' = [scan EXCEPT !.todo = todo]
    BY <2>2, <2>4, EscFacts DEF ScanState
  <2> QED
    BY <1>1, <2>1, <2>3, <2>4
<1>4. faults' \in 0 .. MaxFaults /\ bare' \subseteq SevId
  BY <1>1, <1>2, EscFacts DEF Fail, TypeOK
<1>5. TypeOK'
  BY <1>1, <1>3, <1>4, ScanMoves DEF TypeOK
<1> QED
  BY <1>3, <1>5

LEMMA EvaluateTypes ==
    ASSUME TypeOK, ScanEvaluate
    PROVE  /\ TypeOK'
           /\ scan'.pc \in {"idle", "alarm"} /\ \A s \in SevId : scan'.read[s] = Nil
           /\ \A s \in scan'.due : scan.read[s] # Nil /\ scan.read[s].row.escalatedAt = Nil
<1>1. PICK due : due = EvaluateEscalations(scan.read, scan.hasIC)
  OBVIOUS
<1>2. /\ due \subseteq SevId
      /\ \A s \in due : scan.read[s] # Nil /\ scan.read[s].row.escalatedAt = Nil /\ Exists(s)
  BY <1>1 DEF EvaluateEscalations, TypeOK
<1>3. scan' = IF due = {} THEN NoScan ELSE [NoScan EXCEPT !.pc = "alarm", !.due = due]
  BY <1>1 DEF ScanEvaluate
<1>4. /\ scan' \in ScanState /\ scan'.todo = {} /\ scan'.due = due
      /\ scan'.pc = IF due = {} THEN "idle" ELSE "alarm"
      /\ \A s \in SevId : scan'.read[s] = Nil
  BY <1>2, <1>3 DEF NoScan, ScanState
<1>5. TypeOK'
  BY <1>2, <1>4, ScanMoves DEF ScanEvaluate, TypeOK
<1> QED
  BY <1>2, <1>4, <1>5

LEMMA AlarmTypes ==
    ASSUME TypeOK, ScanAlarm
    PROVE  /\ TypeOK'
           /\ scan.pc = "alarm" /\ scan'.pc = "mark"
           /\ scan'.read = scan.read /\ scan'.due = scan.due
<1>1. PICK s \in Newest(scan.due) : /\ Scanning("alarm")
                                    /\ alarms' = [alarms EXCEPT ![s] = @ + 1]
                                    /\ scan' = [scan EXCEPT !.pc = "mark"]
                                    /\ UNCHANGED <<rows, lastSev, ics, lastRole, config, now,
                                                   assign, faults, rearmed, bare, stale>>
                                    /\ told' \subseteq told \union {s}
  BY DEF ScanAlarm
<1>2. s \in SevId /\ s \in scan.due
  BY EscFacts DEF Newest
<1>3. /\ scan' \in ScanState /\ scan'.pc = "mark" /\ scan'.read = scan.read
      /\ scan'.due = scan.due /\ scan'.todo = scan.todo
  BY <1>1, EscFacts DEF ScanState
<1>4. alarms' \in [SevId -> Nat]
  BY <1>1, <1>2, EscFacts
<1>5. TypeOK'
  BY <1>1, <1>2, <1>3, <1>4, ScanMoves DEF TypeOK
<1> QED
  BY <1>1, <1>3, <1>5 DEF Scanning

LEMMA MarkTypes ==
    ASSUME TypeOK, ScanMark
    PROVE  /\ TypeOK'
           /\ scan.pc = "mark" /\ scan'.pc \in {"idle", "alarm"}
           /\ \E s \in Newest(scan.due) :
                 /\ \/ /\ rows' = [rows EXCEPT ![s].escalatedAt = now]
                       /\ rearmed' = rearmed
                    \/ /\ rows' = rows
                       /\ rearmed' = [rearmed EXCEPT ![s] = @ + 1]
                 /\ scan'.due \subseteq scan.due \ {s}
                 /\ \A u \in SevId : scan'.read[u] = Nil \/ scan'.read = scan.read
<1>1. PICK s \in Newest(scan.due) :
        /\ Scanning("mark")
        /\ \/ /\ rows' = [rows EXCEPT ![s].escalatedAt = now]
              /\ UNCHANGED <<rearmed, faults>>
           \/ /\ Fail("mark")
              /\ rearmed' = [rearmed EXCEPT ![s] = @ + 1]
              /\ UNCHANGED rows
        /\ stale' \subseteq stale \union {s}
        /\ scan' = IF scan.due = {s} THEN NoScan
                   ELSE [scan EXCEPT !.pc = "alarm", !.due = @ \ {s}]
        /\ UNCHANGED <<lastSev, ics, lastRole, config, now, assign, alarms, bare, told>>
  BY DEF ScanMark
<1>2. s \in SevId /\ s \in scan.due /\ Exists(s) /\ rows[s] \in EscRow
  BY EscFacts DEF Newest
<1>3. /\ scan' \in ScanState /\ scan'.pc \in {"idle", "alarm"}
      /\ scan'.pc = "alarm" => scan'.due # {}
      /\ scan'.due \subseteq scan.due \ {s} /\ scan'.todo \subseteq scan.todo
      /\ \A u \in SevId : scan'.read[u] = Nil \/ scan'.read = scan.read
  <2>1. CASE scan.due = {s}
    BY <1>1, <2>1, EscFacts
  <2>2. CASE scan.due # {s}
    <3>1. PICK due : due = scan.due \ {s}
      OBVIOUS
    <3>2. due \subseteq SevId /\ due # {}
      BY <1>2, <2>2, <3>1, EscFacts
    <3>3. scan' = [scan EXCEPT !.pc = "alarm", !.due = due]
      BY <1>1, <2>2, <3>1
    <3> QED
      BY <3>1, <3>2, <3>3, EscFacts DEF ScanState
  <2> QED
    BY <2>1, <2>2
<1>4. faults' \in 0 .. MaxFaults /\ rearmed' \in [SevId -> Nat] /\ stale' \subseteq SevId
  BY <1>1, <1>2, EscFacts DEF Fail, TypeOK
<1>5. TypeOK'
  <2>1. CASE rows' = rows
    BY <1>1, <1>2, <1>3, <1>4, <2>1, EscFacts DEF TypeOK, Exists
  <2>2. CASE rows' = [rows EXCEPT ![s].escalatedAt = now]
    <3>1. PICK row : row = [rows[s] EXCEPT !.escalatedAt = now]
      OBVIOUS
    <3>2. row \in EscRow /\ row.created = rows[s].created
      BY <1>2, <3>1, EscFacts DEF EscRow, OptTime
    <3>3. rows' = [rows EXCEPT ![s] = row]
      BY <2>2, <3>1
    <3>4. /\ rows' \in [SevId -> EscRow \union {Nil}] /\ lastSev' \in Nat
          /\ \A t \in SevId, u \in SevId :
                Exists(t)' /\ Exists(u)' /\ rows'[t].created = rows'[u].created => t = u
          /\ \A t \in scan'.todo \union scan'.due : Exists(t)'
          /\ \A t \in SevId : scan'.read[t] # Nil => Exists(t)'
          /\ \A t \in SevId : Exists(t)' => rows'[t].created <= lastSev'
          /\ (\A r \in Request : assign[r] # Nil => Exists(assign[r]))'
      BY <1>1, <1>2, <1>3, <3>2, <3>3, RowTypes
    <3> QED
      BY <1>1, <1>3, <1>4, <3>4 DEF TypeOK
  <2> QED
    BY <1>1, <2>1, <2>2
<1> QED
  BY <1>1, <1>3, <1>5 DEF Scanning

LEMMA EscTypes == TypeOK /\ [Next]_vars => TypeOK'
<1> SUFFICES ASSUME TypeOK, [Next]_vars PROVE TypeOK'
  OBVIOUS
<1>1. CASE Scan
  BY <1>1, ListTypes, RolesTypes, EvaluateTypes, AlarmTypes, MarkTypes DEF Scan
<1> QED
  BY <1>1, CreateTypes, HandlerTypes, RoleTypes, StopTypes DEF Next

-------------------------------------------------------------------------------
(***************************************************************************)
(* The alarms and the markers.                                             *)
(***************************************************************************)

LEMMA ListAccounts == EscInv /\ ScanList => EscInv'
<1> SUFFICES ASSUME EscInv, ScanList PROVE EscInv'
  OBVIOUS
<1>1. TypeOK /\ TypeOK' /\ scan'.pc = "roles" /\ scan'.due = {}
      /\ \A s \in SevId : scan'.read[s] # Nil => scan'.read[s].row = rows[s]
  BY ListTypes DEF EscInv
<1>2. scan.pc = "idle" /\ rows' = rows /\ alarms' = alarms /\ rearmed' = rearmed
  BY DEF ScanList, Scanning
<1>3. \A s \in SevId : (Marked(s)' <=> Marked(s)) /\ ~Pending(s) /\ ~Pending(s)'
  BY <1>1, <1>2 DEF Marked, Exists, Pending
<1>4. StillUnmarked'
  BY <1>1, <1>2, <1>3 DEF StillUnmarked, Marked
<1> QED
  BY <1>1, <1>2, <1>3, <1>4 DEF EscInv, AlarmsCounted, Accounted

LEMMA RolesAccounts == EscInv /\ ScanRoles => EscInv'
<1> SUFFICES ASSUME EscInv, ScanRoles PROVE EscInv'
  OBVIOUS
<1>1. TypeOK /\ TypeOK' /\ scan'.read = scan.read /\ scan'.due = scan.due /\ scan'.pc = scan.pc
  BY RolesTypes DEF EscInv
<1>2. scan.pc = "roles" /\ rows' = rows /\ alarms' = alarms /\ rearmed' = rearmed
  BY DEF ScanRoles, Scanning
<1>3. \A s \in SevId : (Marked(s)' <=> Marked(s)) /\ ~Pending(s) /\ ~Pending(s)'
  BY <1>1, <1>2 DEF Marked, Exists, Pending
<1> QED
  BY <1>1, <1>2, <1>3 DEF EscInv, AlarmsCounted, Accounted, StillUnmarked

LEMMA EvaluateAccounts == EscInv /\ ScanEvaluate => EscInv'
<1> SUFFICES ASSUME EscInv, ScanEvaluate PROVE EscInv'
  OBVIOUS
<1>1. /\ TypeOK /\ TypeOK'
      /\ scan'.pc \in {"idle", "alarm"} /\ \A s \in SevId : scan'.read[s] = Nil
      /\ \A s \in scan'.due : scan.read[s] # Nil /\ scan.read[s].row.escalatedAt = Nil
  BY EvaluateTypes DEF EscInv
<1>2. scan.pc = "roles" /\ rows' = rows /\ alarms' = alarms /\ rearmed' = rearmed
  BY DEF ScanEvaluate, Scanning
<1>3. \A s \in SevId : (Marked(s)' <=> Marked(s)) /\ ~Pending(s) /\ ~Pending(s)'
  BY <1>1, <1>2 DEF Marked, Exists, Pending
<1> QED
  BY <1>1, <1>2, <1>3 DEF EscInv, AlarmsCounted, Accounted, StillUnmarked

LEMMA AlarmAccounts == EscInv /\ ScanAlarm => EscInv'
<1> SUFFICES ASSUME EscInv, ScanAlarm PROVE EscInv'
  OBVIOUS
<1>1. /\ TypeOK /\ TypeOK'
      /\ scan.pc = "alarm" /\ scan'.pc = "mark"
      /\ scan'.read = scan.read /\ scan'.due = scan.due
  BY AlarmTypes DEF EscInv
<1>2. PICK s \in Newest(scan.due) : alarms' = [alarms EXCEPT ![s] = @ + 1]
                                    /\ UNCHANGED <<rows, rearmed>>
  BY DEF ScanAlarm
<1>3. s \in SevId /\ s \in scan.due
  BY <1>1, EscFacts DEF Newest
<1>4. Newest(scan.due)' = Newest(scan.due)
  BY <1>1, <1>2 DEF Newest, Newer
<1>5. \A u \in SevId : /\ Marked(u)' <=> Marked(u)
                       /\ ~Pending(u)
                       /\ Pending(u)' <=> u = s
  BY <1>1, <1>2, <1>4, NewestOne DEF Marked, Exists, Pending
<1>6. \A u \in SevId : alarms'[u] = IF u = s THEN alarms[u] + 1 ELSE alarms[u]
  BY <1>1, <1>2, EscFacts
<1>7. ~Marked(s)
  BY <1>3 DEF EscInv, StillUnmarked
<1>8. ASSUME NEW u \in SevId
      PROVE  /\ alarms'[u] <= 1 + rearmed'[u]
             /\ ~Marked(u)' /\ ~Pending(u)' => alarms'[u] <= rearmed'[u]
             /\ Marked(u)' \/ Pending(u)' => alarms'[u] > 0
  <2>1. alarms[u] \in Nat /\ rearmed[u] \in Nat /\ rearmed'[u] = rearmed[u]
    BY <1>1, <1>2, EscFacts
  <2> QED
    BY <1>5, <1>6, <1>7, <2>1 DEF EscInv, AlarmsCounted, Accounted
<1>9. StillUnmarked'
  BY <1>1, <1>5 DEF EscInv, StillUnmarked
<1> QED
  BY <1>1, <1>8, <1>9 DEF EscInv, AlarmsCounted, Accounted

LEMMA MarkAccounts == EscInv /\ ScanMark => EscInv'
<1> SUFFICES ASSUME EscInv, ScanMark PROVE EscInv'
  OBVIOUS
<1>1. TypeOK /\ TypeOK' /\ scan.pc = "mark" /\ scan'.pc \in {"idle", "alarm"}
  BY MarkTypes DEF EscInv
<1>2. PICK s \in Newest(scan.due) :
        /\ \/ /\ rows' = [rows EXCEPT ![s].escalatedAt = now]
              /\ rearmed' = rearmed
           \/ /\ rows' = rows
              /\ rearmed' = [rearmed EXCEPT ![s] = @ + 1]
        /\ scan'.due \subseteq scan.due \ {s}
        /\ \A u \in SevId : scan'.read[u] = Nil \/ scan'.read = scan.read
  BY MarkTypes DEF EscInv
<1>3. s \in SevId /\ s \in scan.due /\ Pending(s) /\ ~Marked(s)
      /\ \A u \in SevId : Pending(u) <=> u = s
  BY <1>1, <1>2, EscFacts, NewestOne DEF Pending, Newest, EscInv, StillUnmarked
<1>4. \A u \in SevId : ~Pending(u)'
  BY <1>1 DEF Pending
<1>5. \A u \in SevId : u # s => (Marked(u)' <=> Marked(u)) /\ rearmed'[u] = rearmed[u]
  BY <1>1, <1>2, EscFacts DEF Marked, Exists
<1>6. Marked(s)' \/ rearmed'[s] = rearmed[s] + 1
  <2>1. CASE rows' = [rows EXCEPT ![s].escalatedAt = now]
    <3>1. rows[s] \in EscRow /\ now # Nil /\ rows'[s] \in EscRow \union {Nil}
      BY <1>1, <1>2, EscFacts, NilAssumption DEF TypeOK
    <3>2. rows'[s] = [rows[s] EXCEPT !.escalatedAt = now]
      BY <1>1, <1>3, <2>1, EscFacts
    <3>3. rows'[s].escalatedAt = now /\ rows'[s] \in EscRow
      BY <1>1, <3>1, <3>2, EscFacts DEF EscRow, OptTime
    <3> QED
      BY <3>1, <3>3, EscalationAssumption DEF Marked, Exists
  <2>2. CASE rearmed' = [rearmed EXCEPT ![s] = @ + 1]
    BY <1>1, <1>3, <2>2, EscFacts
  <2> QED
    BY <1>2, <2>1, <2>2
<1>7. rearmed'[s] = rearmed[s] \/ rearmed'[s] = rearmed[s] + 1
  BY <1>1, <1>2, <1>3, EscFacts
<1>8. ASSUME NEW u \in SevId
      PROVE  /\ alarms'[u] <= 1 + rearmed'[u]
             /\ ~Marked(u)' /\ ~Pending(u)' => alarms'[u] <= rearmed'[u]
             /\ Marked(u)' \/ Pending(u)' => alarms'[u] > 0
  <2>1. alarms[u] \in Nat /\ rearmed[u] \in Nat /\ alarms'[u] = alarms[u]
    BY <1>1, EscFacts DEF ScanMark
  <2>2. CASE u = s
    BY <1>3, <1>4, <1>6, <1>7, <2>1, <2>2 DEF EscInv, AlarmsCounted, Accounted
  <2>3. CASE u # s
    BY <1>3, <1>4, <1>5, <2>1, <2>3 DEF EscInv, AlarmsCounted, Accounted
  <2> QED
    BY <2>2, <2>3
<1>9. StillUnmarked'
  BY <1>1, <1>2, <1>3, <1>5 DEF EscInv, StillUnmarked
<1> QED
  BY <1>1, <1>8, <1>9 DEF EscInv, AlarmsCounted, Accounted

LEMMA ClearAccounts ==
    ASSUME EscInv, NEW r \in Request, ClearMarker(r)
    PROVE  EscInv'
<1>1. TypeOK /\ TypeOK'
  BY HandlerTypes DEF EscInv
<1>2. CASE rows' = rows /\ rearmed' = rearmed
  BY <1>1, <1>2, RowsKept DEF ClearMarker, Exists
<1>3. CASE /\ rows' = [rows EXCEPT ![assign[r]].escalatedAt = Nil]
           /\ rearmed' = [rearmed EXCEPT ![assign[r]] = @ + 1]
  <2>1. PICK s \in SevId : s = assign[r] /\ Exists(s)
    BY <1>1 DEF ClearMarker, TypeOK
  <2>2. rows[s] \in EscRow
    BY <1>1, <2>1, EscFacts
  <2>3. PICK row : row = [rows[s] EXCEPT !.escalatedAt = Nil]
    OBVIOUS
  <2>4. row \in EscRow /\ row.created = rows[s].created /\ row.escalatedAt = Nil
    BY <2>2, <2>3 DEF EscRow, OptTime
  <2>5. \A u \in SevId : rows'[u] = IF u = s THEN row ELSE rows[u]
    BY <1>1, <1>3, <2>1, <2>3, EscFacts
  <2>6. \A u \in SevId : /\ Exists(u)' <=> Exists(u)
                         /\ rows'[u].created = rows[u].created
                         /\ Marked(u)' => Marked(u)
                         /\ u # s => (Marked(u)' <=> Marked(u))
    BY <2>1, <2>4, <2>5, EscalationAssumption DEF Exists, Marked
  <2>7. Newest(scan.due)' = Newest(scan.due)
    BY <1>1, <2>6, EscFacts DEF ClearMarker, Newest, Newer
  <2>8. \A u \in SevId : (Pending(u)' <=> Pending(u)) /\ alarms'[u] = alarms[u]
    BY <2>7 DEF Pending, ClearMarker
  <2>9. \A u \in SevId : rearmed'[u] = IF u = s THEN rearmed[u] + 1 ELSE rearmed[u]
    BY <1>1, <1>3, <2>1, EscFacts
  <2>10. ASSUME NEW u \in SevId
         PROVE  /\ alarms'[u] <= 1 + rearmed'[u]
                /\ ~Marked(u)' /\ ~Pending(u)' => alarms'[u] <= rearmed'[u]
                /\ Marked(u)' \/ Pending(u)' => alarms'[u] > 0
    <3>1. alarms[u] \in Nat /\ rearmed[u] \in Nat
      BY <1>1, EscFacts
    <3> QED
      BY <2>6, <2>8, <2>9, <3>1 DEF EscInv, AlarmsCounted, Accounted
  <2>11. StillUnmarked'
    BY <1>1, <2>6 DEF ClearMarker, EscInv, StillUnmarked
  <2> QED
    BY <1>1, <2>10, <2>11 DEF EscInv, AlarmsCounted, Accounted
<1> QED
  BY <1>2, <1>3 DEF ClearMarker

LEMMA CrashAccounts == EscInv /\ Crash => EscInv'
<1> SUFFICES ASSUME EscInv, Crash PROVE EscInv'
  OBVIOUS
<1>1. TypeOK /\ TypeOK'
  BY StopTypes DEF EscInv
<1>2. \A s \in SevId : (Marked(s)' <=> Marked(s)) /\ ~Pending(s)' /\ alarms'[s] = alarms[s]
  BY <1>1, EscFacts DEF Crash, Marked, Exists, Pending
<1>3. \A s \in SevId : rearmed'[s] = IF Pending(s) THEN rearmed[s] + 1 ELSE rearmed[s]
  BY DEF Crash, Pending, Scanning
<1>4. ASSUME NEW s \in SevId
      PROVE  /\ alarms'[s] <= 1 + rearmed'[s]
             /\ ~Marked(s)' /\ ~Pending(s)' => alarms'[s] <= rearmed'[s]
             /\ Marked(s)' \/ Pending(s)' => alarms'[s] > 0
  <2>1. alarms[s] \in Nat /\ rearmed[s] \in Nat
    BY <1>1, EscFacts
  <2> QED
    BY <1>2, <1>3, <2>1 DEF EscInv, AlarmsCounted, Accounted
<1>5. StillUnmarked'
  BY <1>1, EscFacts DEF Crash, StillUnmarked
<1> QED
  BY <1>1, <1>4, <1>5 DEF EscInv, AlarmsCounted, Accounted

LEMMA EscStep == EscInv /\ [Next]_vars => EscInv'
<1> SUFFICES ASSUME EscInv, [Next]_vars PROVE EscInv'
  OBVIOUS
<1>1. TypeOK /\ TypeOK'
  BY EscTypes DEF EscInv
<1>2. ASSUME NEW s \in SevId, NEW sensitive \in Flags, NEW level \in Level,
             NEW startedAt \in Starts, CreateSEV(s, sensitive, level, startedAt)
      PROVE  EscInv'
  <2>1. PICK row : row = [created |-> lastSev', status |-> "open", sensitive |-> sensitive,
                          level |-> level, startedAt |-> startedAt, escalatedAt |-> Nil]
    OBVIOUS
  <2>2. /\ row.escalatedAt = Nil /\ ~Exists(s)
        /\ \A u \in SevId : rows'[u] = IF u = s THEN row ELSE rows[u]
    BY <1>1, <1>2, <2>1, EscFacts DEF CreateSEV
  <2> QED
    BY <1>1, <1>2, <2>2, RowsKept DEF CreateSEV, Exists
<1>3. ASSUME NEW s \in SevId, NEW sensitive \in Flags, NEW startedAt \in Starts,
             UpdateSEV(s, sensitive, startedAt)
      PROVE  EscInv'
  <2>1. PICK row : row = [rows[s] EXCEPT !.sensitive = sensitive,
                                         !.startedAt = OrElse(startedAt, @)]
    OBVIOUS
  <2>2. rows[s] \in EscRow /\ sensitive \in BOOLEAN /\ startedAt \in OptTime
    BY <1>1, <1>3, EscFacts, EscalationAssumption DEF UpdateSEV
  <2>3. row \in EscRow /\ row.created = rows[s].created /\ row.escalatedAt = rows[s].escalatedAt
    BY <2>1, <2>2 DEF EscRow, OrElse
  <2>4. \A u \in SevId : rows'[u] = IF u = s THEN row ELSE rows[u]
    BY <1>1, <1>3, <2>1, EscFacts DEF UpdateSEV
  <2> QED
    BY <1>1, <1>3, <2>3, <2>4, RowsKept, EscalationAssumption DEF UpdateSEV, Exists
<1>4. ASSUME NEW s \in SevId, NEW to \in Targets, TransitionStatus(s, to) PROVE EscInv'
  <2>1. PICK row : row = [rows[s] EXCEPT !.status = to]
    OBVIOUS
  <2>2. rows[s] \in EscRow /\ to \in Status
    BY <1>1, <1>4, EscFacts, EscalationAssumption DEF TransitionStatus
  <2>3. row \in EscRow /\ row.created = rows[s].created /\ row.escalatedAt = rows[s].escalatedAt
    BY <2>1, <2>2 DEF EscRow
  <2>4. \A u \in SevId : rows'[u] = IF u = s THEN row ELSE rows[u]
    BY <1>1, <1>4, <2>1, EscFacts DEF TransitionStatus
  <2> QED
    BY <1>1, <1>4, <2>3, <2>4, RowsKept, EscalationAssumption DEF TransitionStatus, Exists
<1>5. CASE UNCHANGED <<rows, scan, alarms, rearmed>>
  BY <1>1, <1>5, RowsKept DEF Exists
<1>6. ASSUME NEW r \in Request, ClearMarker(r) PROVE EscInv'
  BY <1>6, ClearAccounts
<1>7. CASE Scan
  BY <1>7, ListAccounts, RolesAccounts, EvaluateAccounts, AlarmAccounts, MarkAccounts DEF Scan
<1>8. CASE Crash
  BY <1>8, CrashAccounts
<1>9. ASSUME \/ \E l \in Level, setting \in Thresholds : UpsertEscalationConfig(l, setting)
             \/ \E r \in Request, s \in SevId : AssignRole(r, s)
             \/ \E s \in SevId : \E id \in ics[s] : RemoveRole(s, id)
             \/ Tick
             \/ UNCHANGED vars
      PROVE  UNCHANGED <<rows, scan, alarms, rearmed>>
  BY <1>9 DEF UpsertEscalationConfig, AssignRole, RemoveRole, Tick, vars
<1> QED
  BY <1>2, <1>3, <1>4, <1>5, <1>6, <1>7, <1>8, <1>9 DEF Next

LEMMA EscAlways == Spec => []EscInv
BY EscInit, EscStep, PTL DEF Spec

\* Every variable keeps its type, and a scan is about SEVs that exist, no two of which
\* share a place in the order scanEscalations lists them by.
THEOREM EscTypeCorrect == Spec => []TypeOK
<1>1. EscInv => TypeOK
  BY DEF EscInv
<1> QED
  BY <1>1, EscAlways, PTL

\* scanEscalations alarms once and not at every scan: whatever AssignRole clears, whichever
\* calls fail and wherever the server stops, an alarm beyond the first has a marker behind
\* it that was cleared or never stored.
THEOREM AlarmsCountedCorrect == Spec => []AlarmsCounted
<1>1. EscInv => AlarmsCounted
  BY DEF EscInv
<1> QED
  BY <1>1, EscAlways, PTL

\* The marker SetEscalatedAt stores is only ever found on a SEV whose alarm went out.
THEOREM NoSilentMarkerCorrect == Spec => []NoSilentMarker
<1>1. EscInv => NoSilentMarker
  BY DEF EscInv, Accounted, Marked, NoSilentMarker
<1> QED
  BY <1>1, EscAlways, PTL

-------------------------------------------------------------------------------
(***************************************************************************)
(* Whom the alarm is about. While a scan is on its way, a SEV without a    *)
(* commander is in bare; a SEV it has read is yet to be looked at, has a   *)
(* commander by its count, or is in bare; and what is due is in bare.      *)
(***************************************************************************)
BareInv ==
    \A s \in SevId :
        /\ scan.pc # "idle" /\ ics[s] = {} => s \in bare
        /\ scan.read[s] # Nil => s \in scan.todo \/ s \in scan.hasIC \/ s \in bare
        /\ s \in scan.due => s \in bare

LEMMA BareKept ==
    ASSUME BareInv, scan' = scan, bare \subseteq bare',
           \A s \in SevId : ics'[s] = {} => ics[s] = {} \/ s \in bare'
    PROVE  BareInv'
BY DEF BareInv

LEMMA BareStep == EscInv /\ BareInv /\ [Next]_vars => BareInv'
<1> SUFFICES ASSUME EscInv, BareInv, [Next]_vars PROVE BareInv'
  OBVIOUS
<1>1. TypeOK
  BY DEF EscInv
<1>2. ASSUME \/ \E s \in SevId, sensitive \in Flags, level \in Level, startedAt \in Starts :
                   CreateSEV(s, sensitive, level, startedAt)
             \/ \E s \in SevId, sensitive \in Flags, startedAt \in Starts :
                   UpdateSEV(s, sensitive, startedAt)
             \/ \E s \in SevId, to \in Targets : TransitionStatus(s, to)
             \/ \E l \in Level, setting \in Thresholds : UpsertEscalationConfig(l, setting)
             \/ \E r \in Request : ClearMarker(r)
             \/ Tick
             \/ UNCHANGED vars
      PROVE  UNCHANGED <<scan, bare, ics>>
  BY <1>2 DEF CreateSEV, UpdateSEV, TransitionStatus, UpsertEscalationConfig, ClearMarker,
              Tick, vars
<1>3. CASE UNCHANGED <<scan, bare, ics>>
  BY <1>3, BareKept
<1>4. ASSUME NEW r \in Request, NEW s \in SevId, AssignRole(r, s) PROVE BareInv'
  <2>1. \A u \in SevId : ics'[u] = {} => ics[u] = {}
    BY <1>1, <1>4 DEF AssignRole, TypeOK
  <2> QED
    BY <1>4, <2>1, BareKept DEF AssignRole
<1>5. ASSUME NEW s \in SevId, NEW id \in ics[s], RemoveRole(s, id) PROVE BareInv'
  <2>1. \A u \in SevId : ics'[u] = {} => ics[u] = {} \/ u \in bare'
    BY <1>1, <1>5 DEF RemoveRole, TypeOK
  <2>2. bare \subseteq bare'
    BY <1>5 DEF RemoveRole
  <2> QED
    BY <1>5, <2>1, <2>2, BareKept DEF RemoveRole
<1>6. CASE ScanList
  <2>1. Listed \subseteq SevId
    BY DEF Listed, FirstPage
  <2>2. PICK read : read = [s \in SevId |->
                              IF s \in Listed
                              THEN [row |-> rows[s], limit |-> config[rows[s].level]] ELSE Nil]
    OBVIOUS
  <2>3. scan' = [NoScan EXCEPT !.pc = "roles", !.todo = Listed, !.read = read]
    BY <1>6, <2>2 DEF ScanList
  <2>4. scan'.todo = Listed /\ scan'.due = {} /\ scan'.read = read
    BY <2>3 DEF NoScan
  <2>5. \A s \in SevId : read[s] # Nil => s \in Listed
    BY <2>2
  <2>6. bare' = {s \in SevId : ics[s] = {}} /\ ics' = ics
    BY <1>6 DEF ScanList
  <2> QED
    BY <2>4, <2>5, <2>6 DEF BareInv
<1>7. CASE ScanRoles
  <2>1. PICK s \in Newest(scan.todo) :
          /\ Scanning("roles")
          /\ \/ /\ scan' = [scan EXCEPT !.todo = @ \ {s},
                                        !.hasIC = IF ics[s] # {} THEN @ \union {s} ELSE @]
                /\ UNCHANGED <<faults, bare>>
             \/ /\ Fail("roles")
                /\ scan' = [scan EXCEPT !.todo = @ \ {s}]
                /\ bare' = bare \union {s}
          /\ ics' = ics
    BY <1>7 DEF ScanRoles
  <2>2. s \in SevId /\ (ics[s] = {} => s \in bare)
    BY <1>1, <2>1, EscFacts DEF BareInv, Scanning
  <2>3. scan'.read = scan.read /\ scan'.due = scan.due /\ scan'.pc = scan.pc
    BY <1>1, <1>7, RolesTypes
  <2>4. bare \subseteq bare' /\ scan'.todo = scan.todo \ {s}
        /\ \A u \in SevId : u \in scan.hasIC => u \in scan'.hasIC
    BY <1>1, <2>1, EscFacts DEF ScanState
  <2>5. s \in scan'.hasIC \/ s \in bare'
    <3>1. CASE /\ scan' = [scan EXCEPT !.todo = @ \ {s},
                                       !.hasIC = IF ics[s] # {} THEN @ \union {s} ELSE @]
               /\ bare' = bare
      <4>1. CASE ics[s] = {}
        BY <2>2, <3>1, <4>1
      <4>2. CASE ics[s] # {}
        <5>1. PICK todo, hasIC : todo = scan.todo \ {s} /\ hasIC = scan.hasIC \union {s}
          OBVIOUS
        <5>2. scan' = [scan EXCEPT !.todo = todo, !.hasIC = hasIC]
          BY <3>1, <4>2, <5>1
        <5>3. scan'.hasIC = hasIC
          BY <1>1, <5>2, EscFacts DEF ScanState
        <5> QED
          BY <5>1, <5>3
      <4> QED
        BY <4>1, <4>2
    <3>2. CASE bare' = bare \union {s}
      BY <3>2
    <3> QED
      BY <2>1, <3>1, <3>2
  <2> QED
    BY <2>1, <2>3, <2>4, <2>5 DEF BareInv
<1>8. CASE ScanEvaluate
  <2>1. PICK due : due = EvaluateEscalations(scan.read, scan.hasIC)
    OBVIOUS
  <2>2. scan' = IF due = {} THEN NoScan ELSE [NoScan EXCEPT !.pc = "alarm", !.due = due]
    BY <1>8, <2>1 DEF ScanEvaluate
  <2>3. \A s \in due : s \in SevId /\ scan.read[s] # Nil /\ s \notin scan.hasIC
    BY <2>1 DEF EvaluateEscalations
  <2>4. due \subseteq bare /\ scan.pc # "idle" /\ bare' = bare /\ ics' = ics
    BY <1>8, <2>3 DEF ScanEvaluate, Scanning, BareInv
  <2>5. scan'.due = due /\ \A s \in SevId : scan'.read[s] = Nil
    BY <2>2 DEF NoScan
  <2> QED
    BY <2>4, <2>5 DEF BareInv
<1>9. CASE ScanAlarm
  <2>1. scan.pc = "alarm" /\ scan'.read = scan.read /\ scan'.due = scan.due
        /\ ics' = ics /\ bare' = bare
    BY <1>1, <1>9, AlarmTypes DEF ScanAlarm
  <2>2. \A s \in SevId : scan.read[s] = Nil
    BY <2>1 DEF EscInv, StillUnmarked
  <2> QED
    BY <2>1, <2>2 DEF BareInv
<1>10. CASE ScanMark
  <2>1. scan.pc = "mark" /\ ics' = ics /\ bare' = bare
    BY <1>10 DEF ScanMark, Scanning
  <2>2. scan'.due \subseteq scan.due
        /\ \A u \in SevId : scan'.read[u] = Nil \/ scan'.read = scan.read
    BY <1>1, <1>10, MarkTypes
  <2>3. \A s \in SevId : scan.read[s] = Nil
    BY <2>1 DEF EscInv, StillUnmarked
  <2> QED
    BY <2>1, <2>2, <2>3 DEF BareInv
<1>11. CASE Crash
  <2>1. scan'.pc = "idle" /\ scan'.due = {} /\ \A s \in SevId : scan'.read[s] = Nil
    BY <1>1, <1>11, EscFacts DEF Crash
  <2> QED
    BY <2>1 DEF BareInv
<1> QED
  BY <1>2, <1>3, <1>4, <1>5, <1>6, <1>7, <1>8, <1>9, <1>10, <1>11 DEF Next, Scan

\* Only ScanAlarm sends an alarm, and for a SEV found due.
LEMMA AlarmStep ==
    EscInv /\ BareInv /\ [Next]_vars =>
        [\A s \in SevId : alarms'[s] # alarms[s] => s \in bare]_vars
<1> SUFFICES ASSUME EscInv, BareInv, [Next]_vars, NEW s \in SevId, alarms'[s] # alarms[s]
             PROVE  s \in bare
  OBVIOUS
<1>1. ScanAlarm
  BY DEF Next, Scan, CreateSEV, UpdateSEV, TransitionStatus, UpsertEscalationConfig, AssignRole,
         ClearMarker, RemoveRole, ScanList, ScanRoles, ScanEvaluate, ScanMark, Crash, Tick, vars
<1>2. PICK u \in Newest(scan.due) : alarms' = [alarms EXCEPT ![u] = @ + 1]
  BY <1>1 DEF ScanAlarm
<1>3. u = s /\ s \in scan.due
  BY <1>2, EscFacts DEF EscInv, Newest
<1> QED
  BY <1>3 DEF BareInv

\* evaluateEscalations alarms only for a SEV that had no Incident Commander at some moment
\* of the scan, or whose roles this scan could not list.
THEOREM AlarmsSoundCorrect == Spec => AlarmsSound
<1>1. Init => BareInv
  BY DEF Init, BareInv, NoScan
<1>2. EscInv /\ BareInv /\ [Next]_vars => EscInv' /\ BareInv'
  BY EscStep, BareStep
<1>3. EscInv /\ BareInv /\ [Next]_vars =>
          [\A s \in SevId : alarms'[s] # alarms[s] => s \in bare]_vars
  BY AlarmStep
<1> QED
  BY <1>1, <1>2, <1>3, EscInit, PTL DEF Spec, AlarmsSound

-------------------------------------------------------------------------------
(***************************************************************************)
(* What silences the scanner. A SEV with a marker has been alarmed in the  *)
(* time it is without a commander now, has a marker left over from before, *)
(* or waits for the clear of an AssignRole.                                *)
(***************************************************************************)
MarkerTraced == \A s \in SevId : Marked(s) => s \in told \/ s \in stale \/ Clearing(s)

\* No SEV gets a marker, and none loses what accounts for the one it has.
LEMMA TracesKept ==
    ASSUME MarkerTraced, \A s \in SevId : Marked(s)' => Marked(s), assign' = assign,
           told \subseteq told', stale \subseteq stale'
    PROVE  MarkerTraced'
BY DEF MarkerTraced, Clearing

LEMMA HandlerTraces ==
    ASSUME TypeOK, MarkerTraced,
           \/ \E s \in SevId, sensitive \in Flags, level \in Level, startedAt \in Starts :
                 CreateSEV(s, sensitive, level, startedAt)
           \/ \E s \in SevId, sensitive \in Flags, startedAt \in Starts :
                 UpdateSEV(s, sensitive, startedAt)
           \/ \E s \in SevId, to \in Targets : TransitionStatus(s, to)
    PROVE  MarkerTraced'
<1>1. ASSUME NEW s \in SevId, NEW sensitive \in Flags, NEW level \in Level,
             NEW startedAt \in Starts, CreateSEV(s, sensitive, level, startedAt)
      PROVE  MarkerTraced'
  <2>1. PICK row : row = [created |-> lastSev', status |-> "open", sensitive |-> sensitive,
                          level |-> level, startedAt |-> startedAt, escalatedAt |-> Nil]
    OBVIOUS
  <2>2. \A u \in SevId : rows'[u] = IF u = s THEN row ELSE rows[u]
    BY <1>1, <2>1, EscFacts DEF CreateSEV
  <2>3. \A u \in SevId : Marked(u)' => Marked(u)
    BY <2>1, <2>2 DEF Marked, Exists
  <2> QED
    BY <1>1, <2>3, TracesKept DEF CreateSEV
<1>2. ASSUME NEW s \in SevId, NEW sensitive \in Flags, NEW startedAt \in Starts,
             UpdateSEV(s, sensitive, startedAt)
      PROVE  MarkerTraced'
  <2>1. PICK row : row = [rows[s] EXCEPT !.sensitive = sensitive,
                                         !.startedAt = OrElse(startedAt, @)]
    OBVIOUS
  <2>2. rows[s] \in EscRow /\ Exists(s)
    BY <1>2, EscFacts DEF UpdateSEV
  <2>3. row.escalatedAt = rows[s].escalatedAt
    BY <2>1, <2>2 DEF EscRow
  <2>4. \A u \in SevId : rows'[u] = IF u = s THEN row ELSE rows[u]
    BY <1>2, <2>1, EscFacts DEF UpdateSEV
  <2>5. \A u \in SevId : Marked(u)' => Marked(u)
    BY <2>2, <2>3, <2>4 DEF Marked, Exists
  <2> QED
    BY <1>2, <2>5, TracesKept DEF UpdateSEV
<1>3. ASSUME NEW s \in SevId, NEW to \in Targets, TransitionStatus(s, to)
      PROVE  MarkerTraced'
  <2>1. PICK row : row = [rows[s] EXCEPT !.status = to]
    OBVIOUS
  <2>2. rows[s] \in EscRow /\ Exists(s)
    BY <1>3, EscFacts DEF TransitionStatus
  <2>3. row.escalatedAt = rows[s].escalatedAt
    BY <2>1, <2>2 DEF EscRow
  <2>4. \A u \in SevId : rows'[u] = IF u = s THEN row ELSE rows[u]
    BY <1>3, <2>1, EscFacts DEF TransitionStatus
  <2>5. \A u \in SevId : Marked(u)' => Marked(u)
    BY <2>2, <2>3, <2>4 DEF Marked, Exists
  <2>6. \A u \in SevId : /\ Marked(u) /\ u \in told => u \in told' \/ u \in stale'
                         /\ u \in stale => u \in stale'
                         /\ Clearing(u)' <=> Clearing(u)
    BY <1>3 DEF TransitionStatus, Clearing
  <2> QED
    BY <2>5, <2>6 DEF MarkerTraced
<1> QED
  BY <1>1, <1>2, <1>3

LEMMA RoleTraces ==
    ASSUME TypeOK, MarkerTraced,
           \/ \E r \in Request, s \in SevId : AssignRole(r, s)
           \/ \E r \in Request : ClearMarker(r)
    PROVE  MarkerTraced'
<1>1. ASSUME NEW r \in Request, NEW s \in SevId, AssignRole(r, s) PROVE MarkerTraced'
  <2>1. \A q \in Request : assign'[q] = IF q = r THEN s ELSE assign[q]
    BY <1>1 DEF AssignRole, TypeOK
  <2>2. Clearing(s)' /\ \A u \in SevId : Clearing(u) => Clearing(u)'
    BY <1>1, <2>1, EscalationAssumption DEF AssignRole, Clearing
  <2>3. \A u \in SevId : Marked(u)' => Marked(u)
    BY <1>1 DEF AssignRole, Marked, Exists
  <2>4. \A u \in SevId : /\ u # s /\ u \in told => u \in told'
                         /\ u \in stale => u \in stale'
    BY <1>1 DEF AssignRole
  <2> QED
    BY <2>2, <2>3, <2>4 DEF MarkerTraced
<1>2. ASSUME NEW r \in Request, ClearMarker(r) PROVE MarkerTraced'
  <2>1. PICK s \in SevId : s = assign[r] /\ Exists(s)
    BY <1>2 DEF ClearMarker, TypeOK
  <2>2. \A q \in Request : assign'[q] = IF q = r THEN Nil ELSE assign[q]
    BY <1>2 DEF ClearMarker, TypeOK
  <2>3. \A u \in SevId : u # s /\ Clearing(u) => Clearing(u)'
    BY <2>1, <2>2 DEF Clearing
  <2>4. told' = told
    BY <1>2 DEF ClearMarker
  <2>5. CASE rows' = rows /\ stale' = stale \union {u \in {s} : Marked(u)}
    <3>1. \A u \in SevId : Marked(u)' => Marked(u)
      BY <2>5 DEF Marked, Exists
    <3> QED
      BY <2>1, <2>3, <2>4, <2>5, <3>1 DEF MarkerTraced
  <2>6. CASE rows' = [rows EXCEPT ![s].escalatedAt = Nil] /\ stale' = stale \ {s}
    <3>1. PICK row : row = [rows[s] EXCEPT !.escalatedAt = Nil]
      OBVIOUS
    <3>2. row.escalatedAt = Nil
      BY <2>1, <3>1, EscFacts DEF EscRow
    <3>3. \A u \in SevId : rows'[u] = IF u = s THEN row ELSE rows[u]
      BY <2>6, <3>1, EscFacts
    <3>4. \A u \in SevId : Marked(u)' => Marked(u) /\ u # s
      BY <3>2, <3>3 DEF Marked, Exists
    <3> QED
      BY <2>3, <2>4, <2>6, <3>4 DEF MarkerTraced
  <2> QED
    BY <1>2, <2>1, <2>5, <2>6 DEF ClearMarker
<1> QED
  BY <1>1, <1>2

LEMMA MarkTraces ==
    ASSUME TypeOK, MarkerTraced, ScanMark
    PROVE  MarkerTraced'
<1>1. PICK s \in Newest(scan.due) :
        /\ \/ /\ rows' = [rows EXCEPT ![s].escalatedAt = now]
              /\ stale' = IF s \in told THEN stale \ {s} ELSE stale \union {s}
           \/ UNCHANGED <<rows, stale>>
        /\ UNCHANGED <<assign, told>>
  BY DEF ScanMark
<1>2. \A u \in SevId : Clearing(u)' <=> Clearing(u)
  BY <1>1 DEF Clearing
<1>3. CASE UNCHANGED <<rows, stale>>
  BY <1>1, <1>3, TracesKept DEF Marked, Exists
<1>4. CASE /\ rows' = [rows EXCEPT ![s].escalatedAt = now]
           /\ stale' = IF s \in told THEN stale \ {s} ELSE stale \union {s}
  <2>1. \A u \in SevId : u # s => rows'[u] = rows[u]
    BY <1>4, EscFacts
  <2>2. \A u \in SevId : u # s /\ Marked(u)' => Marked(u)
    BY <2>1 DEF Marked, Exists
  <2>3. s \in told' \/ s \in stale'
    BY <1>1, <1>4
  <2>4. \A u \in SevId : u # s => (u \in stale => u \in stale')
    BY <1>4
  <2> QED
    BY <1>1, <1>2, <2>2, <2>3, <2>4 DEF MarkerTraced
<1> QED
  BY <1>1, <1>3, <1>4

LEMMA TracedStep == TypeOK /\ MarkerTraced /\ [Next]_vars => MarkerTraced'
<1> SUFFICES ASSUME TypeOK, MarkerTraced, [Next]_vars PROVE MarkerTraced'
  OBVIOUS
<1>1. ASSUME \/ \E l \in Level, setting \in Thresholds : UpsertEscalationConfig(l, setting)
             \/ \E s \in SevId : \E id \in ics[s] : RemoveRole(s, id)
             \/ ScanList \/ ScanRoles \/ ScanEvaluate \/ ScanAlarm \/ Tick \/ UNCHANGED vars
      PROVE  UNCHANGED <<rows, assign, stale>> /\ told \subseteq told'
  BY <1>1 DEF UpsertEscalationConfig, RemoveRole, ScanList, ScanRoles, ScanEvaluate, ScanAlarm,
              Tick, vars
<1>2. CASE UNCHANGED <<rows, assign, stale>> /\ told \subseteq told'
  BY <1>2, TracesKept DEF Marked, Exists
<1>3. CASE Crash
  BY <1>3 DEF Crash, MarkerTraced, Marked, Exists
<1>4. CASE ScanMark
  BY <1>4, MarkTraces
<1> QED
  BY <1>1, <1>2, <1>3, <1>4, HandlerTraces, RoleTraces DEF Next, Scan

\* scanEscalations passes over an overdue SEV for its marker only when it has alarmed it in
\* the time it is without a commander now, while an AssignRole has its clear to make, or with
\* a marker that speaks of an earlier time: of before the SEV was closed, of a commander
\* whose clear failed or was lost, or of an alarm that was due no more when it was stored.
THEOREM MarkerTracedCorrect == Spec => []MarkerTraced
<1>1. Init => MarkerTraced
  BY DEF Init, MarkerTraced, Marked, Exists
<1> QED
  BY <1>1, EscTypeCorrect, TracedStep, PTL DEF Spec

-------------------------------------------------------------------------------
(***************************************************************************)
(* Whom a scan looks at. The page bounds the scan: it leaves nobody out    *)
(* who is overdue as long as the open SEVs fit.                            *)
(***************************************************************************)
Watched == {s \in SevId : Exists(s) /\ rows[s].status \in OpenStatus /\ ~rows[s].sensitive}

LEMMA PageHoldsAll ==
    ASSUME NEW set, IsFiniteSet(set), Cardinality(set) <= Limit, TypeOK,
           set \subseteq {s \in SevId : Exists(s)}
    PROVE  FirstPage(set) = set
<1> SUFFICES ASSUME NEW s \in set
             PROVE  Cardinality({u \in set : Newer(u, s)}) < Limit
  BY DEF FirstPage
<1>1. PICK newer : newer = {u \in set : Newer(u, s)}
  OBVIOUS
<1>2. s \notin newer
  BY <1>1, EscFacts DEF Newer
<1>3. newer \subseteq set /\ newer # set
  BY <1>1, <1>2
<1>4. /\ Cardinality(newer) < Cardinality(set)
      /\ Cardinality(newer) \in Nat /\ Cardinality(set) \in Nat
  BY <1>3, FS_Subset, FS_CardinalityType
<1> QED
  BY <1>1, <1>4, EscalationAssumption

\* While no more than Limit open SEVs are stored, scanEscalations lists every overdue one.
OverdueListed ==
    Cardinality(Watched) <= Limit => \A s \in SevId : Overdue(s) => s \in Listed

\* What List without a limit costs the scanner: it leaves out an overdue SEV only when more
\* SEVs are open than a page holds. (The other way about, it does: see escalation_page.)
THEOREM OverdueListedCorrect ==
    ASSUME IsFiniteSet(SevId)
    PROVE  Spec => []OverdueListed
<1>1. ASSUME TypeOK PROVE OverdueListed
  <2> SUFFICES ASSUME Cardinality(Watched) <= Limit, NEW s \in SevId, Overdue(s)
               PROVE  s \in Listed
    BY DEF OverdueListed
  <2>1. Watched \subseteq {u \in SevId : Exists(u)} /\ IsFiniteSet(Watched)
    BY FS_Subset DEF Watched
  <2>2. FirstPage(Watched) = Watched
    BY <1>1, <2>1, PageHoldsAll
  <2>3. Listed = FirstPage(Watched)
    BY DEF Listed, Watched
  <2> QED
    BY <2>2, <2>3 DEF Watched, Overdue
<1>2. TypeOK => OverdueListed
  BY <1>1
<1> QED
  BY <1>2, EscTypeCorrect, PTL

===============================================================================
