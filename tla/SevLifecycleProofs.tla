--------------------------- MODULE SevLifecycleProofs ---------------------------
(***************************************************************************)
(* Theorems about SevLifecycle for any number of SEVs and any number of    *)
(* handlers in flight.                                                     *)
(***************************************************************************)
EXTENDS SevLifecycle, SevRecordProofs

\* Handlers that hold a SEV row to store, and handlers that have read one first.
HasRow  == {"auditNew", "addPostmortem", "announceNew",
            "addHistory", "saveSEV", "announceSEV"}
HasRead == {"addHistory", "saveSEV", "announceSEV", "loadPostmortem"}
HasPm   == {"savePostmortem", "announcePostmortem"}

HoldsRead(l) == l.pc \in HasRead \/ (l.pc \in HasPm /\ l.op = "edit")

\* The private copies a handler has at each of its stops.
Shape(l) ==
    /\ l.pc # "idle" => l.sev \in SevId
    /\ l.pc \in HasRow => l.row \in Row
    /\ l.pc \in HasPm => l.pm \in PmRow
    /\ HoldsRead(l) => l.read \in Row

HandlersOK == \A r \in Request : Shape(loc[r])

-------------------------------------------------------------------------------
(***************************************************************************)
(* Type correctness, with the shape of the handlers' private copies.       *)
(***************************************************************************)

TypeInv == TypeOK /\ HandlersOK

LEMMA IdleShape ==
    /\ IdleLocal \in Local
    /\ IdleLocal.pc = "idle"
    /\ Shape(IdleLocal)
BY DEF IdleLocal, Local, Pc, Op, Shape, HoldsRead, HasRow, HasRead, HasPm

\* A handler's new private state keeps every handler well formed.
LEMMA GotoShape ==
    ASSUME TypeInv, NEW r \in Request, NEW l \in Local,
           Goto(r, l), Shape(l)
    PROVE  loc' \in [Request -> Local] /\ HandlersOK'
<1>1. loc' \in [Request -> Local]
  BY DEF TypeInv, TypeOK, Goto
<1>2. ASSUME NEW q \in Request PROVE Shape(loc'[q])
  <2>1. CASE q = r
    BY <2>1 DEF TypeInv, TypeOK, Goto
  <2>2. CASE q # r
    <3>1. loc'[q] = loc[q] /\ Shape(loc[q])
      BY <2>2 DEF TypeInv, TypeOK, HandlersOK, Goto
    <3> QED
      BY <3>1
  <2> QED
    BY <2>1, <2>2
<1> QED
  BY <1>1, <1>2 DEF HandlersOK

\* The log only grows at the end, by an entry of its type.
LEMMA AppendType ==
    ASSUME NEW S, NEW seq \in Seq(S), NEW e \in S
    PROVE  Append(seq, e) \in Seq(S)
OBVIOUS

LEMMA EffectType ==
    ASSUME NEW what \in What, NEW s \in SevId, NEW status \in Status \union PmStatus
    PROVE  Call(what, s, status) \in Effect
BY DEF Call, Effect

\* The empty store is well typed.
THEOREM InitTypeInv == Init => TypeInv
BY IdleShape DEF Init, TypeInv, TypeOK, HandlersOK

LEMMA CreateSEVType ==
    ASSUME TypeInv, NEW r \in Request, NEW s \in SevId, NEW draft \in Drafts,
           CreateSEV(r, s, draft)
    PROVE  TypeInv'
<1> DEFINE l == [IdleLocal EXCEPT !.pc = "auditNew", !.op = "create",
                                  !.sev = s, !.row = NewSEV(draft)]
<1>1. NewSEV(draft) \in Row
  BY NewSEVType, ConstantsAssumption
<1>2. l \in Local /\ Shape(l)
  BY <1>1 DEF IdleLocal, Local, Pc, Op, Shape, HoldsRead, HasRow, HasRead, HasPm
<1>3. Goto(r, l) /\ tokens \subseteq tokens'
  BY DEF CreateSEV
<1>4. loc' \in [Request -> Local] /\ HandlersOK'
  BY <1>2, <1>3, GotoShape
<1> QED
  BY <1>1, <1>4 DEF CreateSEV, TypeInv, TypeOK

LEMMA AuditNewType ==
    ASSUME TypeInv, NEW r \in Request, AuditNew(r)
    PROVE  TypeInv'
<1> DEFINE l == [loc[r] EXCEPT !.pc = "addPostmortem"]
<1>1. loc[r] \in Local /\ loc[r].sev \in SevId /\ loc[r].row \in Row
  BY DEF AuditNew, At, TypeInv, TypeOK, HandlersOK, Shape, HasRow
<1>2. l \in Local /\ Shape(l)
  BY <1>1 DEF Local, Pc, Shape, HoldsRead, HasRow, HasRead, HasPm
<1>3. Goto(r, l) /\ tokens \subseteq tokens'
  BY DEF AuditNew
<1>4. loc' \in [Request -> Local] /\ HandlersOK'
  BY <1>2, <1>3, GotoShape
<1>5. emitted' \subseteq Effect
  <2>1. loc[r].row.status \in Status \union PmStatus
    BY <1>1 DEF Row
  <2> QED
    BY <1>1, <2>1, EffectType DEF AuditNew, What
<1> QED
  BY <1>4, <1>5 DEF AuditNew, TypeInv, TypeOK

LEMMA CreatePostmortemType ==
    ASSUME TypeInv, NEW r \in Request, CreatePostmortem(r)
    PROVE  TypeInv'
<1> DEFINE l == [loc[r] EXCEPT !.pc = "announceNew"]
<1>1. loc[r] \in Local /\ loc[r].sev \in SevId /\ loc[r].row \in Row
  BY DEF CreatePostmortem, At, TypeInv, TypeOK, HandlersOK, Shape, HasRow
<1>2. l \in Local /\ Shape(l)
  BY <1>1 DEF Local, Pc, Shape, HoldsRead, HasRow, HasRead, HasPm
<1>3. Goto(r, l) /\ tokens \subseteq tokens'
  BY DEF CreatePostmortem
<1>4. loc' \in [Request -> Local] /\ HandlersOK'
  BY <1>2, <1>3, GotoShape
<1>5. pms' \in [SevId -> PmRow \union {Nil}]
  BY <1>1 DEF CreatePostmortem, TypeInv, TypeOK, PmRow, PmStatus
<1> QED
  BY <1>4, <1>5 DEF CreatePostmortem, TypeInv, TypeOK

\* Ending a handler, normally or not, leaves the others as they were.
LEMMA FinishType ==
    ASSUME TypeInv, NEW r \in Request, Finish(r), tokens \subseteq tokens'
    PROVE  loc' \in [Request -> Local] /\ HandlersOK'
BY IdleShape, GotoShape DEF Finish

LEMMA AnnounceNewType ==
    ASSUME TypeInv, NEW r \in Request, AnnounceNew(r)
    PROVE  TypeInv'
<1>1. loc[r].sev \in SevId /\ loc[r].row \in Row
  BY DEF AnnounceNew, At, TypeInv, TypeOK, HandlersOK, Shape, HasRow
<1>2. loc[r].row.status \in Status \union PmStatus
  BY <1>1 DEF Row
<1>3. emitted' \subseteq Effect
  BY <1>1, <1>2, EffectType DEF AnnounceNew, IfPublic, What
<1>4. loc' \in [Request -> Local] /\ HandlersOK'
  BY FinishType DEF AnnounceNew
<1> QED
  BY <1>3, <1>4 DEF AnnounceNew, TypeInv, TypeOK

LEMMA UpdateSEVType ==
    ASSUME TypeInv, NEW r \in Request, NEW s \in SevId, NEW patch \in Patches,
           NEW token \in RequestToken, UpdateSEV(r, s, patch, token)
    PROVE  TypeInv'
<1> DEFINE row == ComputeMetrics(ApplySEVUpdate(sevs[s], patch))
           l == [IdleLocal EXCEPT
                  !.pc = "saveSEV", !.op = "update", !.sev = s,
                  !.read = sevs[s],
                  !.row = row]
<1>1. sevs[s] \in Row /\ row \in Row
  BY UpdateType, ComputeMetricsType, ConstantsAssumption
     DEF UpdateSEV, Exists, TypeInv, TypeOK
<1> HIDE DEF row
<1>3. l \in Local /\ Shape(l)
  BY <1>1 DEF IdleLocal, Local, Pc, Op, Shape, HoldsRead, HasRow, HasRead, HasPm
<1>4. Goto(r, l)
  BY DEF UpdateSEV, row
<1>5. loc' \in [Request -> Local] /\ HandlersOK'
  BY <1>3, <1>4, GotoShape
<1> QED
  BY <1>5 DEF UpdateSEV, TypeInv, TypeOK

LEMMA TransitionStatusType ==
    ASSUME TypeInv, NEW r \in Request, NEW s \in SevId, NEW to \in Targets,
           NEW stamp \in Stamps, NEW token \in RequestToken,
           TransitionStatus(r, s, to, stamp, token)
    PROVE  TypeInv'
<1> DEFINE row == ComputeMetrics(ApplyTransition(sevs[s], to, stamp, now))
           l == [IdleLocal EXCEPT
                  !.pc = "addHistory", !.op = "transition", !.sev = s,
                  !.read = sevs[s],
                  !.row = row]
<1>1. sevs[s] \in Row /\ row \in Row
  BY TransitionType, ComputeMetricsType, ConstantsAssumption
     DEF TransitionStatus, Exists, TypeInv, TypeOK
<1> HIDE DEF row
<1>3. l \in Local /\ Shape(l)
  BY <1>1 DEF IdleLocal, Local, Pc, Op, Shape, HoldsRead, HasRow, HasRead, HasPm
<1>4. Goto(r, l)
  BY DEF TransitionStatus, row
<1>5. loc' \in [Request -> Local] /\ HandlersOK'
  BY <1>3, <1>4, GotoShape
<1> QED
  BY <1>5 DEF TransitionStatus, TypeInv, TypeOK

LEMMA AddHistoryType ==
    ASSUME TypeInv, NEW r \in Request, AddHistory(r)
    PROVE  TypeInv'
<1> DEFINE n == Len(history[loc[r].sev]) + 1
           l == [loc[r] EXCEPT !.pc = "saveSEV", !.entry = n]
           e == [from |-> loc[r].read.status, to |-> loc[r].row.status]
<1>1. /\ loc[r] \in Local /\ loc[r].sev \in SevId
      /\ loc[r].row \in Row /\ loc[r].read \in Row
  BY DEF AddHistory, At, TypeInv, TypeOK, HandlersOK, Shape, HoldsRead, HasRow, HasRead
<1>0. n \in Nat
  BY <1>1 DEF TypeInv, TypeOK
<1>3. Goto(r, l)
  BY DEF AddHistory
<1> HIDE DEF n
<1>2. l \in Local /\ Shape(l)
  BY <1>0, <1>1 DEF Local, Pc, Shape, HoldsRead, HasRow, HasRead, HasPm
<1>4. loc' \in [Request -> Local] /\ HandlersOK'
  BY <1>2, <1>3, GotoShape
<1>5. e \in Entry
  BY <1>1 DEF Row, Entry
<1>6. history' = [history EXCEPT ![loc[r].sev] = Append(history[loc[r].sev], e)]
  BY DEF AddHistory
<1> HIDE DEF e
<1>7. history' \in [SevId -> Seq(Entry)]
  BY <1>1, <1>5, <1>6, AppendType DEF TypeInv, TypeOK
<1> QED
  BY <1>4, <1>7 DEF AddHistory, TypeInv, TypeOK

LEMMA SaveSEVType ==
    ASSUME TypeInv, NEW r \in Request, SaveSEV(r)
    PROVE  TypeInv'
<1> DEFINE l == [loc[r] EXCEPT !.pc = "announceSEV", !.stored = TRUE]
<1>1. /\ loc[r] \in Local /\ loc[r].sev \in SevId
      /\ loc[r].row \in Row /\ loc[r].read \in Row
  BY DEF SaveSEV, At, TypeInv, TypeOK, HandlersOK, Shape, HoldsRead, HasRow, HasRead
<1>2. l \in Local /\ Shape(l)
  BY <1>1 DEF Local, Pc, Shape, HoldsRead, HasRow, HasRead, HasPm
<1>3. Goto(r, l)
  BY DEF SaveSEV
<1>4. loc' \in [Request -> Local] /\ HandlersOK'
  BY <1>2, <1>3, GotoShape
<1>5. sevs' \in [SevId -> Row \union {Nil}]
  BY <1>1 DEF SaveSEV, TypeInv, TypeOK
<1> QED
  BY <1>4, <1>5 DEF SaveSEV, TypeInv, TypeOK

LEMMA AnnounceSEVType ==
    ASSUME TypeInv, NEW r \in Request, AnnounceSEV(r)
    PROVE  TypeInv'
<1>1. loc[r].sev \in SevId /\ loc[r].row \in Row
  BY DEF AnnounceSEV, At, TypeInv, TypeOK, HandlersOK, Shape, HasRow
<1>2. loc[r].row.status \in Status \union PmStatus
  BY <1>1 DEF Row
<1>3. AnnounceUpdate(loc[r]) \subseteq Effect
  BY <1>1, <1>2, EffectType DEF AnnounceUpdate, IfPublic, What
<1>4. AnnounceTransition(loc[r]) \subseteq Effect
  BY <1>1, <1>2, EffectType DEF AnnounceTransition, IfPublic, What
<1>5. loc' \in [Request -> Local] /\ HandlersOK'
  BY FinishType DEF AnnounceSEV
<1>6. emitted' \subseteq Effect
  BY <1>3, <1>4 DEF AnnounceSEV
<1> QED
  BY <1>5, <1>6 DEF AnnounceSEV, TypeInv, TypeOK

LEMMA UpdatePostmortemType ==
    ASSUME TypeInv, NEW r \in Request, NEW s \in SevId, NEW token \in RequestToken,
           UpdatePostmortem(r, s, token)
    PROVE  TypeInv'
<1> DEFINE l == [IdleLocal EXCEPT !.pc = "loadPostmortem", !.op = "edit", !.sev = s,
                                 !.read = sevs[s]]
<1>1. sevs[s] \in Row
  BY DEF UpdatePostmortem, Exists, TypeInv, TypeOK
<1>3. l \in Local /\ Shape(l)
  BY <1>1 DEF IdleLocal, Local, Pc, Op, Shape, HoldsRead, HasRow, HasRead, HasPm
<1>4. Goto(r, l)
  BY DEF UpdatePostmortem
<1>5. loc' \in [Request -> Local] /\ HandlersOK'
  BY <1>3, <1>4, GotoShape
<1> QED
  BY <1>5 DEF UpdatePostmortem, TypeInv, TypeOK

LEMMA LoadPostmortemType ==
    ASSUME TypeInv, NEW r \in Request, LoadPostmortem(r)
    PROVE  TypeInv'
<1> DEFINE doc == [pms[loc[r].sev] EXCEPT !.content = r]
           l == [loc[r] EXCEPT !.pc = "savePostmortem", !.pm = doc]
<1>1. /\ loc[r] \in Local /\ loc[r].sev \in SevId /\ loc[r].read \in Row
  BY DEF LoadPostmortem, At, TypeInv, TypeOK, HandlersOK, Shape, HoldsRead, HasRead
<1>2. doc \in PmRow
  BY <1>1 DEF LoadPostmortem, TypeInv, TypeOK, PmRow
<1> HIDE DEF doc
<1>3. l \in Local /\ Shape(l)
  BY <1>1, <1>2 DEF Local, Pc, Shape, HoldsRead, HasRow, HasRead, HasPm
<1>4. Goto(r, l)
  BY DEF LoadPostmortem, doc
<1>5. loc' \in [Request -> Local] /\ HandlersOK'
  BY <1>3, <1>4, GotoShape
<1> QED
  BY <1>5 DEF LoadPostmortem, TypeInv, TypeOK

LEMMA TransitionPostmortemStatusType ==
    ASSUME TypeInv, NEW r \in Request, NEW s \in SevId, NEW to \in PmStatus,
           TransitionPostmortemStatus(r, s, to)
    PROVE  TypeInv'
<1> DEFINE l == [IdleLocal EXCEPT !.pc = "savePostmortem", !.op = "review",
                                  !.sev = s, !.pm = [pms[s] EXCEPT !.status = to]]
<1>1. [pms[s] EXCEPT !.status = to] \in PmRow
  BY DEF TransitionPostmortemStatus, TypeInv, TypeOK, PmRow
<1>2. l \in Local /\ Shape(l)
  BY <1>1 DEF IdleLocal, Local, Pc, Op, Shape, HoldsRead, HasRow, HasRead, HasPm
<1>3. Goto(r, l)
  BY DEF TransitionPostmortemStatus
<1>4. loc' \in [Request -> Local] /\ HandlersOK'
  BY <1>2, <1>3, GotoShape
<1> QED
  BY <1>4 DEF TransitionPostmortemStatus, TypeInv, TypeOK

LEMMA SavePostmortemType ==
    ASSUME TypeInv, NEW r \in Request, SavePostmortem(r)
    PROVE  TypeInv'
<1> DEFINE l == [loc[r] EXCEPT !.pc = "announcePostmortem"]
<1>1. /\ loc[r] \in Local /\ loc[r].sev \in SevId /\ loc[r].pm \in PmRow
      /\ loc[r].op = "edit" => loc[r].read \in Row
  BY DEF SavePostmortem, At, TypeInv, TypeOK, HandlersOK, Shape, HoldsRead, HasPm
<1>2. l \in Local /\ Shape(l)
  BY <1>1 DEF Local, Pc, Shape, HoldsRead, HasRow, HasRead, HasPm
<1>3. Goto(r, l)
  BY DEF SavePostmortem
<1>4. loc' \in [Request -> Local] /\ HandlersOK'
  BY <1>2, <1>3, GotoShape
<1>5. pms' \in [SevId -> PmRow \union {Nil}]
  BY <1>1 DEF SavePostmortem, TypeInv, TypeOK
<1> QED
  BY <1>4, <1>5 DEF SavePostmortem, TypeInv, TypeOK

LEMMA AnnouncePostmortemType ==
    ASSUME TypeInv, NEW r \in Request, NEW found \in BOOLEAN,
           AnnouncePostmortem(r, found)
    PROVE  TypeInv'
<1>1. loc[r].sev \in SevId /\ loc[r].pm \in PmRow
  BY DEF AnnouncePostmortem, At, TypeInv, TypeOK, HandlersOK, Shape, HasPm
<1>2. loc[r].pm.status \in Status \union PmStatus
  BY <1>1 DEF PmRow
<1>3. AnnounceEdit(loc[r]) \subseteq Effect
  BY <1>1, <1>2, EffectType DEF AnnounceEdit, IfPublic, What
<1>4. PublishReview(loc[r], sevs[loc[r].sev]) \subseteq Effect
  BY <1>1, <1>2, EffectType DEF PublishReview, IfPublic, What
<1>5. Call("audit.postmortem.status_transitioned", loc[r].sev, loc[r].pm.status)
        \in Effect
  BY <1>1, <1>2, EffectType DEF What
<1>6. emitted' \subseteq Effect
  BY <1>3, <1>4, <1>5 DEF AnnouncePostmortem
<1>7. loc' \in [Request -> Local] /\ HandlersOK'
  BY FinishType DEF AnnouncePostmortem
<1> QED
  BY <1>6, <1>7 DEF AnnouncePostmortem, TypeInv, TypeOK

LEMMA UnlockSEVType ==
    ASSUME TypeInv, NEW r \in Request, NEW s \in SevId, UnlockSEV(r, s)
    PROVE  TypeInv'
<1> DEFINE l == [IdleLocal EXCEPT !.pc = "signToken", !.op = "unlock", !.sev = s]
<1>1. l \in Local /\ Shape(l)
  BY DEF IdleLocal, Local, Pc, Op, Shape, HoldsRead, HasRow, HasRead, HasPm
<1>2. Goto(r, l)
  BY DEF UnlockSEV
<1>3. loc' \in [Request -> Local] /\ HandlersOK'
  BY <1>1, <1>2, GotoShape
<1> QED
  BY <1>3 DEF UnlockSEV, TypeInv, TypeOK

LEMMA SignTokenType ==
    ASSUME TypeInv, NEW r \in Request, NEW logged \in BOOLEAN, SignToken(r, logged)
    PROVE  TypeInv'
<1>1. loc[r].sev \in SevId
  BY DEF SignToken, At, TypeInv, TypeOK, HandlersOK, Shape
<1>2. [sev |-> loc[r].sev, exp |-> now + TokenTTL] \in Token
  BY <1>1, ConstantsAssumption DEF TypeInv, TypeOK, Token
<1>3. tokens' \subseteq Token
  BY <1>2 DEF SignToken, TypeInv, TypeOK
<1>4. loc' \in [Request -> Local] /\ HandlersOK'
  BY FinishType DEF SignToken
<1>5. Call("audit.sev.unlock_requested", loc[r].sev, "postmortem_complete") \in Effect
  BY <1>1 DEF Call, Effect, What, Status
<1>6. emitted' \subseteq Effect
  BY <1>5 DEF SignToken
<1> QED
  BY <1>3, <1>4, <1>6 DEF SignToken, TypeInv, TypeOK

LEMMA AbortType ==
    ASSUME TypeInv, NEW r \in Request, Abort(r)
    PROVE  TypeInv'
<1>1. loc' \in [Request -> Local] /\ HandlersOK'
  BY FinishType DEF Abort
<1> QED
  BY <1>1 DEF Abort, TypeInv, TypeOK

LEMMA TickType == ASSUME TypeInv, Tick PROVE TypeInv'
BY DEF Tick, TypeInv, TypeOK, HandlersOK, Shape

\* The type invariant is inductive.
THEOREM NextTypeInv == TypeInv /\ [Next]_vars => TypeInv'
<1> SUFFICES ASSUME TypeInv, [Next]_vars PROVE TypeInv'
  OBVIOUS
<1>1. CASE Tick
  BY <1>1, TickType
<1>2. ASSUME NEW r \in Request, Step(r) PROVE TypeInv'
  BY <1>2, CreateSEVType, AuditNewType, CreatePostmortemType, AnnounceNewType,
     UpdateSEVType, TransitionStatusType, AddHistoryType, SaveSEVType, AnnounceSEVType,
     UpdatePostmortemType, LoadPostmortemType, TransitionPostmortemStatusType,
     SavePostmortemType, AnnouncePostmortemType, UnlockSEVType, SignTokenType,
     AbortType DEF Step
<1>3. CASE UNCHANGED vars
  BY <1>3 DEF vars, TypeInv, TypeOK, HandlersOK, Shape
<1> QED
  BY <1>1, <1>2, <1>3 DEF Next

\* Every reachable state is well typed, whatever handlers interleave and
\* wherever they stop.
THEOREM TypeCorrect == Spec => []TypeOK
<1>1. Spec => []TypeInv
  BY InitTypeInv, NextTypeInv, PTL DEF Spec
<1> QED
  BY <1>1, PTL DEF TypeInv

-------------------------------------------------------------------------------
(***************************************************************************)
(* The stored rows are sound, the lock following the status and the        *)
(* metrics the timestamps, because every private copy that may be stored   *)
(* is.                                                                     *)
(***************************************************************************)

RowSound(row) ==
    /\ row.locked <=> row.status = "postmortem_complete"
    /\ MetricsMatch(row)

StoredSound == \A s \in SevId : Exists(s) => RowSound(sevs[s])

HandlersSound == \A r \in Request : loc[r].pc \in HasRow => RowSound(loc[r].row)

SoundInv == TypeInv /\ StoredSound /\ HandlersSound

\* No metric is known before both its ends are.
Covered(row) ==
    /\ (row.startedAt = Nil \/ row.detectedAt = Nil) => row.mttd = Nil
    /\ (row.startedAt = Nil \/ row.mitigatedAt = Nil) => row.mttm = Nil
    /\ (row.startedAt = Nil \/ row.resolvedAt = Nil) => row.mttr = Nil
    /\ (row.detectedAt = Nil \/ row.mitigatedAt = Nil) => row.dttm = Nil
    /\ (row.resolvedAt = Nil \/ row.completedAt = Nil) => row.rtpc = Nil

LEMMA ComputeMetricsMatch ==
    ASSUME NEW row \in Row, Covered(row)
    PROVE  MetricsMatch(ComputeMetrics(row))
BY DEF Covered, MetricsMatch, ComputeMetrics, Recomputed, Elapsed, Row

\* A handler may set a timestamp or move it; none clears one.
LEMMA UpdateCovered ==
    ASSUME NEW row \in Row, NEW patch \in Patch, MetricsMatch(row)
    PROVE  Covered(ApplySEVUpdate(row, patch))
BY DEF Covered, MetricsMatch, ApplySEVUpdate, OrElse, Elapsed, Row, Patch

LEMMA TransitionCovered ==
    ASSUME NEW row \in Row, NEW to, NEW stamp \in Stamp, NEW at, MetricsMatch(row)
    PROVE  Covered(ApplyTransition(row, to, stamp, at))
BY DEF Covered, MetricsMatch, ApplyTransition, OrElse, Elapsed, Row, Stamp

LEMMA NewSEVMatch ==
    ASSUME NEW draft \in Draft
    PROVE  MetricsMatch(NewSEV(draft))
BY DEF NewSEV, MetricsMatch, ComputeMetrics, Recomputed, Elapsed, Draft

LEMMA GotoSound ==
    ASSUME TypeInv, HandlersSound, NEW r \in Request, NEW l, Goto(r, l),
           l.pc \in HasRow => RowSound(l.row)
    PROVE  HandlersSound'
<1> SUFFICES ASSUME NEW q \in Request, loc'[q].pc \in HasRow
             PROVE  RowSound(loc'[q].row)
  BY DEF HandlersSound
<1>1. CASE q = r
  BY <1>1 DEF Goto, TypeInv, TypeOK
<1>2. CASE q # r
  BY <1>2 DEF Goto, TypeInv, TypeOK, HandlersSound
<1> QED
  BY <1>1, <1>2

\* A handler that ends, or that holds no SEV row, has nothing to store.
LEMMA NoRowSound ==
    ASSUME TypeInv, HandlersSound, NEW r \in Request, NEW l, Goto(r, l),
           l.pc \notin HasRow
    PROVE  HandlersSound'
BY GotoSound

LEMMA FinishSound ==
    ASSUME TypeInv, HandlersSound, NEW r \in Request, Finish(r)
    PROVE  HandlersSound'
BY NoRowSound DEF Finish, IdleLocal, HasRow

LEMMA StoreSound ==
    ASSUME TypeInv, StoredSound, NEW s \in SevId, NEW row \in Row, RowSound(row),
           sevs' = [sevs EXCEPT ![s] = row]
    PROVE  StoredSound'
BY DEF StoredSound, Exists, RowSound, TypeInv, TypeOK

LEMMA CreateSEVSound ==
    ASSUME SoundInv, NEW r \in Request, NEW s \in SevId, NEW draft \in Drafts,
           CreateSEV(r, s, draft)
    PROVE  StoredSound' /\ HandlersSound'
<1> DEFINE l == [IdleLocal EXCEPT !.pc = "auditNew", !.op = "create",
                                  !.sev = s, !.row = NewSEV(draft)]
<1>1. NewSEV(draft) \in Row /\ RowSound(NewSEV(draft))
  BY NewSEVType, NewSEVMatch, ConstantsAssumption DEF RowSound
<1>2. StoredSound'
  BY <1>1, StoreSound DEF CreateSEV, SoundInv
<1>3. Goto(r, l)
  BY DEF CreateSEV
<1>4. l.row = NewSEV(draft)
  BY DEF IdleLocal
<1> HIDE DEF l
<1>5. HandlersSound'
  BY <1>1, <1>3, <1>4, GotoSound DEF SoundInv
<1> QED
  BY <1>2, <1>5

LEMMA UpdateSEVSound ==
    ASSUME SoundInv, NEW r \in Request, NEW s \in SevId, NEW patch \in Patches,
           NEW token \in RequestToken, UpdateSEV(r, s, patch, token)
    PROVE  HandlersSound'
<1> DEFINE row == ComputeMetrics(ApplySEVUpdate(sevs[s], patch))
           l == [IdleLocal EXCEPT
                  !.pc = "saveSEV", !.op = "update", !.sev = s,
                  !.read = sevs[s], !.row = row]
<1>1. sevs[s] \in Row /\ RowSound(sevs[s])
  BY DEF UpdateSEV, Exists, SoundInv, TypeInv, TypeOK, StoredSound, RowSound
<1>2. patch \in Patch
  BY ConstantsAssumption
<1>3. RowSound(row)
  BY <1>1, <1>2, UpdateType, ComputeMetricsType, UpdateCovered, ComputeMetricsMatch
     DEF RowSound
<1>4. Goto(r, l)
  BY DEF UpdateSEV
<1>5. l.row = row
  BY DEF IdleLocal
<1> HIDE DEF l, row
<1> QED
  BY <1>3, <1>4, <1>5, GotoSound DEF SoundInv

LEMMA TransitionStatusSound ==
    ASSUME SoundInv, NEW r \in Request, NEW s \in SevId, NEW to \in Targets,
           NEW stamp \in Stamps, NEW token \in RequestToken,
           TransitionStatus(r, s, to, stamp, token)
    PROVE  HandlersSound'
<1> DEFINE row == ComputeMetrics(ApplyTransition(sevs[s], to, stamp, now))
           l == [IdleLocal EXCEPT
                  !.pc = "addHistory", !.op = "transition", !.sev = s,
                  !.read = sevs[s], !.row = row]
<1>1. sevs[s] \in Row /\ RowSound(sevs[s]) /\ now \in Nat
  BY DEF TransitionStatus, Exists, SoundInv, TypeInv, TypeOK, StoredSound
<1>2. to \in Status /\ stamp \in Stamp
  BY ConstantsAssumption
<1>3. RowSound(row)
  <2> DEFINE moved == ApplyTransition(sevs[s], to, stamp, now)
  <2>1. /\ moved \in Row /\ moved.status = to
        /\ moved.locked = (to = "postmortem_complete")
        /\ Covered(moved)
    BY <1>1, <1>2, TransitionType, TransitionCovered DEF RowSound
  <2> HIDE DEF moved
  <2>2. /\ row.status = to /\ row.locked = (to = "postmortem_complete")
        /\ MetricsMatch(row)
    BY <2>1, ComputeMetricsType, ComputeMetricsMatch DEF moved
  <2> HIDE DEF row
  <2> QED
    BY <2>2 DEF RowSound
<1>4. Goto(r, l)
  BY DEF TransitionStatus
<1>5. l.row = row
  BY DEF IdleLocal
<1> HIDE DEF l, row
<1> QED
  BY <1>3, <1>4, <1>5, GotoSound DEF SoundInv

\* The steps that carry the private row along unchanged.
LEMMA CarryRowSound ==
    ASSUME SoundInv, NEW r \in Request, loc[r].pc \in HasRow, NEW l, Goto(r, l),
           l.row = loc[r].row
    PROVE  HandlersSound'
BY GotoSound DEF SoundInv, HandlersSound

LEMMA SaveSEVSound ==
    ASSUME SoundInv, NEW r \in Request, SaveSEV(r)
    PROVE  StoredSound' /\ HandlersSound'
<1>1. loc[r].pc \in HasRow
  BY DEF SaveSEV, At, HasRow
<1>2. loc[r].sev \in SevId /\ loc[r].row \in Row /\ RowSound(loc[r].row)
  BY <1>1 DEF SoundInv, HandlersSound, TypeInv, HandlersOK, Shape, HasRow
<1>3. StoredSound'
  BY <1>2, StoreSound DEF SaveSEV, SoundInv
<1>4. PICK l : l = [loc[r] EXCEPT !.pc = "announceSEV", !.stored = TRUE]
  OBVIOUS
<1>5. Goto(r, l) /\ l.row = loc[r].row
  BY <1>4 DEF SaveSEV, SoundInv, TypeInv, TypeOK, Local
<1>6. HandlersSound'
  BY <1>1, <1>5, CarryRowSound
<1> QED
  BY <1>3, <1>6

\* A step of a handler keeps the lock and the status of every row in step.
LEMMA StepSound ==
    ASSUME SoundInv, NEW r \in Request, Step(r)
    PROVE  StoredSound' /\ HandlersSound'
<1>1. ASSUME sevs' = sevs PROVE StoredSound'
  BY <1>1 DEF SoundInv, StoredSound, Exists
<1>2. ASSUME NEW s \in SevId, NEW draft \in Drafts, CreateSEV(r, s, draft)
      PROVE  StoredSound' /\ HandlersSound'
  BY <1>2, CreateSEVSound
<1>3. CASE AuditNew(r) \/ CreatePostmortem(r)
  <2>1. PICK pc : Goto(r, [loc[r] EXCEPT !.pc = pc]) /\ loc[r].pc \in HasRow
    BY <1>3 DEF AuditNew, CreatePostmortem, At, HasRow
  <2>2. PICK l : l = [loc[r] EXCEPT !.pc = pc]
    OBVIOUS
  <2>3. l.row = loc[r].row
    BY <2>2 DEF SoundInv, TypeInv, TypeOK, Local
  <2> QED
    BY <1>1, <1>3, <2>1, <2>2, <2>3, CarryRowSound DEF AuditNew, CreatePostmortem
<1>4. CASE AnnounceNew(r)
  BY <1>1, <1>4, FinishSound DEF AnnounceNew, SoundInv
<1>5. ASSUME NEW s \in SevId, NEW patch \in Patches, NEW token \in RequestToken,
             UpdateSEV(r, s, patch, token)
      PROVE  StoredSound' /\ HandlersSound'
  BY <1>1, <1>5, UpdateSEVSound DEF UpdateSEV
<1>6. ASSUME NEW s \in SevId, NEW to \in Targets, NEW stamp \in Stamps,
             NEW token \in RequestToken, TransitionStatus(r, s, to, stamp, token)
      PROVE  StoredSound' /\ HandlersSound'
  BY <1>1, <1>6, TransitionStatusSound DEF TransitionStatus
<1>7. CASE AddHistory(r)
  <2>1. PICK l : l = [loc[r] EXCEPT !.pc = "saveSEV",
                                    !.entry = Len(history[loc[r].sev]) + 1]
    OBVIOUS
  <2>2. Goto(r, l) /\ l.row = loc[r].row /\ loc[r].pc \in HasRow
    BY <1>7, <2>1 DEF AddHistory, At, HasRow, SoundInv, TypeInv, TypeOK, Local
  <2> QED
    BY <1>1, <1>7, <2>2, CarryRowSound DEF AddHistory
<1>8. CASE SaveSEV(r)
  BY <1>8, SaveSEVSound
<1>9. CASE AnnounceSEV(r)
  BY <1>1, <1>9, FinishSound DEF AnnounceSEV, SoundInv
<1>10. ASSUME NEW s \in SevId, NEW token \in RequestToken, UpdatePostmortem(r, s, token)
       PROVE  StoredSound' /\ HandlersSound'
  <2> DEFINE l == [IdleLocal EXCEPT !.pc = "loadPostmortem", !.op = "edit", !.sev = s,
                     !.read = sevs[s]]
  <2>1. Goto(r, l) /\ sevs' = sevs
    BY <1>10 DEF UpdatePostmortem
  <2>2. l.pc \notin HasRow
    BY DEF IdleLocal, HasRow
  <2> HIDE DEF l
  <2> QED
    BY <1>1, <2>1, <2>2, NoRowSound DEF SoundInv
<1>11. CASE LoadPostmortem(r)
  <2> DEFINE l == [loc[r] EXCEPT !.pc = "savePostmortem",
                     !.pm = [pms[loc[r].sev] EXCEPT !.content = r]]
  <2>1. Goto(r, l) /\ sevs' = sevs
    BY <1>11 DEF LoadPostmortem
  <2>2. l.pc \notin HasRow
    BY DEF SoundInv, TypeInv, TypeOK, Local, HasRow
  <2> HIDE DEF l
  <2> QED
    BY <1>1, <2>1, <2>2, NoRowSound DEF SoundInv
<1>12. ASSUME NEW s \in SevId, NEW to \in PmStatus, TransitionPostmortemStatus(r, s, to)
       PROVE  StoredSound' /\ HandlersSound'
  <2> DEFINE l == [IdleLocal EXCEPT !.pc = "savePostmortem", !.op = "review",
                     !.sev = s, !.pm = [pms[s] EXCEPT !.status = to]]
  <2>1. Goto(r, l) /\ sevs' = sevs
    BY <1>12 DEF TransitionPostmortemStatus
  <2>2. l.pc \notin HasRow
    BY DEF IdleLocal, HasRow
  <2> HIDE DEF l
  <2> QED
    BY <1>1, <2>1, <2>2, NoRowSound DEF SoundInv
<1>13. CASE SavePostmortem(r)
  <2> DEFINE l == [loc[r] EXCEPT !.pc = "announcePostmortem"]
  <2>1. Goto(r, l) /\ sevs' = sevs
    BY <1>13 DEF SavePostmortem
  <2>2. l.pc \notin HasRow
    BY DEF SoundInv, TypeInv, TypeOK, Local, HasRow
  <2> HIDE DEF l
  <2> QED
    BY <1>1, <2>1, <2>2, NoRowSound DEF SoundInv
<1>14. ASSUME NEW found \in BOOLEAN, AnnouncePostmortem(r, found)
       PROVE  StoredSound' /\ HandlersSound'
  BY <1>1, <1>14, FinishSound DEF AnnouncePostmortem, SoundInv
<1>15. ASSUME NEW s \in SevId, UnlockSEV(r, s)
       PROVE  StoredSound' /\ HandlersSound'
  <2> DEFINE l == [IdleLocal EXCEPT !.pc = "signToken", !.op = "unlock", !.sev = s]
  <2>1. Goto(r, l) /\ sevs' = sevs
    BY <1>15 DEF UnlockSEV
  <2>2. l.pc \notin HasRow
    BY DEF IdleLocal, HasRow
  <2> HIDE DEF l
  <2> QED
    BY <1>1, <2>1, <2>2, NoRowSound DEF SoundInv
<1>16. ASSUME NEW logged \in BOOLEAN, SignToken(r, logged)
       PROVE  StoredSound' /\ HandlersSound'
  BY <1>1, <1>16, FinishSound DEF SignToken, SoundInv
<1>17. CASE Abort(r)
  BY <1>1, <1>17, FinishSound DEF Abort, SoundInv
<1> QED
  BY <1>2, <1>3, <1>4, <1>5, <1>6, <1>7, <1>8, <1>9, <1>10, <1>11, <1>12, <1>13,
     <1>14, <1>15, <1>16, <1>17 DEF Step

LEMMA InitSoundInv == Init => SoundInv
<1> SUFFICES ASSUME Init PROVE SoundInv
  OBVIOUS
<1>1. TypeInv
  BY InitTypeInv
<1>2. StoredSound
  BY DEF Init, StoredSound, Exists
<1>3. HandlersSound
  BY DEF Init, HandlersSound, IdleLocal, HasRow
<1> QED
  BY <1>1, <1>2, <1>3 DEF SoundInv

LEMMA NextSoundInv == SoundInv /\ [Next]_vars => SoundInv'
<1> SUFFICES ASSUME SoundInv, [Next]_vars PROVE SoundInv'
  OBVIOUS
<1>1. TypeInv'
  BY NextTypeInv DEF SoundInv
<1>2. CASE Tick \/ UNCHANGED vars
  BY <1>1, <1>2 DEF Tick, vars, SoundInv, StoredSound, Exists, HandlersSound
<1>3. ASSUME NEW r \in Request, Step(r) PROVE SoundInv'
  BY <1>1, <1>3, StepSound DEF SoundInv
<1> QED
  BY <1>2, <1>3 DEF Next

\* A SEV is locked exactly while it is Postmortem Complete, whatever copies the
\* handlers hold and in whatever order they store them.
THEOREM LockCorrect == Spec => []LockFollowsStatus
<1>1. SoundInv => LockFollowsStatus
  BY DEF SoundInv, StoredSound, RowSound, LockFollowsStatus
<1> QED
  BY <1>1, InitSoundInv, NextSoundInv, PTL DEF Spec

\* The stored metrics are those of the stored timestamps, though a handler
\* recomputes them on a copy that may be stale by the time it is stored.
THEOREM MetricsCorrect == Spec => []MetricsCurrent
<1>1. SoundInv => MetricsCurrent
  BY DEF SoundInv, StoredSound, RowSound, MetricsCurrent
<1> QED
  BY <1>1, InitSoundInv, NextSoundInv, PTL DEF Spec

-------------------------------------------------------------------------------
(***************************************************************************)
(* The status-transition log: what is logged, stored, signed and           *)
(* announced, and in which order.                                          *)
(***************************************************************************)

\* What the log has to hold for the steps a handler has yet to make.
LocalLogged(l) ==
    /\ l.pc = "addHistory" =>
          /\ Reached(l.sev, l.read.status)
          /\ <<l.read.status, l.row.status>> \in ValidTransitions
    /\ l.pc \in {"saveSEV", "announceSEV"} => Reached(l.sev, l.row.status)
    /\ l.pc = "signToken" => Reached(l.sev, "postmortem_complete")

HandlersLogged == \A r \in Request : LocalLogged(loc[r])

LogInv == /\ SoundInv
          /\ StatusLogged
          /\ HistoryConnected
          /\ TokensForCompleted
          /\ HandlersLogged

-------------------------------------------------------------------------------
(***************************************************************************)
(* Steps that leave the log alone.                                         *)
(***************************************************************************)

LEMMA GotoLogged ==
    ASSUME TypeInv, HandlersLogged, history' = history,
           NEW r \in Request, NEW l, Goto(r, l), LocalLogged(l)
    PROVE  HandlersLogged'
<1> SUFFICES ASSUME NEW q \in Request PROVE LocalLogged(loc[q])'
  BY DEF HandlersLogged
<1>1. loc'[q] = IF q = r THEN l ELSE loc[q]
  BY DEF Goto, TypeInv, TypeOK
<1>2. CASE q = r
  BY <1>1, <1>2 DEF LocalLogged, Reached
<1>3. CASE q # r
  BY <1>1, <1>3 DEF HandlersLogged, LocalLogged, Reached
<1> QED
  BY <1>2, <1>3

\* A handler that ends, or waits for none of the logged steps.
LEMMA GotoFree ==
    ASSUME TypeInv, HandlersLogged, history' = history,
           NEW r \in Request, NEW l, Goto(r, l),
           l.pc \notin {"addHistory", "saveSEV", "announceSEV", "signToken"}
    PROVE  HandlersLogged'
BY GotoLogged DEF LocalLogged

LEMMA FinishLogged ==
    ASSUME TypeInv, HandlersLogged, history' = history, NEW r \in Request, Finish(r)
    PROVE  HandlersLogged'
BY GotoFree DEF Finish, IdleLocal

\* Rows, log and tokens as they were.
LEMMA StoresKept ==
    ASSUME LogInv, sevs' = sevs, history' = history, tokens' = tokens, now' = now
    PROVE  StatusLogged' /\ HistoryConnected' /\ TokensForCompleted'
BY DEF LogInv, StatusLogged, HistoryConnected, TokensForCompleted, Exists, Reached

\* A row may be stored when the log has reached its status.
LEMMA StoreLogged ==
    ASSUME LogInv, NEW s \in SevId, NEW row \in Row, Reached(s, row.status),
           sevs' = [sevs EXCEPT ![s] = row],
           history' = history, tokens' = tokens, now' = now
    PROVE  StatusLogged' /\ HistoryConnected' /\ TokensForCompleted'
<1>1. StatusLogged'
  BY DEF LogInv, SoundInv, TypeInv, TypeOK, StatusLogged, Exists, Reached
<1>2. HistoryConnected' /\ TokensForCompleted'
  BY DEF LogInv, HistoryConnected, TokensForCompleted
<1> QED
  BY <1>1, <1>2

-------------------------------------------------------------------------------

LEMMA CreateSEVLogged ==
    ASSUME LogInv, NEW r \in Request, NEW s \in SevId, NEW draft \in Drafts,
           CreateSEV(r, s, draft)
    PROVE  StatusLogged' /\ HistoryConnected' /\ TokensForCompleted' /\ HandlersLogged'
<1> DEFINE l == [IdleLocal EXCEPT !.pc = "auditNew", !.op = "create",
                                  !.sev = s, !.row = NewSEV(draft)]
<1>1. NewSEV(draft) \in Row /\ Reached(s, NewSEV(draft).status)
  BY NewSEVType, ConstantsAssumption DEF Reached
<1>2. StatusLogged' /\ HistoryConnected' /\ TokensForCompleted'
  BY <1>1, StoreLogged DEF CreateSEV
<1>3. Goto(r, l) /\ history' = history
  BY DEF CreateSEV
<1>4. l.pc = "auditNew"
  BY DEF IdleLocal
<1> HIDE DEF l
<1>5. HandlersLogged'
  BY <1>3, <1>4, GotoFree DEF LogInv, SoundInv
<1> QED
  BY <1>2, <1>5

LEMMA UpdateSEVLogged ==
    ASSUME LogInv, NEW r \in Request, NEW s \in SevId, NEW patch \in Patches,
           NEW token \in RequestToken, UpdateSEV(r, s, patch, token)
    PROVE  HandlersLogged'
<1> DEFINE row == ComputeMetrics(ApplySEVUpdate(sevs[s], patch))
           l == [IdleLocal EXCEPT
                  !.pc = "saveSEV", !.op = "update", !.sev = s,
                  !.read = sevs[s], !.row = row]
<1>1. sevs[s] \in Row /\ Reached(s, sevs[s].status)
  BY DEF UpdateSEV, Exists, LogInv, SoundInv, TypeInv, TypeOK, StatusLogged
<1>2. row.status = sevs[s].status
  BY <1>1, UpdateType, ComputeMetricsType, ConstantsAssumption
<1>3. Goto(r, l) /\ history' = history
  BY DEF UpdateSEV
<1>4. l.pc = "saveSEV" /\ l.sev = s /\ l.row = row
  BY DEF IdleLocal
<1> HIDE DEF l, row
<1>5. LocalLogged(l)
  BY <1>1, <1>2, <1>4 DEF LocalLogged
<1> QED
  BY <1>3, <1>5, GotoLogged DEF LogInv, SoundInv

LEMMA TransitionStatusLogged ==
    ASSUME LogInv, NEW r \in Request, NEW s \in SevId, NEW to \in Targets,
           NEW stamp \in Stamps, NEW token \in RequestToken,
           TransitionStatus(r, s, to, stamp, token)
    PROVE  HandlersLogged'
<1> DEFINE row == ComputeMetrics(ApplyTransition(sevs[s], to, stamp, now))
           l == [IdleLocal EXCEPT
                  !.pc = "addHistory", !.op = "transition", !.sev = s,
                  !.read = sevs[s], !.row = row]
<1>1. sevs[s] \in Row /\ Reached(s, sevs[s].status) /\ now \in Nat
  BY DEF TransitionStatus, Exists, LogInv, SoundInv, TypeInv, TypeOK, StatusLogged
<1>2. row.status = to
  BY <1>1, TransitionType, ComputeMetricsType, ConstantsAssumption
<1>3. <<sevs[s].status, to>> \in ValidTransitions
  BY DEF TransitionStatus, ValidateTransition
<1>4. Goto(r, l) /\ history' = history
  BY DEF TransitionStatus
<1>5. l.pc = "addHistory" /\ l.sev = s /\ l.row = row /\ l.read = sevs[s]
  BY DEF IdleLocal
<1> HIDE DEF l, row
<1>6. LocalLogged(l)
  BY <1>1, <1>2, <1>3, <1>5 DEF LocalLogged
<1> QED
  BY <1>4, <1>6, GotoLogged DEF LogInv, SoundInv

-------------------------------------------------------------------------------
(***************************************************************************)
(* AddHistory: the log grows, and what it had reached it still has.        *)
(***************************************************************************)

LEMMA AppendReached ==
    ASSUME TypeInv, NEW r \in Request, AddHistory(r), loc[r].sev \in SevId
    PROVE  /\ \A s \in SevId : \A status : Reached(s, status) => Reached(s, status)'
           /\ \A s, status : s = loc[r].sev /\ status = loc[r].row.status
                                => Reached(s, status)'
<1> DEFINE at == loc[r].sev
           h == history[at]
           e == [from |-> loc[r].read.status, to |-> loc[r].row.status]
<1>1. h \in Seq(Entry) /\ Len(h) \in Nat /\ DOMAIN h = 1 .. Len(h)
  BY DEF TypeInv, TypeOK
<1>2. /\ \A s \in SevId : s # at => history'[s] = history[s]
      /\ history'[at] = Append(h, e)
  BY DEF AddHistory, TypeInv, TypeOK
<1> HIDE DEF h, e, at
<1>3. /\ DOMAIN Append(h, e) = 1 .. Len(h) + 1
      /\ \A i \in 1 .. Len(h) : Append(h, e)[i] = h[i]
      /\ Append(h, e)[Len(h) + 1] = e
  BY <1>1
<1>4. ASSUME NEW s \in SevId, NEW status, Reached(s, status)
      PROVE  Reached(s, status)'
  <2>1. CASE s # at
    BY <1>2, <1>4, <2>1 DEF Reached
  <2>2. CASE s = at
    <3>1. CASE status = "open"
      BY <3>1 DEF Reached
    <3>2. CASE status # "open"
      <4>1. PICK i \in 1 .. Len(h) : h[i].to = status
        BY <1>1, <1>4, <2>2, <3>2 DEF Reached, h
      <4>2. i \in DOMAIN history'[s] /\ history'[s][i].to = status
        BY <1>1, <1>2, <1>3, <2>2, <4>1
      <4> QED
        BY <4>2 DEF Reached
    <3> QED
      BY <3>1, <3>2
  <2> QED
    BY <2>1, <2>2
<1>5. ASSUME NEW s, NEW status, s = at, status = loc[r].row.status
      PROVE  Reached(s, status)'
  <2>1. Len(h) + 1 \in DOMAIN history'[s] /\ history'[s][Len(h) + 1] = e
    BY <1>1, <1>2, <1>3, <1>5
  <2>2. e.to = status
    BY <1>5 DEF e
  <2> QED
    BY <2>1, <2>2 DEF Reached
<1> QED
  BY <1>4, <1>5 DEF at

\* What the handlers in flight wait for is still logged.
LEMMA AppendHandlers ==
    ASSUME LogInv, NEW r \in Request, AddHistory(r)
    PROVE  HandlersLogged'
<1> SUFFICES ASSUME NEW q \in Request PROVE LocalLogged(loc[q])'
  BY DEF HandlersLogged
<1> DEFINE l == [loc[r] EXCEPT !.pc = "saveSEV", !.entry = Len(history[loc[r].sev]) + 1]
<1>1. loc[r] \in Local /\ loc[r].sev \in SevId
  BY DEF AddHistory, At, LogInv, SoundInv, TypeInv, TypeOK, HandlersOK, Shape
<1>2. loc'[q] = IF q = r THEN l ELSE loc[q]
  BY DEF AddHistory, Goto, LogInv, SoundInv, TypeInv, TypeOK
<1>3. /\ \A s \in SevId : \A status : Reached(s, status) => Reached(s, status)'
      /\ \A s, status : s = loc[r].sev /\ status = loc[r].row.status
                           => Reached(s, status)'
  BY <1>1, AppendReached DEF LogInv, SoundInv
<1>4. CASE q = r
  <2>1. /\ loc'[q].pc = "saveSEV"
        /\ loc'[q].sev = loc[r].sev /\ loc'[q].row = loc[r].row
    BY <1>1, <1>2, <1>4 DEF Local
  <2>2. Reached(loc[q].sev, loc[q].row.status)'
    BY <1>3, <2>1 DEF Reached
  <2> QED
    BY <2>1, <2>2 DEF LocalLogged
<1>5. CASE q # r
  <2>1. loc'[q] = loc[q] /\ LocalLogged(loc[q])
    BY <1>2, <1>5 DEF LogInv, HandlersLogged
  <2>2. loc[q].pc # "idle" => loc[q].sev \in SevId
    BY DEF LogInv, SoundInv, TypeInv, HandlersOK, Shape
  <2>3. ASSUME NEW status, loc[q].pc # "idle", Reached(loc[q].sev, status)
        PROVE  \A s : s = loc[q].sev => Reached(s, status)'
    BY <1>3, <2>2, <2>3
  <2>4. CASE loc[q].pc = "addHistory"
    <3>1. Reached(loc[q].sev, loc[q].read.status)'
      BY <2>1, <2>3, <2>4 DEF LocalLogged, Reached
    <3> QED
      BY <2>1, <2>4, <3>1 DEF LocalLogged
  <2>5. CASE loc[q].pc \in {"saveSEV", "announceSEV"}
    <3>1. Reached(loc[q].sev, loc[q].row.status)'
      BY <2>1, <2>3, <2>5 DEF LocalLogged, Reached
    <3> QED
      BY <2>1, <2>5, <3>1 DEF LocalLogged
  <2>6. CASE loc[q].pc = "signToken"
    <3>1. Reached(loc[q].sev, "postmortem_complete")'
      BY <2>1, <2>3, <2>6 DEF LocalLogged, Reached
    <3> QED
      BY <2>1, <2>6, <3>1 DEF LocalLogged
  <2> QED
    BY <2>1, <2>4, <2>5, <2>6 DEF LocalLogged
<1> QED
  BY <1>4, <1>5

\* The new entry is a legal transition from a status the log had reached.
LEMMA AppendConnected ==
    ASSUME LogInv, NEW r \in Request, AddHistory(r)
    PROVE  HistoryConnected'
<1> DEFINE at == loc[r].sev
           h == history[at]
           e == [from |-> loc[r].read.status, to |-> loc[r].row.status]
<1>1. at \in SevId
  BY DEF AddHistory, At, LogInv, SoundInv, TypeInv, HandlersOK, Shape
<1>2. h \in Seq(Entry) /\ Len(h) \in Nat /\ DOMAIN h = 1 .. Len(h)
  BY <1>1 DEF LogInv, SoundInv, TypeInv, TypeOK
<1>3. /\ \A s \in SevId : s # at => history'[s] = history[s]
      /\ history'[at] = Append(h, e)
  BY <1>1 DEF AddHistory, LogInv, SoundInv, TypeInv, TypeOK
<1>4. Reached(at, e.from) /\ <<e.from, e.to>> \in ValidTransitions
  BY DEF AddHistory, At, LogInv, HandlersLogged, LocalLogged
<1>5. \A i \in 1 .. Len(h) :
         /\ <<h[i].from, h[i].to>> \in ValidTransitions
         /\ h[i].from = "open" \/ \E j \in 1 .. (i - 1) : h[j].to = h[i].from
  BY <1>1, <1>2 DEF LogInv, HistoryConnected
<1>6. e.from = "open" \/ \E j \in 1 .. Len(h) : h[j].to = e.from
  BY <1>2, <1>4 DEF Reached
<1> HIDE DEF h, e, at
<1>7. /\ DOMAIN Append(h, e) = 1 .. Len(h) + 1
      /\ \A i \in 1 .. Len(h) : Append(h, e)[i] = h[i]
      /\ Append(h, e)[Len(h) + 1] = e
  BY <1>2
<1>8. \A i \in 1 .. Len(h) + 1 :
         /\ <<Append(h, e)[i].from, Append(h, e)[i].to>> \in ValidTransitions
         /\ \/ Append(h, e)[i].from = "open"
            \/ \E j \in 1 .. (i - 1) : Append(h, e)[j].to = Append(h, e)[i].from
  <2> SUFFICES ASSUME NEW i \in 1 .. Len(h) + 1
               PROVE  /\ <<Append(h, e)[i].from, Append(h, e)[i].to>> \in ValidTransitions
                      /\ \/ Append(h, e)[i].from = "open"
                         \/ \E j \in 1 .. (i - 1) :
                               Append(h, e)[j].to = Append(h, e)[i].from
    OBVIOUS
  <2>1. CASE i = Len(h) + 1
    BY <1>2, <1>4, <1>6, <1>7, <2>1
  <2>2. CASE i # Len(h) + 1
    <3>1. i \in 1 .. Len(h) /\ 1 .. (i - 1) \subseteq 1 .. Len(h)
      BY <1>2, <2>2
    <3> QED
      BY <1>5, <1>7, <3>1
  <2> QED
    BY <2>1, <2>2
<1>9. ASSUME NEW s \in SevId, NEW i \in DOMAIN history'[s]
      PROVE  /\ <<history'[s][i].from, history'[s][i].to>> \in ValidTransitions
             /\ \/ history'[s][i].from = "open"
                \/ \E j \in 1 .. (i - 1) : history'[s][j].to = history'[s][i].from
  <2>1. CASE s = at
    BY <1>3, <1>7, <1>8, <1>9, <2>1
  <2>2. CASE s # at
    BY <1>3, <1>9, <2>2 DEF LogInv, HistoryConnected
  <2> QED
    BY <2>1, <2>2
<1> QED
  BY <1>9 DEF HistoryConnected

LEMMA AddHistoryLogged ==
    ASSUME LogInv, NEW r \in Request, AddHistory(r)
    PROVE  StatusLogged' /\ HistoryConnected' /\ TokensForCompleted' /\ HandlersLogged'
<1>1. loc[r].sev \in SevId
  BY DEF AddHistory, At, LogInv, SoundInv, TypeInv, HandlersOK, Shape
<1>2. \A s \in SevId : \A status : Reached(s, status) => Reached(s, status)'
  BY <1>1, AppendReached DEF LogInv, SoundInv
<1>3. StatusLogged'
  <2> SUFFICES ASSUME NEW s \in SevId, Exists(s)' PROVE Reached(s, sevs[s].status)'
    BY DEF StatusLogged
  <2>1. sevs' = sevs /\ Reached(s, sevs[s].status)
    BY DEF AddHistory, Exists, LogInv, StatusLogged
  <2> QED
    BY <1>2, <2>1 DEF Reached
<1>4. TokensForCompleted'
  <2> SUFFICES ASSUME NEW t \in tokens
               PROVE  /\ t.exp <= now + TokenTTL
                      /\ \E i \in DOMAIN history'[t.sev] :
                            history'[t.sev][i].to = "postmortem_complete"
    BY DEF AddHistory, TokensForCompleted
  <2>1. t.sev \in SevId
    BY DEF LogInv, SoundInv, TypeInv, TypeOK, Token
  <2>2. t.exp <= now + TokenTTL /\ Reached(t.sev, "postmortem_complete")
    BY DEF LogInv, TokensForCompleted, Reached
  <2>3. Reached(t.sev, "postmortem_complete")'
    BY <1>2, <2>1, <2>2
  <2> QED
    BY <2>2, <2>3 DEF Reached
<1> QED
  BY <1>3, <1>4, AppendHandlers, AppendConnected

-------------------------------------------------------------------------------
(***************************************************************************)
(* The remaining steps, and the theorems.                                  *)
(***************************************************************************)

LEMMA SaveSEVLogged ==
    ASSUME LogInv, NEW r \in Request, SaveSEV(r)
    PROVE  StatusLogged' /\ HistoryConnected' /\ TokensForCompleted' /\ HandlersLogged'
<1> DEFINE l == [loc[r] EXCEPT !.pc = "announceSEV", !.stored = TRUE]
<1>1. loc[r] \in Local /\ loc[r].sev \in SevId /\ loc[r].row \in Row
  BY DEF SaveSEV, At, LogInv, SoundInv, TypeInv, TypeOK, HandlersOK, Shape, HasRow
<1>2. Reached(loc[r].sev, loc[r].row.status)
  BY DEF SaveSEV, At, LogInv, HandlersLogged, LocalLogged
<1>3. StatusLogged' /\ HistoryConnected' /\ TokensForCompleted'
  BY <1>1, <1>2, StoreLogged DEF SaveSEV
<1>4. Goto(r, l) /\ history' = history
  BY DEF SaveSEV
<1>5. l.pc = "announceSEV" /\ l.sev = loc[r].sev /\ l.row = loc[r].row
  BY <1>1 DEF Local
<1> HIDE DEF l
<1>6. LocalLogged(l)
  BY <1>2, <1>5 DEF LocalLogged
<1>7. HandlersLogged'
  BY <1>4, <1>6, GotoLogged DEF LogInv, SoundInv
<1> QED
  BY <1>3, <1>7

\* Locked means completed, and what is stored is logged.
LEMMA UnlockSEVLogged ==
    ASSUME LogInv, NEW r \in Request, NEW s \in SevId, UnlockSEV(r, s)
    PROVE  HandlersLogged'
<1> DEFINE l == [IdleLocal EXCEPT !.pc = "signToken", !.op = "unlock", !.sev = s]
<1>1. sevs[s].status = "postmortem_complete"
  BY DEF UnlockSEV, LogInv, SoundInv, StoredSound, RowSound
<1>2. Reached(s, "postmortem_complete")
  BY <1>1 DEF UnlockSEV, LogInv, StatusLogged
<1>3. Goto(r, l) /\ history' = history
  BY DEF UnlockSEV
<1>4. l.pc = "signToken" /\ l.sev = s
  BY DEF IdleLocal
<1> HIDE DEF l
<1> QED
  BY <1>2, <1>3, <1>4, GotoLogged DEF LocalLogged, LogInv, SoundInv

LEMMA SignTokenLogged ==
    ASSUME LogInv, NEW r \in Request, NEW logged \in BOOLEAN, SignToken(r, logged)
    PROVE  StatusLogged' /\ HistoryConnected' /\ TokensForCompleted' /\ HandlersLogged'
<1>1. StatusLogged' /\ HistoryConnected'
  BY DEF SignToken, LogInv, StatusLogged, HistoryConnected, Exists, Reached
<1>2. HandlersLogged'
  BY FinishLogged DEF SignToken, LogInv, SoundInv
<1> DEFINE token == [sev |-> loc[r].sev, exp |-> now + TokenTTL]
<1>3. Reached(loc[r].sev, "postmortem_complete")
  BY DEF SignToken, At, LogInv, HandlersLogged, LocalLogged
<1>4. /\ token.exp <= now + TokenTTL
      /\ \E i \in DOMAIN history[token.sev] :
            history[token.sev][i].to = "postmortem_complete"
  BY <1>3, ConstantsAssumption DEF Reached, LogInv, SoundInv, TypeInv, TypeOK
<1>5. tokens' = tokens \union {token} /\ history' = history /\ now' = now
  BY DEF SignToken
<1> HIDE DEF token
<1>6. TokensForCompleted'
  BY <1>4, <1>5 DEF LogInv, TokensForCompleted
<1> QED
  BY <1>1, <1>2, <1>6

LEMMA TickLogged ==
    ASSUME LogInv, Tick
    PROVE  StatusLogged' /\ HistoryConnected' /\ TokensForCompleted' /\ HandlersLogged'
<1>1. StatusLogged' /\ HistoryConnected' /\ HandlersLogged'
  BY DEF Tick, LogInv, StatusLogged, HistoryConnected, Exists, Reached, HandlersLogged,
         LocalLogged
<1>2. TokensForCompleted'
  <2> SUFFICES ASSUME NEW t \in tokens PROVE t.exp <= now' + TokenTTL
    BY DEF Tick, LogInv, TokensForCompleted
  <2>1. t.exp \in Nat /\ now \in Nat /\ t.exp <= now + TokenTTL /\ now' = now + 1
    BY DEF Tick, LogInv, SoundInv, TypeInv, TypeOK, Token, TokensForCompleted
  <2> QED
    BY <2>1, ConstantsAssumption
<1> QED
  BY <1>1, <1>2

\* The steps that touch neither the rows nor the log nor the tokens, and after
\* which the handler waits for none of them.
LEMMA OtherStepsLogged ==
    ASSUME LogInv, NEW r \in Request,
           \/ AuditNew(r) \/ CreatePostmortem(r) \/ AnnounceNew(r) \/ AnnounceSEV(r)
           \/ \E s \in SevId, token \in RequestToken : UpdatePostmortem(r, s, token)
           \/ LoadPostmortem(r)
           \/ \E s \in SevId, to \in PmStatus : TransitionPostmortemStatus(r, s, to)
           \/ SavePostmortem(r)
           \/ \E found \in BOOLEAN : AnnouncePostmortem(r, found)
           \/ Abort(r)
    PROVE  StatusLogged' /\ HistoryConnected' /\ TokensForCompleted' /\ HandlersLogged'
<1>1. sevs' = sevs /\ history' = history /\ tokens' = tokens /\ now' = now
  BY DEF AuditNew, CreatePostmortem, AnnounceNew, AnnounceSEV, UpdatePostmortem,
         LoadPostmortem, TransitionPostmortemStatus, SavePostmortem,
         AnnouncePostmortem, Abort
<1>2. StatusLogged' /\ HistoryConnected' /\ TokensForCompleted'
  BY <1>1, StoresKept
<1>3. loc[r] \in Local
  BY DEF LogInv, SoundInv, TypeInv, TypeOK
<1>4. ASSUME NEW l, Goto(r, l),
             l.pc \notin {"addHistory", "saveSEV", "announceSEV", "signToken"}
      PROVE  HandlersLogged'
  BY <1>1, <1>4, GotoFree DEF LogInv, SoundInv
<1>5. HandlersLogged'
  <2>1. CASE AuditNew(r) \/ CreatePostmortem(r) \/ SavePostmortem(r)
    <3>1. PICK pc \in {"addPostmortem", "announceNew", "announcePostmortem"} :
             Goto(r, [loc[r] EXCEPT !.pc = pc])
      BY <2>1 DEF AuditNew, CreatePostmortem, SavePostmortem
    <3>2. [loc[r] EXCEPT !.pc = pc].pc = pc
      BY <1>3 DEF Local
    <3> QED
      BY <1>4, <3>1, <3>2
  <2>2. CASE \/ AnnounceNew(r) \/ AnnounceSEV(r) \/ Abort(r)
             \/ \E found \in BOOLEAN : AnnouncePostmortem(r, found)
    BY <1>1, <2>2, FinishLogged
       DEF AnnounceNew, AnnounceSEV, Abort, AnnouncePostmortem, LogInv, SoundInv
  <2>3. ASSUME NEW s \in SevId, NEW token \in RequestToken, UpdatePostmortem(r, s, token)
        PROVE  HandlersLogged'
    <3> DEFINE l == [IdleLocal EXCEPT !.pc = "loadPostmortem", !.op = "edit", !.sev = s,
                                      !.read = sevs[s]]
    <3>1. Goto(r, l) /\ l.pc = "loadPostmortem"
      BY <2>3 DEF UpdatePostmortem, IdleLocal
    <3> QED
      BY <1>4, <3>1
  <2>4. CASE LoadPostmortem(r)
    <3> DEFINE l == [loc[r] EXCEPT !.pc = "savePostmortem",
                                   !.pm = [pms[loc[r].sev] EXCEPT !.content = r]]
    <3>1. Goto(r, l) /\ l.pc = "savePostmortem"
      BY <1>3, <2>4 DEF LoadPostmortem, Local
    <3> QED
      BY <1>4, <3>1
  <2>5. ASSUME NEW s \in SevId, NEW to \in PmStatus, TransitionPostmortemStatus(r, s, to)
        PROVE  HandlersLogged'
    <3> DEFINE l == [IdleLocal EXCEPT !.pc = "savePostmortem", !.op = "review",
                                      !.sev = s, !.pm = [pms[s] EXCEPT !.status = to]]
    <3>1. Goto(r, l) /\ l.pc = "savePostmortem"
      BY <2>5 DEF TransitionPostmortemStatus, IdleLocal
    <3> QED
      BY <1>4, <3>1
  <2> QED
    BY <2>1, <2>2, <2>3, <2>4, <2>5
<1> QED
  BY <1>2, <1>5

LEMMA StepLogged ==
    ASSUME LogInv, NEW r \in Request, Step(r)
    PROVE  StatusLogged' /\ HistoryConnected' /\ TokensForCompleted' /\ HandlersLogged'
<1>1. ASSUME NEW s \in SevId, NEW draft \in Drafts, CreateSEV(r, s, draft)
      PROVE  StatusLogged' /\ HistoryConnected' /\ TokensForCompleted' /\ HandlersLogged'
  BY <1>1, CreateSEVLogged
<1>2. ASSUME NEW s \in SevId, NEW patch \in Patches, NEW token \in RequestToken,
             UpdateSEV(r, s, patch, token)
      PROVE  StatusLogged' /\ HistoryConnected' /\ TokensForCompleted' /\ HandlersLogged'
  BY <1>2, UpdateSEVLogged, StoresKept DEF UpdateSEV
<1>3. ASSUME NEW s \in SevId, NEW to \in Targets, NEW stamp \in Stamps,
             NEW token \in RequestToken, TransitionStatus(r, s, to, stamp, token)
      PROVE  StatusLogged' /\ HistoryConnected' /\ TokensForCompleted' /\ HandlersLogged'
  BY <1>3, TransitionStatusLogged, StoresKept DEF TransitionStatus
<1>4. ASSUME NEW s \in SevId, UnlockSEV(r, s)
      PROVE  StatusLogged' /\ HistoryConnected' /\ TokensForCompleted' /\ HandlersLogged'
  BY <1>4, UnlockSEVLogged, StoresKept DEF UnlockSEV
<1>5. ASSUME NEW logged \in BOOLEAN, SignToken(r, logged)
      PROVE  StatusLogged' /\ HistoryConnected' /\ TokensForCompleted' /\ HandlersLogged'
  BY <1>5, SignTokenLogged
<1> QED
  BY <1>1, <1>2, <1>3, <1>4, <1>5, AddHistoryLogged, SaveSEVLogged, OtherStepsLogged
     DEF Step

LEMMA InitLogInv == Init => LogInv
<1> SUFFICES ASSUME Init PROVE LogInv
  OBVIOUS
<1>1. SoundInv
  BY InitSoundInv
<1>2. StatusLogged /\ TokensForCompleted
  BY DEF Init, StatusLogged, TokensForCompleted, Exists
<1>3. HistoryConnected
  BY DEF Init, HistoryConnected
<1>4. HandlersLogged
  BY DEF Init, HandlersLogged, LocalLogged, IdleLocal
<1> QED
  BY <1>1, <1>2, <1>3, <1>4 DEF LogInv

\* The log invariant is inductive.
LEMMA NextLogInv == LogInv /\ [Next]_vars => LogInv'
<1> SUFFICES ASSUME LogInv, [Next]_vars PROVE LogInv'
  OBVIOUS
<1>1. SoundInv'
  BY NextSoundInv DEF LogInv
<1>2. CASE Tick
  BY <1>1, <1>2, TickLogged DEF LogInv
<1>3. ASSUME NEW r \in Request, Step(r) PROVE LogInv'
  BY <1>1, <1>3, StepLogged DEF LogInv
<1>4. CASE UNCHANGED vars
  <2>1. StatusLogged' /\ HistoryConnected' /\ TokensForCompleted'
    BY <1>4, StoresKept DEF vars
  <2>2. HandlersLogged'
    BY <1>4 DEF vars, LogInv, HandlersLogged, LocalLogged, Reached
  <2> QED
    BY <1>1, <2>1, <2>2 DEF LogInv
<1> QED
  BY <1>2, <1>3, <1>4 DEF Next

\* The status a SEV shows has been logged: a handler that fails between the log
\* and the row leaves an entry without a change, never a change without one.
THEOREM StatusLoggedCorrect == Spec => []StatusLogged
<1>1. LogInv => StatusLogged
  BY DEF LogInv
<1> QED
  BY <1>1, InitLogInv, NextLogInv, PTL DEF Spec

\* The log of a SEV is made of legal transitions, each from a status an earlier
\* entry reached, however many handlers append to it.
THEOREM HistoryCorrect == Spec => []HistoryConnected
<1>1. LogInv => HistoryConnected
  BY DEF LogInv
<1> QED
  BY <1>1, InitLogInv, NextLogInv, PTL DEF Spec

LEMMA EntryInto ==
    ASSUME LogInv, NEW s \in SevId, NEW i \in DOMAIN history[s]
    PROVE  LET e == history[s][i] IN
           /\ <<e.from, e.to>> \in ValidTransitions
           /\ e.from # "open" => \E j \in DOMAIN history[s] : j < i /\ history[s][j].to = e.from
<1>1. history[s] \in Seq(Entry)
  BY DEF LogInv, SoundInv, TypeInv, TypeOK
<1>2. \A j \in 1 .. (i - 1) : j \in DOMAIN history[s] /\ j < i
  BY <1>1
<1> QED
  BY <1>2 DEF LogInv, HistoryConnected

\* A completion is the end of a way the log holds in order: mitigated, resolved, postmortem
\* in progress, postmortem complete.
WayLogged(s) ==
    \E i, j, k, l \in DOMAIN history[s] :
        /\ i < j /\ j < k /\ k < l
        /\ history[s][i].to = "mitigated"
        /\ history[s][j].to = "resolved"
        /\ history[s][k].to = "postmortem_in_progress"
        /\ history[s][l].to = "postmortem_complete"

CompletionEarned ==
    /\ \A s \in SevId : Exists(s) /\ sevs[s].locked => WayLogged(s)
    /\ \A t \in tokens : WayLogged(t.sev)

LEMMA CompletedWay ==
    ASSUME LogInv, NEW s \in SevId, NEW l \in DOMAIN history[s],
           history[s][l].to = "postmortem_complete"
    PROVE  WayLogged(s)
<1>1. history[s][l].from = "postmortem_in_progress"
  BY EntryInto DEF ValidTransitions
<1>2. PICK k \in DOMAIN history[s] : k < l /\ history[s][k].to = "postmortem_in_progress"
  BY <1>1, EntryInto
<1>3. history[s][k].from = "resolved"
  BY <1>2, EntryInto DEF ValidTransitions
<1>4. PICK j \in DOMAIN history[s] : j < k /\ history[s][j].to = "resolved"
  BY <1>3, EntryInto
<1>5. history[s][j].from = "mitigated"
  BY <1>4, EntryInto DEF ValidTransitions
<1>6. PICK i \in DOMAIN history[s] : i < j /\ history[s][i].to = "mitigated"
  BY <1>5, EntryInto
<1> QED
  BY <1>2, <1>4, <1>6 DEF WayLogged

\* A SEV is locked, and an unlock token is signed for it, only after its log holds the
\* whole way to completion in order, however handlers race to append to that log.
THEOREM CompletionsEarned == Spec => []CompletionEarned
<1>1. ASSUME LogInv, NEW s \in SevId, Exists(s), sevs[s].locked PROVE WayLogged(s)
  <2>1. Reached(s, "postmortem_complete")
    BY <1>1 DEF LogInv, StatusLogged, SoundInv, StoredSound, RowSound
  <2> QED
    BY <1>1, <2>1, CompletedWay DEF Reached
<1>2. ASSUME LogInv, NEW t \in tokens PROVE WayLogged(t.sev)
  <2>1. t.sev \in SevId
    BY <1>2 DEF LogInv, SoundInv, TypeInv, TypeOK, Token
  <2> QED
    BY <1>2, <2>1, CompletedWay DEF LogInv, TokensForCompleted
<1>3. LogInv => CompletionEarned
  BY <1>1, <1>2 DEF CompletionEarned
<1> QED
  BY <1>3, InitLogInv, NextLogInv, PTL DEF Spec

\* An unlock token is only ever signed for a SEV whose completion is logged, and
\* none outlives the TTL.
THEOREM TokensCorrect == Spec => []TokensForCompleted
<1>1. LogInv => TokensForCompleted
  BY DEF LogInv
<1> QED
  BY <1>1, InitLogInv, NextLogInv, PTL DEF Spec

-------------------------------------------------------------------------------
(***************************************************************************)
(* What the lock and the log let slip. A handler's check and the entry it  *)
(* logs are about the row it has read; what it stores may meet another.    *)
(* Whatever handlers interleave, that is all that goes wrong.              *)
(***************************************************************************)

MayStore(s) == sevs[s].locked => s \in EverUnlocked

EntryLogged(s, from, to) ==
    \E i \in DOMAIN history[s] : history[s][i] = [from |-> from, to |-> to]

ChangeLogged(s, to) == EntryLogged(s, sevs[s].status, to)

\* A row that was locked when it was read was unlocked; and a status that is to be stored
\* is the one that was read, or its change is logged.
Backed(l) ==
    /\ HoldsRead(l) /\ l.read.locked => l.sev \in EverUnlocked
    /\ l.pc = "saveSEV" =>
          \/ l.row.status = l.read.status
          \/ EntryLogged(l.sev, l.read.status, l.row.status)

BackedInv == TypeInv /\ \A r \in Request : Backed(loc[r])

\* The stored SEV and postmortem of s at the end of a handler's step.
RowChanged(s) == Exists(s) /\ sevs'[s] # sevs[s]
DocChanged(s) == Exists(s) /\ pms'[s] # pms[s]

\* Handlers that store something for s although it is locked: a row or an edit whose lock
\* check read s before it was locked, a review, which makes no check, and the creation of
\* s itself, still to store the postmortem.
PassesLock(r, s) ==
    LET l == loc[r] IN
    /\ l.sev = s
    /\ \/ l.pc = "saveSEV" /\ ~l.read.locked
       \/ l.pc = "savePostmortem" /\ (l.op = "edit" => ~l.read.locked)
       \/ l.pc = "addPostmortem"

LEMMA LocalFacts ==
    ASSUME TypeInv, NEW r \in Request
    PROVE  /\ loc \in [Request -> Local] /\ loc[r] \in Local /\ Shape(loc[r])
           /\ sevs \in [SevId -> Row \union {Nil}] /\ pms \in [SevId -> PmRow \union {Nil}]
           /\ history \in [SevId -> Seq(Entry)]
BY DEF TypeInv, TypeOK, HandlersOK

\* A stored row changes in one step only, which writes a handler's copy.
LEMMA RowChange ==
    ASSUME TypeInv, Next, NEW s \in SevId, RowChanged(s)
    PROVE  \E r \in Request : /\ loc[r].pc = "saveSEV" /\ loc[r].sev = s
                              /\ loc[r].row \in Row /\ loc[r].read \in Row
                              /\ sevs'[s] = loc[r].row
<1>1. ~Tick
  BY DEF Tick, RowChanged
<1>2. PICK r \in Request : Step(r)
  BY <1>1 DEF Next
<1>3. sevs' # sevs
  BY DEF RowChanged
<1>4. ASSUME NEW u \in SevId, NEW draft \in Drafts, CreateSEV(r, u, draft)
      PROVE  FALSE
  <2>1. s # u /\ sevs' = [sevs EXCEPT ![u] = NewSEV(draft)]
    BY <1>4 DEF CreateSEV, RowChanged
  <2> QED
    BY <2>1, LocalFacts DEF RowChanged
<1>5. ~(AuditNew(r) \/ CreatePostmortem(r) \/ AnnounceNew(r) \/ AddHistory(r) \/ AnnounceSEV(r)
        \/ LoadPostmortem(r) \/ SavePostmortem(r) \/ Abort(r))
  BY <1>3 DEF AuditNew, CreatePostmortem, AnnounceNew, AddHistory, AnnounceSEV,
              LoadPostmortem, SavePostmortem, Abort
<1>6. ~(\/ \E u \in SevId, patch \in Patches, token \in RequestToken :
              UpdateSEV(r, u, patch, token)
        \/ \E u \in SevId, to \in Targets, stamp \in Stamps, token \in RequestToken :
              TransitionStatus(r, u, to, stamp, token)
        \/ \E u \in SevId, token \in RequestToken : UpdatePostmortem(r, u, token)
        \/ \E u \in SevId, to \in PmStatus : TransitionPostmortemStatus(r, u, to))
  BY <1>3 DEF UpdateSEV, TransitionStatus, UpdatePostmortem, TransitionPostmortemStatus
<1>7. ~(\/ \E found \in BOOLEAN : AnnouncePostmortem(r, found)
        \/ \E u \in SevId : UnlockSEV(r, u)
        \/ \E logged \in BOOLEAN : SignToken(r, logged))
  BY <1>3 DEF AnnouncePostmortem, UnlockSEV, SignToken
<1>8. SaveSEV(r)
  BY <1>2, <1>4, <1>5, <1>6, <1>7 DEF Step
<1>9. loc[r].pc = "saveSEV" /\ loc[r].sev \in SevId /\ loc[r].row \in Row /\ loc[r].read \in Row
  BY <1>8, LocalFacts DEF SaveSEV, At, Shape, HoldsRead, HasRow, HasRead
<1>10. loc[r].sev = s /\ sevs'[s] = loc[r].row
  BY <1>8, <1>9, LocalFacts DEF SaveSEV, RowChanged
<1> QED
  BY <1>9, <1>10

\* So does a stored postmortem, in the two steps that write one.
LEMMA DocChange ==
    ASSUME TypeInv, Next, NEW s \in SevId, pms'[s] # pms[s]
    PROVE  \E r \in Request : /\ loc[r].sev = s /\ (CreatePostmortem(r) \/ SavePostmortem(r))
<1>1. ~Tick
  BY DEF Tick
<1>2. PICK r \in Request : Step(r)
  BY <1>1 DEF Next
<1>3. pms' # pms
  OBVIOUS
<1>4. ~(AuditNew(r) \/ AnnounceNew(r) \/ AddHistory(r) \/ SaveSEV(r) \/ AnnounceSEV(r)
        \/ LoadPostmortem(r) \/ Abort(r))
  BY <1>3 DEF AuditNew, AnnounceNew, AddHistory, SaveSEV, AnnounceSEV, LoadPostmortem, Abort
<1>5. ~(\/ \E u \in SevId, draft \in Drafts : CreateSEV(r, u, draft)
        \/ \E u \in SevId, patch \in Patches, token \in RequestToken :
              UpdateSEV(r, u, patch, token)
        \/ \E u \in SevId, to \in Targets, stamp \in Stamps, token \in RequestToken :
              TransitionStatus(r, u, to, stamp, token)
        \/ \E u \in SevId, token \in RequestToken : UpdatePostmortem(r, u, token)
        \/ \E u \in SevId, to \in PmStatus : TransitionPostmortemStatus(r, u, to))
  BY <1>3 DEF CreateSEV, UpdateSEV, TransitionStatus, UpdatePostmortem,
              TransitionPostmortemStatus
<1>6. ~(\/ \E found \in BOOLEAN : AnnouncePostmortem(r, found)
        \/ \E u \in SevId : UnlockSEV(r, u)
        \/ \E logged \in BOOLEAN : SignToken(r, logged))
  BY <1>3 DEF AnnouncePostmortem, UnlockSEV, SignToken
<1>7. CreatePostmortem(r) \/ SavePostmortem(r)
  BY <1>2, <1>4, <1>5, <1>6 DEF Step
<1>8. PICK u \in SevId : u = loc[r].sev
  BY <1>7, LocalFacts DEF CreatePostmortem, SavePostmortem, At, Shape
<1>9. \A v \in SevId : v # u => pms'[v] = pms[v]
  BY <1>7, <1>8, LocalFacts DEF CreatePostmortem, SavePostmortem
<1> QED
  BY <1>7, <1>8, <1>9

LEMMA GotoAt ==
    ASSUME TypeInv, NEW r \in Request, NEW l, Goto(r, l)
    PROVE  loc'[r] = l
BY LocalFacts DEF Goto

\* A handler's step leaves the other handlers' private copies alone.
LEMMA StepKeepsOthers ==
    ASSUME TypeInv, NEW r \in Request, Step(r)
    PROVE  \A q \in Request : q # r => loc'[q] = loc[q]
<1>1. PICK l : Goto(r, l)
  BY DEF Step, CreateSEV, UpdateSEV, TransitionStatus, UpdatePostmortem,
         TransitionPostmortemStatus, UnlockSEV, AuditNew, CreatePostmortem, AnnounceNew,
         AddHistory, SaveSEV, AnnounceSEV, LoadPostmortem, SavePostmortem,
         AnnouncePostmortem, SignToken, Abort, Finish
<1> QED
  BY <1>1 DEF Goto, TypeInv, TypeOK

\* A request that is let through has a token of that SEV, if the SEV is locked.
LEMMA WriteAllowed ==
    ASSUME NEW s \in SevId, NEW token \in RequestToken, MayWrite(sevs[s], token, s)
    PROVE  MayStore(s)
BY DEF MayWrite, ValidUnlock, MayStore, RequestToken, EverUnlocked

\* Nothing leaves the log or changes its place in it, and no token is taken back.
LEMMA LogKeeps ==
    ASSUME TypeInv, [Next]_vars
    PROVE  /\ tokens \subseteq tokens'
           /\ \A s \in SevId : /\ DOMAIN history[s] \subseteq DOMAIN history'[s]
                               /\ \A i \in DOMAIN history[s] : history'[s][i] = history[s][i]
<1>1. ASSUME NEW r \in Request, AddHistory(r)
      PROVE  /\ tokens' = tokens
             /\ \A s \in SevId : /\ DOMAIN history[s] \subseteq DOMAIN history'[s]
                                 /\ \A i \in DOMAIN history[s] : history'[s][i] = history[s][i]
  <2>1. PICK e : e = [from |-> loc[r].read.status, to |-> loc[r].row.status]
    OBVIOUS
  <2>2. e \in Entry
    BY <1>1, <2>1, LocalFacts DEF AddHistory, At, Shape, HasRow, HasRead, HoldsRead, Row, Entry
  <2>3. PICK u \in SevId : u = loc[r].sev
    BY <1>1, LocalFacts DEF AddHistory, At, Shape
  <2>4. tokens' = tokens /\ history' = [history EXCEPT ![u] = Append(@, e)]
    BY <1>1, <2>1, <2>3 DEF AddHistory
  <2>5. history[u] \in Seq(Entry)
    BY LocalFacts
  <2>6. /\ history'[u] = Append(history[u], e)
        /\ \A s \in SevId : s # u => history'[s] = history[s]
    BY <2>4, LocalFacts
  <2> QED
    BY <2>2, <2>4, <2>5, <2>6
<1>2. ASSUME UNCHANGED vars \/ Tick PROVE UNCHANGED <<history, tokens>>
  BY <1>2 DEF Tick, vars
<1>3. ASSUME NEW r \in Request, Step(r), ~AddHistory(r)
      PROVE  history' = history /\ tokens \subseteq tokens'
  <2>1. CASE \E logged \in BOOLEAN : SignToken(r, logged)
    BY <2>1 DEF SignToken
  <2>2. CASE \/ AuditNew(r) \/ CreatePostmortem(r) \/ AnnounceNew(r) \/ SaveSEV(r)
             \/ AnnounceSEV(r) \/ LoadPostmortem(r) \/ SavePostmortem(r) \/ Abort(r)
             \/ \E found \in BOOLEAN : AnnouncePostmortem(r, found)
    BY <2>2 DEF AuditNew, CreatePostmortem, AnnounceNew, SaveSEV, AnnounceSEV, LoadPostmortem,
                SavePostmortem, Abort, AnnouncePostmortem
  <2>3. CASE \/ \E u \in SevId, draft \in Drafts : CreateSEV(r, u, draft)
             \/ \E u \in SevId, patch \in Patches, token \in RequestToken :
                   UpdateSEV(r, u, patch, token)
             \/ \E u \in SevId, to \in Targets, stamp \in Stamps, token \in RequestToken :
                   TransitionStatus(r, u, to, stamp, token)
             \/ \E u \in SevId, token \in RequestToken : UpdatePostmortem(r, u, token)
             \/ \E u \in SevId, to \in PmStatus : TransitionPostmortemStatus(r, u, to)
             \/ \E u \in SevId : UnlockSEV(r, u)
    BY <2>3 DEF CreateSEV, UpdateSEV, TransitionStatus, UpdatePostmortem,
                TransitionPostmortemStatus, UnlockSEV
  <2> QED
    BY <1>3, <2>1, <2>2, <2>3 DEF Step
<1> QED
  BY <1>1, <1>2, <1>3 DEF Next

LEMMA LogGrows ==
    ASSUME TypeInv, [Next]_vars
    PROVE  /\ EverUnlocked \subseteq EverUnlocked'
           /\ \A s \in SevId : \A from, to : EntryLogged(s, from, to) => EntryLogged(s, from, to)'
BY LogKeeps DEF EverUnlocked, EntryLogged

\* A handler that reads a row and is let through, and one that logs its transition.
LEMMA ReadBacked ==
    ASSUME BackedInv, NEW r \in Request,
           \/ \E s \in SevId, patch \in Patches, token \in RequestToken :
                 UpdateSEV(r, s, patch, token)
           \/ \E s \in SevId, to \in Targets, stamp \in Stamps, token \in RequestToken :
                 TransitionStatus(r, s, to, stamp, token)
           \/ \E s \in SevId, token \in RequestToken : UpdatePostmortem(r, s, token)
    PROVE  Backed(loc[r])'
<1>1. PICK s \in SevId, token \in RequestToken :
         /\ Exists(s) /\ MayWrite(sevs[s], token, s) /\ UNCHANGED <<history, tokens>>
         /\ \/ \E patch \in Patches : UpdateSEV(r, s, patch, token)
            \/ \E to \in Targets, stamp \in Stamps : TransitionStatus(r, s, to, stamp, token)
            \/ UpdatePostmortem(r, s, token)
  BY DEF UpdateSEV, TransitionStatus, UpdatePostmortem
<1>2. TypeInv /\ sevs[s] \in Row /\ MayStore(s)
  BY <1>1, WriteAllowed, LocalFacts DEF BackedInv, Exists
<1>3. ASSUME NEW patch \in Patches, UpdateSEV(r, s, patch, token)
      PROVE  \E l : /\ loc'[r] = l /\ l.pc = "saveSEV" /\ l.sev = s /\ l.read = sevs[s]
                    /\ l.row.status = l.read.status
  <2>1. PICK row : row = ComputeMetrics(ApplySEVUpdate(sevs[s], patch))
    OBVIOUS
  <2>2. row.status = sevs[s].status
    BY <1>2, <2>1, UpdateType, ComputeMetricsType, ConstantsAssumption
  <2>3. PICK l : l = [IdleLocal EXCEPT !.pc = "saveSEV", !.op = "update", !.sev = s,
                                       !.read = sevs[s], !.row = row]
    OBVIOUS
  <2>4. loc'[r] = l
    BY <1>2, <1>3, <2>1, <2>3, GotoAt DEF UpdateSEV
  <2>5. l.pc = "saveSEV" /\ l.sev = s /\ l.read = sevs[s] /\ l.row = row
    BY <2>3 DEF IdleLocal
  <2> QED
    BY <2>2, <2>4, <2>5
<1>4. ASSUME NEW to \in Targets, NEW stamp \in Stamps, TransitionStatus(r, s, to, stamp, token)
      PROVE  \E l : loc'[r] = l /\ l.pc = "addHistory" /\ l.sev = s /\ l.read = sevs[s]
  <2>1. PICK row : row = ComputeMetrics(ApplyTransition(sevs[s], to, stamp, now))
    OBVIOUS
  <2>2. PICK l : l = [IdleLocal EXCEPT !.pc = "addHistory", !.op = "transition", !.sev = s,
                                       !.read = sevs[s], !.row = row]
    OBVIOUS
  <2>3. loc'[r] = l
    BY <1>2, <1>4, <2>1, <2>2, GotoAt DEF TransitionStatus
  <2>4. l.pc = "addHistory" /\ l.sev = s /\ l.read = sevs[s]
    BY <2>2 DEF IdleLocal
  <2> QED
    BY <2>3, <2>4
<1>5. ASSUME UpdatePostmortem(r, s, token)
      PROVE  \E l : loc'[r] = l /\ l.pc = "loadPostmortem" /\ l.sev = s /\ l.read = sevs[s]
  <2>1. PICK l : l = [IdleLocal EXCEPT !.pc = "loadPostmortem", !.op = "edit", !.sev = s,
                                       !.read = sevs[s]]
    OBVIOUS
  <2>2. loc'[r] = l
    BY <1>2, <1>5, <2>1, GotoAt DEF UpdatePostmortem
  <2>3. l.pc = "loadPostmortem" /\ l.sev = s /\ l.read = sevs[s]
    BY <2>1 DEF IdleLocal
  <2> QED
    BY <2>2, <2>3
<1>6. PICK l : /\ loc'[r] = l /\ l.sev = s /\ l.read = sevs[s]
               /\ l.pc = "saveSEV" => l.row.status = l.read.status
  BY <1>1, <1>3, <1>4, <1>5
<1> QED
  BY <1>1, <1>2, <1>6 DEF Backed, MayStore, EverUnlocked

\* A handler that has read its row before keeps it, with what it has logged of it.
LEMMA CopyBacked ==
    ASSUME BackedInv, NEW r \in Request,
           \/ AuditNew(r) \/ CreatePostmortem(r) \/ AddHistory(r) \/ SaveSEV(r)
           \/ LoadPostmortem(r) \/ SavePostmortem(r)
    PROVE  Backed(loc[r])'
<1>1. /\ TypeInv /\ loc[r] \in Local /\ Shape(loc[r]) /\ Backed(loc[r])
      /\ EverUnlocked \subseteq EverUnlocked'
  <2>1. [Next]_vars
    BY DEF Next, Step
  <2> QED
    BY <2>1, LocalFacts, LogGrows DEF BackedInv
<1>2. CASE AuditNew(r) \/ CreatePostmortem(r)
  <2>1. PICK pc \in {"addPostmortem", "announceNew"} : Goto(r, [loc[r] EXCEPT !.pc = pc])
    BY <1>2 DEF AuditNew, CreatePostmortem
  <2>2. PICK l : l = [loc[r] EXCEPT !.pc = pc]
    OBVIOUS
  <2>3. loc'[r] = l /\ l.pc = pc
    BY <1>1, <2>1, <2>2, GotoAt DEF Local
  <2> QED
    BY <2>3 DEF Backed, HoldsRead, HasRead, HasPm
<1>3. CASE AddHistory(r)
  <2>1. PICK e : e = [from |-> loc[r].read.status, to |-> loc[r].row.status]
    OBVIOUS
  <2>2. e \in Entry
    BY <1>1, <1>3, <2>1 DEF AddHistory, At, Shape, HasRow, HasRead, HoldsRead, Row, Entry
  <2>3. PICK u \in SevId : u = loc[r].sev
    BY <1>1, <1>3 DEF AddHistory, At, Shape
  <2>4. history' = [history EXCEPT ![u] = Append(@, e)]
    BY <1>3, <2>1, <2>3 DEF AddHistory
  <2>5. history'[u] = Append(history[u], e) /\ history[u] \in Seq(Entry)
    BY <1>1, <2>4, LocalFacts
  <2>6. Len(history[u]) + 1 \in DOMAIN history'[u] /\ history'[u][Len(history[u]) + 1] = e
    BY <2>2, <2>5
  <2>7. PICK l : l = [loc[r] EXCEPT !.pc = "saveSEV", !.entry = Len(history[loc[r].sev]) + 1]
    OBVIOUS
  <2>8. /\ loc'[r] = l /\ l.pc = "saveSEV" /\ l.sev = u
        /\ l.read = loc[r].read /\ l.row = loc[r].row
    BY <1>1, <1>3, <2>3, <2>7, GotoAt DEF AddHistory, Local
  <2>9. l.read.locked => u \in EverUnlocked'
    BY <1>1, <1>3, <2>3, <2>8 DEF AddHistory, At, Backed, HoldsRead, HasRead
  <2>10. EntryLogged(u, l.read.status, l.row.status)'
    BY <2>8, <2>6, <2>1 DEF EntryLogged
  <2> QED
    BY <2>8, <2>9, <2>10 DEF Backed, EverUnlocked, EntryLogged
<1>4. CASE SaveSEV(r) \/ SavePostmortem(r) \/ LoadPostmortem(r)
  <2>1. PICK l : /\ Goto(r, l) /\ l.sev = loc[r].sev /\ l.read = loc[r].read
                 /\ l.pc # "saveSEV" /\ (HoldsRead(l) => HoldsRead(loc[r]))
    <3>1. CASE SaveSEV(r)
      <4>1. PICK l : l = [loc[r] EXCEPT !.pc = "announceSEV", !.stored = TRUE]
        OBVIOUS
      <4>2. l.sev = loc[r].sev /\ l.read = loc[r].read /\ l.pc = "announceSEV"
        BY <1>1, <4>1 DEF Local
      <4> QED
        BY <3>1, <4>1, <4>2 DEF SaveSEV, At, HoldsRead, HasRead
    <3>2. CASE SavePostmortem(r)
      <4>1. PICK l : l = [loc[r] EXCEPT !.pc = "announcePostmortem"]
        OBVIOUS
      <4>2. /\ l.sev = loc[r].sev /\ l.read = loc[r].read /\ l.op = loc[r].op
            /\ l.pc = "announcePostmortem"
        BY <1>1, <4>1 DEF Local
      <4> QED
        BY <3>2, <4>1, <4>2 DEF SavePostmortem, At, HoldsRead, HasRead, HasPm
    <3>3. CASE LoadPostmortem(r)
      <4>1. PICK pm : pm = [pms[loc[r].sev] EXCEPT !.content = r]
        OBVIOUS
      <4>2. PICK l : l = [loc[r] EXCEPT !.pc = "savePostmortem", !.pm = pm]
        OBVIOUS
      <4>3. l.sev = loc[r].sev /\ l.read = loc[r].read /\ l.pc = "savePostmortem"
        BY <1>1, <4>2 DEF Local
      <4> QED
        BY <3>3, <4>1, <4>2, <4>3 DEF LoadPostmortem, At, HoldsRead, HasRead
    <3> QED
      BY <1>4, <3>1, <3>2, <3>3
  <2>2. loc'[r] = l
    BY <1>1, <2>1, GotoAt
  <2>3. HoldsRead(l) /\ l.read.locked => l.sev \in EverUnlocked'
    BY <1>1, <2>1 DEF Backed
  <2> QED
    BY <2>1, <2>2, <2>3 DEF Backed, EverUnlocked, HoldsRead
<1> QED
  BY <1>2, <1>3, <1>4

\* The other steps leave the handler with no row that it has read.
LEMMA UnreadBacked ==
    ASSUME BackedInv, NEW r \in Request,
           \/ \E s \in SevId, draft \in Drafts : CreateSEV(r, s, draft)
           \/ \E s \in SevId, to \in PmStatus : TransitionPostmortemStatus(r, s, to)
           \/ \E s \in SevId : UnlockSEV(r, s)
           \/ \E logged \in BOOLEAN : SignToken(r, logged)
           \/ \E found \in BOOLEAN : AnnouncePostmortem(r, found)
           \/ AnnounceNew(r) \/ AnnounceSEV(r) \/ Abort(r)
    PROVE  Backed(loc[r])'
<1>1. TypeInv
  BY DEF BackedInv
<1>2. ASSUME NEW l, Goto(r, l), l.pc # "saveSEV", ~HoldsRead(l)
      PROVE  Backed(loc[r])'
  <2>1. loc'[r] = l
    BY <1>1, <1>2, GotoAt
  <2> QED
    BY <1>2, <2>1 DEF Backed, HoldsRead
<1>3. ASSUME NEW s \in SevId, NEW draft \in Drafts, CreateSEV(r, s, draft)
      PROVE  Backed(loc[r])'
  <2>1. PICK l : l = [IdleLocal EXCEPT !.pc = "auditNew", !.op = "create", !.sev = s,
                                       !.row = NewSEV(draft)]
    OBVIOUS
  <2>2. l.pc = "auditNew"
    BY <2>1 DEF IdleLocal
  <2>3. Goto(r, l)
    BY <1>3, <2>1 DEF CreateSEV
  <2> QED
    BY <1>2, <2>2, <2>3 DEF HoldsRead, HasRead, HasPm
<1>4. ASSUME NEW s \in SevId, NEW to \in PmStatus, TransitionPostmortemStatus(r, s, to)
      PROVE  Backed(loc[r])'
  <2>1. PICK pm : pm = [pms[s] EXCEPT !.status = to]
    OBVIOUS
  <2>2. PICK l : l = [IdleLocal EXCEPT !.pc = "savePostmortem", !.op = "review", !.sev = s,
                                       !.pm = pm]
    OBVIOUS
  <2>3. l.pc = "savePostmortem" /\ l.op = "review"
    BY <2>2 DEF IdleLocal
  <2>4. Goto(r, l)
    BY <1>4, <2>1, <2>2 DEF TransitionPostmortemStatus
  <2> QED
    BY <1>2, <2>3, <2>4 DEF HoldsRead, HasRead
<1>5. ASSUME NEW s \in SevId, UnlockSEV(r, s) PROVE Backed(loc[r])'
  <2>1. PICK l : l = [IdleLocal EXCEPT !.pc = "signToken", !.op = "unlock", !.sev = s]
    OBVIOUS
  <2>2. l.pc = "signToken"
    BY <2>1 DEF IdleLocal
  <2>3. Goto(r, l)
    BY <1>5, <2>1 DEF UnlockSEV
  <2> QED
    BY <1>2, <2>2, <2>3 DEF HoldsRead, HasRead, HasPm
<1>6. ASSUME Finish(r) PROVE Backed(loc[r])'
  BY <1>2, <1>6 DEF Finish, IdleLocal, HoldsRead, HasRead, HasPm
<1> QED
  BY <1>3, <1>4, <1>5, <1>6 DEF SignToken, AnnouncePostmortem, AnnounceNew, AnnounceSEV, Abort

LEMMA BackedInit == Init => BackedInv
<1> SUFFICES ASSUME Init PROVE BackedInv
  OBVIOUS
<1>1. \A r \in Request : Backed(loc[r])
  BY DEF Init, Backed, IdleLocal, HoldsRead, HasRead, HasPm
<1> QED
  BY <1>1, InitTypeInv DEF BackedInv

LEMMA BackedNext == BackedInv /\ [Next]_vars => BackedInv'
<1> SUFFICES ASSUME BackedInv, [Next]_vars PROVE BackedInv'
  OBVIOUS
<1>1. TypeInv /\ TypeInv'
  BY NextTypeInv DEF BackedInv
<1>2. ASSUME NEW q \in Request, loc'[q] = loc[q] PROVE Backed(loc[q])'
  <2>1. Backed(loc[q]) /\ Shape(loc[q]) /\ loc[q] \in Local
    BY <1>1, LocalFacts DEF BackedInv
  <2>2. /\ EverUnlocked \subseteq EverUnlocked'
        /\ \A s \in SevId : \A from, to : EntryLogged(s, from, to) => EntryLogged(s, from, to)'
    BY <1>1, LogGrows
  <2>3. PICK l : l = loc[q]
    OBVIOUS
  <2>4. l.pc = "saveSEV" => l.sev \in SevId
    BY <2>1, <2>3 DEF Shape
  <2>5. HoldsRead(l) /\ l.read.locked => l.sev \in EverUnlocked'
    BY <2>1, <2>2, <2>3 DEF Backed
  <2>6. l.pc = "saveSEV" /\ l.row.status # l.read.status
          => EntryLogged(l.sev, l.read.status, l.row.status)'
    <3>1. ASSUME l.pc = "saveSEV", l.row.status # l.read.status
          PROVE  EntryLogged(l.sev, l.read.status, l.row.status)
      BY <2>1, <2>3, <3>1 DEF Backed
    <3> QED
      BY <2>2, <2>4, <3>1
  <2>7. loc'[q] = l
    BY <1>2, <2>3
  <2> QED
    BY <2>5, <2>6, <2>7 DEF Backed, EverUnlocked, EntryLogged, HoldsRead
<1>3. ASSUME NEW r \in Request, Step(r) PROVE \A q \in Request : Backed(loc[q])'
  <2>1. Backed(loc[r])'
    BY <1>3, ReadBacked, CopyBacked, UnreadBacked DEF Step
  <2> QED
    BY <1>1, <1>2, <1>3, <2>1, StepKeepsOthers
<1>4. ASSUME Tick \/ UNCHANGED vars PROVE \A q \in Request : Backed(loc[q])'
  BY <1>2, <1>4 DEF Tick, vars
<1> QED
  BY <1>1, <1>3, <1>4 DEF BackedInv, Next

\* Whatever handlers interleave, a locked SEV of which no token was ever signed is changed
\* in three ways only: by a handler that read it before it was locked, by a review of its
\* postmortem, and by the handler that creates it.
THEOREM LockPassedOnlyBy ==
    Spec => [][\A s \in SevId :
                  sevs[s].locked /\ (RowChanged(s) \/ DocChanged(s)) =>
                      s \in EverUnlocked \/ \E r \in Request : PassesLock(r, s)]_vars
<1>1. ASSUME BackedInv, Next, NEW s \in SevId, s \notin EverUnlocked,
             RowChanged(s) \/ DocChanged(s)
      PROVE  \E r \in Request : PassesLock(r, s)
  <2>1. CASE RowChanged(s)
    <3>1. PICK r \in Request : loc[r].pc = "saveSEV" /\ loc[r].sev = s
      BY <1>1, <2>1, RowChange DEF BackedInv
    <3> QED
      BY <1>1, <3>1 DEF BackedInv, Backed, PassesLock, HoldsRead, HasRead
  <2>2. CASE DocChanged(s)
    <3>1. PICK r \in Request : loc[r].sev = s /\ (CreatePostmortem(r) \/ SavePostmortem(r))
      BY <1>1, <2>2, DocChange DEF BackedInv, DocChanged
    <3>2. loc[r].pc \in {"addPostmortem", "savePostmortem"}
      BY <3>1 DEF CreatePostmortem, SavePostmortem, At
    <3> QED
      BY <1>1, <3>1, <3>2 DEF BackedInv, Backed, PassesLock, HoldsRead, HasPm
  <2> QED
    BY <1>1, <2>1, <2>2
<1>2. BackedInv /\ [Next]_vars =>
        [\A s \in SevId :
            sevs[s].locked /\ (RowChanged(s) \/ DocChanged(s)) =>
                s \in EverUnlocked \/ \E r \in Request : PassesLock(r, s)]_vars
  BY <1>1
<1> QED
  BY <1>2, BackedInit, BackedNext, PTL DEF Spec

\* Whatever handlers interleave, a stored status changes without an entry in the log only
\* when a handler stores it that had read another status: every other change is logged.
THEOREM UnloggedOnlyByStale ==
    Spec => [][\A s \in SevId :
                  Exists(s) /\ sevs'[s].status # sevs[s].status =>
                      \/ ChangeLogged(s, sevs'[s].status)
                      \/ \E r \in Request : /\ loc[r].pc = "saveSEV" /\ loc[r].sev = s
                                            /\ loc[r].read.status # sevs[s].status]_vars
<1>1. ASSUME BackedInv, Next, NEW s \in SevId, Exists(s), sevs'[s].status # sevs[s].status
      PROVE  \/ ChangeLogged(s, sevs'[s].status)
             \/ \E r \in Request : /\ loc[r].pc = "saveSEV" /\ loc[r].sev = s
                                   /\ loc[r].read.status # sevs[s].status
  <2>1. PICK r \in Request : /\ loc[r].pc = "saveSEV" /\ loc[r].sev = s
                             /\ sevs'[s] = loc[r].row
    BY <1>1, RowChange DEF BackedInv, RowChanged
  <2>2. CASE loc[r].read.status # sevs[s].status
    BY <2>1, <2>2
  <2>3. CASE loc[r].read.status = sevs[s].status
    <3>1. EntryLogged(s, sevs[s].status, sevs'[s].status)
      BY <1>1, <2>1, <2>3 DEF BackedInv, Backed
    <3> QED
      BY <3>1 DEF ChangeLogged
  <2> QED
    BY <2>2, <2>3
<1>2. BackedInv /\ [Next]_vars =>
        [\A s \in SevId :
            Exists(s) /\ sevs'[s].status # sevs[s].status =>
                \/ ChangeLogged(s, sevs'[s].status)
                \/ \E r \in Request : /\ loc[r].pc = "saveSEV" /\ loc[r].sev = s
                                      /\ loc[r].read.status # sevs[s].status]_vars
  BY <1>1
<1> QED
  BY <1>2, BackedInit, BackedNext, PTL DEF Spec

-------------------------------------------------------------------------------
(***************************************************************************)
(* What is told of a SEV is on record.                                     *)
(***************************************************************************)

\* A handler past the log knows its own entry there, and one past the store has stored.
OwnEntry(l) ==
    /\ l.pc \in {"saveSEV", "announceSEV"} /\ l.op # "update" =>
          /\ l.entry \in DOMAIN history[l.sev]
          /\ history[l.sev][l.entry] = [from |-> l.read.status, to |-> l.row.status]
    /\ l.pc = "announceSEV" => l.stored

RecordInv == TypeInv /\ \A r \in Request : OwnEntry(loc[r])

LEMMA CallFields ==
    ASSUME NEW what, NEW s, NEW status
    PROVE  /\ Call(what, s, status).what = what
           /\ Call(what, s, status).sev = s
           /\ Call(what, s, status).status = status
BY DEF Call

\* The steps that lead to neither the store of a row nor the calls that follow it.
LEMMA GoesElsewhere ==
    ASSUME TypeInv, NEW r \in Request,
           \/ \E s \in SevId, draft \in Drafts : CreateSEV(r, s, draft)
           \/ \E s \in SevId, to \in Targets, stamp \in Stamps, token \in RequestToken :
                 TransitionStatus(r, s, to, stamp, token)
           \/ \E s \in SevId, token \in RequestToken : UpdatePostmortem(r, s, token)
           \/ \E s \in SevId, to \in PmStatus : TransitionPostmortemStatus(r, s, to)
           \/ \E s \in SevId : UnlockSEV(r, s)
           \/ \E logged \in BOOLEAN : SignToken(r, logged)
           \/ \E found \in BOOLEAN : AnnouncePostmortem(r, found)
           \/ AuditNew(r) \/ CreatePostmortem(r) \/ AnnounceNew(r) \/ AnnounceSEV(r)
           \/ LoadPostmortem(r) \/ SavePostmortem(r) \/ Abort(r)
    PROVE  OwnEntry(loc[r])'
<1>1. ASSUME NEW l, Goto(r, l), l.pc \notin {"saveSEV", "announceSEV"}
      PROVE  OwnEntry(loc[r])'
  <2>1. loc'[r] = l
    BY <1>1, GotoAt
  <2> QED
    BY <1>1, <2>1 DEF OwnEntry
<1>2. ASSUME NEW s \in SevId, NEW draft \in Drafts, CreateSEV(r, s, draft)
      PROVE  OwnEntry(loc[r])'
  <2>1. PICK row : row = NewSEV(draft)
    OBVIOUS
  <2>2. PICK l : l = [IdleLocal EXCEPT !.pc = "auditNew", !.op = "create", !.sev = s,
                                       !.row = row]
    OBVIOUS
  <2> QED
    BY <1>1, <1>2, <2>1, <2>2 DEF CreateSEV, IdleLocal
<1>3. ASSUME NEW s \in SevId, NEW to \in Targets, NEW stamp \in Stamps,
             NEW token \in RequestToken, TransitionStatus(r, s, to, stamp, token)
      PROVE  OwnEntry(loc[r])'
  <2>1. PICK row : row = ComputeMetrics(ApplyTransition(sevs[s], to, stamp, now))
    OBVIOUS
  <2>2. PICK l : l = [IdleLocal EXCEPT !.pc = "addHistory", !.op = "transition", !.sev = s,
                                       !.read = sevs[s], !.row = row]
    OBVIOUS
  <2> QED
    BY <1>1, <1>3, <2>1, <2>2 DEF TransitionStatus, IdleLocal
<1>4. ASSUME NEW s \in SevId, NEW token \in RequestToken, UpdatePostmortem(r, s, token)
      PROVE  OwnEntry(loc[r])'
  BY <1>1, <1>4 DEF UpdatePostmortem, IdleLocal
<1>5. ASSUME NEW s \in SevId, NEW to \in PmStatus, TransitionPostmortemStatus(r, s, to)
      PROVE  OwnEntry(loc[r])'
  <2>1. PICK pm : pm = [pms[s] EXCEPT !.status = to]
    OBVIOUS
  <2>2. PICK l : l = [IdleLocal EXCEPT !.pc = "savePostmortem", !.op = "review", !.sev = s,
                                       !.pm = pm]
    OBVIOUS
  <2> QED
    BY <1>1, <1>5, <2>1, <2>2 DEF TransitionPostmortemStatus, IdleLocal
<1>6. ASSUME NEW s \in SevId, UnlockSEV(r, s) PROVE OwnEntry(loc[r])'
  BY <1>1, <1>6 DEF UnlockSEV, IdleLocal
<1>7. ASSUME AuditNew(r) \/ CreatePostmortem(r) \/ SavePostmortem(r) PROVE OwnEntry(loc[r])'
  <2>1. PICK pc \in {"addPostmortem", "announceNew", "announcePostmortem"} :
           Goto(r, [loc[r] EXCEPT !.pc = pc])
    BY <1>7 DEF AuditNew, CreatePostmortem, SavePostmortem
  <2>2. [loc[r] EXCEPT !.pc = pc].pc = pc
    BY LocalFacts DEF Local
  <2> QED
    BY <1>1, <2>1, <2>2
<1>8. ASSUME LoadPostmortem(r) PROVE OwnEntry(loc[r])'
  <2>1. PICK pm : pm = [pms[loc[r].sev] EXCEPT !.content = r]
    OBVIOUS
  <2>2. PICK l : l = [loc[r] EXCEPT !.pc = "savePostmortem", !.pm = pm]
    OBVIOUS
  <2>3. l.pc = "savePostmortem"
    BY <2>2, LocalFacts DEF Local
  <2> QED
    BY <1>1, <1>8, <2>1, <2>2, <2>3 DEF LoadPostmortem
<1>9. ASSUME Finish(r) PROVE OwnEntry(loc[r])'
  BY <1>1, <1>9 DEF Finish, IdleLocal
<1> QED
  BY <1>2, <1>3, <1>4, <1>5, <1>6, <1>7, <1>8, <1>9
     DEF SignToken, AnnouncePostmortem, AnnounceNew, AnnounceSEV, Abort

LEMMA UpdateOwnEntry ==
    ASSUME TypeInv, NEW r \in Request, NEW s \in SevId, NEW patch \in Patches,
           NEW token \in RequestToken, UpdateSEV(r, s, patch, token)
    PROVE  OwnEntry(loc[r])'
<1>1. PICK row : row = ComputeMetrics(ApplySEVUpdate(sevs[s], patch))
  OBVIOUS
<1>2. PICK l : l = [IdleLocal EXCEPT !.pc = "saveSEV", !.op = "update", !.sev = s,
                                     !.read = sevs[s], !.row = row]
  OBVIOUS
<1>3. loc'[r] = l
  BY <1>1, <1>2, GotoAt DEF UpdateSEV
<1>4. l.pc = "saveSEV" /\ l.op = "update"
  BY <1>2 DEF IdleLocal
<1> QED
  BY <1>3, <1>4 DEF OwnEntry

LEMMA AddHistoryOwnEntry ==
    ASSUME TypeInv, NEW r \in Request, AddHistory(r)
    PROVE  OwnEntry(loc[r])'
<1>1. loc[r] \in Local /\ Shape(loc[r]) /\ loc[r].pc = "addHistory"
  BY LocalFacts DEF AddHistory, At
<1>2. PICK e : e = [from |-> loc[r].read.status, to |-> loc[r].row.status]
  OBVIOUS
<1>3. e \in Entry
  BY <1>1, <1>2 DEF Shape, HasRow, HasRead, HoldsRead, Row, Entry
<1>4. PICK u \in SevId : u = loc[r].sev
  BY <1>1 DEF Shape
<1>5. history' = [history EXCEPT ![u] = Append(@, e)]
  BY <1>2, <1>4 DEF AddHistory
<1>6. PICK n : n = Len(history[u]) + 1
  OBVIOUS
<1>7. n \in DOMAIN history'[u] /\ history'[u][n] = e /\ n \in Nat
  BY <1>3, <1>5, <1>6, LocalFacts
<1>8. PICK l : l = [loc[r] EXCEPT !.pc = "saveSEV", !.entry = n]
  OBVIOUS
<1>9. loc'[r] = l
  BY <1>4, <1>6, <1>8, GotoAt DEF AddHistory
<1>10. /\ l.pc = "saveSEV" /\ l.sev = u /\ l.entry = n
       /\ l.read = loc[r].read /\ l.row = loc[r].row
  BY <1>1, <1>4, <1>8 DEF Local
<1> QED
  BY <1>2, <1>7, <1>9, <1>10 DEF OwnEntry

LEMMA SaveOwnEntry ==
    ASSUME RecordInv, NEW r \in Request, SaveSEV(r)
    PROVE  OwnEntry(loc[r])'
<1>1. loc[r] \in Local /\ loc[r].pc = "saveSEV" /\ OwnEntry(loc[r]) /\ TypeInv
  BY LocalFacts DEF SaveSEV, At, RecordInv
<1>2. PICK l : l = [loc[r] EXCEPT !.pc = "announceSEV", !.stored = TRUE]
  OBVIOUS
<1>3. loc'[r] = l /\ history' = history
  BY <1>1, <1>2, GotoAt DEF SaveSEV
<1>4. /\ l.pc = "announceSEV" /\ l.stored /\ l.sev = loc[r].sev /\ l.op = loc[r].op
      /\ l.read = loc[r].read /\ l.row = loc[r].row /\ l.entry = loc[r].entry
  BY <1>1, <1>2 DEF Local
<1> QED
  BY <1>1, <1>3, <1>4 DEF OwnEntry

LEMMA RecordNext == RecordInv /\ [Next]_vars => RecordInv'
<1> SUFFICES ASSUME RecordInv, [Next]_vars PROVE RecordInv'
  OBVIOUS
<1>1. TypeInv /\ TypeInv'
  BY NextTypeInv DEF RecordInv
<1>2. ASSUME NEW q \in Request, loc'[q] = loc[q] PROVE OwnEntry(loc[q])'
  <2>1. PICK l : l = loc[q]
    OBVIOUS
  <2>2. OwnEntry(l) /\ loc'[q] = l /\ (l.pc # "idle" => l.sev \in SevId)
    BY <1>1, <1>2, <2>1, LocalFacts DEF RecordInv, Shape
  <2> QED
    BY <1>1, <2>2, LogKeeps DEF OwnEntry
<1>3. ASSUME NEW r \in Request, Step(r) PROVE \A q \in Request : OwnEntry(loc[q])'
  <2>1. OwnEntry(loc[r])'
    BY <1>1, <1>3, GoesElsewhere, UpdateOwnEntry, AddHistoryOwnEntry, SaveOwnEntry DEF Step
  <2> QED
    BY <1>1, <1>2, <1>3, <2>1, StepKeepsOthers
<1>4. ASSUME Tick \/ UNCHANGED vars PROVE \A q \in Request : OwnEntry(loc[q])'
  BY <1>2, <1>4 DEF Tick, vars
<1> QED
  BY <1>1, <1>3, <1>4 DEF RecordInv, Next

\* Such a call is made in one place, by the handler that has stored the row.
LEMMA StepAnnounces ==
    ASSUME RecordInv, NEW r \in Request, Step(r), NEW e \in emitted', e.what \in Told
    PROVE  OnRecord(loc[r], e)
<1>1. CASE AnnounceSEV(r)
  <2>1. OwnEntry(loc[r]) /\ loc[r].pc = "announceSEV"
    BY <1>1 DEF AnnounceSEV, At, RecordInv
  <2>2. e.sev = loc[r].sev
    BY <1>1, CallFields DEF AnnounceSEV, AnnounceUpdate, AnnounceTransition, IfPublic
  <2>3. e.what # "sev.updated" => loc[r].op # "update" /\ e.status = loc[r].row.status
    BY <1>1, CallFields DEF AnnounceSEV, AnnounceUpdate, AnnounceTransition, IfPublic, Told
  <2> QED
    BY <2>1, <2>2, <2>3 DEF OwnEntry, OnRecord
<1>2. CASE AuditNew(r)
  BY <1>2, CallFields DEF AuditNew, Told
<1>3. CASE AnnounceNew(r)
  BY <1>3, CallFields DEF AnnounceNew, IfPublic, Told
<1>4. ASSUME NEW found \in BOOLEAN, AnnouncePostmortem(r, found)
      PROVE  FALSE
  BY <1>4, CallFields DEF AnnouncePostmortem, AnnounceEdit, PublishReview, IfPublic, Told
<1>5. ASSUME NEW logged \in BOOLEAN, SignToken(r, logged)
      PROVE  FALSE
  BY <1>5, CallFields DEF SignToken, Told
<1>6. emitted' # {}
  OBVIOUS
<1> QED
  BY <1>1, <1>2, <1>3, <1>4, <1>5, <1>6
     DEF Step, CreateSEV, CreatePostmortem, UpdateSEV, TransitionStatus, AddHistory,
         SaveSEV, UpdatePostmortem, LoadPostmortem, TransitionPostmortemStatus,
         SavePostmortem, UnlockSEV, Abort

\* Whatever handlers interleave and wherever they stop, what TransitionStatus and UpdateSEV
\* tell the others of a SEV has been stored by the same handler, and a change of status
\* logged by it.
THEOREM EventsCorrect == Spec => EventsFollowRecord
<1>1. Init => RecordInv
  <2> SUFFICES ASSUME Init PROVE RecordInv
    OBVIOUS
  <2>1. \A r \in Request : OwnEntry(loc[r])
    BY DEF Init, OwnEntry, IdleLocal
  <2> QED
    BY <2>1, InitTypeInv DEF RecordInv
<1>2. RecordInv /\ [Next]_vars =>
        [\A r \in Request : \A e \in emitted' :
            loc'[r] # loc[r] /\ e.what \in Told => OnRecord(loc[r], e)]_vars
  <2> SUFFICES ASSUME RecordInv, Next, NEW r \in Request, NEW e \in emitted',
                      loc'[r] # loc[r], e.what \in Told
               PROVE  OnRecord(loc[r], e)
    OBVIOUS
  <2>1. CASE Tick
    BY <2>1 DEF Tick
  <2>2. ASSUME NEW q \in Request, Step(q) PROVE OnRecord(loc[r], e)
    <3>1. q = r
      BY <2>2, StepKeepsOthers DEF RecordInv
    <3> QED
      BY <2>2, <3>1, StepAnnounces
  <2> QED
    BY <2>1, <2>2 DEF Next
<1> QED
  BY <1>1, <1>2, RecordNext, PTL DEF Spec, EventsFollowRecord

-------------------------------------------------------------------------------
(***************************************************************************)
(* A SEV without its postmortem. CreateSEV stores the two one after the    *)
(* other, and everything else takes the second for granted.                *)
(***************************************************************************)

Creating(r, s) == loc[r].sev = s /\ loc[r].pc \in {"auditNew", "addPostmortem"}

\* The postmortem of s is there, or a handler is about to store it.
Documented(s) == Exists(s) => pms[s] # Nil \/ \E r \in Request : Creating(r, s)

\* What is stored over something that has been read, is stored over something.
Overwrites(l) ==
    /\ l.pc \in {"addHistory", "saveSEV"} => Exists(l.sev)
    /\ l.pc = "savePostmortem" => pms[l.sev] # Nil

DocInv == TypeInv /\ \A r \in Request : Overwrites(loc[r])

LEMMA DraftDocument == [status |-> "draft", content |-> Nil] \in PmRow \ {Nil}
BY ConstantsAssumption DEF PmRow, PmStatus

LEMMA StoresOnlyGrow ==
    ASSUME TypeInv, [Next]_vars, NEW s \in SevId
    PROVE  (Exists(s) => Exists(s)') /\ (pms[s] # Nil => pms'[s] # Nil)
<1>1. ASSUME Exists(s) PROVE Exists(s)'
  <2>1. CASE sevs'[s] = sevs[s]
    BY <1>1, <2>1 DEF Exists
  <2>2. CASE sevs'[s] # sevs[s]
    <3>1. Next /\ RowChanged(s)
      BY <1>1, <2>2 DEF RowChanged, vars
    <3>2. PICK r \in Request : loc[r].row \in Row /\ sevs'[s] = loc[r].row
      BY <3>1, RowChange
    <3> QED
      BY <3>2, NilAssumption DEF Exists
  <2> QED
    BY <2>1, <2>2
<1>2. ASSUME pms[s] # Nil, pms'[s] # pms[s] PROVE pms'[s] # Nil
  <2>1. Next
    BY <1>2 DEF vars
  <2>2. PICK r \in Request : loc[r].sev = s /\ (CreatePostmortem(r) \/ SavePostmortem(r))
    BY <1>2, <2>1, DocChange
  <2>3. CASE CreatePostmortem(r)
    <3>1. pms'[s] = [status |-> "draft", content |-> Nil]
      BY <2>2, <2>3, LocalFacts DEF CreatePostmortem
    <3>2. pms'[s] \in PmRow
      BY <3>1, DraftDocument
    <3> QED
      BY <3>2, ConstantsAssumption
  <2>4. CASE SavePostmortem(r)
    <3>1. pms'[s] = loc[r].pm /\ loc[r].pm \in PmRow
      BY <2>2, <2>4, LocalFacts DEF SavePostmortem, At, Shape, HasPm
    <3> QED
      BY <3>1, ConstantsAssumption
  <2> QED
    BY <2>2, <2>3, <2>4
<1> QED
  BY <1>1, <1>2

\* How a handler gets to the steps that store something.
LEMMA StoreAhead ==
    ASSUME TypeInv, NEW r \in Request, Step(r), NEW l, l = loc'[r]
    PROVE  /\ l.pc = "auditNew" => \E draft \in Drafts : CreateSEV(r, l.sev, draft)
           /\ l.pc = "addPostmortem" => AuditNew(r) /\ l.sev = loc[r].sev
           /\ l.pc \in {"addHistory", "saveSEV"} =>
                 /\ sevs' = sevs
                 /\ Exists(l.sev) \/ (loc[r].pc = "addHistory" /\ l.sev = loc[r].sev)
           /\ l.pc = "savePostmortem" => pms' = pms /\ pms[l.sev] # Nil
<1> DEFINE Goal == /\ l.pc = "auditNew" => \E draft \in Drafts : CreateSEV(r, l.sev, draft)
                   /\ l.pc = "addPostmortem" => AuditNew(r) /\ l.sev = loc[r].sev
                   /\ l.pc \in {"addHistory", "saveSEV"} =>
                         /\ sevs' = sevs
                         /\ Exists(l.sev) \/ (loc[r].pc = "addHistory" /\ l.sev = loc[r].sev)
                   /\ l.pc = "savePostmortem" => pms' = pms /\ pms[l.sev] # Nil
<1>0. loc[r] \in Local
  BY LocalFacts
<1>1. ASSUME NEW s \in SevId, NEW draft \in Drafts, CreateSEV(r, s, draft) PROVE Goal
  <2>1. PICK m : m = [IdleLocal EXCEPT !.pc = "auditNew", !.op = "create", !.sev = s,
                                       !.row = NewSEV(draft)]
    OBVIOUS
  <2>2. m.pc = "auditNew" /\ m.sev = s
    BY <2>1 DEF IdleLocal
  <2>3. l = m
    BY <1>1, <2>1, GotoAt DEF CreateSEV
  <2> QED
    BY <1>1, <2>2, <2>3
<1>2. CASE AuditNew(r)
  <2>1. PICK m : m = [loc[r] EXCEPT !.pc = "addPostmortem"]
    OBVIOUS
  <2>2. m.pc = "addPostmortem" /\ m.sev = loc[r].sev
    BY <1>0, <2>1 DEF Local
  <2>3. l = m
    BY <1>2, <2>1, GotoAt DEF AuditNew
  <2> QED
    BY <1>2, <2>2, <2>3
<1>3. ASSUME NEW s \in SevId, NEW patch \in Patches, NEW token \in RequestToken,
             UpdateSEV(r, s, patch, token)
      PROVE  Goal
  <2>1. PICK row : row = ComputeMetrics(ApplySEVUpdate(sevs[s], patch))
    OBVIOUS
  <2>2. PICK m : m = [IdleLocal EXCEPT !.pc = "saveSEV", !.op = "update", !.sev = s,
                                       !.read = sevs[s], !.row = row]
    OBVIOUS
  <2>3. m.pc = "saveSEV" /\ m.sev = s
    BY <2>2 DEF IdleLocal
  <2>4. l = m
    BY <1>3, <2>1, <2>2, GotoAt DEF UpdateSEV
  <2>5. Exists(s) /\ sevs' = sevs
    BY <1>3 DEF UpdateSEV
  <2> QED
    BY <2>3, <2>4, <2>5
<1>4. ASSUME NEW s \in SevId, NEW to \in Targets, NEW stamp \in Stamps,
             NEW token \in RequestToken, TransitionStatus(r, s, to, stamp, token)
      PROVE  Goal
  <2>1. PICK row : row = ComputeMetrics(ApplyTransition(sevs[s], to, stamp, now))
    OBVIOUS
  <2>2. PICK m : m = [IdleLocal EXCEPT !.pc = "addHistory", !.op = "transition", !.sev = s,
                                       !.read = sevs[s], !.row = row]
    OBVIOUS
  <2>3. m.pc = "addHistory" /\ m.sev = s
    BY <2>2 DEF IdleLocal
  <2>4. l = m
    BY <1>4, <2>1, <2>2, GotoAt DEF TransitionStatus
  <2>5. Exists(s) /\ sevs' = sevs
    BY <1>4 DEF TransitionStatus
  <2> QED
    BY <2>3, <2>4, <2>5
<1>5. CASE AddHistory(r)
  <2>1. PICK m : m = [loc[r] EXCEPT !.pc = "saveSEV", !.entry = Len(history[loc[r].sev]) + 1]
    OBVIOUS
  <2>2. m.pc = "saveSEV" /\ m.sev = loc[r].sev
    BY <1>0, <2>1 DEF Local
  <2>3. l = m
    BY <1>5, <2>1, GotoAt DEF AddHistory
  <2>4. loc[r].pc = "addHistory" /\ sevs' = sevs
    BY <1>5 DEF AddHistory, At
  <2> QED
    BY <2>2, <2>3, <2>4
<1>6. ASSUME NEW s \in SevId, NEW token \in RequestToken, UpdatePostmortem(r, s, token)
      PROVE  Goal
  <2>1. PICK m : m = [IdleLocal EXCEPT !.pc = "loadPostmortem", !.op = "edit", !.sev = s,
                                       !.read = sevs[s]]
    OBVIOUS
  <2>2. m.pc = "loadPostmortem"
    BY <2>1 DEF IdleLocal
  <2>3. l = m
    BY <1>6, <2>1, GotoAt DEF UpdatePostmortem
  <2> QED
    BY <2>2, <2>3
<1>7. CASE LoadPostmortem(r)
  <2>1. PICK pm : pm = [pms[loc[r].sev] EXCEPT !.content = r]
    OBVIOUS
  <2>2. PICK m : m = [loc[r] EXCEPT !.pc = "savePostmortem", !.pm = pm]
    OBVIOUS
  <2>3. m.pc = "savePostmortem" /\ m.sev = loc[r].sev
    BY <1>0, <2>2 DEF Local
  <2>4. l = m
    BY <1>7, <2>1, <2>2, GotoAt DEF LoadPostmortem
  <2>5. pms[loc[r].sev] # Nil /\ pms' = pms
    BY <1>7 DEF LoadPostmortem
  <2> QED
    BY <2>3, <2>4, <2>5
<1>8. ASSUME NEW s \in SevId, NEW to \in PmStatus, TransitionPostmortemStatus(r, s, to)
      PROVE  Goal
  <2>1. PICK pm : pm = [pms[s] EXCEPT !.status = to]
    OBVIOUS
  <2>2. PICK m : m = [IdleLocal EXCEPT !.pc = "savePostmortem", !.op = "review", !.sev = s,
                                       !.pm = pm]
    OBVIOUS
  <2>3. m.pc = "savePostmortem" /\ m.sev = s
    BY <2>2 DEF IdleLocal
  <2>4. l = m
    BY <1>8, <2>1, <2>2, GotoAt DEF TransitionPostmortemStatus
  <2>5. pms[s] # Nil /\ pms' = pms
    BY <1>8 DEF TransitionPostmortemStatus
  <2> QED
    BY <2>3, <2>4, <2>5
<1>9. ASSUME NEW s \in SevId, UnlockSEV(r, s) PROVE Goal
  <2>1. PICK m : m = [IdleLocal EXCEPT !.pc = "signToken", !.op = "unlock", !.sev = s]
    OBVIOUS
  <2>2. m.pc = "signToken"
    BY <2>1 DEF IdleLocal
  <2>3. l = m
    BY <1>9, <2>1, GotoAt DEF UnlockSEV
  <2> QED
    BY <2>2, <2>3
<1>10. CASE CreatePostmortem(r) \/ SaveSEV(r) \/ SavePostmortem(r)
  <2>1. PICK pc \in {"announceNew", "announceSEV", "announcePostmortem"} :
           \E m : /\ Goto(r, m)
                 /\ \/ m = [loc[r] EXCEPT !.pc = pc]
                    \/ m = [loc[r] EXCEPT !.pc = pc, !.stored = TRUE]
    BY <1>10 DEF CreatePostmortem, SaveSEV, SavePostmortem
  <2>2. PICK m : /\ Goto(r, m)
                 /\ \/ m = [loc[r] EXCEPT !.pc = pc]
                    \/ m = [loc[r] EXCEPT !.pc = pc, !.stored = TRUE]
    BY <2>1
  <2>3. l = m /\ m.pc = pc
    BY <1>0, <2>2, GotoAt DEF Local
  <2> QED
    BY <2>1, <2>3
<1>11. CASE Finish(r)
  <2>1. l = IdleLocal /\ l.pc = "idle"
    BY <1>11, GotoAt DEF Finish, IdleLocal
  <2> QED
    BY <2>1
<1> QED
  BY <1>1, <1>2, <1>3, <1>4, <1>5, <1>6, <1>7, <1>8, <1>9, <1>10, <1>11
     DEF Step, SignToken, AnnouncePostmortem, AnnounceNew, AnnounceSEV, Abort

\* A SEV comes to be stored by a handler that is creating it.
LEMMA CreationStarts ==
    ASSUME DocInv, Next, NEW s \in SevId, ~Exists(s), Exists(s)'
    PROVE  \E r \in Request : Creating(r, s)'
<1>1. TypeInv
  BY DEF DocInv
<1>2. ~Tick
  BY DEF Tick, Exists
<1>3. PICK r \in Request : Step(r)
  BY <1>2 DEF Next
<1>4. sevs' # sevs
  BY DEF Exists
<1>5. SaveSEV(r) \/ \E u \in SevId, draft \in Drafts : CreateSEV(r, u, draft)
  <2>1. ~(AuditNew(r) \/ CreatePostmortem(r) \/ AnnounceNew(r) \/ AddHistory(r)
          \/ AnnounceSEV(r) \/ LoadPostmortem(r) \/ SavePostmortem(r) \/ Abort(r))
    BY <1>4 DEF AuditNew, CreatePostmortem, AnnounceNew, AddHistory, AnnounceSEV,
                LoadPostmortem, SavePostmortem, Abort
  <2>2. ~(\/ \E u \in SevId, patch \in Patches, token \in RequestToken :
                UpdateSEV(r, u, patch, token)
          \/ \E u \in SevId, to \in Targets, stamp \in Stamps, token \in RequestToken :
                TransitionStatus(r, u, to, stamp, token)
          \/ \E u \in SevId, token \in RequestToken : UpdatePostmortem(r, u, token)
          \/ \E u \in SevId, to \in PmStatus : TransitionPostmortemStatus(r, u, to))
    BY <1>4 DEF UpdateSEV, TransitionStatus, UpdatePostmortem, TransitionPostmortemStatus
  <2>3. ~(\/ \E found \in BOOLEAN : AnnouncePostmortem(r, found)
          \/ \E u \in SevId : UnlockSEV(r, u)
          \/ \E logged \in BOOLEAN : SignToken(r, logged))
    BY <1>4 DEF AnnouncePostmortem, UnlockSEV, SignToken
  <2> QED
    BY <1>3, <2>1, <2>2, <2>3 DEF Step
<1>6. ~SaveSEV(r)
  <2>1. SUFFICES ASSUME SaveSEV(r) PROVE FALSE
    OBVIOUS
  <2>2. PICK u \in SevId : u = loc[r].sev
    BY <1>1, <2>1, LocalFacts DEF SaveSEV, At, Shape
  <2>3. Exists(u)
    BY <2>1, <2>2 DEF DocInv, Overwrites, SaveSEV, At
  <2>4. sevs'[s] = sevs[s]
    BY <1>1, <2>1, <2>2, <2>3, LocalFacts DEF SaveSEV
  <2> QED
    BY <2>4 DEF Exists
<1>7. PICK u \in SevId, draft \in Drafts : CreateSEV(r, u, draft)
  BY <1>5, <1>6
<1>8. u = s
  BY <1>1, <1>7, LocalFacts DEF CreateSEV, Exists
<1>9. PICK m : m = [IdleLocal EXCEPT !.pc = "auditNew", !.op = "create", !.sev = u,
                                     !.row = NewSEV(draft)]
  OBVIOUS
<1>10. m.pc = "auditNew" /\ m.sev = s
  BY <1>8, <1>9 DEF IdleLocal
<1>11. loc'[r] = m
  BY <1>1, <1>7, <1>9, GotoAt DEF CreateSEV
<1> QED
  BY <1>10, <1>11 DEF Creating

LEMMA DocNext == DocInv /\ [Next]_vars => DocInv'
<1> SUFFICES ASSUME DocInv, [Next]_vars PROVE DocInv'
  OBVIOUS
<1>1. TypeInv /\ TypeInv'
  BY NextTypeInv DEF DocInv
<1>2. ASSUME NEW l, NEW r \in Request, l = loc[r]
      PROVE  /\ l.pc \in {"addHistory", "saveSEV"} => l.sev \in SevId /\ Exists(l.sev)'
             /\ l.pc = "savePostmortem" => pms'[l.sev] # Nil
  <2>1. l.pc # "idle" => l.sev \in SevId
    BY <1>1, <1>2, LocalFacts DEF Shape
  <2>2. Overwrites(l)
    BY <1>2 DEF DocInv
  <2> QED
    BY <1>1, <2>1, <2>2, StoresOnlyGrow DEF Overwrites
<1>3. ASSUME NEW r \in Request, loc'[r] = loc[r] PROVE Overwrites(loc[r])'
  BY <1>2, <1>3 DEF Overwrites, Exists
<1>4. ASSUME NEW r \in Request, Step(r) PROVE Overwrites(loc[r])'
  <2>1. PICK l : l = loc'[r]
    OBVIOUS
  <2>2. CASE l.pc \in {"addHistory", "saveSEV"}
    <3>1. sevs' = sevs /\ (Exists(l.sev) \/ (loc[r].pc = "addHistory" /\ l.sev = loc[r].sev))
      BY <1>1, <1>4, <2>1, <2>2, StoreAhead
    <3>2. Exists(l.sev)
      BY <3>1 DEF DocInv, Overwrites
    <3> QED
      BY <2>1, <2>2, <3>1, <3>2 DEF Overwrites, Exists
  <2>3. CASE l.pc = "savePostmortem"
    <3>1. pms' = pms /\ pms[l.sev] # Nil
      BY <1>1, <1>4, <2>1, <2>3, StoreAhead
    <3> QED
      BY <2>1, <2>3, <3>1 DEF Overwrites
  <2> QED
    BY <2>1, <2>2, <2>3 DEF Overwrites
<1>5. \A r \in Request : Overwrites(loc[r])'
  <2>1. CASE \E r \in Request : Step(r)
    BY <1>1, <1>3, <1>4, <2>1, StepKeepsOthers
  <2>2. CASE Tick \/ UNCHANGED vars
    BY <1>3, <2>2 DEF Tick, vars
  <2> QED
    BY <2>1, <2>2 DEF Next
<1> QED
  BY <1>1, <1>5 DEF DocInv

\* A SEV is left without its postmortem only by its creation stopping before the postmortem
\* was stored, however other handlers interleave with that creation; and then it stays
\* without one, since no handler makes another.
THEOREM UndocumentedOnlyByStop ==
    Spec => [][\A s \in SevId :
                  /\ Documented(s) /\ ~Documented(s)' =>
                        \E r \in Request : Creating(r, s) /\ Abort(r)
                  /\ ~Documented(s) => ~Documented(s)']_vars
<1>1. ASSUME DocInv, Next, NEW s \in SevId, Documented(s), ~Documented(s)'
      PROVE  \E r \in Request : Creating(r, s) /\ Abort(r)
  <2>1. TypeInv
    BY <1>1 DEF DocInv
  <2>2. Exists(s)' /\ pms'[s] = Nil /\ \A r \in Request : ~Creating(r, s)'
    BY <1>1 DEF Documented
  <2>3. pms[s] = Nil
    BY <1>1, <2>1, <2>2, StoresOnlyGrow
  <2>4. Exists(s)
    BY <1>1, <2>2, CreationStarts
  <2>5. PICK r \in Request : Creating(r, s)
    BY <1>1, <2>3, <2>4 DEF Documented
  <2>6. loc'[r] # loc[r]
    BY <2>2, <2>5 DEF Creating
  <2>7. Step(r)
    <3>1. ~Tick
      BY <2>6 DEF Tick
    <3>2. PICK q \in Request : Step(q)
      BY <1>1, <3>1 DEF Next
    <3> QED
      BY <2>1, <2>6, <3>2, StepKeepsOthers
  <2>8. AuditNew(r) \/ CreatePostmortem(r) \/ Abort(r)
    <3>1. loc[r].pc \in {"auditNew", "addPostmortem"}
      BY <2>5 DEF Creating
    <3> QED
      BY <2>7, <3>1
         DEF Step, CreateSEV, UpdateSEV, TransitionStatus, UpdatePostmortem, AddHistory, SaveSEV,
             TransitionPostmortemStatus, UnlockSEV, AnnounceNew, AnnounceSEV, LoadPostmortem,
             SavePostmortem, AnnouncePostmortem, SignToken, Idle, At
  <2>9. ~AuditNew(r)
    <3>1. SUFFICES ASSUME AuditNew(r) PROVE FALSE
      OBVIOUS
    <3>2. PICK l : l = [loc[r] EXCEPT !.pc = "addPostmortem"]
      OBVIOUS
    <3>3. loc'[r] = l /\ l.pc = "addPostmortem" /\ l.sev = s
      BY <2>1, <2>5, <3>1, <3>2, GotoAt, LocalFacts DEF AuditNew, Local, Creating
    <3> QED
      BY <2>2, <3>3 DEF Creating
  <2>10. ~CreatePostmortem(r)
    <3>1. SUFFICES ASSUME CreatePostmortem(r) PROVE FALSE
      OBVIOUS
    <3>2. pms'[s] = [status |-> "draft", content |-> Nil]
      BY <2>1, <2>5, <3>1, LocalFacts DEF CreatePostmortem, Creating
    <3> QED
      BY <2>2, <3>2, DraftDocument
  <2> QED
    BY <2>5, <2>8, <2>9, <2>10
<1>2. ASSUME DocInv, Next, NEW s \in SevId, ~Documented(s) PROVE ~Documented(s)'
  <2>1. TypeInv /\ Exists(s) /\ pms[s] = Nil /\ \A r \in Request : ~Creating(r, s)
    BY <1>2 DEF Documented, DocInv
  <2>2. Exists(s)'
    BY <1>2, <2>1, StoresOnlyGrow
  <2>3. pms'[s] = Nil
    <3>1. SUFFICES ASSUME pms'[s] # pms[s] PROVE FALSE
      BY <2>1
    <3>2. PICK r \in Request : loc[r].sev = s /\ (CreatePostmortem(r) \/ SavePostmortem(r))
      BY <1>2, <2>1, <3>1, DocChange
    <3>3. loc[r].pc \in {"addPostmortem", "savePostmortem"}
      BY <3>2 DEF CreatePostmortem, SavePostmortem, At
    <3> QED
      BY <1>2, <2>1, <3>2, <3>3 DEF Creating, DocInv, Overwrites
  <2>4. ASSUME NEW r \in Request, Creating(r, s)' PROVE FALSE
    <3>1. Step(r)
      <4>1. loc'[r] # loc[r]
        BY <2>1, <2>4 DEF Creating
      <4>2. PICK q \in Request : Step(q)
        BY <1>2, <4>1 DEF Next, Tick
      <4> QED
        BY <2>1, <4>1, <4>2, StepKeepsOthers
    <3>2. PICK l : l = loc'[r]
      OBVIOUS
    <3>3. l.sev = s /\ l.pc \in {"auditNew", "addPostmortem"}
      BY <2>4, <3>2 DEF Creating
    <3>4. ~\E draft \in Drafts : CreateSEV(r, s, draft)
      BY <2>1 DEF CreateSEV
    <3>5. AuditNew(r) /\ l.sev = loc[r].sev
      BY <2>1, <3>1, <3>2, <3>3, <3>4, StoreAhead
    <3> QED
      BY <2>1, <3>3, <3>5 DEF AuditNew, At, Creating
  <2> QED
    BY <2>2, <2>3, <2>4 DEF Documented
<1>3. DocInv /\ [Next]_vars =>
        [\A s \in SevId :
            /\ Documented(s) /\ ~Documented(s)' =>
                  \E r \in Request : Creating(r, s) /\ Abort(r)
            /\ ~Documented(s) => ~Documented(s)']_vars
  BY <1>1, <1>2
<1>4. Init => DocInv
  BY InitTypeInv DEF Init, DocInv, Overwrites, IdleLocal
<1> QED
  BY <1>3, <1>4, DocNext, PTL DEF Spec

-------------------------------------------------------------------------------
(***************************************************************************)
(* The contract. With at most one handler at work on a SEV at a time,      *)
(* however the handlers of different SEVs interleave, what a handler has   *)
(* read is still so when it writes, and every write is a step of           *)
(* SevContract.                                                            *)
(***************************************************************************)

OnePerSEV ==
    \A q, r \in Request : ~Idle(q) /\ ~Idle(r) /\ loc[q].sev = loc[r].sev => q = r

\* What the stores hold still for the steps a handler has yet to make.
Current(l) ==
    /\ l.pc \in {"auditNew", "addPostmortem"} =>
          Exists(l.sev) /\ ~sevs[l.sev].locked /\ pms[l.sev] = Nil
    /\ l.pc \in {"addHistory", "saveSEV"} =>
          /\ Exists(l.sev) /\ MayStore(l.sev)
          /\ \/ l.row.status = sevs[l.sev].status
             \/ <<sevs[l.sev].status, l.row.status>> \in ValidTransitions
    /\ l.pc = "addHistory" => l.read = sevs[l.sev]
    /\ l.pc = "saveSEV" =>
          l.row.status = sevs[l.sev].status \/ ChangeLogged(l.sev, l.row.status)
    /\ Editing(l) => l.read.locked = sevs[l.sev].locked
    /\ l.pc = "loadPostmortem" => l.op = "edit" /\ MayStore(l.sev)
    /\ l.pc = "savePostmortem" =>
          /\ pms[l.sev] # Nil
          /\ \/ /\ l.op = "edit" /\ MayStore(l.sev)
                /\ l.pm.status = pms[l.sev].status
             \/ /\ l.op = "review"
                /\ l.pm.content = pms[l.sev].content
                /\ <<pms[l.sev].status, l.pm.status>> \in ValidPmTransitions
    /\ l.pc = "signToken" => Exists(l.sev) /\ sevs[l.sev].locked

\* A postmortem is of a SEV that is stored.
NoOrphans == \A s \in SevId : ~Exists(s) => pms[s] = Nil

AloneInv == SoundInv /\ NoOrphans /\ \A r \in Request : Current(loc[r])

LEMMA AloneFacts ==
    ASSUME AloneInv, NEW r \in Request
    PROVE  /\ TypeInv /\ loc[r] \in Local /\ Shape(loc[r]) /\ Current(loc[r])
           /\ sevs \in [SevId -> Row \union {Nil}] /\ pms \in [SevId -> PmRow \union {Nil}]
           /\ history \in [SevId -> Seq(Entry)] /\ now \in Nat
BY DEF AloneInv, SoundInv, TypeInv, TypeOK, HandlersOK

\* A step touches the stores of one SEV, the one its handler works on.
LEMMA OtherSEVsStay ==
    ASSUME AloneInv, NEW r \in Request, Step(r), NEW u \in SevId,
           Idle(r) \/ loc[r].sev # u, Idle(r)' \/ loc'[r].sev # u
    PROVE  /\ sevs'[u] = sevs[u] /\ pms'[u] = pms[u] /\ history'[u] = history[u]
           /\ tokens \subseteq tokens'
<1> DEFINE Stays == /\ sevs'[u] = sevs[u] /\ pms'[u] = pms[u] /\ history'[u] = history[u]
                    /\ tokens \subseteq tokens'
<1>1. ASSUME NEW s \in SevId, NEW draft \in Drafts, CreateSEV(r, s, draft) PROVE Stays
  <2>1. PICK l : l = [IdleLocal EXCEPT !.pc = "auditNew", !.op = "create", !.sev = s,
                                       !.row = NewSEV(draft)]
    OBVIOUS
  <2>2. l.pc = "auditNew" /\ l.sev = s
    BY <2>1 DEF IdleLocal
  <2>3. loc'[r] = l
    BY <1>1, <2>1, GotoAt, AloneFacts DEF CreateSEV
  <2>4. s # u
    BY <2>2, <2>3 DEF Idle
  <2> QED
    BY <1>1, <2>4, AloneFacts DEF CreateSEV
<1>2. ASSUME CreatePostmortem(r) \/ AddHistory(r) \/ SaveSEV(r) \/ SavePostmortem(r)
      PROVE  Stays
  <2>1. loc[r].sev # u
    BY <1>2 DEF CreatePostmortem, AddHistory, SaveSEV, SavePostmortem, At, Idle
  <2> QED
    BY <1>2, <2>1, AloneFacts DEF CreatePostmortem, AddHistory, SaveSEV, SavePostmortem
<1>3. ASSUME NEW logged \in BOOLEAN, SignToken(r, logged) PROVE Stays
  BY <1>3 DEF SignToken
<1>4. ASSUME UNCHANGED <<sevs, pms, history, tokens>> PROVE Stays
  BY <1>4
<1>5. \/ \E s \in SevId, draft \in Drafts : CreateSEV(r, s, draft)
      \/ CreatePostmortem(r) \/ AddHistory(r) \/ SaveSEV(r) \/ SavePostmortem(r)
      \/ \E logged \in BOOLEAN : SignToken(r, logged)
      \/ UNCHANGED <<sevs, pms, history, tokens>>
  BY DEF Step, AuditNew, AnnounceNew, UpdateSEV, TransitionStatus, AnnounceSEV,
         UpdatePostmortem, LoadPostmortem, TransitionPostmortemStatus,
         AnnouncePostmortem, UnlockSEV, Abort
<1> QED
  BY <1>1, <1>2, <1>3, <1>4, <1>5

\* So what the other handlers have read is still so: theirs are other SEVs.
LEMMA OthersCurrent ==
    ASSUME AloneInv, OnePerSEV, OnePerSEV', NEW r \in Request, Step(r),
           Current(loc[r])', NoOrphans'
    PROVE  AloneInv'
<1>1. SoundInv' /\ TypeInv
  BY NextSoundInv DEF AloneInv, SoundInv, Next
<1>2. \A q \in Request : q # r => loc'[q] = loc[q]
  BY <1>1, StepKeepsOthers
<1>3. ASSUME NEW q \in Request, q # r PROVE Current(loc[q])'
  <2>1. CASE Idle(q)
    BY <1>2, <1>3, <2>1 DEF Idle, Current, Editing
  <2>2. CASE ~Idle(q)
    <3>1. loc[q].sev \in SevId /\ Current(loc[q]) /\ loc'[q] = loc[q]
      BY <1>2, <1>3, <2>2, AloneFacts DEF Shape, Idle
    <3>2. PICK u \in SevId : u = loc[q].sev
      BY <3>1
    <3>3. (Idle(r) \/ loc[r].sev # u) /\ (Idle(r)' \/ loc'[r].sev # u)
      BY <1>3, <2>2, <3>1, <3>2 DEF OnePerSEV, Idle
    <3>4. /\ sevs'[u] = sevs[u] /\ pms'[u] = pms[u] /\ history'[u] = history[u]
          /\ EverUnlocked \subseteq EverUnlocked'
      BY <3>3, OtherSEVsStay DEF EverUnlocked
    <3>5. (MayStore(u) => MayStore(u)') /\ (Exists(u) => Exists(u)')
      BY <3>4 DEF MayStore, Exists
    <3>6. \A to : ChangeLogged(u, to) => ChangeLogged(u, to)'
      BY <3>4 DEF ChangeLogged, EntryLogged
    <3> QED
      BY <3>1, <3>2, <3>4, <3>5, <3>6 DEF Current, Editing
  <2> QED
    BY <2>1, <2>2
<1> QED
  BY <1>1, <1>3 DEF AloneInv

LEMMA CreateSEVCurrent ==
    ASSUME AloneInv, NEW r \in Request, NEW s \in SevId, NEW draft \in Drafts,
           CreateSEV(r, s, draft)
    PROVE  Current(loc[r])' /\ NoOrphans'
<1>1. PICK l : l = [IdleLocal EXCEPT !.pc = "auditNew", !.op = "create", !.sev = s,
                                     !.row = NewSEV(draft)]
  OBVIOUS
<1>2. l.pc = "auditNew" /\ l.sev = s
  BY <1>1 DEF IdleLocal
<1>3. loc'[r] = l
  BY <1>1, GotoAt, AloneFacts DEF CreateSEV
<1>4. NewSEV(draft) \in Row /\ NewSEV(draft) # Nil /\ ~NewSEV(draft).locked
  BY NewSEVType, ConstantsAssumption, NilAssumption
<1>5. /\ sevs'[s] = NewSEV(draft) /\ pms' = pms
      /\ \A u \in SevId : u # s => sevs'[u] = sevs[u]
  BY AloneFacts DEF CreateSEV
<1>6. pms[s] = Nil
  BY DEF AloneInv, NoOrphans, CreateSEV
<1>7. Current(loc[r])'
  BY <1>2, <1>3, <1>4, <1>5, <1>6 DEF Current, Exists, Editing
<1>8. NoOrphans'
  BY <1>4, <1>5 DEF AloneInv, NoOrphans, Exists
<1> QED
  BY <1>7, <1>8

LEMMA UpdateSEVCurrent ==
    ASSUME AloneInv, NEW r \in Request, NEW s \in SevId, NEW patch \in Patches,
           NEW token \in RequestToken, UpdateSEV(r, s, patch, token)
    PROVE  Current(loc[r])'
<1>1. PICK row : row = ComputeMetrics(ApplySEVUpdate(sevs[s], patch))
  OBVIOUS
<1>2. PICK l : l = [IdleLocal EXCEPT !.pc = "saveSEV", !.op = "update", !.sev = s,
                                     !.read = sevs[s], !.row = row]
  OBVIOUS
<1>3. l.pc = "saveSEV" /\ l.sev = s /\ l.row = row /\ l.read = sevs[s]
  BY <1>2 DEF IdleLocal
<1>4. loc'[r] = l
  BY <1>1, <1>2, GotoAt, AloneFacts DEF UpdateSEV
<1>5. sevs[s] \in Row
  BY AloneFacts DEF UpdateSEV, Exists
<1>6. row.status = sevs[s].status
  BY <1>1, <1>5, UpdateType, ComputeMetricsType, ConstantsAssumption
<1>7. Exists(s) /\ MayStore(s) /\ UNCHANGED <<sevs, tokens>>
  BY WriteAllowed DEF UpdateSEV
<1> QED
  BY <1>3, <1>4, <1>6, <1>7 DEF Current, Exists, MayStore, EverUnlocked, Editing

LEMMA TransitionStatusCurrent ==
    ASSUME AloneInv, NEW r \in Request, NEW s \in SevId, NEW to \in Targets,
           NEW stamp \in Stamps, NEW token \in RequestToken,
           TransitionStatus(r, s, to, stamp, token)
    PROVE  Current(loc[r])'
<1>1. PICK row : row = ComputeMetrics(ApplyTransition(sevs[s], to, stamp, now))
  OBVIOUS
<1>2. PICK l : l = [IdleLocal EXCEPT !.pc = "addHistory", !.op = "transition", !.sev = s,
                                     !.read = sevs[s], !.row = row]
  OBVIOUS
<1>3. l.pc = "addHistory" /\ l.sev = s /\ l.row = row /\ l.read = sevs[s]
  BY <1>2 DEF IdleLocal
<1>4. loc'[r] = l
  BY <1>1, <1>2, GotoAt, AloneFacts DEF TransitionStatus
<1>5. sevs[s] \in Row /\ now \in Nat
  BY AloneFacts DEF TransitionStatus, Exists
<1>6. row.status = to
  BY <1>1, <1>5, TransitionType, ComputeMetricsType, ConstantsAssumption
<1>7. /\ Exists(s) /\ MayStore(s) /\ UNCHANGED <<sevs, tokens>>
      /\ <<sevs[s].status, to>> \in ValidTransitions
  BY WriteAllowed DEF TransitionStatus, ValidateTransition
<1> QED
  BY <1>3, <1>4, <1>6, <1>7 DEF Current, Exists, MayStore, EverUnlocked, Editing

\* The entry is there when the row is to be stored.
LEMMA AddHistoryCurrent ==
    ASSUME AloneInv, NEW r \in Request, AddHistory(r)
    PROVE  Current(loc[r])'
<1>1. PICK l : l = [loc[r] EXCEPT !.pc = "saveSEV", !.entry = Len(history[loc[r].sev]) + 1]
  OBVIOUS
<1>2. /\ loc[r].pc = "addHistory" /\ loc[r].sev \in SevId /\ loc[r] \in Local
      /\ Current(loc[r])
  BY AloneFacts DEF AddHistory, At, Shape
<1>3. l.pc = "saveSEV" /\ l.sev = loc[r].sev /\ l.row = loc[r].row /\ l.read = loc[r].read
  BY <1>1, <1>2 DEF Local
<1>4. loc'[r] = l
  BY <1>1, GotoAt, AloneFacts DEF AddHistory
<1>5. PICK s \in SevId : s = loc[r].sev
  BY <1>2
<1>6. PICK e : e = [from |-> loc[r].read.status, to |-> loc[r].row.status]
  OBVIOUS
<1>7. history' = [history EXCEPT ![s] = Append(@, e)] /\ UNCHANGED <<sevs, tokens>>
  BY <1>5, <1>6 DEF AddHistory
<1>8. e \in Entry
  BY <1>2, <1>6, AloneFacts DEF Shape, HasRow, HasRead, HoldsRead, Row, Entry
<1>9. history'[s][Len(history[s]) + 1] = e /\ Len(history[s]) + 1 \in DOMAIN history'[s]
  BY <1>7, <1>8, AloneFacts
<1>10. e = [from |-> sevs[s].status, to |-> l.row.status]
  BY <1>2, <1>3, <1>5, <1>6 DEF Current
<1>11. ChangeLogged(s, l.row.status)'
  BY <1>3, <1>4, <1>7, <1>9, <1>10 DEF ChangeLogged, EntryLogged
<1> QED
  BY <1>2, <1>3, <1>4, <1>5, <1>7, <1>11
     DEF Current, Exists, MayStore, EverUnlocked, Editing

LEMMA UpdatePostmortemCurrent ==
    ASSUME AloneInv, NEW r \in Request, NEW s \in SevId, NEW token \in RequestToken,
           UpdatePostmortem(r, s, token)
    PROVE  Current(loc[r])'
<1>1. PICK l : l = [IdleLocal EXCEPT !.pc = "loadPostmortem", !.op = "edit", !.sev = s,
                                     !.read = sevs[s]]
  OBVIOUS
<1>2. l.pc = "loadPostmortem" /\ l.sev = s /\ l.op = "edit" /\ l.read = sevs[s]
  BY <1>1 DEF IdleLocal
<1>3. loc'[r] = l
  BY <1>1, GotoAt, AloneFacts DEF UpdatePostmortem
<1>4. MayStore(s) /\ UNCHANGED <<sevs, tokens>>
  BY WriteAllowed DEF UpdatePostmortem
<1> QED
  BY <1>2, <1>3, <1>4 DEF Current, MayStore, EverUnlocked, Editing

LEMMA LoadPostmortemCurrent ==
    ASSUME AloneInv, NEW r \in Request, LoadPostmortem(r)
    PROVE  Current(loc[r])'
<1>1. /\ loc[r].pc = "loadPostmortem" /\ loc[r].sev \in SevId /\ loc[r] \in Local
      /\ Current(loc[r])
  BY AloneFacts DEF LoadPostmortem, At, Shape
<1>2. PICK pm : pm = [pms[loc[r].sev] EXCEPT !.content = r]
  OBVIOUS
<1>3. PICK l : l = [loc[r] EXCEPT !.pc = "savePostmortem", !.pm = pm]
  OBVIOUS
<1>4. /\ l.pc = "savePostmortem" /\ l.sev = loc[r].sev /\ l.pm = pm
      /\ l.op = loc[r].op /\ l.read = loc[r].read
  BY <1>1, <1>3 DEF Local
<1>5. loc'[r] = l
  BY <1>2, <1>3, GotoAt, AloneFacts DEF LoadPostmortem
<1>6. pms[loc[r].sev] \in PmRow /\ pms[loc[r].sev] # Nil
  BY <1>1, AloneFacts DEF LoadPostmortem
<1>7. pm.status = pms[loc[r].sev].status
  BY <1>2, <1>6 DEF PmRow
<1>8. /\ MayStore(loc[r].sev) /\ UNCHANGED <<sevs, pms, tokens>>
      /\ loc[r].op = "edit" /\ loc[r].read.locked = sevs[loc[r].sev].locked
  BY <1>1 DEF LoadPostmortem, Current, Editing
<1> QED
  BY <1>4, <1>5, <1>6, <1>7, <1>8 DEF Current, MayStore, EverUnlocked, Editing

LEMMA TransitionPostmortemStatusCurrent ==
    ASSUME AloneInv, NEW r \in Request, NEW s \in SevId, NEW to \in PmStatus,
           TransitionPostmortemStatus(r, s, to)
    PROVE  Current(loc[r])'
<1>1. PICK pm : pm = [pms[s] EXCEPT !.status = to]
  OBVIOUS
<1>2. PICK l : l = [IdleLocal EXCEPT !.pc = "savePostmortem", !.op = "review", !.sev = s,
                                     !.pm = pm]
  OBVIOUS
<1>3. l.pc = "savePostmortem" /\ l.sev = s /\ l.pm = pm /\ l.op = "review"
  BY <1>2 DEF IdleLocal
<1>4. loc'[r] = l
  BY <1>1, <1>2, GotoAt, AloneFacts DEF TransitionPostmortemStatus
<1>5. pms[s] \in PmRow /\ pms[s] # Nil
  BY AloneFacts DEF TransitionPostmortemStatus
<1>6. pm.content = pms[s].content /\ pm.status = to
  BY <1>1, <1>5 DEF PmRow
<1>7. <<pms[s].status, to>> \in ValidPmTransitions /\ UNCHANGED pms
  BY DEF TransitionPostmortemStatus
<1> QED
  BY <1>3, <1>4, <1>5, <1>6, <1>7 DEF Current, Editing

LEMMA UnlockSEVCurrent ==
    ASSUME AloneInv, NEW r \in Request, NEW s \in SevId, UnlockSEV(r, s)
    PROVE  Current(loc[r])'
<1>1. PICK l : l = [IdleLocal EXCEPT !.pc = "signToken", !.op = "unlock", !.sev = s]
  OBVIOUS
<1>2. l.pc = "signToken" /\ l.sev = s
  BY <1>1 DEF IdleLocal
<1>3. loc'[r] = l
  BY <1>1, GotoAt, AloneFacts DEF UnlockSEV
<1>4. Exists(s) /\ sevs[s].locked /\ UNCHANGED sevs
  BY DEF UnlockSEV
<1> QED
  BY <1>2, <1>3, <1>4 DEF Current, Exists, Editing

\* Stops at which nothing need be remembered.
Free == {"idle", "announceNew", "announceSEV", "announcePostmortem"}

LEMMA FreeCurrent ==
    ASSUME AloneInv, NEW r \in Request, NEW l, Goto(r, l), l.pc \in Free
    PROVE  Current(loc[r])'
<1>1. loc'[r] = l
  BY GotoAt, AloneFacts
<1> QED
  BY <1>1 DEF Current, Free, Editing

LEMMA AuditNewCurrent ==
    ASSUME AloneInv, NEW r \in Request, AuditNew(r)
    PROVE  Current(loc[r])'
<1>1. PICK l : l = [loc[r] EXCEPT !.pc = "addPostmortem"]
  OBVIOUS
<1>2. loc[r].pc = "auditNew" /\ loc[r] \in Local /\ Current(loc[r])
  BY AloneFacts DEF AuditNew, At
<1>3. l.pc = "addPostmortem" /\ l.sev = loc[r].sev
  BY <1>1, <1>2 DEF Local
<1>4. loc'[r] = l /\ UNCHANGED <<sevs, pms>>
  BY <1>1, GotoAt, AloneFacts DEF AuditNew
<1> QED
  BY <1>2, <1>3, <1>4 DEF Current, Exists, Editing

LEMMA StoringCurrent ==
    ASSUME AloneInv, NEW r \in Request, CreatePostmortem(r) \/ SaveSEV(r) \/ SavePostmortem(r)
    PROVE  Current(loc[r])' /\ NoOrphans'
<1>1. /\ loc[r] \in Local /\ Current(loc[r]) /\ Shape(loc[r])
      /\ loc[r].pc \in {"addPostmortem", "saveSEV", "savePostmortem"}
  BY AloneFacts DEF CreatePostmortem, SaveSEV, SavePostmortem, At
<1>2. PICK s \in SevId : s = loc[r].sev
  BY <1>1 DEF Shape
<1>3. PICK pc \in Free, done \in BOOLEAN :
         Goto(r, [loc[r] EXCEPT !.pc = pc]) \/ Goto(r, [loc[r] EXCEPT !.pc = pc, !.stored = done])
  BY DEF CreatePostmortem, SaveSEV, SavePostmortem, Free
<1>4. PICK l : /\ Goto(r, l)
               /\ \/ l = [loc[r] EXCEPT !.pc = pc]
                  \/ l = [loc[r] EXCEPT !.pc = pc, !.stored = done]
  BY <1>3
<1>5. l.pc \in Free
  BY <1>1, <1>3, <1>4 DEF Local
<1>6. Current(loc[r])'
  BY <1>4, <1>5, FreeCurrent
<1>7. CASE CreatePostmortem(r)
  <2>1. Exists(s) /\ sevs' = sevs /\ \A u \in SevId : u # s => pms'[u] = pms[u]
    BY <1>1, <1>2, <1>7, AloneFacts DEF CreatePostmortem, At, Current
  <2> QED
    BY <1>6, <2>1 DEF AloneInv, NoOrphans, Exists
<1>8. CASE SaveSEV(r)
  <2>1. loc[r].row \in Row /\ loc[r].row # Nil
    BY <1>1, <1>8, NilAssumption DEF Shape, SaveSEV, At, HasRow
  <2>2. /\ sevs'[s] = loc[r].row /\ pms' = pms
        /\ \A u \in SevId : u # s => sevs'[u] = sevs[u]
    BY <1>2, <1>8, AloneFacts DEF SaveSEV
  <2> QED
    BY <1>6, <2>1, <2>2 DEF AloneInv, NoOrphans, Exists
<1>9. CASE SavePostmortem(r)
  <2>1. /\ pms[s] # Nil /\ sevs' = sevs
        /\ \A u \in SevId : u # s => pms'[u] = pms[u]
    BY <1>1, <1>2, <1>9, AloneFacts DEF SavePostmortem, At, Current
  <2> QED
    BY <1>6, <2>1 DEF AloneInv, NoOrphans, Exists
<1> QED
  BY <1>7, <1>8, <1>9

LEMMA FinishCurrent ==
    ASSUME AloneInv, NEW r \in Request, Finish(r)
    PROVE  Current(loc[r])'
<1>1. PICK l : l = IdleLocal
  OBVIOUS
<1>2. l.pc \in Free /\ Goto(r, l)
  BY <1>1 DEF IdleLocal, Free, Finish
<1> QED
  BY <1>2, FreeCurrent

\* Steps that store no SEV and no postmortem.
LEMMA StoresStay ==
    ASSUME AloneInv, UNCHANGED <<sevs, pms>>
    PROVE  NoOrphans'
BY DEF AloneInv, NoOrphans, Exists

LEMMA StepCurrent ==
    ASSUME AloneInv, NEW r \in Request, Step(r)
    PROVE  Current(loc[r])' /\ NoOrphans'
<1>1. ASSUME NEW s \in SevId, NEW draft \in Drafts, CreateSEV(r, s, draft)
      PROVE  Current(loc[r])' /\ NoOrphans'
  BY <1>1, CreateSEVCurrent
<1>2. CASE CreatePostmortem(r) \/ SaveSEV(r) \/ SavePostmortem(r)
  BY <1>2, StoringCurrent
<1>3. ASSUME NEW s \in SevId, NEW patch \in Patches, NEW token \in RequestToken,
             UpdateSEV(r, s, patch, token)
      PROVE  Current(loc[r])' /\ NoOrphans'
  BY <1>3, UpdateSEVCurrent, StoresStay DEF UpdateSEV
<1>4. ASSUME NEW s \in SevId, NEW to \in Targets, NEW stamp \in Stamps,
             NEW token \in RequestToken, TransitionStatus(r, s, to, stamp, token)
      PROVE  Current(loc[r])' /\ NoOrphans'
  BY <1>4, TransitionStatusCurrent, StoresStay DEF TransitionStatus
<1>5. ASSUME NEW s \in SevId, NEW token \in RequestToken, UpdatePostmortem(r, s, token)
      PROVE  Current(loc[r])' /\ NoOrphans'
  BY <1>5, UpdatePostmortemCurrent, StoresStay DEF UpdatePostmortem
<1>6. ASSUME NEW s \in SevId, NEW to \in PmStatus, TransitionPostmortemStatus(r, s, to)
      PROVE  Current(loc[r])' /\ NoOrphans'
  BY <1>6, TransitionPostmortemStatusCurrent, StoresStay DEF TransitionPostmortemStatus
<1>7. ASSUME NEW s \in SevId, UnlockSEV(r, s)
      PROVE  Current(loc[r])' /\ NoOrphans'
  BY <1>7, UnlockSEVCurrent, StoresStay DEF UnlockSEV
<1>8. ASSUME Finish(r), UNCHANGED <<sevs, pms>>
      PROVE  Current(loc[r])' /\ NoOrphans'
  BY <1>8, FinishCurrent, StoresStay
<1>9. CASE AuditNew(r)
  BY <1>9, AuditNewCurrent, StoresStay DEF AuditNew
<1>10. CASE AddHistory(r)
  BY <1>10, AddHistoryCurrent, StoresStay DEF AddHistory
<1>11. CASE LoadPostmortem(r)
  BY <1>11, LoadPostmortemCurrent, StoresStay DEF LoadPostmortem
<1>12. ASSUME \/ AnnounceNew(r) \/ AnnounceSEV(r) \/ Abort(r)
              \/ \E found \in BOOLEAN : AnnouncePostmortem(r, found)
              \/ \E logged \in BOOLEAN : SignToken(r, logged)
       PROVE  Finish(r) /\ UNCHANGED <<sevs, pms>>
  BY <1>12 DEF AnnounceNew, AnnounceSEV, Abort, AnnouncePostmortem, SignToken
<1> QED
  BY <1>1, <1>2, <1>3, <1>4, <1>5, <1>6, <1>7, <1>8, <1>9, <1>10, <1>11, <1>12 DEF Step

LEMMA AloneInit == Init => AloneInv
<1> SUFFICES ASSUME Init PROVE AloneInv
  OBVIOUS
<1>1. SoundInv
  BY InitSoundInv
<1>2. NoOrphans
  BY DEF Init, NoOrphans
<1>3. \A r \in Request : Current(loc[r])
  BY DEF Init, Current, IdleLocal, Editing
<1> QED
  BY <1>1, <1>2, <1>3 DEF AloneInv

LEMMA AloneNext == AloneInv /\ OnePerSEV /\ OnePerSEV' /\ [Next]_vars => AloneInv'
<1> SUFFICES ASSUME AloneInv, OnePerSEV, OnePerSEV', [Next]_vars PROVE AloneInv'
  OBVIOUS
<1>1. ASSUME NEW r \in Request, Step(r) PROVE AloneInv'
  BY <1>1, StepCurrent, OthersCurrent
<1>2. ASSUME Tick \/ UNCHANGED vars PROVE AloneInv'
  <2>1. SoundInv'
    BY NextSoundInv DEF AloneInv
  <2>2. UNCHANGED <<sevs, pms, history, tokens, loc>>
    BY <1>2 DEF Tick, vars
  <2>3. ASSUME NEW r \in Request PROVE Current(loc[r])'
    <3>1. PICK l : l = loc[r]
      OBVIOUS
    <3>2. loc'[r] = l /\ Current(l)
      BY <2>2, <3>1 DEF AloneInv
    <3>3. MayStore(l.sev)' <=> MayStore(l.sev)
      BY <2>2 DEF MayStore, EverUnlocked
    <3>4. ChangeLogged(l.sev, l.row.status)' <=> ChangeLogged(l.sev, l.row.status)
      BY <2>2 DEF ChangeLogged, EntryLogged
    <3> QED
      BY <2>2, <3>2, <3>3, <3>4 DEF Current, Exists, Editing
  <2> QED
    BY <2>1, <2>2, <2>3, StoresStay DEF AloneInv
<1> QED
  BY <1>1, <1>2 DEF Next

-------------------------------------------------------------------------------
(***************************************************************************)
(* The writes, as steps of the contract.                                   *)
(***************************************************************************)

LEMMA StageOf ==
    ASSUME AloneInv, NEW s \in SevId
    PROVE  /\ Stage[s] # Nil <=> Exists(s)
           /\ Exists(s) => Stage[s] = sevs[s].status /\ sevs[s] \in Row
           /\ Contract!Locked(s) <=> Exists(s) /\ sevs[s].locked
<1>1. Exists(s) => sevs[s] \in Row /\ sevs[s].status \in Status /\ sevs[s].status # Nil
  BY AloneFacts, NilAssumption DEF Exists, AloneInv, SoundInv, TypeInv, TypeOK, Row
<1>2. Stage[s] = IF Exists(s) THEN sevs[s].status ELSE Nil
  BY DEF Stage
<1>3. Exists(s) => (sevs[s].locked <=> sevs[s].status = "postmortem_complete")
  BY DEF AloneInv, SoundInv, StoredSound, RowSound
<1>4. Nil # "postmortem_complete"
  BY NilAssumption DEF Status
<1>5. Contract!Locked(s) <=> Exists(s) /\ sevs[s].locked
  BY <1>2, <1>3, <1>4 DEF Contract!Locked
<1> QED
  BY <1>1, <1>2, <1>5

\* Who is at work on a SEV he read under the lock.
InSession(l) == Editing(l) /\ l.read.locked

\* A handler that is to store what it made of a SEV has a session, if the SEV is locked.
LEMMA EditingWritable ==
    ASSUME AloneInv, NEW r \in Request, NEW s \in SevId, loc[r].sev = s, Editing(loc[r])
    PROVE  Contract!Writable(s)
<1>1. loc[r].read.locked = sevs[s].locked
  BY AloneFacts DEF Current
<1> QED
  BY <1>1, StageOf DEF Contract!Writable, Sessions

\* What a handler's step does to the sessions.
LEMMA SessionsStay ==
    ASSUME TypeInv, NEW r \in Request, Step(r),
           loc'[r].sev = loc[r].sev \/ ~InSession(loc[r]),
           InSession(loc[r])' <=> InSession(loc[r])
    PROVE  Sessions' = Sessions
BY StepKeepsOthers DEF Sessions, InSession, Editing

LEMMA SessionBegins ==
    ASSUME TypeInv, NEW r \in Request, Step(r), NEW s \in SevId, loc'[r].sev = s,
           InSession(loc[r])', ~InSession(loc[r])
    PROVE  Sessions' = Sessions \union {s}
BY StepKeepsOthers DEF Sessions, InSession, Editing

LEMMA SessionEnds ==
    ASSUME TypeInv, OnePerSEV, NEW r \in Request, Step(r), NEW s \in SevId, loc[r].sev = s,
           ~Idle(r), ~InSession(loc[r])'
    PROVE  Sessions' = Sessions \ {s}
<1>1. \A q \in Request : q # r => loc'[q] = loc[q]
  BY StepKeepsOthers
<1>2. \A q \in Request : q # r /\ loc[q].sev = s => ~InSession(loc[q])
  BY DEF OnePerSEV, Idle, InSession, Editing
<1> QED
  BY <1>1, <1>2 DEF Sessions, InSession, Editing

\* The steps after which a handler is not at work on a SEV it read under the lock.
LEMMA WorkEnds ==
    ASSUME TypeInv, NEW r \in Request,
           \/ \E s \in SevId, draft \in Drafts : CreateSEV(r, s, draft)
           \/ \E s \in SevId, to \in PmStatus : TransitionPostmortemStatus(r, s, to)
           \/ \E s \in SevId : UnlockSEV(r, s)
           \/ \E logged \in BOOLEAN : SignToken(r, logged)
           \/ \E found \in BOOLEAN : AnnouncePostmortem(r, found)
           \/ AuditNew(r) \/ CreatePostmortem(r) \/ AnnounceNew(r) \/ SaveSEV(r)
           \/ AnnounceSEV(r) \/ SavePostmortem(r) \/ Abort(r)
    PROVE  ~InSession(loc[r])'
<1>1. ASSUME NEW l, Goto(r, l), ~Editing(l) PROVE ~InSession(loc[r])'
  <2>1. loc'[r] = l
    BY <1>1, GotoAt
  <2> QED
    BY <1>1, <2>1 DEF InSession, Editing
<1>2. ASSUME NEW s \in SevId, NEW draft \in Drafts, CreateSEV(r, s, draft)
      PROVE  ~InSession(loc[r])'
  <2>1. PICK row : row = NewSEV(draft)
    OBVIOUS
  <2>2. PICK l : l = [IdleLocal EXCEPT !.pc = "auditNew", !.op = "create", !.sev = s,
                                       !.row = row]
    OBVIOUS
  <2>3. ~Editing(l)
    BY <2>2 DEF IdleLocal, Editing
  <2> QED
    BY <1>1, <1>2, <2>1, <2>2, <2>3 DEF CreateSEV
<1>3. ASSUME NEW s \in SevId, NEW to \in PmStatus, TransitionPostmortemStatus(r, s, to)
      PROVE  ~InSession(loc[r])'
  <2>1. PICK pm : pm = [pms[s] EXCEPT !.status = to]
    OBVIOUS
  <2>2. PICK l : l = [IdleLocal EXCEPT !.pc = "savePostmortem", !.op = "review", !.sev = s,
                                       !.pm = pm]
    OBVIOUS
  <2>3. ~Editing(l)
    BY <2>2 DEF IdleLocal, Editing
  <2> QED
    BY <1>1, <1>3, <2>1, <2>2, <2>3 DEF TransitionPostmortemStatus
<1>4. ASSUME NEW s \in SevId, UnlockSEV(r, s) PROVE ~InSession(loc[r])'
  <2>1. PICK l : l = [IdleLocal EXCEPT !.pc = "signToken", !.op = "unlock", !.sev = s]
    OBVIOUS
  <2>2. ~Editing(l)
    BY <2>1 DEF IdleLocal, Editing
  <2> QED
    BY <1>1, <1>4, <2>1, <2>2 DEF UnlockSEV
<1>5. ASSUME AuditNew(r) \/ CreatePostmortem(r) \/ SavePostmortem(r)
      PROVE  ~InSession(loc[r])'
  <2>1. PICK pc \in {"addPostmortem", "announceNew", "announcePostmortem"} :
           Goto(r, [loc[r] EXCEPT !.pc = pc])
    BY <1>5 DEF AuditNew, CreatePostmortem, SavePostmortem
  <2>2. [loc[r] EXCEPT !.pc = pc].pc = pc
    BY LocalFacts DEF Local
  <2>3. ~Editing([loc[r] EXCEPT !.pc = pc])
    BY <2>2 DEF Editing
  <2> QED
    BY <1>1, <2>1, <2>3
<1>6. ASSUME SaveSEV(r) PROVE ~InSession(loc[r])'
  <2>1. PICK l : l = [loc[r] EXCEPT !.pc = "announceSEV", !.stored = TRUE]
    OBVIOUS
  <2>2. l.pc = "announceSEV"
    BY <2>1, LocalFacts DEF Local
  <2> QED
    BY <1>1, <1>6, <2>1, <2>2 DEF SaveSEV, Editing
<1>7. ASSUME Finish(r) PROVE ~InSession(loc[r])'
  <2>1. ~Editing(IdleLocal)
    BY DEF IdleLocal, Editing
  <2> QED
    BY <1>1, <1>7, <2>1 DEF Finish
<1> QED
  BY <1>2, <1>3, <1>4, <1>5, <1>6, <1>7
     DEF SignToken, AnnouncePostmortem, AnnounceNew, AnnounceSEV, Abort

\* The steps that leave the stores and the keys alone, and the contract's variables but the
\* sessions.
Quiet == UNCHANGED <<sevs, pms, tokens, now>>

LEMMA QuietStays ==
    ASSUME Quiet
    PROVE  UNCHANGED <<Stage, Fields, Doc, Text, tokens, now>>
BY DEF Quiet, Stage, Fields, Doc, Text, Exists

\* A request that passes the lock check begins a session, if the SEV is locked.
LEMMA BeginStep ==
    ASSUME AloneInv, NEW r \in Request, Step(r), Idle(r), Quiet,
           NEW s \in SevId, NEW token \in RequestToken, MayWrite(sevs[s], token, s),
           Exists(s), loc'[r].sev = s, loc'[r].read = sevs[s]
    PROVE  Contract!Begin(s) \/ UNCHANGED Contract!vars
<1>1. TypeInv /\ ~InSession(loc[r])
  BY AloneFacts DEF Idle, InSession, Editing
<1>2. CASE InSession(loc[r])'
  <2>1. sevs[s].locked /\ ValidUnlock(token, s)
    BY <1>2 DEF InSession, MayWrite
  <2>2. token \in tokens /\ token.sev = s /\ now < token.exp
    BY <2>1, NilAssumption DEF ValidUnlock, RequestToken
  <2>3. Sessions' = Sessions \union {s}
    BY <1>1, <1>2, SessionBegins
  <2> QED
    BY <2>1, <2>2, <2>3, QuietStays, StageOf DEF Contract!Begin
<1>3. CASE ~InSession(loc[r])'
  BY <1>1, <1>3, SessionsStay, QuietStays DEF Contract!vars
<1> QED
  BY <1>2, <1>3

LEMMA CheckedStep ==
    ASSUME AloneInv, NEW r \in Request, Step(r),
           \/ \E s \in SevId, patch \in Patches, token \in RequestToken :
                 UpdateSEV(r, s, patch, token)
           \/ \E s \in SevId, to \in Targets, stamp \in Stamps, token \in RequestToken :
                 TransitionStatus(r, s, to, stamp, token)
           \/ \E s \in SevId, token \in RequestToken : UpdatePostmortem(r, s, token)
    PROVE  (\E s \in SevId : Contract!Begin(s)) \/ UNCHANGED Contract!vars
<1>1. ASSUME NEW s \in SevId, NEW patch \in Patches, NEW token \in RequestToken,
             UpdateSEV(r, s, patch, token)
      PROVE  Contract!Begin(s) \/ UNCHANGED Contract!vars
  <2>1. PICK row : row = ComputeMetrics(ApplySEVUpdate(sevs[s], patch))
    OBVIOUS
  <2>2. PICK l : l = [IdleLocal EXCEPT !.pc = "saveSEV", !.op = "update", !.sev = s,
                                       !.read = sevs[s], !.row = row]
    OBVIOUS
  <2>3. loc'[r] = l /\ l.sev = s /\ l.read = sevs[s]
    BY <1>1, <2>1, <2>2, GotoAt, AloneFacts DEF UpdateSEV, IdleLocal
  <2> QED
    BY <1>1, <2>3, BeginStep DEF UpdateSEV, Quiet
<1>2. ASSUME NEW s \in SevId, NEW to \in Targets, NEW stamp \in Stamps,
             NEW token \in RequestToken, TransitionStatus(r, s, to, stamp, token)
      PROVE  Contract!Begin(s) \/ UNCHANGED Contract!vars
  <2>1. PICK row : row = ComputeMetrics(ApplyTransition(sevs[s], to, stamp, now))
    OBVIOUS
  <2>2. PICK l : l = [IdleLocal EXCEPT !.pc = "addHistory", !.op = "transition", !.sev = s,
                                       !.read = sevs[s], !.row = row]
    OBVIOUS
  <2>3. loc'[r] = l /\ l.sev = s /\ l.read = sevs[s]
    BY <1>2, <2>1, <2>2, GotoAt, AloneFacts DEF TransitionStatus, IdleLocal
  <2> QED
    BY <1>2, <2>3, BeginStep DEF TransitionStatus, Quiet
<1>3. ASSUME NEW s \in SevId, NEW token \in RequestToken, UpdatePostmortem(r, s, token)
      PROVE  Contract!Begin(s) \/ UNCHANGED Contract!vars
  <2>1. PICK l : l = [IdleLocal EXCEPT !.pc = "loadPostmortem", !.op = "edit", !.sev = s,
                                       !.read = sevs[s]]
    OBVIOUS
  <2>2. loc'[r] = l /\ l.sev = s /\ l.read = sevs[s]
    BY <1>3, <2>1, GotoAt, AloneFacts DEF UpdatePostmortem, IdleLocal
  <2> QED
    BY <1>3, <2>2, BeginStep DEF UpdatePostmortem, Quiet
<1> QED
  BY <1>1, <1>2, <1>3

\* Between the check and the store a session goes on.
LEMMA WorkStep ==
    ASSUME AloneInv, NEW r \in Request, Step(r), AddHistory(r) \/ LoadPostmortem(r)
    PROVE  UNCHANGED Contract!vars
<1>1. /\ loc[r] \in Local /\ TypeInv /\ Current(loc[r])
      /\ Editing(loc[r]) /\ (LoadPostmortem(r) => loc[r].op = "edit")
  BY AloneFacts DEF AddHistory, LoadPostmortem, At, Editing, Current
<1>2. /\ loc'[r].sev = loc[r].sev /\ loc'[r].read = loc[r].read
      /\ Editing(loc[r])'
  <2>1. CASE AddHistory(r)
    <3>1. PICK n : n = Len(history[loc[r].sev]) + 1
      OBVIOUS
    <3>2. PICK l : l = [loc[r] EXCEPT !.pc = "saveSEV", !.entry = n]
      OBVIOUS
    <3>3. loc'[r] = l
      BY <1>1, <2>1, <3>1, <3>2, GotoAt DEF AddHistory
    <3> QED
      BY <1>1, <3>2, <3>3 DEF Local, Editing
  <2>2. CASE LoadPostmortem(r)
    <3>1. PICK pm : pm = [pms[loc[r].sev] EXCEPT !.content = r]
      OBVIOUS
    <3>2. PICK l : l = [loc[r] EXCEPT !.pc = "savePostmortem", !.pm = pm]
      OBVIOUS
    <3>3. loc'[r] = l
      BY <1>1, <2>2, <3>1, <3>2, GotoAt DEF LoadPostmortem
    <3> QED
      BY <1>1, <2>2, <3>2, <3>3 DEF Local, Editing
  <2> QED
    BY <2>1, <2>2
<1>3. Sessions' = Sessions
  BY <1>1, <1>2, SessionsStay DEF InSession
<1> QED
  BY <1>3, QuietStays DEF AddHistory, LoadPostmortem, Quiet, Contract!vars

\* A handler that stops, or has only calls to make, ends its session or has none.
LEMMA EndStep ==
    ASSUME AloneInv, OnePerSEV, NEW r \in Request, Step(r), Quiet, ~InSession(loc[r])'
    PROVE  (\E s \in SevId : Contract!GiveUp(s)) \/ UNCHANGED Contract!vars
<1>1. CASE InSession(loc[r])
  <2>1. ~Idle(r) /\ loc[r].sev \in SevId
    BY <1>1, AloneFacts DEF InSession, Editing, Idle, Shape
  <2>2. PICK s \in SevId : s = loc[r].sev
    BY <2>1
  <2>3. Sessions' = Sessions \ {s}
    BY <2>1, <2>2, SessionEnds, AloneFacts
  <2> QED
    BY <2>3, QuietStays DEF Contract!GiveUp, Contract!Relock
<1>2. CASE ~InSession(loc[r])
  BY <1>2, SessionsStay, QuietStays, AloneFacts DEF Contract!vars
<1> QED
  BY <1>1, <1>2

LEMMA FileStep ==
    ASSUME AloneInv, NEW r \in Request, NEW s \in SevId, NEW draft \in Drafts,
           CreateSEV(r, s, draft), Step(r)
    PROVE  Contract!File(s)
<1>1. NewSEV(draft) \in Row /\ NewSEV(draft) # Nil /\ NewSEV(draft).status = "open"
  BY NewSEVType, ConstantsAssumption, NilAssumption
<1>2. /\ sevs' = [sevs EXCEPT ![s] = NewSEV(draft)] /\ ~Exists(s)
      /\ UNCHANGED <<pms, tokens, now>>
  BY DEF CreateSEV
<1>3. sevs \in [SevId -> Row \union {Nil}]
  BY DEF AloneInv, SoundInv, TypeInv, TypeOK
<1>4. Stage[s] = Nil /\ Stage' = [Stage EXCEPT ![s] = "open"]
  BY <1>1, <1>2, <1>3 DEF Stage, Exists
<1>5. \A t \in SevId \ {s} : Fields'[t] = Fields[t]
  BY <1>2, <1>3 DEF Fields, Exists
<1>6. UNCHANGED <<Doc, Text>>
  BY <1>2 DEF Doc, Text
<1>7. Sessions' = Sessions
  <2>1. ~InSession(loc[r]) /\ ~InSession(loc[r])'
    BY WorkEnds, AloneFacts DEF CreateSEV, Idle, InSession, Editing
  <2> QED
    BY <2>1, SessionsStay, AloneFacts
<1> QED
  BY <1>2, <1>4, <1>5, <1>6, <1>7 DEF Contract!File, Contract!Only

LEMMA StartDocStep ==
    ASSUME AloneInv, NEW r \in Request, CreatePostmortem(r), Step(r)
    PROVE  Contract!StartDoc(loc[r].sev)
<1>1. loc[r].sev \in SevId /\ Current(loc[r]) /\ loc[r].pc = "addPostmortem"
  BY AloneFacts DEF CreatePostmortem, At, Shape
<1>2. PICK s \in SevId : s = loc[r].sev
  BY <1>1
<1>3. PICK pm : pm = [status |-> "draft", content |-> Nil]
  OBVIOUS
<1>4. pm.status = "draft" /\ pm.content = Nil /\ pm # Nil
  <2>1. pm \in PmRow
    BY <1>3 DEF PmRow, PmStatus
  <2> QED
    BY <1>3, <2>1, ConstantsAssumption
<1>5. pms' = [pms EXCEPT ![s] = pm] /\ UNCHANGED <<sevs, tokens, now>>
  BY <1>2, <1>3 DEF CreatePostmortem
<1>6. pms[s] = Nil /\ Exists(s) /\ ~sevs[s].locked
  BY <1>1, <1>2 DEF Current
<1>7. pms \in [SevId -> PmRow \union {Nil}]
  BY DEF AloneInv, SoundInv, TypeInv, TypeOK
<1>8. Stage[s] # Nil /\ Doc[s] = Nil /\ ~Contract!Locked(s)
  BY <1>6, StageOf DEF Doc
<1>9. Doc' = [Doc EXCEPT ![s] = "draft"] /\ Text' = Text
  BY <1>4, <1>5, <1>6, <1>7 DEF Doc, Text
<1>10. UNCHANGED <<Stage, Fields>>
  BY <1>5 DEF Stage, Fields, Exists
<1>11. Sessions' = Sessions
  <2>1. ~InSession(loc[r]) /\ ~InSession(loc[r])'
    BY <1>1, WorkEnds, AloneFacts DEF InSession, Editing
  <2> QED
    BY <2>1, SessionsStay, AloneFacts
<1> QED
  BY <1>2, <1>5, <1>8, <1>9, <1>10, <1>11 DEF Contract!StartDoc

\* The row a handler stores has the status that is stored, or one it may move to; the save
\* ends the handler's session.
LEMMA SaveStep ==
    ASSUME AloneInv, OnePerSEV, NEW r \in Request, SaveSEV(r), Step(r)
    PROVE  Contract!Revise(loc[r].sev) \/ Contract!Move(loc[r].sev, loc[r].row.status)
<1>1. /\ loc[r].sev \in SevId /\ loc[r].row \in Row /\ Current(loc[r])
      /\ loc[r].pc = "saveSEV"
  BY AloneFacts DEF SaveSEV, At, Shape, HasRow
<1>2. PICK s \in SevId : s = loc[r].sev
  BY <1>1
<1>3. PICK row \in Row : row = loc[r].row
  BY <1>1
<1>4. sevs' = [sevs EXCEPT ![s] = row] /\ UNCHANGED <<pms, tokens, now>>
  BY <1>2, <1>3 DEF SaveSEV
<1>5. /\ Exists(s)
      /\ row.status = sevs[s].status \/ <<sevs[s].status, row.status>> \in ValidTransitions
  BY <1>1, <1>2, <1>3 DEF Current
<1>6. Stage[s] = sevs[s].status /\ Stage[s] # Nil /\ Contract!Writable(s)
  BY <1>1, <1>2, <1>5, StageOf, EditingWritable DEF Editing
<1>7. row # Nil /\ sevs \in [SevId -> Row \union {Nil}]
  BY NilAssumption DEF AloneInv, SoundInv, TypeInv, TypeOK
<1>8. Stage' = [Stage EXCEPT ![s] = row.status]
  BY <1>4, <1>7 DEF Stage, Exists
<1>9. \A t \in SevId \ {s} : Fields'[t] = Fields[t]
  BY <1>4, <1>7 DEF Fields, Exists
<1>10. UNCHANGED <<Doc, Text>>
  BY <1>4 DEF Doc, Text
<1>11. Sessions' = Sessions \ {s}
  BY <1>1, <1>2, WorkEnds, SessionEnds, AloneFacts DEF Idle
<1>12. CASE row.status = sevs[s].status
  <2>1. Stage' = Stage
    BY <1>6, <1>8, <1>12 DEF Stage
  <2> QED
    BY <1>2, <1>4, <1>6, <1>9, <1>10, <1>11, <2>1
       DEF Contract!Revise, Contract!Only, Contract!Relock
<1>13. CASE <<sevs[s].status, row.status>> \in ValidTransitions
  BY <1>2, <1>3, <1>4, <1>6, <1>8, <1>9, <1>10, <1>11, <1>13
     DEF Contract!Move, Contract!Only, Contract!Relock
<1> QED
  BY <1>5, <1>12, <1>13

\* An edit stores the document in its session; a review needs none, and the postmortem of a
\* locked SEV moves all the same.
LEMMA SavePostmortemStep ==
    ASSUME AloneInv, OnePerSEV, NEW r \in Request, SavePostmortem(r), Step(r)
    PROVE  \/ Contract!WriteDoc(loc[r].sev)
           \/ Contract!MoveDoc(loc[r].sev, loc[r].pm.status)
           \/ Contract!ReviewLocked(loc[r].sev, loc[r].pm.status)
<1>1. /\ loc[r].sev \in SevId /\ loc[r].pm \in PmRow /\ Current(loc[r])
      /\ loc[r].pc = "savePostmortem" /\ TypeInv
  BY AloneFacts DEF SavePostmortem, At, Shape, HasPm
<1>2. PICK s \in SevId : s = loc[r].sev
  BY <1>1
<1>3. PICK pm \in PmRow : pm = loc[r].pm
  BY <1>1
<1>4. pms' = [pms EXCEPT ![s] = pm] /\ UNCHANGED <<sevs, tokens, now>>
  BY <1>2, <1>3 DEF SavePostmortem
<1>5. /\ pms[s] # Nil
      /\ \/ loc[r].op = "edit" /\ pm.status = pms[s].status
         \/ /\ loc[r].op = "review" /\ pm.content = pms[s].content
            /\ <<pms[s].status, pm.status>> \in ValidPmTransitions
  BY <1>1, <1>2, <1>3 DEF Current
<1>6. pm # Nil /\ pms \in [SevId -> PmRow \union {Nil}]
  BY ConstantsAssumption DEF AloneInv, SoundInv, TypeInv, TypeOK
<1>7. /\ Doc' = [Doc EXCEPT ![s] = pm.status]
      /\ Text' = [Text EXCEPT ![s] = pm.content]
  BY <1>4, <1>6 DEF Doc, Text
<1>8. Doc[s] = pms[s].status /\ Text[s] = pms[s].content
  BY <1>5 DEF Doc, Text
<1>9. UNCHANGED <<Stage, Fields>>
  BY <1>4 DEF Stage, Fields, Exists
<1>10. Doc[s] # Nil
  BY <1>5, <1>6, <1>8, NilAssumption DEF PmRow
<1>11. ~InSession(loc[r])' /\ ~Idle(r)
  BY <1>1, WorkEnds DEF Idle
<1>12. CASE loc[r].op = "edit" /\ pm.status = pms[s].status
  <2>1. Doc' = Doc
    BY <1>7, <1>8, <1>12 DEF Doc
  <2>2. \A t \in SevId \ {s} : Text'[t] = Text[t]
    BY <1>7 DEF Text
  <2>3. Contract!Writable(s)
    BY <1>1, <1>2, <1>12, EditingWritable DEF Editing
  <2>4. Sessions' = Sessions \ {s}
    BY <1>1, <1>2, <1>11, SessionEnds
  <2> QED
    BY <1>2, <1>4, <1>9, <1>10, <2>1, <2>2, <2>3, <2>4
       DEF Contract!WriteDoc, Contract!Relock
<1>13. CASE loc[r].op = "review" /\ pm.content = pms[s].content
            /\ <<pms[s].status, pm.status>> \in ValidPmTransitions
  <2>1. Text' = Text
    BY <1>7, <1>8, <1>13 DEF Text
  <2>2. CASE Contract!Locked(s)
    <3>1. ~InSession(loc[r])
      BY <1>1, <1>13 DEF InSession, Editing
    <3>2. Sessions' = Sessions
      BY <1>1, <1>11, <3>1, SessionsStay
    <3> QED
      BY <1>2, <1>3, <1>4, <1>7, <1>8, <1>9, <1>13, <2>1, <2>2, <3>2
         DEF Contract!ReviewLocked
  <2>3. CASE ~Contract!Locked(s)
    <3>1. Sessions' = Sessions \ {s}
      BY <1>1, <1>2, <1>11, SessionEnds
    <3> QED
      BY <1>2, <1>3, <1>4, <1>7, <1>8, <1>9, <1>13, <2>1, <2>3, <3>1
         DEF Contract!MoveDoc, Contract!Writable, Contract!Relock
  <2> QED
    BY <2>2, <2>3
<1> QED
  BY <1>5, <1>12, <1>13

LEMMA UnlockStep ==
    ASSUME AloneInv, NEW r \in Request, NEW logged \in BOOLEAN, SignToken(r, logged), Step(r)
    PROVE  Contract!Unlock(loc[r].sev)
<1>1. /\ loc[r].sev \in SevId /\ Exists(loc[r].sev) /\ sevs[loc[r].sev].locked
      /\ loc[r].pc = "signToken" /\ TypeInv
  BY AloneFacts DEF SignToken, At, Shape, Current
<1>2. Contract!Locked(loc[r].sev)
  BY <1>1, StageOf
<1>3. /\ tokens' = tokens \union {[sev |-> loc[r].sev, exp |-> now + TokenTTL]}
      /\ UNCHANGED <<sevs, pms, now>>
  BY DEF SignToken
<1>4. UNCHANGED <<Stage, Fields, Doc, Text>>
  BY <1>3 DEF Stage, Fields, Doc, Text, Exists
<1>5. Sessions' = Sessions
  <2>1. ~InSession(loc[r]) /\ ~InSession(loc[r])'
    BY <1>1, WorkEnds DEF InSession, Editing
  <2> QED
    BY <1>1, <2>1, SessionsStay
<1> QED
  BY <1>2, <1>3, <1>4, <1>5 DEF Contract!Unlock

LEMMA ClockStep == ASSUME Tick PROVE Contract!Tick
<1>1. UNCHANGED <<sevs, pms, tokens, loc>> /\ now' = now + 1
  BY DEF Tick
<1>2. UNCHANGED <<Stage, Fields, Doc, Text, Sessions>>
  BY <1>1 DEF Stage, Fields, Doc, Text, Exists, Sessions, Editing
<1> QED
  BY <1>1, <1>2 DEF Contract!Tick

LEMMA ContractInit == Init => Contract!Init
<1> SUFFICES ASSUME Init PROVE Contract!Init
  OBVIOUS
<1>1. /\ \A s \in SevId : sevs[s] = Nil /\ pms[s] = Nil
      /\ tokens = {} /\ now = 0
  BY DEF Init
<1>2. \A r \in Request : loc[r].pc = "idle"
  BY DEF Init, IdleLocal
<1>3. Sessions = {}
  BY <1>2 DEF Sessions, Editing
<1> QED
  BY <1>1, <1>3 DEF Contract!Init, Stage, Fields, Doc, Text, Exists

\* What the contract allows, and the one thing the code does beyond it.
Allowed == \/ Contract!Next
           \/ \E s \in SevId, to \in PmStatus : Contract!ReviewLocked(s, to)

LEMMA ContractNext ==
    AloneInv /\ OnePerSEV /\ [Next]_vars => [Allowed]_(Contract!vars)
<1> SUFFICES ASSUME AloneInv, OnePerSEV, [Next]_vars
             PROVE  Allowed \/ UNCHANGED Contract!vars
  OBVIOUS
<1>1. ASSUME NEW r \in Request, NEW s \in SevId, NEW draft \in Drafts,
             CreateSEV(r, s, draft), Step(r)
      PROVE  Allowed
  BY <1>1, FileStep DEF Allowed, Contract!Next
<1>2. ASSUME NEW r \in Request, CreatePostmortem(r), Step(r) PROVE Allowed
  BY <1>2, StartDocStep, AloneFacts DEF Allowed, Contract!Next, CreatePostmortem, At, Shape
<1>3. ASSUME NEW r \in Request, SaveSEV(r), Step(r) PROVE Allowed
  <2>1. loc[r].sev \in SevId /\ loc[r].row.status \in Status
    BY <1>3, AloneFacts DEF SaveSEV, At, Shape, HasRow, Row
  <2> QED
    BY <1>3, <2>1, SaveStep DEF Allowed, Contract!Next
<1>4. ASSUME NEW r \in Request, SavePostmortem(r), Step(r) PROVE Allowed
  <2>1. loc[r].sev \in SevId /\ loc[r].pm.status \in PmStatus
    BY <1>4, AloneFacts DEF SavePostmortem, At, Shape, HasPm, PmRow
  <2> QED
    BY <1>4, <2>1, SavePostmortemStep DEF Allowed, Contract!Next
<1>5. ASSUME NEW r \in Request, NEW logged \in BOOLEAN, SignToken(r, logged), Step(r)
      PROVE  Allowed
  BY <1>5, UnlockStep, AloneFacts DEF Allowed, Contract!Next, SignToken, At, Shape
<1>6. ASSUME NEW r \in Request, Step(r),
             \/ \E s \in SevId, patch \in Patches, token \in RequestToken :
                   UpdateSEV(r, s, patch, token)
             \/ \E s \in SevId, to \in Targets, stamp \in Stamps, token \in RequestToken :
                   TransitionStatus(r, s, to, stamp, token)
             \/ \E s \in SevId, token \in RequestToken : UpdatePostmortem(r, s, token)
      PROVE  Allowed \/ UNCHANGED Contract!vars
  BY <1>6, CheckedStep DEF Allowed, Contract!Next
<1>7. ASSUME NEW r \in Request, Step(r), AddHistory(r) \/ LoadPostmortem(r)
      PROVE  UNCHANGED Contract!vars
  BY <1>7, WorkStep
<1>8. ASSUME NEW r \in Request, Step(r),
             \/ \E s \in SevId, to \in PmStatus : TransitionPostmortemStatus(r, s, to)
             \/ \E s \in SevId : UnlockSEV(r, s)
             \/ \E found \in BOOLEAN : AnnouncePostmortem(r, found)
             \/ AuditNew(r) \/ AnnounceNew(r) \/ AnnounceSEV(r) \/ Abort(r)
      PROVE  Allowed \/ UNCHANGED Contract!vars
  <2>1. Quiet
    BY <1>8 DEF TransitionPostmortemStatus, UnlockSEV, AnnouncePostmortem, AuditNew,
                AnnounceNew, AnnounceSEV, Abort, Quiet
  <2>2. ~InSession(loc[r])'
    BY <1>8, WorkEnds, AloneFacts
  <2> QED
    BY <1>8, <2>1, <2>2, EndStep DEF Allowed, Contract!Next
<1>9. ASSUME Tick PROVE Allowed
  BY <1>9, ClockStep DEF Allowed, Contract!Next
<1>10. ASSUME UNCHANGED vars PROVE UNCHANGED Contract!vars
  BY <1>10 DEF vars, Contract!vars, Stage, Fields, Doc, Text, Exists, Sessions, Editing
<1>11. ASSUME NEW r \in Request, Step(r) PROVE Allowed \/ UNCHANGED Contract!vars
  BY <1>1, <1>2, <1>3, <1>4, <1>5, <1>6, <1>7, <1>8, <1>11 DEF Step
<1> QED
  BY <1>9, <1>10, <1>11 DEF Next

\* As long as no two handlers are at work on one SEV at once, whatever the handlers of other
\* SEVs do meanwhile and wherever each of them stops, the stored SEVs and postmortems
\* implement the documented contract, but for the reviews that read no lock.
THEOREM ContractKept == Spec /\ []OnePerSEV => KeepsContract
<1>1. AloneInv /\ OnePerSEV /\ [Next]_vars =>
        [\/ Contract!Next
         \/ \E s \in SevId, to \in PmStatus : Contract!ReviewLocked(s, to)]_(Contract!vars)
  BY ContractNext DEF Allowed
<1> QED
  BY <1>1, ContractInit, AloneInit, AloneNext, PTL
     DEF Spec, KeepsContract, Contract!SpecButReviews

\* As long as no two handlers are at work on one SEV at once, every change of a stored
\* status is in the log: an entry goes missing only when handlers of one SEV interleave.
THEOREM ChangesRecordedAlone == Spec /\ []OnePerSEV => StatusChangesRecorded
<1>1. AloneInv /\ [Next]_vars =>
        [\A s \in SevId : Exists(s) /\ sevs'[s].status # sevs[s].status =>
            ChangeLogged(s, sevs'[s].status)]_vars
  <2> SUFFICES ASSUME AloneInv, Next, NEW s \in SevId, Exists(s),
                      sevs'[s].status # sevs[s].status
               PROVE  ChangeLogged(s, sevs'[s].status)
    OBVIOUS
  <2>1. PICK r \in Request : /\ loc[r].pc = "saveSEV" /\ loc[r].sev = s
                              /\ sevs'[s] = loc[r].row
    BY RowChange, AloneFacts DEF RowChanged, AloneInv, SoundInv
  <2>2. Current(loc[r])
    BY AloneFacts
  <2> QED
    BY <2>1, <2>2 DEF Current
<1> QED
  BY <1>1, AloneInit, AloneNext, PTL
     DEF Spec, StatusChangesRecorded, ChangeLogged, EntryLogged

\* As long as no two handlers are at work on one SEV at once, a locked row changes only
\* after an unlock of that SEV: what the lock lets slip, it lets slip to handlers that
\* interleave on that SEV.
THEOREM LockGuardsAlone == Spec /\ []OnePerSEV => LockedRowGuarded
<1>1. AloneInv /\ [Next]_vars =>
        [\A s \in SevId : Exists(s) /\ sevs[s].locked /\ sevs'[s] # sevs[s] =>
            \E t \in tokens : t.sev = s]_vars
  <2> SUFFICES ASSUME AloneInv, Next, NEW s \in SevId, Exists(s), sevs[s].locked,
                      sevs'[s] # sevs[s]
               PROVE  s \in EverUnlocked
    BY DEF EverUnlocked
  <2>1. PICK r \in Request : loc[r].pc = "saveSEV" /\ loc[r].sev = s
    BY RowChange, AloneFacts DEF RowChanged, AloneInv, SoundInv
  <2>2. Current(loc[r])
    BY AloneFacts
  <2> QED
    BY <2>1, <2>2 DEF Current, MayStore
<1> QED
  BY <1>1, AloneInit, AloneNext, PTL DEF Spec, LockedRowGuarded

\* As long as no two handlers are at work on one SEV at once, a locked postmortem of which
\* no token was signed keeps its content: only a review moves its status, as it may.
THEOREM DocumentGuardedAlone ==
    Spec /\ []OnePerSEV =>
      [][\A s \in SevId :
            Exists(s) /\ sevs[s].locked /\ pms'[s] # pms[s] /\ s \notin EverUnlocked =>
                /\ pms[s] # Nil /\ pms'[s].content = pms[s].content
                /\ <<pms[s].status, pms'[s].status>> \in ValidPmTransitions]_vars
<1>1. ASSUME AloneInv, Next, NEW s \in SevId, Exists(s), sevs[s].locked, pms'[s] # pms[s],
             s \notin EverUnlocked
      PROVE  /\ pms[s] # Nil /\ pms'[s].content = pms[s].content
             /\ <<pms[s].status, pms'[s].status>> \in ValidPmTransitions
  <2>1. PICK r \in Request : loc[r].sev = s /\ (CreatePostmortem(r) \/ SavePostmortem(r))
    BY <1>1, DocChange DEF AloneInv, SoundInv
  <2>2. Current(loc[r])
    BY <1>1, AloneFacts
  <2>3. SavePostmortem(r) /\ loc[r].pc = "savePostmortem"
    BY <1>1, <2>1, <2>2 DEF CreatePostmortem, SavePostmortem, At, Current
  <2>4. pms'[s] = loc[r].pm
    BY <1>1, <2>1, <2>3, AloneFacts DEF SavePostmortem
  <2>5. pms[s] # Nil /\ pms[s] \in PmRow /\ loc[r].pm \in PmRow
    BY <1>1, <2>1, <2>2, <2>3, AloneFacts DEF Current, Shape, HasPm
  <2>6. ~MayStore(s)
    BY <1>1 DEF MayStore
  <2> QED
    BY <2>1, <2>2, <2>3, <2>4, <2>5, <2>6 DEF Current
<1>2. AloneInv /\ [Next]_vars =>
        [\A s \in SevId :
            Exists(s) /\ sevs[s].locked /\ pms'[s] # pms[s] /\ s \notin EverUnlocked =>
                /\ pms[s] # Nil /\ pms'[s].content = pms[s].content
                /\ <<pms[s].status, pms'[s].status>> \in ValidPmTransitions]_vars
  BY <1>1
<1> QED
  BY <1>2, AloneInit, AloneNext, PTL DEF Spec

===============================================================================
