------------------------------ MODULE SevLifecycle ------------------------------
(***************************************************************************)
(* The gRPC handlers that write a SEV and its postmortem, each split at    *)
(* its store calls:                                                        *)
(*   CreateSEV, UpdateSEV, TransitionStatus (internal/api/grpc/sev.go);    *)
(*   UpdatePostmortem, TransitionPostmortemStatus, UnlockSEV               *)
(*   (internal/api/grpc/postmortem.go).                                    *)
(*                                                                         *)
(* A handler reads a row, works on its private copy and writes the whole   *)
(* row back; the stores' Update takes no version, so two handlers          *)
(* interleave freely between a Get and the Update that follows it. Any     *)
(* handler may end at any of its store calls (the store refuses, the       *)
(* client goes away, the process dies): what it has stored stays stored.   *)
(*                                                                         *)
(* Callers who may not see a sensitive SEV get NotFound before anything is *)
(* written, so every request here is by a caller who may.                  *)
(***************************************************************************)
EXTENDS SevRecord, Sequences

CONSTANTS
    SevId,
    Request,        \* handler invocations that may be in flight at once
    Drafts,         \* CreateSEV requests
    Patches,        \* UpdateSEV requests
    Targets,        \* TransitionStatus requests: the status asked for
    Stamps,         \* the times a TransitionStatus request carries
    Edits,          \* the SEVs whose postmortem UpdatePostmortem requests and
    Reviews,        \*   TransitionPostmortemStatus requests are about
    TokenTTL,       \* lifetime of an unlock token (15 minutes)
    MaxTime,        \* bound: the clock stops here
    MaxHistory      \* bound: status history entries per SEV

Token == [sev : SevId, exp : Nat]
PmRow == [status : PmStatus, content : Request \union {Nil}]
Entry == [from : Status, to : Status]

ASSUME ConstantsAssumption ==
    /\ Nil \notin SevId /\ Nil \notin PmRow
    /\ Drafts \subseteq Draft
    /\ Patches \subseteq Patch
    /\ Targets \subseteq Status
    /\ Stamps \subseteq Stamp
    /\ Edits \subseteq SevId /\ Reviews \subseteq SevId
    /\ TokenTTL \in Nat /\ MaxTime \in Nat /\ MaxHistory \in Nat

VARIABLES
    sevs,       \* sevs[s]: the stored row of s, Nil when s does not exist
    pms,        \* pms[s]: the stored postmortem row of s, or Nil; its content is
                \*   abstracted to the handler that wrote it
    history,    \* history[s]: s's status-transition log
    tokens,     \* unlock tokens signed so far: [sev, exp]
    now,        \* the server's clock
    loc,        \* loc[r]: where handler r stands and its private copies
    emitted     \* calls the last step made to the audit log, hub, notifier, AI

vars == <<sevs, pms, history, tokens, now, loc, emitted>>

\* The calls a handler makes to other components once it has stored its row.
What == {"audit.sev.created", "audit.sev.updated", "audit.sev.status_transitioned",
         "audit.postmortem.updated", "audit.postmortem.status_transitioned",
         "audit.sev.unlock_requested",
         "sev.created", "sev.updated", "sev.status_changed", "postmortem.due",
         "postmortem.updated", "postmortem.approved",
         "grant.creator", "assign.on-call", "link.recurrence",
         "ai.sev_opened", "ai.sev_status", "ai.in_review"}

\* A call: what, for which SEV, carrying which status.
Effect == [what : What, sev : SevId, status : Status \union PmStatus]

Pc == {"idle", "auditNew", "addPostmortem", "announceNew", "addHistory", "saveSEV",
       "announceSEV", "loadPostmortem", "savePostmortem",
       "announcePostmortem", "signToken"}

Op == {"none", "create", "update", "transition", "edit", "review", "unlock"}

\* read is the SEV row as loaded, row (pm) the copy that will be stored. entry and
\* stored are history that no guard reads: the number of the log entry the handler has
\* written, 0 before, and whether it has stored its row.
Local == [pc : Pc, op : Op, sev : SevId \union {Nil},
          read : Row \union {Nil}, row : Row \union {Nil}, pm : PmRow \union {Nil},
          entry : Nat, stored : BOOLEAN]

IdleLocal == [pc |-> "idle", op |-> "none", sev |-> Nil,
              read |-> Nil, row |-> Nil, pm |-> Nil, entry |-> 0, stored |-> FALSE]

Init ==
    /\ sevs = [s \in SevId |-> Nil]
    /\ pms = [s \in SevId |-> Nil]
    /\ history = [s \in SevId |-> <<>>]
    /\ tokens = {}
    /\ now = 0
    /\ loc = [r \in Request |-> IdleLocal]
    /\ emitted = {}

-------------------------------------------------------------------------------

Idle(r)  == loc[r].pc = "idle"
At(r, p) == loc[r].pc = p
Goto(r, l) == loc' = [loc EXCEPT ![r] = l]
Finish(r)  == Goto(r, IdleLocal)

Exists(s) == sevs[s] # Nil

\* Mutant: a token opens its SEV for good, its expiry is not looked at.
UnendingUnlock(token, s) == token # Nil /\ token.sev = s

\* validateUnlock: signed for this SEV and not past its expiry.
ValidUnlock(token, s) == token # Nil /\ token.sev = s /\ now < token.exp

\* The lock check every handler that makes it makes on the row it has read.
MayWrite(row, token, s) == row.locked => ValidUnlock(token, s)

\* The token field of a request: none, or one the server has signed.
RequestToken == tokens \union {Nil}

Call(what, s, status) == [what |-> what, sev |-> s, status |-> status]

\* Hub and notifier are only called for a record that is not sensitive.
IfPublic(row, calls) == IF row.sensitive THEN {} ELSE calls

-------------------------------------------------------------------------------
(***************************************************************************)
(* CreateSEV: store the row, then the postmortem, then tell the others.    *)
(***************************************************************************)
CreateSEV(r, s, draft) ==
    /\ Idle(r)
    /\ ~Exists(s)
    /\ sevs' = [sevs EXCEPT ![s] = NewSEV(draft)]
    /\ Goto(r, [IdleLocal EXCEPT !.pc = "auditNew", !.op = "create",
                                 !.sev = s, !.row = NewSEV(draft)])
    /\ emitted' = {}
    /\ UNCHANGED <<pms, history, tokens, now>>

\* The creator of a sensitive SEV is granted access; both calls are best effort.
AuditNew(r) ==
    LET l == loc[r] IN
    /\ At(r, "auditNew")
    /\ Goto(r, [l EXCEPT !.pc = "addPostmortem"])
    /\ emitted' = {Call("audit.sev.created", l.sev, l.row.status)}
                    \union (IF l.row.sensitive
                            THEN {Call("grant.creator", l.sev, l.row.status)}
                            ELSE {})
    /\ UNCHANGED <<sevs, pms, history, tokens, now>>

CreatePostmortem(r) ==
    LET l == loc[r] IN
    /\ At(r, "addPostmortem")
    /\ pms' = [pms EXCEPT ![l.sev] = [status |-> "draft", content |-> Nil]]
    /\ Goto(r, [l EXCEPT !.pc = "announceNew"])
    /\ emitted' = {}
    /\ UNCHANGED <<sevs, history, tokens, now>>

AnnounceNew(r) ==
    LET l == loc[r] IN
    /\ At(r, "announceNew")
    /\ Finish(r)
    /\ emitted' = IfPublic(l.row, {Call("sev.created", l.sev, l.row.status)})
                    \union {Call("assign.on-call", l.sev, l.row.status),
                            Call("ai.sev_opened", l.sev, l.row.status)}
    /\ UNCHANGED <<sevs, pms, history, tokens, now>>

(***************************************************************************)
(* UpdateSEV: load, check the lock, apply the fields, store the whole row. *)
(***************************************************************************)
UpdateSEV(r, s, patch, token) ==
    /\ Idle(r)
    /\ Exists(s)
    /\ MayWrite(sevs[s], token, s)
    /\ Goto(r, [IdleLocal EXCEPT
                  !.pc = "saveSEV", !.op = "update", !.sev = s,
                  !.read = sevs[s],
                  !.row = ComputeMetrics(ApplySEVUpdate(sevs[s], patch))])
    /\ emitted' = {}
    /\ UNCHANGED <<sevs, pms, history, tokens, now>>

(***************************************************************************)
(* TransitionStatus: load, check lock and state machine, log the           *)
(* transition, store the whole row.                                        *)
(***************************************************************************)
TransitionStatus(r, s, to, stamp, token) ==
    /\ Idle(r)
    /\ Exists(s)
    /\ MayWrite(sevs[s], token, s)
    /\ ValidateTransition(sevs[s].status, to)
    /\ Goto(r, [IdleLocal EXCEPT
                  !.pc = "addHistory", !.op = "transition", !.sev = s,
                  !.read = sevs[s],
                  !.row = ComputeMetrics(ApplyTransition(sevs[s], to, stamp, now))])
    /\ emitted' = {}
    /\ UNCHANGED <<sevs, pms, history, tokens, now>>

\* Mutant: a log entry that could not be written is passed over.
SkipHistory(r) ==
    /\ At(r, "addHistory")
    /\ Goto(r, [loc[r] EXCEPT !.pc = "saveSEV"])
    /\ emitted' = {}
    /\ UNCHANGED <<sevs, pms, history, tokens, now>>

AddHistory(r) ==
    LET l == loc[r] IN
    /\ At(r, "addHistory")
    /\ Len(history[l.sev]) < MaxHistory
    /\ history' = [history EXCEPT
                     ![l.sev] = Append(@, [from |-> l.read.status,
                                           to   |-> l.row.status])]
    /\ Goto(r, [l EXCEPT !.pc = "saveSEV", !.entry = Len(history[l.sev]) + 1])
    /\ emitted' = {}
    /\ UNCHANGED <<sevs, pms, tokens, now>>

\* SEVStore.Update: every column, whatever the row holds by now.
SaveSEV(r) ==
    LET l == loc[r] IN
    /\ At(r, "saveSEV")
    /\ sevs' = [sevs EXCEPT ![l.sev] = l.row]
    /\ Goto(r, [l EXCEPT !.pc = "announceSEV", !.stored = TRUE])
    /\ emitted' = {}
    /\ UNCHANGED <<pms, history, tokens, now>>

AnnounceUpdate(l) ==
    {Call("audit.sev.updated", l.sev, l.row.status)}
      \union IfPublic(l.row, {Call("sev.updated", l.sev, l.row.status)})
      \union (IF l.row.sensitive /\ ~l.read.sensitive
              THEN {Call("grant.creator", l.sev, l.row.status)} ELSE {})
      \union (IF l.row.category # l.read.category
              THEN {Call("link.recurrence", l.sev, l.row.status)} ELSE {})

AnnounceTransition(l) ==
    LET to == l.row.status IN
    {Call("audit.sev.status_transitioned", l.sev, to)}
      \union IfPublic(l.row,
               {Call("sev.status_changed", l.sev, to)}
                 \union (IF to = "resolved"
                         THEN {Call("postmortem.due", l.sev, to)} ELSE {}))
      \union (IF to \in {"mitigated", "resolved"}
              THEN {Call("ai.sev_status", l.sev, to)} ELSE {})

\* Mutant: the events go out when the handler returns, whether the store took the row or not.
AnnounceAnyway(r) ==
    /\ loc[r].pc \in {"saveSEV", "announceSEV"}
    /\ Finish(r)
    /\ emitted' = IF loc[r].op = "update" THEN AnnounceUpdate(loc[r])
                                          ELSE AnnounceTransition(loc[r])
    /\ UNCHANGED <<sevs, pms, history, tokens, now>>

AnnounceSEV(r) ==
    /\ At(r, "announceSEV")
    /\ Finish(r)
    /\ emitted' = IF loc[r].op = "update" THEN AnnounceUpdate(loc[r])
                                          ELSE AnnounceTransition(loc[r])
    /\ UNCHANGED <<sevs, pms, history, tokens, now>>

-------------------------------------------------------------------------------
(***************************************************************************)
(* UpdatePostmortem: the lock is read from the SEV, the document in a      *)
(* second load.                                                            *)
(***************************************************************************)
UpdatePostmortem(r, s, token) ==
    /\ Idle(r)
    /\ s \in Edits
    /\ Exists(s)
    /\ MayWrite(sevs[s], token, s)
    /\ Goto(r, [IdleLocal EXCEPT !.pc = "loadPostmortem", !.op = "edit", !.sev = s,
                                 !.read = sevs[s]])
    /\ emitted' = {}
    /\ UNCHANGED <<sevs, pms, history, tokens, now>>

LoadPostmortem(r) ==
    LET l == loc[r] IN
    /\ At(r, "loadPostmortem")
    /\ pms[l.sev] # Nil
    /\ Goto(r, [l EXCEPT !.pc = "savePostmortem",
                         !.pm = [pms[l.sev] EXCEPT !.content = r]])
    /\ emitted' = {}
    /\ UNCHANGED <<sevs, pms, history, tokens, now>>

\* TransitionPostmortemStatus loads the document only: it reads no lock.
TransitionPostmortemStatus(r, s, to) ==
    /\ Idle(r)
    /\ s \in Reviews
    /\ pms[s] # Nil
    /\ <<pms[s].status, to>> \in ValidPmTransitions
    /\ Goto(r, [IdleLocal EXCEPT !.pc = "savePostmortem", !.op = "review",
                                 !.sev = s,
                                 !.pm = [pms[s] EXCEPT !.status = to]])
    /\ emitted' = {}
    /\ UNCHANGED <<sevs, pms, history, tokens, now>>

SavePostmortem(r) ==
    LET l == loc[r] IN
    /\ At(r, "savePostmortem")
    /\ pms' = [pms EXCEPT ![l.sev] = l.pm]
    /\ Goto(r, [l EXCEPT !.pc = "announcePostmortem"])
    /\ emitted' = {}
    /\ UNCHANGED <<sevs, history, tokens, now>>

AnnounceEdit(l) ==
    {Call("audit.postmortem.updated", l.sev, l.pm.status)}
      \union IfPublic(l.read, {Call("postmortem.updated", l.sev, l.pm.status)})

PublishReview(l, row) ==
    LET to == l.pm.status IN
    IfPublic(row, {Call("postmortem.updated", l.sev, to)}
                    \union (IF to = "approved"
                            THEN {Call("postmortem.approved", l.sev, to)} ELSE {}))
      \union (IF to = "in-review" THEN {Call("ai.in_review", l.sev, to)} ELSE {})

\* An edit is published by the SEV read at its start, a review by a fresh read
\* of the SEV, and not at all when that read fails (found is FALSE).
AnnouncePostmortem(r, found) ==
    LET l == loc[r] IN
    /\ At(r, "announcePostmortem")
    /\ found \/ l.op = "review"
    /\ Finish(r)
    /\ emitted' =
         IF l.op = "edit" THEN AnnounceEdit(l)
         ELSE {Call("audit.postmortem.status_transitioned", l.sev, l.pm.status)}
                \union (IF found THEN PublishReview(l, sevs[l.sev]) ELSE {})
    /\ UNCHANGED <<sevs, pms, history, tokens, now>>

(***************************************************************************)
(* UnlockSEV: sign a token for a locked SEV, then log the reason as best   *)
(* it can: logged is whether the audit log took it.                        *)
(***************************************************************************)
\* Mutant: a token is signed for a SEV that is not locked.
UnlockUnlocked(r, s) ==
    /\ Idle(r)
    /\ Exists(s)
    /\ Goto(r, [IdleLocal EXCEPT !.pc = "signToken", !.op = "unlock", !.sev = s])
    /\ emitted' = {}
    /\ UNCHANGED <<sevs, pms, history, tokens, now>>

UnlockSEV(r, s) ==
    /\ Idle(r)
    /\ Exists(s)
    /\ sevs[s].locked
    /\ Goto(r, [IdleLocal EXCEPT !.pc = "signToken", !.op = "unlock", !.sev = s])
    /\ emitted' = {}
    /\ UNCHANGED <<sevs, pms, history, tokens, now>>

SignToken(r, logged) ==
    LET token == [sev |-> loc[r].sev, exp |-> now + TokenTTL] IN
    /\ At(r, "signToken")
    /\ tokens' = tokens \union {token}
    /\ Finish(r)
    /\ emitted' = IF logged
                  THEN {Call("audit.sev.unlock_requested", loc[r].sev, "postmortem_complete")}
                  ELSE {}
    /\ UNCHANGED <<sevs, pms, history, now>>

-------------------------------------------------------------------------------

\* The handler ends where it stands; its stored effects remain.
Abort(r) ==
    /\ ~Idle(r)
    /\ Finish(r)
    /\ emitted' = {}
    /\ UNCHANGED <<sevs, pms, history, tokens, now>>

Tick ==
    /\ now < MaxTime
    /\ now' = now + 1
    /\ emitted' = {}
    /\ UNCHANGED <<sevs, pms, history, tokens, loc>>

Step(r) ==
    \/ \E s \in SevId, draft \in Drafts : CreateSEV(r, s, draft)
    \/ AuditNew(r)
    \/ CreatePostmortem(r)
    \/ AnnounceNew(r)
    \/ \E s \in SevId, patch \in Patches, token \in RequestToken :
          UpdateSEV(r, s, patch, token)
    \/ \E s \in SevId, to \in Targets, stamp \in Stamps, token \in RequestToken :
          TransitionStatus(r, s, to, stamp, token)
    \/ AddHistory(r)
    \/ SaveSEV(r)
    \/ AnnounceSEV(r)
    \/ \E s \in SevId, token \in RequestToken : UpdatePostmortem(r, s, token)
    \/ LoadPostmortem(r)
    \/ \E s \in SevId, to \in PmStatus : TransitionPostmortemStatus(r, s, to)
    \/ SavePostmortem(r)
    \/ \E found \in BOOLEAN : AnnouncePostmortem(r, found)
    \/ \E s \in SevId : UnlockSEV(r, s)
    \/ \E logged \in BOOLEAN : SignToken(r, logged)
    \/ Abort(r)

Next == Tick \/ \E r \in Request : Step(r)

Spec == Init /\ [][Next]_vars

-------------------------------------------------------------------------------
(***************************************************************************)
(* Invariants: they hold whatever handlers interleave and wherever they    *)
(* stop.                                                                   *)
(***************************************************************************)

\* Every variable has the type its declaration says: rows, documents, log,
\* tokens, and the private copies of the handlers in flight.
TypeOK ==
    /\ sevs \in [SevId -> Row \union {Nil}]
    /\ pms \in [SevId -> PmRow \union {Nil}]
    /\ history \in [SevId -> Seq(Entry)]
    /\ tokens \subseteq Token
    /\ now \in Nat
    /\ loc \in [Request -> Local]
    /\ emitted \subseteq Effect

\* A SEV is locked exactly while it is Postmortem Complete. The code stores the
\* flag and the status apart and rewrites both from a possibly stale copy, so
\* this is what keeps a completed SEV from being left open to edits.
LockFollowsStatus ==
    \A s \in SevId : Exists(s) =>
        (sevs[s].locked <=> sevs[s].status = "postmortem_complete")

Elapsed(from, to) == IF from # Nil /\ to # Nil THEN to - from ELSE Nil

MetricsMatch(row) ==
    /\ row.mttd = Elapsed(row.startedAt, row.detectedAt)
    /\ row.mttm = Elapsed(row.startedAt, row.mitigatedAt)
    /\ row.mttr = Elapsed(row.startedAt, row.resolvedAt)
    /\ row.dttm = Elapsed(row.detectedAt, row.mitigatedAt)
    /\ row.rtpc = Elapsed(row.resolvedAt, row.completedAt)

\* The stored metrics are those of the stored timestamps, although ComputeMetrics
\* never clears one and the timestamps change in two different handlers.
MetricsCurrent == \A s \in SevId : Exists(s) => MetricsMatch(sevs[s])

Reached(s, status) ==
    status = "open" \/ \E i \in DOMAIN history[s] : history[s][i].to = status

\* The status a SEV shows is one its transition log has reached: the log is
\* written before the row, so no failure between the two hides a transition.
StatusLogged == \A s \in SevId : Exists(s) => Reached(s, sevs[s].status)

\* Every log entry is a legal transition and starts where an earlier entry of
\* the same SEV ended (or at open), however handlers raced to append it.
HistoryConnected ==
    \A s \in SevId : \A i \in DOMAIN history[s] :
        LET e == history[s][i] IN
        /\ <<e.from, e.to>> \in ValidTransitions
        /\ e.from = "open" \/ \E j \in 1 .. (i - 1) : history[s][j].to = e.from

\* UnlockSEV signs for completed SEVs only: behind every token there is a logged
\* completion of that very SEV, and its lifetime is bounded by the TTL.
TokensForCompleted ==
    \A t \in tokens :
        /\ t.exp <= now + TokenTTL
        /\ \E i \in DOMAIN history[t.sev] : history[t.sev][i].to = "postmortem_complete"

\* What TransitionStatus and UpdateSEV tell hub, notifier and dispatcher of a SEV is on
\* record by then: the handler's row is stored, and for a transition the handler's own
\* log entry is there and says this status was reached from the one it read. Others may
\* log and store meanwhile, and a handler that stopped before its row was stored tells
\* nothing of it.
Told == {"sev.updated", "sev.status_changed", "postmortem.due", "ai.sev_status"}

OnRecord(l, e) ==
    /\ e.sev = l.sev /\ l.stored
    /\ e.what # "sev.updated" =>
          /\ l.entry \in DOMAIN history[l.sev]
          /\ history[l.sev][l.entry] = [from |-> l.read.status, to |-> e.status]

EventsFollowRecord ==
    [][\A r \in Request : \A e \in emitted' :
            loc'[r] # loc[r] /\ e.what \in Told => OnRecord(loc[r], e)]_vars

(***************************************************************************)
(* What the documentation says of a SEV's writes. One handler at a time    *)
(* keeps to it (see SevContract); handlers that interleave do not.         *)
(***************************************************************************)

\* "Every transition records from_status, to_status": when the stored status
\* changes, the log holds that change.
StatusChangesRecorded ==
    [][\A s \in SevId : Exists(s) /\ sevs'[s].status # sevs[s].status =>
            \E i \in DOMAIN history[s] :
                history[s][i] = [from |-> sevs[s].status, to |-> sevs'[s].status]]_vars

\* "All mutation handlers check this flag and reject writes unless an unlock
\* token is present": a locked row changes only after a token was signed for it.
LockedRowGuarded ==
    [][\A s \in SevId : Exists(s) /\ sevs[s].locked /\ sevs'[s] # sevs[s] =>
            \E t \in tokens : t.sev = s]_vars

\* "The entire SEV record (including the postmortem document) becomes read-only".
LockedDocumentGuarded ==
    [][\A s \in SevId : Exists(s) /\ sevs[s].locked /\ pms'[s] # pms[s] =>
            \E t \in tokens : t.sev = s]_vars

-------------------------------------------------------------------------------
(***************************************************************************)
(* The contract, and what of the stores it is about.                       *)
(***************************************************************************)
Stage  == [s \in SevId |-> IF Exists(s) THEN sevs[s].status ELSE Nil]
Fields == [s \in SevId |-> IF Exists(s)
                           THEN [sevs[s] EXCEPT !.status = "open", !.locked = FALSE]
                           ELSE Nil]
Doc    == [s \in SevId |-> IF pms[s] # Nil THEN pms[s].status ELSE Nil]
Text   == [s \in SevId |-> IF pms[s] # Nil THEN pms[s].content ELSE Nil]

\* A handler between the lock check on the row it read and the store of what it makes of it.
Editing(l) == \/ l.pc \in {"addHistory", "saveSEV", "loadPostmortem"}
              \/ l.pc = "savePostmortem" /\ l.op = "edit"

\* The locked SEVs that are being edited: the row that was read was locked.
Sessions ==
    {s \in SevId : \E r \in Request :
        loc[r].sev = s /\ Editing(loc[r]) /\ loc[r].read.locked}

EverUnlocked == {t.sev : t \in tokens}

Contract == INSTANCE SevContract WITH
    Stages    <- Status,
    Start     <- "open",
    Final     <- "postmortem_complete",
    Moves     <- ValidTransitions,
    DocStages <- PmStatus,
    DocStart  <- "draft",
    DocMoves  <- ValidPmTransitions,
    Absent    <- Nil,
    Lifetime  <- TokenTTL,
    stage     <- Stage,
    fields    <- Fields,
    doc       <- Doc,
    text      <- Text,
    time      <- now,
    keys      <- tokens,
    sessions  <- Sessions

\* One handler per SEV at a time, the stored SEVs and postmortems move only as the
\* documentation says, but for reviews: legal transitions only; and under the lock no
\* change but the one save of a handler that began while a token of that very SEV was
\* good. TransitionPostmortemStatus reads no lock: it alone may still move the status
\* of a locked postmortem, which LockedDocumentGuarded is about.
KeepsContract == Contract!SpecButReviews

===============================================================================
