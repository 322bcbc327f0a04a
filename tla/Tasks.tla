--------------------------------- MODULE Tasks ---------------------------------
(***************************************************************************)
(* The follow-up tasks of a SEV and the issues made for them in a tracker: *)
(* internal/api/grpc/task.go over the store's linked_tasks.                *)
(*                                                                         *)
(* One SEV, of which only resolved_at is read here. An issue is a number:  *)
(* 0 is one somebody else opened, the others are those the handlers opened *)
(* in GitHub or Jira, which differ in one retry only. A handler's copy of  *)
(* the SEV, or of a task, is as old as the handler.                        *)
(***************************************************************************)
EXTENDS Environment

CONSTANTS
    Days,           \* days from resolution to due date, one number per priority
    Resolved,       \* values of resolved_at the SEV is given
    AskedDue,       \* due dates callers ask for
    MaxTasks,       \* bound: rows ever stored
    MaxIssues       \* bound: issues ever opened

ASSUME TasksAssumption ==
    /\ Days \subseteq Nat /\ Resolved \subseteq Nat /\ AskedDue \subseteq Nat
    /\ MaxTasks \in Nat /\ MaxIssues \in Nat

TaskId == 1 .. MaxTasks
Issue  == 0 .. MaxIssues

Task == [issue : Issue, days : Days, due : OptTime]

VARIABLES
    resolvedAt, \* sevs.resolved_at
    tasks,      \* tasks[k]: row k of linked_tasks, or Nil
    lastTask,   \* the last row id given out
    opened,     \* how many issues were opened in the tracker
    work,       \* work[r]: where handler invocation r stands
    wished,     \* history variable: wished[k]: the due date last asked for k, or Nil
    backfills,  \* history variable: due_date_backfilled entries about k
    had,        \* history variable: the due dates k has had
    known       \* history variable: issues that were linked, or whose URL the caller
                \* was given with the error, or whose opening the server never saw end

taskVars == <<resolvedAt, tasks, lastTask, opened, work, wished, backfills, had, known>>

NoWork == [pc |-> "idle"]

TaskInit ==
    /\ resolvedAt = Nil
    /\ tasks = [k \in TaskId |-> Nil]
    /\ lastTask = 0
    /\ opened = 0
    /\ work = [r \in Request |-> NoWork]
    /\ wished = [k \in TaskId |-> Nil]
    /\ backfills = [k \in TaskId |-> 0]
    /\ had = [k \in TaskId |-> {}]
    /\ known = {}

Doing(r, pc) == work[r].pc = pc

Finish(r) == work' = [work EXCEPT ![r] = NoWork]

Stands(k) == tasks[k] # Nil

\* Nil as long as the SEV is not resolved.
ComputeDueDate(days, resolved) == IF resolved = Nil THEN Nil ELSE resolved + days

\* TransitionStatus or UpdateSEV gives the SEV a resolution time, perhaps another one.
ResolveSEV(t) ==
    /\ resolvedAt' = t
    /\ UNCHANGED <<tasks, lastTask, opened, work, wished, backfills, had, known, env>>

-------------------------------------------------------------------------------
(***************************************************************************)
(* LinkTask, CreateGitHubIssue and CreateJiraIssue.                        *)
(***************************************************************************)
LinkTask(r, issue, days, due) ==
    /\ Doing(r, "idle")
    /\ issue <= opened
    /\ work' = [work EXCEPT ![r] =
                  [pc |-> "create", made |-> FALSE, asked |-> due,
                   task |-> [issue |-> issue, days |-> days,
                             due |-> OrElse(due, ComputeDueDate(days, resolvedAt))]]]
    /\ UNCHANGED <<resolvedAt, tasks, lastTask, opened, wished, backfills, had, known, env>>

CreateIssue(r, days, retry) ==
    /\ Doing(r, "idle")
    /\ work' = [work EXCEPT ![r] =
                  [pc |-> "open", days |-> days, due |-> ComputeDueDate(days, resolvedAt),
                   retry |-> retry]]
    /\ UNCHANGED <<resolvedAt, tasks, lastTask, opened, wished, backfills, had, known, env>>

\* The tracker opens the issue; its answer arrives, or is lost.
OpenIssue(r) ==
    /\ Doing(r, "open")
    /\ opened < MaxIssues
    /\ opened' = opened + 1
    /\ \/ /\ work' = [work EXCEPT ![r] =
                        [pc |-> "create", made |-> TRUE, asked |-> Nil,
                         task |-> [issue |-> opened + 1, days |-> @.days, due |-> @.due]]]
          /\ UNCHANGED <<known, env>>
       \/ /\ Fail("tracker")
          /\ Finish(r)
          /\ known' = known \union {opened + 1}
    /\ UNCHANGED <<resolvedAt, tasks, lastTask, wished, backfills, had>>

\* The tracker refuses. GitHub, if it found the request unprocessable, is asked once
\* more, without labels.
RefuseIssue(r) ==
    /\ Doing(r, "open")
    /\ work' = [work EXCEPT ![r] = IF @.retry THEN [@ EXCEPT !.retry = FALSE] ELSE NoWork]
    /\ UNCHANGED <<resolvedAt, tasks, lastTask, opened, wished, backfills, had, known, env>>

Linked(issue) == \E k \in TaskId : Stands(k) /\ tasks[k].issue = issue

\* Mutant: the caller is not told which issue could not be linked.
KeepSilent(r) == known' = known

\* AlreadyExists or Internal; for an issue made here, with its URL.
Report(r) ==
    known' = IF work[r].made THEN known \union {work[r].task.issue} ELSE known

CreateTask(r) ==
    LET task == work[r].task  k == lastTask + 1 IN
    /\ Doing(r, "create")
    /\ Finish(r)
    /\ \/ /\ ~Linked(task.issue)
          /\ lastTask < MaxTasks
          /\ tasks' = [tasks EXCEPT ![k] = task]
          /\ lastTask' = k
          /\ wished' = [wished EXCEPT ![k] = work[r].asked]
          /\ had' = [had EXCEPT ![k] = {task.due}]
          /\ known' = known \union {task.issue}
          /\ UNCHANGED env
       \/ /\ Linked(task.issue)
          /\ Report(r)
          /\ UNCHANGED <<tasks, lastTask, wished, had, env>>
       \/ /\ Fail("store")
          /\ Report(r)
          /\ UNCHANGED <<tasks, lastTask, wished, had>>
    /\ UNCHANGED <<resolvedAt, opened, backfills>>

-------------------------------------------------------------------------------
(***************************************************************************)
(* UnlinkTask and UpdateTaskDueDate: the row is read, then deleted or      *)
(* stored whole.                                                           *)
(***************************************************************************)
LoadTask(r, k, due) ==
    /\ Doing(r, "idle")
    /\ Stands(k)
    /\ work' = [work EXCEPT ![r] =
                  IF due = Nil THEN [pc |-> "delete", id |-> k]
                  ELSE [pc |-> "update", id |-> k, task |-> [tasks[k] EXCEPT !.due = due]]]
    /\ UNCHANGED <<resolvedAt, tasks, lastTask, opened, wished, backfills, had, known, env>>

DeleteTask(r) ==
    /\ Doing(r, "delete")
    /\ tasks' = [tasks EXCEPT ![work[r].id] = Nil]
    /\ Finish(r)
    /\ UNCHANGED <<resolvedAt, lastTask, opened, wished, backfills, had, known, env>>

UpdateTask(r) ==
    LET k == work[r].id  task == work[r].task IN
    /\ Doing(r, "update")
    /\ Finish(r)
    /\ IF Stands(k)
       THEN /\ tasks' = [tasks EXCEPT ![k] = task]
            /\ wished' = [wished EXCEPT ![k] = task.due]
            /\ had' = [had EXCEPT ![k] = @ \union {task.due}]
       ELSE UNCHANGED <<tasks, wished, had>>
    /\ UNCHANGED <<resolvedAt, lastTask, opened, backfills, known, env>>

-------------------------------------------------------------------------------
(***************************************************************************)
(* ListTasks. The SEV is read, then its tasks; a task without a due date   *)
(* of a SEV that was resolved is given one, and shown with it. Two copies  *)
(* of the SEV may hold different resolution times.                         *)
(***************************************************************************)
ListTasks(r) ==
    /\ Doing(r, "idle")
    /\ resolvedAt # Nil
    /\ work' = [work EXCEPT ![r] = [pc |-> "list", resolved |-> resolvedAt]]
    /\ UNCHANGED <<resolvedAt, tasks, lastTask, opened, wished, backfills, had, known, env>>

ListBySEVID(r) ==
    /\ Doing(r, "list")
    /\ work' = [work EXCEPT ![r] =
                  [pc |-> "backfill", resolved |-> @.resolved,
                   todo |-> {[id |-> k, days |-> tasks[k].days] :
                               k \in {j \in TaskId : Stands(j) /\ tasks[j].due = Nil}},
                   fresh |-> {}, shown |-> {}]]
    /\ UNCHANGED <<resolvedAt, tasks, lastTask, opened, wished, backfills, had, known, env>>

\* Mutant: the write is unconditional.
AlwaysApplies(k) == Stands(k)

Applies(k) == Stands(k) /\ tasks[k].due = Nil

\* The write is applied and shown; or a date stored meanwhile is to be looked up; or the
\* task is gone, or the call fails, and no date is shown.
SetDueDateIfUnset(r, item) ==
    LET k == item.id
        due == ComputeDueDate(item.days, work[r].resolved)
        rest == work[r].todo \ {item}
    IN
    /\ Doing(r, "backfill")
    /\ item \in work[r].todo
    /\ \/ /\ Applies(k)
          /\ tasks' = [tasks EXCEPT ![k].due = due]
          /\ backfills' = [backfills EXCEPT ![k] = @ + 1]
          /\ had' = [had EXCEPT ![k] = @ \union {due}]
          /\ work' = [work EXCEPT ![r].todo = rest, ![r].shown = @ \union {<<k, due>>}]
          /\ UNCHANGED env
       \/ /\ Stands(k) /\ ~Applies(k)
          /\ work' = [work EXCEPT ![r].todo = rest, ![r].fresh = @ \union {k}]
          /\ UNCHANGED <<tasks, backfills, had, env>>
       \/ /\ (~Stands(k) /\ UNCHANGED env) \/ Fail("store")
          /\ work' = [work EXCEPT ![r].todo = rest, ![r].shown = @ \union {<<k, Nil>>}]
          /\ UNCHANGED <<tasks, backfills, had>>
    /\ UNCHANGED <<resolvedAt, lastTask, opened, wished, known>>

\* The stored date, if the task is still there.
GetTask(r, k) ==
    /\ Doing(r, "backfill")
    /\ k \in work[r].fresh
    /\ work' = [work EXCEPT ![r].fresh = @ \ {k},
                            ![r].shown = @ \union {<<k, IF Stands(k) THEN tasks[k].due
                                                        ELSE Nil>>}]
    /\ UNCHANGED <<resolvedAt, tasks, lastTask, opened, wished, backfills, had, known, env>>

AnswerList(r) ==
    /\ Doing(r, "backfill")
    /\ work[r].todo = {} /\ work[r].fresh = {}
    /\ Finish(r)
    /\ UNCHANGED <<resolvedAt, tasks, lastTask, opened, wished, backfills, had, known, env>>

-------------------------------------------------------------------------------

\* The server stops. What the tracker has opened for a handler in flight is left there.
StopServer ==
    /\ Fail("crash")
    /\ work' = [r \in Request |-> NoWork]
    /\ known' = known \union {work[r].task.issue : r \in {q \in Request : Doing(q, "create")}}
    /\ UNCHANGED <<resolvedAt, tasks, lastTask, opened, wished, backfills, had>>

TaskNext ==
    \/ \E t \in Resolved : ResolveSEV(t)
    \/ \E r \in Request, issue \in Issue, days \in Days, due \in AskedDue \union {Nil} :
          LinkTask(r, issue, days, due)
    \/ \E r \in Request, days \in Days, retry \in BOOLEAN : CreateIssue(r, days, retry)
    \/ \E r \in Request :
          \/ OpenIssue(r) \/ RefuseIssue(r) \/ CreateTask(r)
          \/ DeleteTask(r) \/ UpdateTask(r)
          \/ ListTasks(r) \/ ListBySEVID(r) \/ AnswerList(r)
    \/ \E r \in Request, k \in TaskId, due \in AskedDue \union {Nil} : LoadTask(r, k, due)
    \/ \E r \in Request : Doing(r, "backfill") /\ \E item \in work[r].todo :
          SetDueDateIfUnset(r, item)
    \/ \E r \in Request, k \in TaskId : GetTask(r, k)
    \/ StopServer

TaskSpec == TaskInit /\ EnvInit /\ [][TaskNext]_<<taskVars, env>>

-------------------------------------------------------------------------------

Work ==
    {NoWork}
        \union [pc : {"create"}, made : BOOLEAN, asked : OptTime, task : Task]
        \union [pc : {"open"}, days : Days, due : OptTime, retry : BOOLEAN]
        \union [pc : {"delete"}, id : TaskId]
        \union [pc : {"update"}, id : TaskId, task : Task]
        \union [pc : {"list"}, resolved : Nat]
        \union [pc : {"backfill"}, resolved : Nat,
                todo : SUBSET [id : TaskId, days : Days], fresh : SUBSET TaskId,
                shown : SUBSET (TaskId \X OptTime)]

\* Every variable has its type, and no task has a number that was not given out.
TaskTypeOK ==
    /\ resolvedAt \in OptTime
    /\ tasks \in [TaskId -> Task \union {Nil}]
    /\ lastTask \in 0 .. MaxTasks
    /\ \A k \in TaskId : k > lastTask => tasks[k] = Nil
    /\ opened \in 0 .. MaxIssues
    /\ work \in [Request -> Work]
    /\ wished \in [TaskId -> OptTime]
    /\ backfills \in [TaskId -> Nat]
    /\ had \in [TaskId -> SUBSET OptTime]
    /\ known \subseteq Issue

\* "Can't produce duplicate audit entries for a single logical backfill event": a task is
\* given its due date by ListTasks once at most, however many callers list at once; and
\* never in place of a date somebody asked for, whichever was stored first.
\* And it is the "persisted value instead of the one we computed" that is shown: a date
\* the task has had, even if the SEV's resolution time, the task or its due date changes
\* under the list.
DueDatesKept ==
    /\ \A k \in TaskId :
          /\ backfills[k] <= 1
          /\ Stands(k) /\ wished[k] # Nil => tasks[k].due = wished[k]
    /\ \A r \in Request : Doing(r, "backfill") =>
          \A s \in work[r].shown : s[2] # Nil => s[2] \in had[s[1]]

\* The issue "already exists at this point and cannot be silently retried": no issue the
\* handlers opened is forgotten. It has been linked, once at a time; or the caller was
\* told of it; or the tracker's answer was lost, or the server stopped; or its
\* handler is about to link it.
IssuesAccounted ==
    /\ \A i \in 1 .. opened :
          \/ i \in known
          \/ \E r \in Request : Doing(r, "create") /\ work[r].task.issue = i
    /\ \A j \in TaskId, k \in TaskId :
          Stands(j) /\ Stands(k) /\ tasks[j].issue = tasks[k].issue => j = k

===============================================================================
