----------------------------- MODULE TaskRecords -----------------------------
(***************************************************************************)
(* The task-related records of the control plane and what control-plane.ts *)
(* derives from them: the execution state of a task, the status of a       *)
(* workflow parent, the governance queues (syncGovernanceQueues) and the   *)
(* workload of an execution surface.                                       *)
(*                                                                         *)
(* A store d is a record of collections.  The runs, reviews and approvals  *)
(* of a task are sequences, oldest first; a run is known by its position,  *)
(* so task.latestRunId is the length of the sequence and 0 is null.        *)
(***************************************************************************)
EXTENDS Naturals, Sequences, FiniteSets

CONSTANTS
    Task,       \* task ids
    Surface,    \* execution surface ids
    NoSurface,  \* assigneeExecutionSurfaceId === null
    Children,   \* task -> its child tasks in its own workflow
    Equipped,   \* surface -> the tasks whose capabilities and tools it covers
    Suited      \* surface -> the tasks whose desired role it supports

ASSUME RecordsAssumption ==
    /\ NoSurface \notin Surface
    /\ Children \in [Task -> SUBSET Task]
    /\ Equipped \in [Surface -> SUBSET Task]
    /\ Suited \in [Surface -> SUBSET Task]

TaskStatus == {"in_draft", "ready", "in_progress", "review", "blocked", "done", "canceled"}
NoRow      == {"unborn", "deleted"}  \* no row yet, no row any more
Mode       == {"none", "before_run", "before_apply", "before_complete"}
RunStatus  == {"running", "completed", "blocked"}

TaskRow  == [status : TaskStatus \union NoRow, assignee : Surface \union {NoSurface},
             mode : Mode, requiresReview : BOOLEAN, deps : SUBSET Task]
Run      == [surface : Surface \union {NoSurface}, status : RunStatus]
Review   == [run : Nat, status : {"open", "approved", "changes_requested"}]
Approval == [run : Nat, mode : Mode, status : {"pending", "approved", "rejected"}]

\* maxRuns = 0 is maxConcurrentRuns === null; a surface that is "absent" has
\* not registered.
SurfaceRow == [status : {"absent", "idle", "busy", "offline"}, capacity : Nat, maxRuns : Nat]

Store == [tasks : [Task -> TaskRow], runs : [Task -> Seq(Run)],
          reviews : [Task -> Seq(Review)], approvals : [Task -> Seq(Approval)],
          surfaces : [Surface -> SurfaceRow]]

Exists(d, t)    == d.tasks[t].status \in TaskStatus
LatestRun(d, t) == Len(d.runs[t])

-----------------------------------------------------------------------------
(* Workflow parents *)

LiveChildren(d, t) == {c \in Children[t] : Exists(d, c)}

ParentStatus(kids) ==
    IF kids \subseteq {"canceled"} THEN "canceled"
    ELSE IF kids \subseteq {"done", "canceled"} THEN "done"
    ELSE IF "in_progress" \in kids THEN "in_progress"
    ELSE IF "review" \in kids THEN "review"
    ELSE IF "blocked" \in kids THEN "blocked"
    ELSE IF "ready" \in kids THEN "ready"
    ELSE "in_draft"

\* Every parent takes the status its children had before this pass, so a
\* grandparent lags its children by one pass.
SyncParents(d) ==
    [d EXCEPT !.tasks = [t \in Task |->
        IF Exists(d, t) /\ LiveChildren(d, t) # {}
        THEN [d.tasks[t] EXCEPT !.status =
                 ParentStatus({d.tasks[c].status : c \in LiveChildren(d, t)})]
        ELSE d.tasks[t]]]

-----------------------------------------------------------------------------
(* Governance queues *)

OpenReviews(d, t)      == {i \in DOMAIN d.reviews[t] : d.reviews[t][i].status = "open"}
PendingApprovals(d, t) == {i \in DOMAIN d.approvals[t] : d.approvals[t][i].status = "pending"}

Newest(S) == CHOOSE i \in S : \A j \in S : j <= i

NeedsApproval(d, t) ==
    LET row == d.tasks[t] IN
    \/ row.mode = "before_run" /\ row.status = "ready" /\ LatestRun(d, t) = 0
    \/ row.mode = "before_apply" /\ row.status = "in_progress"
    \/ row.mode = "before_complete" /\ row.status \in {"review", "done"}

\* The stage of a review is the run it was opened for, the stage of an
\* approval its run and its mode: a stage is queued once, however it ended.
ReviewDue(d, t) ==
    /\ d.tasks[t].requiresReview /\ d.tasks[t].status = "review"
    /\ OpenReviews(d, t) = {}
    /\ \A i \in DOMAIN d.reviews[t] : d.reviews[t][i].run # LatestRun(d, t)

\* Mutant: only the stage is looked at, not what is already pending.
ApprovalDueAgain(d, t) ==
    /\ NeedsApproval(d, t)
    /\ \A i \in DOMAIN d.approvals[t] :
          ~ /\ d.approvals[t][i].mode = d.tasks[t].mode
            /\ d.approvals[t][i].run = LatestRun(d, t)

ApprovalDue(d, t) ==
    /\ NeedsApproval(d, t)
    /\ PendingApprovals(d, t) = {}
    /\ \A i \in DOMAIN d.approvals[t] :
          ~ /\ d.approvals[t][i].mode = d.tasks[t].mode
            /\ d.approvals[t][i].run = LatestRun(d, t)

SyncGovernance(d) ==
    [d EXCEPT
        !.reviews = [t \in Task |->
            IF ReviewDue(d, t)
            THEN Append(d.reviews[t], [run |-> LatestRun(d, t), status |-> "open"])
            ELSE d.reviews[t]],
        !.approvals = [t \in Task |->
            IF ApprovalDue(d, t)
            THEN Append(d.approvals[t], [run |-> LatestRun(d, t),
                                         mode |-> d.tasks[t].mode, status |-> "pending"])
            ELSE d.approvals[t]]]

\* What every load returns and every save writes.  A load also drops the
\* dependencies on deleted tasks (repairControlPlaneIntegrity); a task is never
\* undeleted, so UnmetDependencies disregards them instead.
Synced(d) == SyncGovernance(SyncParents(d))

-----------------------------------------------------------------------------
(* Dependencies, gates and workload *)

UnmetDependencies(d, t) == \E u \in d.tasks[t].deps : Exists(d, u) /\ d.tasks[u].status # "done"

\* The newest pending approval is a before-run gate.
AwaitsRunApproval(d, t) ==
    LET P == PendingApprovals(d, t) IN
    P # {} /\ d.approvals[t][Newest(P)].mode = "before_run"

Active(run) == run.status = "running"

ActiveRuns(d, t) == {i \in DOMAIN d.runs[t] : Active(d.runs[t][i])}

RunsOn(d, s) ==
    {ti \in UNION {{t} \X ActiveRuns(d, t) : t \in Task} : d.runs[ti[1]][ti[2]].surface = s}

AssignedOpen(d, s) ==
    {t \in Task : Exists(d, t) /\ d.tasks[t].assignee = s /\ d.tasks[t].status # "done"}

AssignmentLimit(row)  == IF row.capacity = 0 THEN 1 ELSE row.capacity
ConcurrencyLimit(row) == IF row.maxRuns = 0 THEN AssignmentLimit(row) ELSE row.maxRuns

\* Mutant: the concurrency limit is compared with the runs there are already.
LaxConcurrency(d, s, row, t) == Cardinality(RunsOn(d, s)) <= ConcurrencyLimit(row)

WithinConcurrency(d, s, row, t) ==
    LET more == IF d.tasks[t].status = "done" \/ \E i \in ActiveRuns(d, t) : d.runs[t][i].surface = s
                THEN 0 ELSE 1
    IN Cardinality(RunsOn(d, s)) + more <= ConcurrencyLimit(row)

WithinAssignment(d, s, row, t) ==
    LET more == IF t \in AssignedOpen(d, s) \/ d.tasks[t].status = "done" THEN 0 ELSE 1
    IN Cardinality(AssignedOpen(d, s)) + more <= AssignmentLimit(row)

\* describeExecutionSurfaceTaskFit(...).eligible for surface s described by row.
Eligible(d, s, row, t) ==
    /\ t \in Equipped[s] \intersect Suited[s]
    /\ row.status # "offline"
    /\ WithinAssignment(d, s, row, t)
    /\ WithinConcurrency(d, s, row, t)
=============================================================================
