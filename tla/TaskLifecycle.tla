---------------------------- MODULE TaskLifecycle ----------------------------
(***************************************************************************)
(* The life of a task between the operator, its governance gates and the   *)
(* execution surfaces that claim it: task-governance.ts,                   *)
(* execution-surface-api.ts with the routes under api/execution-surfaces,  *)
(* task-update-action.ts, task-session-actions.ts, and the repository and  *)
(* synchronisation functions they call.                                    *)
(*                                                                         *)
(* db is what the database holds.  A handler is one queued update: it      *)
(* loads Synced(db), changes it and saves the collections it names, after  *)
(* another synchronisation; RevisionedStore shows that such updates are    *)
(* atomic.  Three handlers decide on an earlier load: a claim keeps the    *)
(* surface it authenticated, an operator's edit and a launch keep the task *)
(* row they will write.  They are two steps, with the row in req between.  *)
(***************************************************************************)
EXTENDS TaskRecords

CONSTANTS
    Worker,        \* clients through which surfaces claim tasks
    Editor,        \* operators with the task form open
    Launcher,      \* operators starting a work thread for a task
    NewRow,        \* rows tasks are created with
    FormStatus,    \* statuses an operator's form may set
    FormMode,      \* approval modes a form or a request may name
    Report,        \* statuses a surface may report
    Presence,      \* statuses surfaces may announce
    Capacity,      \* capacities surfaces may announce
    RunCap,        \* maxConcurrentRuns surfaces may register with
    MaxRuns,       \* bound on the runs of a task
    MaxDecisions,  \* bound on requested reviews, and approvals, of a task
    Deletable      \* tasks an operator may delete

ASSUME LifecycleAssumption ==
    /\ NewRow \subseteq TaskRow
    /\ \A row \in NewRow : row.status \in TaskStatus /\ row.assignee = NoSurface
    /\ FormStatus \subseteq TaskStatus /\ FormMode \subseteq Mode /\ Report \subseteq TaskStatus
    /\ Presence \subseteq {"idle", "busy", "offline"}
    /\ Capacity \subseteq Nat \ {0} /\ RunCap \subseteq Nat
    /\ MaxRuns \in Nat /\ MaxDecisions \in Nat
    /\ Deletable \subseteq Task

VARIABLES
    db,   \* the rows in the database
    req   \* client -> its request in flight, with what it read before

vars == <<db, req>>

Client == Worker \union Editor \union Launcher

Idle         == [op |-> "idle"]
ClaimRequest == [op : {"claim"}, task : Task, by : Surface, seen : SurfaceRow]
WriteRequest == [op : {"edit", "launch"}, task : Task, row : TaskRow]
Request      == {Idle} \union ClaimRequest \union WriteRequest

TypeOK ==
    /\ db \in Store
    /\ req \in [Client -> Request]

NoTask    == [status |-> "unborn", assignee |-> NoSurface, mode |-> "none",
              requiresReview |-> FALSE, deps |-> {}]
NoTraffic == [status |-> "absent", capacity |-> 0, maxRuns |-> 0]

Init ==
    /\ db = [tasks |-> [t \in Task |-> NoTask], runs |-> [t \in Task |-> <<>>],
             reviews |-> [t \in Task |-> <<>>], approvals |-> [t \in Task |-> <<>>],
             surfaces |-> [s \in Surface |-> NoTraffic]]
    /\ req = [c \in Client |-> Idle]

\* Mutant: what the updater returns is saved as it is.
CommitUnsynced(next, saves) ==
    db' = [k \in DOMAIN db |-> IF k \in saves THEN next[k] ELSE db[k]]

\* updateControlPlaneCollections: synchronise, then save the named collections.
Commit(next, saves) ==
    LET d == Synced(next) IN
    db' = [tasks     |-> IF "tasks" \in saves THEN d.tasks ELSE db.tasks,
           runs      |-> IF "runs" \in saves THEN d.runs ELSE db.runs,
           reviews   |-> IF "reviews" \in saves THEN d.reviews ELSE db.reviews,
           approvals |-> IF "approvals" \in saves THEN d.approvals ELSE db.approvals,
           surfaces  |-> IF "surfaces" \in saves THEN d.surfaces ELSE db.surfaces]

\* mutateTaskCollections and updateTaskRecord first bring the parents up to date.
CommitTask(next, saves) == Commit(SyncParents(next), saves)

WithStatus(d, t, status) == [d EXCEPT !.tasks[t].status = status]

\* The latest run of t, if any, ends with the given status.
EndLatestRun(d, t, status) ==
    IF LatestRun(d, t) = 0 THEN d
    ELSE [d EXCEPT !.runs[t][LatestRun(d, t)].status = status]

-----------------------------------------------------------------------------
(* Creating and deleting tasks, registering surfaces *)

CreateTask(t, row) ==
    LET d == Synced(db) IN
    /\ d.tasks[t].status = "unborn"
    /\ \A u \in row.deps : u # t /\ Exists(d, u)
    /\ Commit([d EXCEPT !.tasks[t] = row], {"tasks"})
    /\ UNCHANGED req

\* deleteTaskRecords drops the task with its runs, reviews and approvals, and
\* the dependencies of other tasks on it.
DeleteTask(t) ==
    LET d == Synced(db) IN
    /\ t \in Deletable
    /\ Exists(d, t)
    /\ CommitTask([d EXCEPT
            !.tasks = [u \in Task |-> IF u = t THEN [NoTask EXCEPT !.status = "deleted"]
                                      ELSE [d.tasks[u] EXCEPT !.deps = @ \ {t}]],
            !.runs[t] = <<>>, !.reviews[t] = <<>>, !.approvals[t] = <<>>],
            {"tasks", "runs", "reviews", "approvals"})
    /\ UNCHANGED req

\* POST api/execution-surfaces/register; a surface always arrives as a new one.
Register(s, capacity, maxRuns) ==
    LET d == Synced(db) IN
    /\ d.surfaces[s].status = "absent"
    /\ Commit([d EXCEPT !.surfaces[s] =
                  [status |-> "idle", capacity |-> capacity, maxRuns |-> maxRuns]],
              {"surfaces"})
    /\ UNCHANGED req

\* POST api/execution-surfaces/heartbeat: the surface announces a status and a
\* capacity; maxConcurrentRuns stays as registered.
Heartbeat(s, status, capacity) ==
    LET d == Synced(db) IN
    /\ d.surfaces[s].status # "absent"
    /\ Commit([d EXCEPT !.surfaces[s].status = status, !.surfaces[s].capacity = capacity],
              {"surfaces"})
    /\ UNCHANGED req

-----------------------------------------------------------------------------
(* Governance *)

\* Mutant: the latest review of the task, if any, is opened again.
ReopenReview(t) ==
    LET d == Synced(db)  n == Len(Synced(db).reviews[t]) IN
    /\ Exists(d, t)
    /\ OpenReviews(d, t) = {}
    /\ LET asked == IF n = 0
                    THEN [d EXCEPT !.reviews[t] = <<[run |-> LatestRun(d, t), status |-> "open"]>>]
                    ELSE [d EXCEPT !.reviews[t][n].status = "open"]
       IN CommitTask(WithStatus(asked, t, "review"), {"reviews", "tasks"})
    /\ UNCHANGED req

\* requestTaskReview: a closed task stays closed.
RequestReview(t) ==
    LET d == Synced(db) IN
    /\ Exists(d, t)
    /\ OpenReviews(d, t) = {}
    /\ Len(d.reviews[t]) < MaxDecisions
    /\ LET asked == [d EXCEPT !.reviews[t] =
                        Append(@, [run |-> LatestRun(d, t), status |-> "open"])]
       IN CommitTask(IF d.tasks[t].status = "done" THEN asked ELSE WithStatus(asked, t, "review"),
                     {"reviews", "tasks"})
    /\ UNCHANGED req

\* requestTaskApproval changes the approvals; the tasks are saved for their updatedAt.
RequestApproval(t, mode) ==
    LET d == Synced(db) IN
    /\ Exists(d, t)
    /\ PendingApprovals(d, t) = {}
    /\ Len(d.approvals[t]) < MaxDecisions
    /\ CommitTask([d EXCEPT !.approvals[t] =
                      Append(@, [run |-> LatestRun(d, t), mode |-> mode, status |-> "pending"])],
                  {"approvals", "tasks"})
    /\ UNCHANGED req

ResolveReview(d, t, outcome) ==
    [d EXCEPT !.reviews[t][Newest(OpenReviews(d, t))].status = outcome]

ResolveApproval(d, t, outcome) ==
    [d EXCEPT !.approvals[t][Newest(PendingApprovals(d, t))].status = outcome]

Close(d, t) == WithStatus(EndLatestRun(d, t, "completed"), t, "done")
Block(d, t) == WithStatus(EndLatestRun(d, t, "blocked"), t, "blocked")

\* Mutant: the task is closed and its latest run left as it is.
ApproveReviewOnly(t) ==
    LET d == Synced(db) IN
    /\ OpenReviews(d, t) # {}
    /\ LET decided == ResolveReview(d, t, "approved") IN
       CommitTask(IF PendingApprovals(d, t) = {} THEN WithStatus(decided, t, "done") ELSE decided,
                  {"reviews", "runs", "tasks"})
    /\ UNCHANGED req

\* Approving the open review closes the task unless an approval is pending.
ApproveReview(t) ==
    LET d == Synced(db) IN
    /\ OpenReviews(d, t) # {}
    /\ LET decided == ResolveReview(d, t, "approved") IN
       CommitTask(IF PendingApprovals(d, t) = {} THEN Close(decided, t) ELSE decided,
                  {"reviews", "runs", "tasks"})
    /\ UNCHANGED req

RequestChanges(t) ==
    LET d == Synced(db) IN
    /\ OpenReviews(d, t) # {}
    /\ CommitTask(Block(ResolveReview(d, t, "changes_requested"), t), {"reviews", "runs", "tasks"})
    /\ UNCHANGED req

\* Approving a before-complete gate closes the task unless a review is open.
ApproveApproval(t) ==
    LET d == Synced(db) IN
    /\ PendingApprovals(d, t) # {}
    /\ LET gate    == d.approvals[t][Newest(PendingApprovals(d, t))]
           decided == ResolveApproval(d, t, "approved")
       IN CommitTask(IF gate.mode = "before_complete" /\ OpenReviews(d, t) = {}
                     THEN Close(decided, t) ELSE decided,
                     {"approvals", "runs", "tasks"})
    /\ UNCHANGED req

RejectApproval(t) ==
    LET d == Synced(db) IN
    /\ PendingApprovals(d, t) # {}
    /\ CommitTask(Block(ResolveApproval(d, t, "rejected"), t), {"approvals", "runs", "tasks"})
    /\ UNCHANGED req

-----------------------------------------------------------------------------
(* Execution surfaces *)

\* POST api/execution-surfaces/tasks/claim authenticates the surface first.
BeginClaim(c, s, t) ==
    /\ req[c] = Idle
    /\ db.surfaces[s].status # "absent"
    /\ req' = [req EXCEPT ![c] = [op |-> "claim", task |-> t, by |-> s, seen |-> db.surfaces[s]]]
    /\ UNCHANGED db

MayClaim(d, r) ==
    LET t == r.task  row == d.tasks[r.task] IN
    /\ Exists(d, t)
    /\ row.assignee \in {NoSurface, r.by}
    /\ row.status = "ready" \/ (row.assignee = r.by /\ row.status = "in_progress")
    /\ ~UnmetDependencies(d, t)
    /\ ~AwaitsRunApproval(d, t)
    /\ Eligible(d, r.by, r.seen, t)

StartRun(d, t, s) ==
    [d EXCEPT !.runs[t] = Append(@, [surface |-> s, status |-> "running"]),
              !.tasks[t].assignee = s,
              !.tasks[t].status = "in_progress"]

\* Mutant: the new run is left out of the saved collections.
ClaimWithoutRuns(c) ==
    LET d == Synced(db)  r == req[c] IN
    /\ r.op = "claim"
    /\ MayClaim(d, r)
    /\ Commit(SyncGovernance(StartRun(d, r.task, r.by)), {"tasks", "reviews", "approvals"})
    /\ req' = [req EXCEPT ![c] = Idle]

\* claimTaskForExecutionSurface: a claim of a task the surface is already
\* working on changes nothing but is saved like any other.
ClaimTask(c) ==
    LET d == Synced(db)  r == req[c] IN
    /\ r.op = "claim"
    /\ MayClaim(d, r)
    /\ LatestRun(d, r.task) < MaxRuns
    /\ Commit(IF d.tasks[r.task].status = "in_progress" THEN d
              ELSE SyncGovernance(StartRun(d, r.task, r.by)),
              {"tasks", "runs", "reviews", "approvals"})
    /\ req' = [req EXCEPT ![c] = Idle]

\* The updater throws (404, 409 or 403) and nothing is saved.
RefuseClaim(c) ==
    /\ req[c].op = "claim"
    /\ ~MayClaim(Synced(db), req[c])
    /\ req' = [req EXCEPT ![c] = Idle]
    /\ UNCHANGED db

\* Mutants: the run takes the status of the task; a task going back to the
\* queue keeps its run.
RunStatusCopied(status) == status

RunStatusUntilClosed(status) ==
    CASE status = "blocked" -> "blocked"
      [] status \in {"review", "done"} -> "completed"
      [] OTHER -> "running"

\* taskStatusToRunStatus: a canceled task falls through to "running".
RunStatusOf(status) ==
    CASE status = "blocked" -> "blocked"
      [] status \in {"in_draft", "ready", "review", "done"} -> "completed"
      [] OTHER -> "running"

\* Mutant: a task reported ready is handed back without ending its run.
ReportAndHandBack(s, t, status) ==
    LET d == Synced(db) IN
    /\ Exists(d, t)
    /\ d.tasks[t].assignee = s
    /\ Commit([d EXCEPT !.tasks[t].status = status, !.tasks[t].assignee = NoSurface],
              {"tasks", "runs", "reviews", "approvals"})
    /\ UNCHANGED req

\* updateTaskFromExecutionSurface: the assigned surface reports a status; the
\* latest run follows it if it is that surface's.
ReportStatus(s, t, status) ==
    LET d == Synced(db)
        n == LatestRun(d, t)
        reported == IF n # 0 /\ d.runs[t][n].surface = s
                    THEN [d EXCEPT !.runs[t][n].status = RunStatusOf(status)] ELSE d
    IN
    /\ Exists(d, t)
    /\ d.tasks[t].assignee = s
    /\ Commit(SyncGovernance(WithStatus(reported, t, status)),
              {"tasks", "runs", "reviews", "approvals"})
    /\ UNCHANGED req

-----------------------------------------------------------------------------
(* Operators *)

\* A form that changes one thing; every other field is sent back as loaded.
Edits(d, t) ==
    LET row == d.tasks[t]
        others == {u \in Task \ {t} : Exists(d, u)}
    IN {[row EXCEPT !.status = x] : x \in FormStatus}
       \union {[row EXCEPT !.assignee = s] :
                  s \in {NoSurface} \union {s \in Surface : d.surfaces[s].status # "absent"}}
       \union {[row EXCEPT !.mode = m] : m \in FormMode}
       \union {[row EXCEPT !.requiresReview = b] : b \in BOOLEAN}
       \union {[row EXCEPT !.deps = D] : D \in SUBSET others}

\* updateTaskFromForm: the whole row is computed, and the assignee's workload
\* checked, on the data of the first load.
BeginEdit(c, t) ==
    LET d == Synced(db) IN
    /\ req[c] = Idle
    /\ Exists(d, t)
    /\ \E row \in Edits(d, t) :
          /\ row.assignee # NoSurface =>
                WithinAssignment([d EXCEPT !.tasks[t] = row], row.assignee, d.surfaces[row.assignee], t)
          /\ req' = [req EXCEPT ![c] = [op |-> "edit", task |-> t, row |-> row]]
    /\ UNCHANGED db

\* updateTaskRecord writes that row over whatever the task is by now.
SaveEdit(c) ==
    LET d == Synced(db)  r == req[c] IN
    /\ r.op = "edit"
    /\ IF Exists(d, r.task) THEN CommitTask([d EXCEPT !.tasks[r.task] = r.row], {"tasks"})
                            ELSE UNCHANGED db
    /\ req' = [req EXCEPT ![c] = Idle]

\* launchTaskSession and buildTaskLaunchPlan check the loaded task; then the
\* work thread is started, outside the database.  The thread runs for the
\* surface s the form names or the task is assigned to, or for none.  The
\* workload is that of the task as assigned to s already, so the place it would
\* take among the assigned tasks is not counted.
BeginLaunch(c, t, s) ==
    LET d == Synced(db)
        row == [d.tasks[t] EXCEPT !.assignee = s, !.status = "in_progress"]
    IN
    /\ req[c] = Idle
    /\ d.tasks[t].status = "ready"
    /\ ActiveRuns(d, t) = {}
    /\ IF s = NoSurface THEN d.tasks[t].assignee = NoSurface
       ELSE /\ d.surfaces[s].status # "absent"
            /\ Cardinality(AssignedOpen(d, s)) <= AssignmentLimit(d.surfaces[s])
            /\ WithinConcurrency(d, s, d.surfaces[s], t)
            /\ t \in Equipped[s]
    /\ ~AwaitsRunApproval(d, t)
    /\ req' = [req EXCEPT ![c] = [op |-> "launch", task |-> t, row |-> row]]
    /\ UNCHANGED db

\* Task t with the given row and a new run for surface s (prependRuns).
WithRun(d, t, row, s) ==
    [d EXCEPT !.tasks[t] = row,
              !.runs[t] = Append(@, [surface |-> s, status |-> "running"])]

\* launchTaskFromPlan records the started run; it checks nothing again.
RecordLaunch(c) ==
    LET d == Synced(db)  r == req[c] IN
    /\ r.op = "launch"
    /\ LatestRun(d, r.task) < MaxRuns
    /\ IF Exists(d, r.task)
       THEN CommitTask(WithRun(d, r.task,
                [r.row EXCEPT !.assignee = IF @ = NoSurface THEN d.tasks[r.task].assignee ELSE @],
                r.row.assignee), {"tasks", "runs"})
       ELSE UNCHANGED db
    /\ req' = [req EXCEPT ![c] = Idle]

\* createTask with createAndRun: the task is saved at work with the run of a
\* thread that is already started, past its approval gate and dependencies.
\* The workload of s and the dependencies were read before the thread was
\* started, so that neither is a guard of the save.
CreateAndRun(t, row, s) ==
    LET d == Synced(db) IN
    /\ d.tasks[t].status = "unborn"
    /\ \A u \in row.deps : u # t /\ d.tasks[u].status # "unborn"
    /\ s # NoSurface => d.surfaces[s].status # "absent"
    /\ MaxRuns > 0
    /\ Commit(WithRun(d, t, [row EXCEPT !.assignee = s, !.status = "in_progress"], s),
              {"tasks", "runs"})
    /\ UNCHANGED req

-----------------------------------------------------------------------------
Govern(t) ==
    \/ RequestReview(t) \/ ApproveReview(t) \/ RequestChanges(t)
    \/ \E mode \in FormMode \ {"none"} : RequestApproval(t, mode)
    \/ ApproveApproval(t) \/ RejectApproval(t)

Next ==
    \/ \E t \in Task : DeleteTask(t) \/ Govern(t) \/ \E row \in NewRow : CreateTask(t, row)
    \/ \E s \in Surface :
          \/ \E cap \in Capacity : \/ \E n \in RunCap : Register(s, cap, n)
                                   \/ \E st \in Presence : Heartbeat(s, st, cap)
          \/ \E t \in Task, st \in Report : ReportStatus(s, t, st)
    \/ \E c \in Worker : \/ \E s \in Surface, t \in Task : BeginClaim(c, s, t)
                         \/ ClaimTask(c)
                         \/ RefuseClaim(c)
    \/ \E c \in Editor : \/ \E t \in Task : BeginEdit(c, t)
                         \/ SaveEdit(c)
    \/ \E c \in Launcher :
          \/ RecordLaunch(c)
          \/ \E t \in Task, s \in Surface \union {NoSurface} :
                BeginLaunch(c, t, s) \/ \E row \in NewRow : CreateAndRun(t, row, s)

Spec == Init /\ [][Next]_vars

-----------------------------------------------------------------------------
(* Properties *)

\* A task never has two open reviews or two pending approvals, although both
\* the synchronisation of every load and the request handlers queue them
\* (syncGovernanceQueues, requestTaskReview, requestTaskApproval).
AtMostOne(S) == \A i, j \in S : i = j

OneOpenGate ==
    \A t \in Task : AtMostOne(OpenReviews(db, t)) /\ AtMostOne(PendingApprovals(db, t))

\* Every saved review and approval is about a saved run of its task: updates
\* that save different collections never tear a reference that
\* repairControlPlaneIntegrity would drop the record for.
ReferencesResolve ==
    \A t \in Task :
        /\ \A i \in DOMAIN db.reviews[t] : db.reviews[t][i].run <= Len(db.runs[t])
        /\ \A i \in DOMAIN db.approvals[t] : db.approvals[t][i].run <= Len(db.runs[t])

\* A decision is final: no later update, resynchronisation or rival decision
\* changes a resolved review or approval or drops it, short of deletion.
DecisionsAreFinal ==
    [][\A t \in Task :
        Exists(db', t) /\ Exists(db, t) =>
          /\ \A i \in DOMAIN db.reviews[t] \ OpenReviews(db, t) :
                i \in DOMAIN db'.reviews[t] /\ db'.reviews[t][i] = db.reviews[t][i]
          /\ \A i \in DOMAIN db.approvals[t] \ PendingApprovals(db, t) :
                i \in DOMAIN db'.approvals[t] /\ db'.approvals[t][i] = db.approvals[t][i]]_vars

\* A workflow parent is never saved as done while one of its children is
\* open, whoever claims, reviews, reports on, adds or deletes a task of the
\* family (syncWorkflowParentTaskStatuses, run on every load and save).
ParentsCloseLast ==
    \A t \in Task : db.tasks[t].status = "done" =>
        \A c \in LiveChildren(db, t) : db.tasks[c].status \in {"done", "canceled"}

\* Tasks whose status is their own (a workflow parent's follows its children).
Leaf == {t \in Task : Children[t] = {}}

\* A task that is not being worked on, whether returned to the queue, blocked
\* or closed, leaves no run behind that still counts as active on a surface
\* (updateTaskFromExecutionSurface, updateLatestRunForTask).
RestingTasksHaveNoActiveRun ==
    \A t \in Leaf : db.tasks[t].status \in {"in_draft", "ready", "blocked", "done"}
                    => ActiveRuns(db, t) = {}

\* A task never has two active runs (launchTaskSession: "This task already has
\* an active run.").
OneActiveRun == \A t \in Leaf : AtMostOne(ActiveRuns(db, t))

\* A claim that starts a run leaves the surface within the limits it has at
\* that moment ("ExecutionSurface is already at its concurrency limit."),
\* whatever runs the parents of the claimed task have of their own.
ClaimsStayWithinLimits ==
    [][\A s \in Surface :
        (\E t \in Leaf : Len(db'.runs[t]) > Len(db.runs[t]) /\ db'.runs[t][Len(db'.runs[t])].surface = s)
        => /\ Cardinality(RunsOn(db', s)) <= ConcurrencyLimit(db.surfaces[s])
           /\ Cardinality(AssignedOpen(db', s)) <= AssignmentLimit(db.surfaces[s])]_vars

\* Approving a review never closes a task gated before completion without an
\* approved gate ("Task requires approval before it can be closed out.").
ReviewedTasksWereApproved ==
    [][\A t \in Task :
        /\ db.tasks[t].status # "done" /\ db'.tasks[t].status = "done"
        /\ db.tasks[t].mode = "before_complete"
        /\ \E i \in DOMAIN db.reviews[t] :
              db.reviews[t][i].status = "open" /\ db'.reviews[t][i].status = "approved"
        => \E i \in DOMAIN db.approvals[t] :
              db.approvals[t][i].mode = "before_complete" /\ db.approvals[t][i].status = "approved"]_vars

\* Claiming implements the lease: a task passes from one surface to another
\* only through a state in which no surface is working on it.
Holder == [t \in Leaf |->
    IF ActiveRuns(db, t) = {} THEN NoSurface ELSE db.runs[t][Newest(ActiveRuns(db, t))].surface]

Lease == INSTANCE WorkLease WITH Task <- Leaf, Free <- NoSurface, holder <- Holder

ImplementsWorkLease == Lease!Spec
=============================================================================
