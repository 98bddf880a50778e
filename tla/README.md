# Verification of the agent management system

This directory holds TLA+ models of the agent management system (AMS) in
`src/`, the configurations that check them with TLC, and proofs checked by
TLAPS. AMS is one SvelteKit server (sometimes several processes: the operator
server, a development server, the command line) over an SQLite file. It keeps
tasks, hands them to *execution surfaces* (agents that claim and report) or
starts *work threads* (detached Codex processes) for them, and puts reviews and
approvals between an agent's work and the closure of a task.

Contents: 1 inventory, 2 plan, 3 the store, 4 the task life cycle, 5 thread
runs and their tasks, 6 the v2 core, 7 goals and references, 8 what is proved,
9 disagreements found, 10 what is not modelled.

## 1. Inventory

| Component (source below `src/src/lib/server` unless noted) | State | Operations | Hard behaviour |
|---|---|---|---|
| Revisioned stores: `db/store-revisions.ts`, `db/control-plane-store.ts`, `db/agent-threads-store.ts`, queued updates of `control-plane.ts` and `agent-threads.ts` | rows per collection, a revision per store; in each process a promise queue | load, update, direct save, seed | processes interleave; retries; a crash between load and save |
| Task records: `control-plane.ts` | tasks, runs, reviews, approvals, surfaces | synchronisation on every load and save | derived state saved only sometimes; derivation order |
| Governance: `task-governance.ts` | reviews, approvals | request, approve, reject, request changes | gates queued by derivation and by request; decided in any order |
| Execution surfaces: `execution-surface-api.ts`, `src/src/routes/api/execution-surfaces` | surfaces; runs, tasks | register, heartbeat, poll, claim, report | surfaces compete; claims decided on an earlier read |
| Task repository and operator actions: `control-plane-repository.ts`, `task-update-action.ts`, `task-session-actions.ts`, `task-launch-planning.ts`, `task-delete-action.ts` | tasks | create, edit, delete, launch, recover | stale forms; a thread started between check and record |
| Agent threads: `agent-threads.ts`, `src/scripts/agent-thread-runner.mjs` | threads, runs, contacts; state, summary, log and message files of each run | start, send, contact, recover, cancel, archive; the runner's writes | three processes write one file; liveness of the child decides the state read |
| Thread and task reconciliation: `agent-threads.ts` | tasks, runs, gates | outcome of a thread to its task; message reopens a review | two stores updated one after the other |
| Goals: `goal-continuation-reconciliation.ts`, `goal-relationships.ts`, `agent-control-plane-api.ts`, pages of goals | goals, their tasks and projects, decisions | create, update, relate, delete; follow up what a task change does to the goals above it | hierarchy checked on an earlier load; lists kept on both sides; follow-up in some handlers only |
| Integrity: `control-plane.ts`, `task-template-form-actions.ts`, page of a project | all collections | collect issues, repair, migrate; delete projects, save and delete templates | one dangling reference refuses every update |
| Workflows and decomposition: `workflow-*.ts`, `task-decomposition-action.ts`, `task-child-handoffs.ts` | families of tasks | instantiate, decompose, accept | derived parent status |
| V2 core: `v2-core-service.ts` | separate SQL tables | transitions, runs, reviews, decisions, memory, export, import | closure needs evidence recorded by other commands |
| Self-improvement: `self-improvement-store.ts` | records, signals, suggestions | analyse, decide, create task | same update queue as the stores; two stores updated in turn |
| Read models: `autonomous-queue.ts`, `planning.ts`, `goal-work-loop.ts`, ... | none | rank and display | none |
| Authentication, access probes, operator server, scripts, pages | none shared | | process supervision |

Interaction: every handler reads and changes the control plane through
`loadControlPlane` and `updateControlPlaneCollections`; nothing else is shared
inside a process. Agent threads have their own store with the same protocol,
and are tied to tasks by ids and by the reconciliation. Runners talk to the
server through files and, as agents, through the HTTP routes.

What makes each part correct: the *store* loses and tears no update, and
refuses stale ones; *task records* agree with each other after any mix of
handlers; *governance* has one open gate of each kind, keeps decisions, and
closes a task only through its gates; *surfaces* work on a task one at a time
and within their limits; *threads* have one active run, which reaches a final
state and stays there; *reconciliation* carries an outcome to the right run
once; *continuation* creates a task where there is a gap and nowhere else; *repair* leaves nothing the
collector reports; *V2* closes tasks on approved evidence only.

`PROJECT.json` lists the components with their status and the hazards with
their lines.

## 2. Plan

In order of importance to the program.

| | Modules | State |
|---|---|---|
| 1 Persistence | `AtomicStore` (abstract), `RevisionedStore` (protocol), `RevisionedStoreProofs`, `MCRevisionedStore` | done; it justifies treating a handler's update as one step everywhere else |
| 2 Task life cycle | `TaskRecords` (records and derivations), `WorkLease` (abstract), `TaskLifecycle` (handlers), `TaskLifecycleProofs`, `TaskReferencesProofs`, `TaskLeaseProofs`, `MCTaskLifecycle` | done |
| 3 Thread runs | `RunLife` (abstract run), `RunFiles` (runner, child, server and their files), `ThreadRecords` (what is read from the files), `RunFilesProofs` | done |
| 4 Threads and their tasks | `AgentThreads`, composed of the abstract runs of 3, the updates of 1 and the task statuses of 2; `AgentThreadsProofs`, `MCAgentThreads` | done for one task of a thread |
| 5 V2 core | `V2Core`, `V2CoreProofs`, `MCV2Core` | done for closing out tasks |
| 6 Goals and references | `GoalRecords` (integrity, hierarchy, relations, continuation), `GoalWork` (the handlers), `GoalWorkProofs`, `MCGoalWork` | done, but for the references and hierarchies section 10 names |
| 7 Recovery of a stalled session | the retiring half of 4 followed by the launching half of 2 | left |

## 3. The store

`RevisionedStore` has one variable for the database (`rows`, `revision`,
`seeded`) and the rest for the processes. A row is not modelled by its payload:
a collection is the set of calls whose changes its rows contain, which is all
that losing, tearing and ordering are about.

| Action | Code |
|---|---|
| `Enqueue`, `Begin`, `Settle` | `updateControlPlaneCollections` chains a promise on the queue; an update runs when the one before it has settled, fulfilled or rejected |
| `EnsureSeeded`, `Seed` | `ensureControlPlaneSqliteSeeded`: emptiness test, awaited file, save without revision; without a file the seed has no records and the store stays empty |
| `Load` | one read transaction for rows and revision |
| `Decline` | the updater throws (`refused`) or returns nothing to save (`unchanged`) |
| `Save`, `Conflict` | `bumpStoreRevision` inside the save transaction; a conflict restarts the attempt, five times in the code |
| `SaveDirect` | `setAgentThreadsArchived` |
| `Crash` | a process stops; what it committed stays |

Runs:

* `store_updates`: two processes; `a` of `p1` overlaps `b` and `d` of `p2` and
  a read; one crash; two attempts. Two attempts are enough to see a retry and a
  give-up, since a third repeats the second with the same guard. Shows the
  invariants below, the refinement of `AtomicStore` and, under `FairSpec`, that
  each queued update is answered unless its process stops. Fairness is weak,
  per call, and only on steps of calls already made: the event loop of a running
  process does run its promise jobs. Making a call and crashing are not fair.
* `store_blind_writers`: an empty store, an archive and updates in two
  processes. Updates may be lost here, but none is half visible and the revision
  always moves with the rows.
* `store_archive`: a violation, section 9.

Behaviour the model has and no run is spent on: a second process that found the
store empty erases, with its seed, what the first has committed since
(`EnsureSeeded`, `Seed`); where there is no JSON file the seed is empty, so every
load up to the first saved record seeds again. `NoLostUpdate` is therefore run and proved for a store
that holds records, `StartsSeeded`.

| Property | Meaning |
|---|---|
| `NoLostUpdate` | what a call saved stays in the collections it saved |
| `NoTornUpdate` | an update is in all its collections or none, and only if it reported success |
| `SnapshotIsCurrent` | a snapshot at the current revision is the store's contents |
| `OneRunningUpdate` | one update of a process is in flight |
| `ConflictNeedsRivals` | attempts are lost only to other processes or direct writers |
| `StaleSaveRefused` | no save replaces a revision that was not loaded |
| `EveryUpdateAnswered` | no update blocks those queued behind it |
| `ImplementsAtomicStore` | each step is one whole update, dropped calls, or a stutter |

## 4. The task life cycle

`TaskRecords` translates what `control-plane.ts` derives: workflow parent
status (`syncWorkflowParentTaskStatuses`), governance queues
(`syncGovernanceQueues`), dependency, gate and workload checks. `TaskLifecycle`
has two variables: `db`, the rows, and `req`, what clients hold between the two
steps of a request that decides on an earlier load (claim: the surface row;
edit: the whole task row; launch: the row to write after the thread started).
Any other handler is one step: load `Synced(db)`, change, `Commit` the named
collections after another synchronisation. Collections not named keep their
unsynchronised rows, as in the code: this is why gates are derived again and
again before they are saved.

| Action | Code |
|---|---|
| `CreateTask`, `DeleteTask` | `createTaskRecord`, `deleteTaskRecords` |
| `CreateAndRun` | `createTask` with `createAndRun`: the task is saved at work with its run (`prependRuns`) |
| `Register`, `Heartbeat` | the two routes; other fields of a surface are constant |
| `RequestReview`, `RequestApproval` | `requestTaskReview`, `requestTaskApproval` |
| `ApproveReview`, `RequestChanges`, `ApproveApproval`, `RejectApproval` | the decisions of `task-governance.ts` |
| `BeginClaim`, `ClaimTask`, `RefuseClaim` | the claim route: authentication on one load, `claimTaskForExecutionSurface` in the update |
| `ReportStatus` | `updateTaskFromExecutionSurface` |
| `BeginEdit`, `SaveEdit` | `updateTaskFromDetailForm` |
| `BeginLaunch`, `RecordLaunch` | `launchTaskSession` with `buildTaskLaunchPlan`; `launchTaskFromPlan` |

Abstractions: `createdAt` order is the order of the sequences; a run is known
by its position, `latestRunId` by the length. Tasks belong to no goal, for
which continuation does nothing (section 7 has it). A family is the constant `Children` (task and
child in one workflow). Capability and role matching are the constants
`Equipped` and `Suited`; an unset `maxConcurrentRuns` is 0. Checks a handler
makes on a load before the update and repeats inside it are one guard. A form
changes one field and sends the others back as loaded. Decisions in the log and
timestamps are left out. The run a launch records is created with the record.
A dependency on a deleted task, which every load drops, stays in the row and
counts for nothing. `CreateAndRun` is the save alone: the workload of the
surface was checked before the thread was started, and may be exceeded by then.

Runs (all with small sets of tasks and surfaces; bounds are constants, not
constraints: `MaxRuns` runs per task, `MaxDecisions` requested reviews and
approvals per task; derived gates are bounded by the stages):

* `task_governance`: one task of every approval mode, with and without review,
  one surface reporting any status, all decisions, deletion, two runs. One task
  is enough for properties of a task; two runs show a second stage of each gate.
* `task_workload`: a workflow parent with two children, one of which may depend
  on the other, two surfaces of capacity two and concurrency unset or one, two
  overlapping claims; reports, reviews and deletions. Children, surfaces and
  clients are interchangeable, so the run uses symmetry.
* `task_operators`: an editor with a stale form and a launcher, who may also
  create the task at work, against all decisions on a completion-gated task.
* `task_review_closes`: a violation, section 9.

| Property | Meaning |
|---|---|
| `OneOpenGate` | a task has one open review and one pending approval at most |
| `DecisionsAreFinal` | no step changes or drops a decision of an existing task |
| `ReferencesResolve` | saved gates refer to saved runs, though updates save different collections |
| `RestingTasksHaveNoActiveRun` | a queued, blocked or closed task has no active run |
| `OneActiveRun` | a task has one active run at most |
| `ClaimsStayWithinLimits` | after a claim of a leaf task the surface is within capacity and concurrency |
| `ImplementsWorkLease` | a task passes between surfaces only through a state where none works on it |
| `ParentsCloseLast` | no parent is saved as done over an open child |

`RestingTasksHaveNoActiveRun`, `OneActiveRun`, `ClaimsStayWithinLimits` and
`ImplementsWorkLease` are run without editors and launchers: a stale form or a
launch breaks them. No fairness is assumed: nothing obliges a
client to call, so no liveness is claimed of this module.

Behaviour the model has and no run is spent on, since nothing in the
repository promises otherwise: a rejected before-run gate is not asked again
when the task is set ready; a claim uses the capacity read at authentication; a
form saved late undoes a claim or a decision's effect on the task; a launch may
exceed the capacity by one; two overlapping launches leave a task two active
runs, the second thread being started on checks made before the first was
recorded; a canceled report leaves its run active; two tasks
can be made to depend on each other; a workflow parent that its children set
back to ready can be claimed a second time by the surface that works on it,
beyond that surface's limits, which is why `ClaimsStayWithinLimits` is about
claims of leaf tasks.

## 5. Thread runs and their tasks

A thread is a Codex session; each message to it starts a *run*, whose detached
runner (`agent-thread-runner.mjs`) spawns Codex and keeps `state.json` and
`summary.json`. The server never talks to the runner: it reads the files, probes
the pid, and overwrites the files when an operator stops the run.

**One run: `RunFiles`.** `file` and `summary` are the two files, `runner` the
position of the runner's asynchronous code with the copies it holds, `child` the
Codex process, `req` the operators' requests with the detail they have read.

| Action | Code |
|---|---|
| `Launch`, `NoticeExit` | `launchRunner`; `markRunnerLaunchFailed` when the runner ends before its second write |
| `WriteQueued`, `WriteFirstSummary`, `SpawnChild`, `FailSpawn`, `MarkRunning`, `Listen`, `MissClose` | the runner up to the listeners, which it attaches after two awaited writes: an end before that is missed |
| `WriteLine`, `FindThreadId`, `ReadForId`, `WriteId`, `WriteIdSummary` | `consumeBuffer`; the merge of the thread id is not awaited |
| `ReadForClose`, `WriteClose`, `WriteLastSummary`, `ExitRunner` | the close listener, a merge that overlaps the other |
| `BeginStop`, `Kill`, `WriteState`, `WriteSummary` | `cancelAgentThread`, `recoverAgentThread` |
| `Look` | a reader leaves a detail in the cache of `buildRunDetail` |
| `EndChild`, `PassGrace`, `CrashRunner`, `RestartServer` | the surroundings |

`Shown` is what a reader is told: `deriveRunState` over the detail, with the
probe of the pid and the grace period. `RunLife` is the abstract run: appears,
runs, ends once, and may come back after its end only if it was given up while
its child might work, by an operator or for its silence (`given`).

Run `run_files`, one operator and one fault (a crash of the runner or a restart
of the server), under `FairSpec`: a runner that is not killed goes on with its
writes, the server with its requests, the child ends and time passes; nothing
is assumed of operators and crashes.

| Property | Meaning |
|---|---|
| `OutcomeFollowsExit` | a runner that has exited leaves the outcome of its child and the thread id, unless an operator wrote over it or the two merges overlapped |
| `ImplementsRunLife` | readers see a run of `RunLife` |
| `RunEnds` | no run is shown as active for ever, start-up markers aside (see the abstractions) |

Bounds: one operator, because stopping is guarded by the same reading for
every other; one fault, because each is of another process. With two faults
`RunEnds` fails: a restart that takes the listener of a failed launch, and a
detail cached as queued, whose files never change again (`agent-threads.ts:1440`).
A crash is any end of a runner that its exit listener reports: exits with code 0
come after the writes it would repair, and SIGTERM, which it skips
(`agent-threads.ts:1094`), is sent to children only. A SIGTERM from outside would
be both faults in one.
The safety properties are proved for any operators and faults (section 8).

**Threads: `AgentThreads`.** Handlers are sequences of steps between their
awaits; runs move as `RunLife` says, which `ImplementsRunLife` justifies, and end
under the fairness `RunEnds` justifies. Updates of the two stores are steps of
their own, in the order of the code.

| Action | Code |
|---|---|
| `BeginStart`, `Record`, `Launch`, `Link` | `startAgentThread`, then `launchTaskFromPlan` |
| `BeginRead`, `Apply` | `getAgentThread`, `listAgentThreads` with `reconcileTaskStateFromSessionDetails`, which applies what was read to the task as it is by then |
| `Record`, `Reopen`, `Launch` | `sendAgentThreadMessage`: thread store, control plane, runner, in this order |
| `Stop`, `Retire`, `Settle` | `cancelAgentThread`, `recoverAgentThread` |
| `Refuse`, `RestartServer` | an update that gives up, a restart between two steps |
| `OpenGate`, `ApproveGate` | as much of the governance of section 4 as moves the task |
| `MoveRun`, `ShowId` | runner and child |

Runs: `thread_messages`, two requests at a time that start, message and recover
one thread, two runs; `thread_handover`, every operation, one request at a time
and one fault, under `FairSpec`: somebody looks at the thread again and again
(strong fairness: the page polls, and a request in flight only delays it).

| Property | Meaning |
|---|---|
| `RivalsAreExplained` | two runs of a thread work at once only if the second message was read before the first run existed, or the first run had been given up |
| `ReviewOverWorkIsExplained` | a task is under review over an active run only if the reading that moved it came late, or the run had been given up |
| `WorkIsHandedBack` | a task in progress is moved on, unless its thread has nothing more to tell |

Two runs and two requests show each pair of overlapping handlers; more of
either repeats a pair.

Abstractions: a write of one file is atomic and plain summary writes land in
order; the exit line of the log is never visible while a summary exists; the
grace period is much longer than a runner takes to start; start-up markers
(`withinStartupGraceWindow`, `agent-threads.ts:1684`) are left out, except as the
"stalled" log they end in: while the last lines hold one, a dead pid is not
taken for the end of the run, and once there is output after the marker it is
never judged stalled. A run whose runner and child die then, with the marker
still in the twelve lines kept, is shown as running until an operator recovers
it; `RunEnds` is about runs without such a marker. A recovery that fills in a
missing thread id from the thread (`agent-threads.ts:3975`) writes none; runs are numbered as
they are recorded; the two file writes of a stop are one step in `AgentThreads`
(they are two in `RunFiles`); the native history of a thread counts as completed
runs; a report the task need not follow is dropped unless it is news to the
task's run, whose status is not kept.

Behaviour the models have and no run is spent on: a late thread id may be merged
over the final status; a reader between the death of the child and the last
write of its runner blocks the task, and the completion that follows does not
unblock it; a process that stops between recording and launching a run leaves a
run that never starts.

## 6. The v2 core

`V2Core` models the tables of `v2-core-service.ts` as used by several processes
(server and command lines). A service function reads what it checks, then
writes in a transaction that checks nothing again: `call` keeps what was read
where another process may undo it. A check that stays true, once true, is made
with the write: rows are never deleted, reviews and decisions never changed.

| Action | Code |
|---|---|
| `CreateTask`, `AddDependency` | `createV2CoreTask` (follow-ups too), `recordV2CoreTaskDependency` |
| `BeginMove`, `WriteMove` | the two halves of `transitionV2CoreTaskStatus` |
| `RecordRun`, `BeginLaunch`, `RecordLaunch`, `CheckMove` | `recordV2CoreRun`; `launchV2CoreProviderRun`, which records the run and then moves a ready task |
| `BeginComplete`, `WriteComplete` | `completeV2CoreProviderRun` |
| `Attach`, `RecordReview`, `Accept` | artifacts, reviews, and `recordV2CoreDecision` with the closing commands |
| `CompleteLifecycle` | `completeV2CoreManagedRunLifecycle`, one transaction |
| `Crash` | a process stops between two transactions |

Run `v2_close_out`: two processes, a task that is worked on and one it may depend
on, one run, one artifact. Two processes are what one check and one write need
to come apart; transitions to `blocked` are left to the proofs, and artifacts
attached as accepted too.

| Property | Meaning |
|---|---|
| `ClosedOnEvidence` | done only on an approved review and an acceptance |
| `ClosedStaysClosed` | a closed task is reopened only by a transition checked before it closed |
| `AcceptedIsExplained` | an accepted artifact was attached so, approved, or covered by an acceptance |
| `NoOutputIsForgotten` | a submitted artifact leaves the list of unreviewed outputs only if it came after an acceptance or other runs alone were accepted |

Abstractions: one project and goal; a dependency recorded twice is one; the
availability checks of the pages are subsumed by those of the service; agent
cycles and dispatches are guarded launches. Behaviour the model has without a
run: an orphaned planned run after a failed launch, a second completion over the
first, an old approval that still counts after rework, an acceptance recorded
before a closure that fails, dependency cycles.

## 7. Goals and references

Projects, goals, tasks and templates refer to each other by id. Every load
repairs what dangles (`Repaired`), and every update is refused as a whole if
anything in its data still dangles (`Sound`), whatever the update was about.
Goals form a hierarchy; a task belongs to a goal that lists it or that it names,
and the two sides are written by different handlers. A goal that is active and
has no open work gets a *continuation task*, "assess remaining gap and create
next work", from the handlers that follow a task change up.

`GoalRecords` has these as operators on the record `db`; ways up and down the
hierarchy are stated by closed sets instead of loops, so that they mean the same
on a cycle. `GoalWork` has the handlers. Each is one step, for what it
checks on its first load is checked again by the update's refusal, but for the
cycle check of a goal update: `form` keeps what was checked.

| Action | Code |
|---|---|
| `CreateTask` | `createTaskRecord` with the goal it names related to it; no follow-up |
| `SaveTask` | `updateTaskRecord`, `mutateTaskCollections`: form, agent API, governance; workflow parent synchronised, then followed up |
| `ReportTask` | `updateTaskFromExecutionSurface` and what threads report; not followed up |
| `DeleteTask` | `deleteTaskRecords`: the tasks that depended on it are updated, the workflow parent is synchronised, then followed up |
| `CreateGoal` | `createAgentApiGoal`, `createGoal` of the page |
| `BeginGoalEdit`, `SaveGoalEdit`, `EditGoal`, `Refuse` | `updateAgentApiGoal` (continues the goal) and `updateGoal` of the page (does not): checks and update, with others between or not |
| `DeleteGoal`, `DeleteProject` | the functions of `control-plane.ts` and their page actions |
| `SaveTemplate`, `DeleteTemplate` | `task-template-form-actions.ts` |

Run `goal_work`: two goals, two tasks (`w1` a part of `w2`) and two continuation
tasks, two projects, two templates, one goal update that others overtake. Two
goals make a hierarchy, a cycle and two lists; two continuation tasks show one
made while another exists; the second task is what a deletion or the sync drags
along. `CONSTRAINT Apart` explores the subjects one by one (templates; the
overtaken update; the second continuation task; the second task, with goals side
by side), which a note in `MCGoalWork` lists: they meet only in `Sound`. Goals
are interchangeable, so the run uses symmetry.

| Property | Meaning |
|---|---|
| `ListsAreDisjoint` | no task is listed by two goals |
| `OnlyFormsMisplace` | a listed task that names another goal got there by a task form |
| `StuckIsExplained` | what is loaded can be saved, unless a template was forked from one of a deleted project |
| `CyclesAreOvertaken` | a goal becomes its own ancestor only by an update overtaken between check and save |
| `PlansFillGaps` | a continuation task is made only where no work is open at or below its goal |
| `TaskChangesAreFollowedUp` | a followed-up change leaves no goal in a gap that had the task in its scope, except those that listed a deleted task which named another goal; elsewhere it opens a gap only through a task it drags along (`Dragged`) |

Abstractions: statuses only as far as goals tell them apart; a continuation task
is known by its number, in the code by its title; tasks are deleted one at a
time, and the tasks a deletion updates (those that depended on it, its children)
are any set; `Parent` is a constant, as a task gets its parent on creation and keeps it while that exists, and
the status its children give a parent is any one (`Derived`), so that children
outside the instance count; parents of parents, which further loads would bring up to date,
are left out; a successor template is a source; time stamps are the relation
`newer`. No fairness is assumed: nothing obliges a client to call.

Behaviour the model has and the properties set apart:

* A fork of a template of a deleted project: the repair drops the template but
  keeps the reference, so from then on every update of anything is refused. The
  tests of the repair (`control-plane.spec.ts:582`) expect that nothing is left.
* Goals and templates that a template still refers to cannot be deleted: the
  update is refused.
* Two overlapping re-parentings make a cycle, and the cycle check, asked about it
  later, walks round it for ever (`WalkEnds` bars this walk: the request never
  answers).
* The task form moves a task without touching the lists: the goal it left still
  lists it, and its next update takes the task back. A goal form saved over a new
  continuation task unlinks it.
* Reports are not followed up, nor is the goal that listed a deleted task which
  named another; `reconcileAllActiveGoalContinuations`, which would catch up, is
  called nowhere.
* Nor are the goals of the tasks a change drags along. `w2` is done and its goal's
  continuation task closed after it; `w1`, on which `w2` depended, is deleted
  from another goal: `deleteTasksFromData` updates `w2`
  (`control-plane-repository.ts:64`), which is now newer than the continuation
  task, and its goal is in a gap that the follow-up, asked for the goals of `w1`
  only, does not see. TLC finds this if `Dragged` is taken out. In the same way the
  sync (line 217) may close a parent that was the last open work of another goal.

## 8. What is proved

All theorems hold for every value of the constants that satisfies the named
assumptions of the module (`StoreAssumption`, `RecordsAssumption`,
`LifecycleAssumption`, `RunAssumption`, `ThreadAssumption`, `V2Assumption`, and in `GoalRecords`,
`GoalWork` another `RecordsAssumption`, `ParentAssumption` and `WorkAssumption`), checked by TLAPS to the last leaf.

**Store** (`RevisionedStoreProofs`). The inductive invariant is `StoreInv`:
types, `HeadRuns` (the update in flight heads its process's queue, needed
because settling removes the head) and `SnapshotIsCurrent`. It holds with blind
writers and crashes, and gives `TypeCorrect` and `OneRunningUpdateHolds`. Under
`NoBlindWriters` (a store that holds records, whose writers all use the queue)
nobody seeds, so `Save` is the only step that writes; as the saved snapshot is
current, its rows are the present rows plus the call (`SaveAdds`). Hence
`NoLostUpdateHolds`, `StaleSavesAreRefused` and `StoreImplementsAtomicStore`.
`NoTornUpdateHolds` needs no such assumption: by `WholeInv` every snapshot in a
process's hands holds each update whole or not at all, so a late blind save may
lose updates but never half of one. `ConflictNeedsRivalsHolds`, for finitely
many calls, rests on `RivalInv`: while an update is in flight only rivals save,
and each attempt that failed was overtaken by a save made after it loaded.

**Task life cycle** (`TaskLifecycleProofs`). `GateInv` is `TypeOK` with
`OneOpenGate`. Single gates have to be part of the invariant of the decisions:
a decision is written to the newest open gate, and it is because that gate is
the only one that no other is left behind and no resolved one is touched. The
lemmas follow the code: what synchronisation does to a store, what committing
does, that an appended gate and a decided gate keep gates single and earlier
decisions standing (`AppendGate`, `DecideGate`); then one lemma for every
handler. Theorems: `GateInvariant`, `TypeCorrect`, `OneOpenGateHolds`,
`DecisionsAreFinalHolds`; editors and launchers included. The same lemmas show
that every step leaves the saved tasks alone or saves them with the parents
brought up to date (`ParentsSynced`). With that, `ParentsCloseLastHolds` needs
`FlatFamilies`, that children have no children of their own: one pass uses the
statuses children had before it, so a grandparent may lag behind.

**References** (`TaskReferencesProofs`). `ReferencesResolve` is inductive with
`GateInv`. An update saves only the collections it names; so it has to be shown
of each handler that one which saves no runs has not changed them, and that one
which drops runs saves the gates with them, after a synchronisation that has
dropped the gates without a run.

**Leases** (`TaskLeaseProofs`). All of it assumes `NoOperators`: `Editor` and
`Launcher` are empty, for a stale form or a launch breaks the statements. "One
active run" is not inductive: a claim must find no active run
on a ready task, and a report must end the run it is about. `LeaseInv` adds to
`GateInv` that only the latest run of a leaf task can be active, only while the
task is in progress, in review or canceled, and only for the surface the task
is assigned to; a task without a row has no runs. A report ends the latest run
only if it is the reporting surface's; by the invariant any other one is not
active. Hence `OneActiveRunHolds` and `RestingTasksHold`, and
`TasksAreLeased`: `RunsMove` says that a step moves the runs of one task, by
starting, ending or dropping one, so the refinement mapping `Holder` changes for
that task alone, to or from nobody. Restricted to leaf tasks, as the properties
are, since a parent takes its status from its children.

The limits of a surface are two counts, which the library's facts on finite
sets reach (`FiniteSetTheorems`), so the tasks are finitely many here. Only a
claim starts a run (`OnlyClaimsStart`). A ready leaf task has no active run, so
its claim adds one to each count that was below its limit (`LimitsReadAreKept`,
for any capacities, limits being those of the row the claim read at
authentication). In `FlatFamilies` no parent that is done reopens, so
synchronisation adds nothing to the counts behind a claim's back. What was read
fits the row the surface has now, but for its capacity (`SeenFits`): with
`OneCapacity`, which the run has too, `ClaimsStayWithinLimitsHolds`. Without it
the property is false: a lowered capacity does not apply to a claim already
authenticated.

**Run files** (`RunFilesProofs`). A step finds in a file what another process
wrote, perhaps long ago, and what it holds in its hands may be older still. The
invariant `IInv` says what each can be. `Told` is the shape of anything read
from the files: it reads as running with a pid to probe, or as ended, and then
the child is over or an operator wrote it. `FileFits`, `SummaryFits` and
`RequestsFit` say that the files and the details the operators hold are told;
`ChildFits` and `RunnerFits` tie child and files to the runner's position;
`CloseFits` keeps, until the last merge, the outcome the close listener
carries, and is what `OutcomeFollowsExit` needs. For the refinement, `Read`
works out from the files the status a reader is told; `RunMoves` has the moves
of `RunLife` field by field, and each action is shown to be one of them or a
stutter. Most are stutters for one reason: a summary written late shows nothing
new (`SummaryWritten`). Theorems: `RunInvariant`, `TypeCorrect`,
`OutcomeHolds`, `RunsImplementLife`, for any operators, lines of output and
faults, where the run has one operator and one fault. So the abstract runs
`AgentThreads` moves are proved to be what readers of the files see.

**Threads** (`AgentThreadsProofs`). A request reads runs, awaits, and acts on
what it read. What keeps this harmless is `Harmless`: a run that was read as
ended never works again, unless it had been given up. The invariant `IInv` has,
beside `TypeOK`, `RequestSound` (what each request holds was true when it was
read and is harmless or explained by now), `StartSound`, `RunSound` and
`TaskSound` (a task under review has no working run that is not `Excused`).
Theorems: `ThreadInvariant`, `TypeCorrect`, `RivalsAreExplainedHolds`,
`ReviewOverWorkIsExplainedHolds`, for any threads, requests and bounds;
`ThreadAssumption` says no more than that the constants are numbers, and that
the absent thread is none.

**V2 core** (`V2CoreProofs`). The invariant `IInv` has, beside the properties,
`CallSound` (a process about to close a task has seen its evidence, which is
still there, for evidence only grows), `RunOwned` (a recorded run has a task),
`Unjudged` (a submitted artifact has no verdict) and `Uncovered` (an acceptance
that covered it came before it). With it `ClosedOnEvidence` survives the write
that checks nothing. Theorems: `TypeCorrect`, `ClosedOnEvidenceHolds`,
`ClosedStaysClosedHolds`, `AcceptedIsExplainedHolds`,
`NoOutputIsForgottenHolds`, for any tasks, runs, artifacts, processes and
initial statuses.

**Goals** (`GoalWorkProofs`). `IInv` is `Orderly(db)` (types, `Resolved`: saved
references have their targets, `Disjoint`: lists are), with what the overtaken
update holds (`FormsTyped`, `FormSound`). Since saved references resolve, the
repair made by every load changes neither lists nor hierarchy, and what is
proved of a saved store holds of a loaded one. "Below" is stated by closed sets
in the model, so that a goal is free of cycles exactly if some closed set leaves
it out; a re-parenting keeps that set unless it was overtaken, and then `FormSound`
is what still holds of the form. Following up creates a task only at a goal
with nothing open at or below it. Which goals come out of a gap is a matter of
the way up: of the gaps on it the first gets a task, and the others lie above
that one, even where the way runs into a cycle (`LaterGaps`), so none is left on
it and none is opened (`ContinuedClosesGaps`). The goals whose scope a task is in
are on the ways up from the goal it names and the one that lists it
(`ScopesOfTask`), and those are followed up (`SavedTaskIsFollowedUp`,
`DeletionIsFollowedUp`). In the scope of any other goal a task change alters no
status but that of the workflow parent, and no time stamp but those of the tasks
that depended on a deleted one, so without these the goal was in a gap before
(`OnlyDragged`). Theorems: `Invariance`, `TypeCorrect`,
`ListsDisjoint`, `StuckExplained`, `FormsMisplace`, `CyclesOvertaken`,
`PlansFill`, `ChangesAreFollowedUp`, for any projects, goals, tasks and templates, without the
constraint of the run.

Only model-checked: the liveness properties `EveryUpdateAnswered`, `RunEnds` and
`WorkIsHandedBack`, which are out of the prover's reach. Every other property of
a passing run is stated by a theorem.

## 9. Disagreements found

* **Bulk archive** (`store_archive`). `setAgentThreadsArchived` loads, awaits
  the native threads and saves the whole store, outside queue and revision
  check: an update committed in between is lost.
* **Review closes a rejected task** (`task_review_closes`).
  `approveTaskReview` closes whenever no approval is *pending*: with the
  completion approval rejected and the review still open, approving the review
  closes the task.

## 10. Not modelled

The recovery of a stalled session as a whole: planned (section 2). References to
workflows, roles, surfaces, planning sessions and decisions, which are collected
and repaired like those of section 7; the hierarchy of projects; the migration of
old files; the managed runner of continuation tasks. Of threads: contacts between threads, edits of
sandbox, model and handle, attachments, the native rollout reader. Of the v2
core: goals, memory promotion, tools and evaluations, export and import.
Workflows and decomposition create families by the repository functions of
section 4; a family is a constant there. Payload diffing and JSON mirrors of the
stores, text, timestamps and logs: data the properties do not tell apart. Read
models, pages, command lines, authentication, process supervision, off-line
migration: they hold no shared state of their own or are pure I/O. The
self-improvement store uses the protocol of section 3 as it stands.
