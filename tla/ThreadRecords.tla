---------------------------- MODULE ThreadRecords ----------------------------
(***************************************************************************)
(* The files a run of a work thread leaves on disk, what the server reads  *)
(* from them, and what that means for the task the thread works on: the    *)
(* pure functions of agent-threads.ts.  Time stamps, texts and exit codes  *)
(* are left out; a log is what its last lines tell the readers.            *)
(***************************************************************************)
ActiveStatus == {"queued", "running"}
EndStatus    == {"completed", "failed", "canceled"}

\* state.json; pid: the pid of the child is recorded, codex: the thread id is.
StateFile == [status : ActiveStatus \union EndStatus \union {"absent"}, pid : BOOLEAN, codex : BOOLEAN]
NoState   == [status |-> "absent", pid |-> FALSE, codex |-> FALSE]

\* "stalled": the last lines report a failed start-up or a lost connection,
\* and none has followed for the grace period.
LogTail == {"none", "line", "stalled"}

\* summary.json, and the summary the runner keeps in memory.
Summary   == [state : StateFile, said : BOOLEAN, log : LogTail]
NoSummary == [state |-> NoState, said |-> FALSE, log |-> "none"]

\* Mutant: the pid of a run that reads as active is not probed.
DeriveWithoutProbe(sum, alive, aged) ==
    LET s == sum.state IN
    IF s.status \notin ActiveStatus THEN s
    ELSE IF sum.log = "stalled" THEN [s EXCEPT !.status = "failed", !.pid = FALSE]
    ELSE IF ~s.pid /\ ~sum.said /\ sum.log = "none" /\ aged THEN [s EXCEPT !.status = "failed"]
    ELSE s

\* deriveRunState: the evidence that a run the files call active has ended.
\* The log of the files never holds an exit line while a summary exists.  Left
\* out: while the last lines of a started run hold a start-up marker that is not
\* judged stalled, the code does not probe the pid (withinStartupGraceWindow).
DeriveRunState(sum, alive, aged) ==
    LET s == sum.state IN
    IF s.status \notin ActiveStatus THEN s
    ELSE IF sum.log = "stalled" THEN [s EXCEPT !.status = "failed", !.pid = FALSE]
    ELSE IF s.pid /\ ~alive
         THEN [s EXCEPT !.status = IF sum.said THEN "completed" ELSE "failed", !.pid = FALSE]
    ELSE IF ~s.pid /\ ~sum.said /\ sum.log = "none" /\ aged THEN [s EXCEPT !.status = "failed"]
    ELSE s

-----------------------------------------------------------------------------
(* A run as its readers see it over time: the state they are told, whether *)
(* its Codex child works, is over or will never start, and whether the run *)
(* was ever given up while the child might work: by an operator, or for    *)
(* its silence.                                                            *)

RunStatus == ActiveStatus \union EndStatus \union {"absent"}
LifeRecord == [status : RunStatus, work : {"none", "works", "over", "never"}, given : BOOLEAN]
NoLife     == [status |-> "absent", work |-> "none", given |-> FALSE]

IsActive(x) == x.status \in ActiveStatus
HasEnded(x) == x.status \in EndStatus

\* The state of a run appears, as queued or as a failed launch.
Appears(x) == {[x EXCEPT !.status = s] : s \in {"queued", "failed"}}

\* Its child starts; the run is shown as running a little later.
Spawns(x) == {[x EXCEPT !.work = "works"]}
Runs(x)   == {[x EXCEPT !.status = "running"]}

\* The child ends, or its runner without it; until the runner has
\* written the outcome, a run that was shown as running is shown as failed.
Stops(x) ==
    {[x EXCEPT !.work = IF @ = "none" THEN "never" ELSE "over",
               !.status = IF @ = "running" THEN "failed" ELSE @]}

\* The outcome is written.
Closes(x) == {[x EXCEPT !.status = s] : s \in EndStatus}

\* A run without a pid is given up after a while, ...
Expires(x) == {[x EXCEPT !.status = "failed", !.given = @ \/ x.work = "works"]}

\* ... and one with a pid for its silence.
FallsSilent(x) ==
    {[x EXCEPT !.status = s, !.given = TRUE] : s \in IF x.given THEN {"failed", "canceled"} ELSE {"failed"}}

\* The runner of a run that was given up writes on.
Resurfaces(x) ==
    {[x EXCEPT !.status = s] : s \in IF x.work = "none" THEN {"queued"} ELSE ActiveStatus}

\* The moves of a run by itself.
Moves(x) ==
    UNION {IF x.status = "absent" THEN Appears(x) ELSE {},
           IF x.work = "none" /\ (x.status = "queued" \/ x.given) THEN Spawns(x) ELSE {},
           IF x.status = "queued" /\ x.work \in {"works", "over"} THEN Runs(x) ELSE {},
           IF x.work \in {"none", "works"} THEN Stops(x) ELSE {},
           IF x.work = "over" THEN Closes(x) ELSE {},
           IF x.status = "queued" /\ x.work # "none" THEN Expires(x) ELSE {},
           IF x.work = "works" /\ x.status # "queued" THEN FallsSilent(x) ELSE {},
           IF HasEnded(x) /\ x.given /\ x.work \in {"none", "works"} THEN Resurfaces(x) ELSE {}}

\* An operator stops the run: he signals its child, if he has read its pid, ...
Stopped(x) == [x EXCEPT !.given = TRUE]

\* ... and then writes the state he has read, ended.
Retired(x) == {[x EXCEPT !.status = s] : s \in {"failed", "canceled"}}

-----------------------------------------------------------------------------
(* The task a thread works on: its status, whether the thread blocked it,  *)
(* and whether a review or an approval of it is open.                      *)

TaskStatus == {"unlinked", "in_progress", "review", "blocked", "done"}
LinkedTask == [status : TaskStatus, byThread : BOOLEAN, gate : BOOLEAN]
Unlinked   == [status |-> "unlinked", byThread |-> FALSE, gate |-> FALSE]

\* What a thread tells of its task.
Report == {"active", "none"} \union EndStatus

\* Mutant: the status of the latest run is passed on as it is.
OutcomeUnchecked(active, status, resumable) == IF active THEN "active" ELSE status

\* deriveLifecycleUpdateFromThreadDetail: whether a run of the thread is
\* active, or how its latest run ended; a completed run counts if the thread
\* can be resumed.
Outcome(active, status, resumable) ==
    IF active THEN "active"
    ELSE IF status \notin EndStatus \/ (status = "completed" /\ ~resumable) THEN "none"
    ELSE status

Repairs(task, report) == report = "completed" /\ task.status = "blocked" /\ task.byThread

\* Mutant: a failure is not followed.
IsDueUnlessFailed(task, report) ==
    \/ report = "active" /\ task.status \in {"in_progress", "blocked"}
    \/ report \in EndStatus \ {"failed"} /\ (task.status = "in_progress" \/ Repairs(task, report))

\* Whether the task has to follow the report.
IsDue(task, report) ==
    \/ report = "active" /\ task.status \in {"in_progress", "blocked"}
    \/ report \in EndStatus /\ (task.status = "in_progress" \/ Repairs(task, report))

\* reconcileControlPlaneThreadState, for the task linked with the thread.  A
\* failed run that logged something blocks the task with that line as the
\* reason, and not with one that starts "The linked work thread".
Reconciled(task, report, logged) ==
    IF ~IsDue(task, report) THEN task
    ELSE IF report = "active" THEN [task EXCEPT !.status = "in_progress", !.byThread = FALSE]
    ELSE [task EXCEPT !.status = IF report = "completed" THEN "review" ELSE "blocked",
                      !.byThread = (report = "canceled" \/ (report = "failed" /\ ~logged))]

\* Mutant: a message leaves the review as it is.
NotReopened(task) == task

\* reconcileControlPlaneThreadMessage: a message reopens a task in review and
\* dismisses what waits for a decision on it.
Reopened(task) == IF task.status = "review" THEN [Unlinked EXCEPT !.status = "in_progress"] ELSE task
=============================================================================
