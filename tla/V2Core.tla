-------------------------------- MODULE V2Core --------------------------------
(***************************************************************************)
(* The v2 core: tasks, runs, artifacts, reviews and decisions in SQLite    *)
(* tables (v2-core-service.ts), used at the same time by the pages of the  *)
(* server and by command lines, each a process of its own.                 *)
(*                                                                         *)
(* A service function first reads what it checks and then writes in one    *)
(* transaction that checks nothing again.  What another process may undo   *)
(* between the two is kept in call; a check that stays true (a row exists, *)
(* a review is approved) is made with the write.  Rows are never deleted.  *)
(* One project and goal; texts, ids and time stamps are left out.          *)
(***************************************************************************)
CONSTANTS
    Task, Run, Artifact,        \* the rows that may be created
    Worked,                     \* bound: the other tasks are only depended on
    Process,                    \* processes at work on the database
    None,                       \* no row
    TaskStart, RunStart, ArtifactStart,  \* statuses a row may be created with
    Target,                     \* statuses a transition may ask for
    Verdict                     \* statuses a review may be recorded with

VARIABLES
    task,      \* task -> its status
    needs,     \* <<t, u>>: t has an unresolved dependency on u
    run,       \* run -> its status and its task
    artifact,  \* artifact -> its status, its task and its run
    reviews,   \* reviews recorded, of a task and maybe of one of its artifacts
    accepted,  \* acceptances recorded (accept_task_output), of a task and maybe a run
    call,      \* process -> the write it is about to make
    declared,  \* tasks created as done and artifacts attached as accepted
    late       \* artifacts attached when an acceptance of their task existed

rows == <<task, needs, run, artifact, reviews, accepted>>
vars == <<task, needs, run, artifact, reviews, accepted, call, declared, late>>

TaskStatus == {"draft", "ready", "in_progress", "review", "blocked", "done", "canceled"}
RunStatus  == {"planned", "running", "completed", "failed", "canceled"}
ArtifactStatus == {"draft", "submitted", "accepted", "rejected", "superseded", "deprecated"}
ReviewStatus   == {"open", "approved", "changes_requested", "rejected", "canceled"}

ASSUME V2Assumption ==
    /\ Worked \subseteq Task
    /\ TaskStart \subseteq TaskStatus /\ RunStart \subseteq RunStatus
    /\ ArtifactStart \subseteq ArtifactStatus
    /\ Target \subseteq TaskStatus /\ Verdict \subseteq ReviewStatus
    /\ None \notin Task \union Run \union Artifact

Absent == "absent"
Final  == {"done", "canceled"}

NoCall == [at |-> "idle", task |-> None, from |-> Absent, to |-> Absent, run |-> None]
Call   == [at : {"idle", "record", "check", "write", "finish"}, task : Task \union {None},
           from : TaskStatus \union {Absent}, to : TaskStatus \union {Absent}, run : Run \union {None}]

TypeOK ==
    /\ task \in [Task -> TaskStatus \union {Absent}]
    /\ needs \in SUBSET (Task \X Task)
    /\ run \in [Run -> [status : RunStatus \union {Absent}, task : Task \union {None}]]
    /\ artifact \in [Artifact -> [status : ArtifactStatus \union {Absent},
                                  task : Task \union {None}, run : Run \union {None}]]
    /\ reviews \in SUBSET [task : Task, artifact : Artifact \union {None}, status : ReviewStatus]
    /\ accepted \in SUBSET [task : Task, run : Run \union {None}]
    /\ call \in [Process -> Call]
    /\ declared \in SUBSET (Task \union Artifact)
    /\ late \in SUBSET Artifact

Init ==
    /\ task = [t \in Task |-> Absent]
    /\ needs = {}
    /\ run = [r \in Run |-> [status |-> Absent, task |-> None]]
    /\ artifact = [x \in Artifact |-> [status |-> Absent, task |-> None, run |-> None]]
    /\ reviews = {} /\ accepted = {}
    /\ call = [p \in Process |-> NoCall]
    /\ declared = {} /\ late = {}

-----------------------------------------------------------------------------
(* What the functions check *)

TaskExists(t) == task[t] # Absent
RunOf(r, t)   == r # None => run[r].status # Absent /\ run[r].task = t

\* Mutant: only a canceled task is final.
AllowedAfterDone(from, to) == from \notin {to, "canceled"}

\* ALLOWED_TASK_TRANSITIONS
Allowed(from, to) ==
    to \in CASE from = "draft"       -> {"ready", "blocked", "canceled"}
             [] from = "ready"       -> {"in_progress", "blocked", "canceled"}
             [] from = "in_progress" -> {"review", "blocked", "done", "canceled"}
             [] from = "review"      -> {"in_progress", "done", "blocked", "canceled"}
             [] from = "blocked"     -> {"ready", "canceled"}
             [] OTHER                -> {}

Approved(t)      == \E v \in reviews : v.task = t /\ v.status = "approved"
IsAccepted(t)    == \E d \in accepted : d.task = t

\* Mutant: assertTaskCanCloseDone does not ask for the acceptance.
CanCloseReviewed(t) == Approved(t)

CanCloseDone(t) == Approved(t) /\ IsAccepted(t)

\* readUnmetV2CoreTaskDependencies
Unmet(t) == {u \in Task : <<t, u>> \in needs /\ task[u] # "done"}

-----------------------------------------------------------------------------
(* Tasks *)

\* createV2CoreTask, by itself or as a follow-up of another task.
CreateTask(t, status) ==
    /\ ~TaskExists(t)
    /\ task' = [task EXCEPT ![t] = status]
    /\ declared' = IF status = "done" THEN declared \union {t} ELSE declared
    /\ UNCHANGED <<needs, run, artifact, reviews, accepted, call, late>>

\* recordV2CoreTaskDependency
AddDependency(t, u) ==
    /\ t # u
    /\ TaskExists(t) /\ TaskExists(u)
    /\ <<t, u>> \notin needs
    /\ needs' = needs \union {<<t, u>>}
    /\ UNCHANGED <<task, run, artifact, reviews, accepted, call, declared, late>>

-----------------------------------------------------------------------------
(* Status transitions *)

\* The first half of transitionV2CoreTaskStatus: the transition is allowed
\* from the status read, and a closure has its evidence.
MayMove(t, to) ==
    /\ TaskExists(t)
    /\ Allowed(task[t], to)
    /\ to = "done" => CanCloseDone(t)

Write(p, t, to) ==
    call' = [call EXCEPT ![p] = [NoCall EXCEPT !.at = "write", !.task = t, !.to = to,
                                               !.from = task[t]]]

BeginMove(p, t, to) ==
    /\ call[p].at = "idle"
    /\ MayMove(t, to)
    /\ Write(p, t, to)
    /\ UNCHANGED <<rows, declared, late>>

\* The same as part of a launch or an acceptance, which fails with it.
CheckMove(p) ==
    LET t == call[p].task  to == call[p].to IN
    /\ call[p].at = "check"
    /\ IF MayMove(t, to) THEN Write(p, t, to) ELSE call' = [call EXCEPT ![p] = NoCall]
    /\ UNCHANGED <<rows, declared, late>>

\* The second half: the status is set, whatever it is by now.
WriteMove(p) ==
    /\ call[p].at = "write"
    /\ task' = [task EXCEPT ![call[p].task] = call[p].to]
    /\ call' = [call EXCEPT ![p] = NoCall]
    /\ UNCHANGED <<needs, run, artifact, reviews, accepted, declared, late>>

-----------------------------------------------------------------------------
(* Runs *)

\* recordV2CoreRun, with the status the caller tells.
RecordRun(r, t, status) ==
    /\ run[r].status = Absent
    /\ TaskExists(t)
    /\ run' = [run EXCEPT ![r] = [status |-> status, task |-> t]]
    /\ UNCHANGED <<task, needs, artifact, reviews, accepted, call, declared, late>>

\* launchV2CoreProviderRun: a ready task needs its dependencies done.
MayLaunch(t) ==
    \/ task[t] = "ready" /\ Unmet(t) = {}
    \/ task[t] = "in_progress"

BeginLaunch(p, t) ==
    /\ call[p].at = "idle"
    /\ MayLaunch(t)
    /\ call' = [call EXCEPT ![p] = [NoCall EXCEPT !.at = "record", !.task = t,
                                                  !.from = task[t]]]
    /\ UNCHANGED <<rows, declared, late>>

\* The run is recorded; then a task that was read as ready is moved on.
RecordLaunch(p, r) ==
    LET c == call[p] IN
    /\ c.at = "record"
    /\ run[r].status = Absent
    /\ run' = [run EXCEPT ![r] = [status |-> "planned", task |-> c.task]]
    /\ call' = [call EXCEPT ![p] =
                   IF c.from = "ready"
                   THEN [NoCall EXCEPT !.at = "check", !.task = c.task, !.to = "in_progress"]
                   ELSE NoCall]
    /\ UNCHANGED <<task, needs, artifact, reviews, accepted, declared, late>>

\* completeV2CoreProviderRun: only a planned run is completed, ...
BeginComplete(p, r) ==
    /\ call[p].at = "idle"
    /\ run[r].status = "planned"
    /\ call' = [call EXCEPT ![p] = [NoCall EXCEPT !.at = "finish", !.run = r]]
    /\ UNCHANGED <<rows, declared, late>>

\* ... the outcome is written over whatever it is by then.
WriteComplete(p, status) ==
    /\ call[p].at = "finish"
    /\ run' = [run EXCEPT ![call[p].run].status = status]
    /\ call' = [call EXCEPT ![p] = NoCall]
    /\ UNCHANGED <<task, needs, artifact, reviews, accepted, declared, late>>

-----------------------------------------------------------------------------
(* Artifacts, reviews and acceptances *)

\* attachV2CoreArtifact
Attach(x, t, r, status) ==
    /\ artifact[x].status = Absent
    /\ TaskExists(t) /\ RunOf(r, t)
    /\ artifact' = [artifact EXCEPT ![x] = [status |-> status, task |-> t, run |-> r]]
    /\ declared' = IF status = "accepted" THEN declared \union {x} ELSE declared
    /\ late' = IF IsAccepted(t) THEN late \union {x} ELSE late
    /\ UNCHANGED <<task, needs, run, reviews, accepted, call>>

\* Mutant: the artifact takes the verdict as its status.
ReviewedRaw(x, status) == IF x = None THEN artifact ELSE [artifact EXCEPT ![x].status = status]

\* Mutant: a rejection leaves the artifact as it is.
ReviewedIfApproved(x, status) ==
    IF x # None /\ status = "approved" THEN [artifact EXCEPT ![x].status = "accepted"] ELSE artifact

\* markReviewedArtifactStatus: the artifact follows the review.
Reviewed(x, status) ==
    CASE x # None /\ status = "approved" -> [artifact EXCEPT ![x].status = "accepted"]
      [] x # None /\ status = "rejected" -> [artifact EXCEPT ![x].status = "rejected"]
      [] OTHER                           -> artifact

\* recordV2CoreReview
RecordReview(t, x, status) ==
    /\ TaskExists(t)
    /\ x # None => artifact[x].status # Absent /\ artifact[x].task = t
    /\ reviews' = reviews \union {[task |-> t, artifact |-> x, status |-> status]}
    /\ artifact' = Reviewed(x, status)
    /\ UNCHANGED <<task, needs, run, accepted, call, declared, late>>

\* Mutant: an acceptance of one run takes what other runs submitted.
CoversAnyRun(d, x) == artifact[x].task = d.task

\* markAcceptedTaskArtifacts: what was submitted for the task, or for the run
\* of it, is accepted.
Covers(d, x) == artifact[x].task = d.task /\ (d.run = None \/ artifact[x].run = d.run)

AcceptedBy(d) ==
    [x \in Artifact |->
        IF artifact[x].status = "submitted" /\ Covers(d, x)
        THEN [artifact[x] EXCEPT !.status = "accepted"] ELSE artifact[x]]

\* recordV2CoreDecision; the accept-output commands then close the task.
Accept(p, t, r, closes) ==
    LET d == [task |-> t, run |-> r] IN
    /\ call[p].at = "idle"
    /\ TaskExists(t) /\ RunOf(r, t)
    /\ accepted' = accepted \union {d}
    /\ artifact' = AcceptedBy(d)
    /\ call' = IF closes
               THEN [call EXCEPT ![p] = [NoCall EXCEPT !.at = "check", !.task = t, !.to = "done"]]
               ELSE call
    /\ UNCHANGED <<task, needs, run, reviews, declared, late>>

\* completeV2CoreManagedRunLifecycle: one transaction, checks included, that
\* completes the run, attaches, reviews and accepts its artifact, and closes
\* the task.
CompleteLifecycle(r, x) ==
    LET t == run[r].task  d == [task |-> t, run |-> r] IN
    /\ run[r].status = "planned" /\ task[t] = "in_progress"
    /\ artifact[x].status = Absent
    /\ run' = [run EXCEPT ![r].status = "completed"]
    /\ artifact' = [AcceptedBy(d) EXCEPT ![x] = [status |-> "accepted", task |-> t, run |-> r]]
    /\ reviews' = reviews \union {[task |-> t, artifact |-> x, status |-> "approved"]}
    /\ accepted' = accepted \union {d}
    /\ task' = [task EXCEPT ![t] = "done"]
    /\ late' = IF IsAccepted(t) THEN late \union {x} ELSE late
    /\ UNCHANGED <<needs, call, declared>>

\* A process is stopped between two of its transactions.
Crash(p) ==
    /\ call[p].at # "idle"
    /\ call' = [call EXCEPT ![p] = NoCall]
    /\ UNCHANGED <<rows, declared, late>>

-----------------------------------------------------------------------------
Part(p) ==
    \/ CheckMove(p) \/ WriteMove(p) \/ Crash(p)
    \/ \E r \in Run : RecordLaunch(p, r) \/ BeginComplete(p, r)
    \/ \E status \in {"completed", "failed"} : WriteComplete(p, status)
    \/ \E t \in Worked :
          \/ BeginLaunch(p, t)
          \/ \E to \in Target : BeginMove(p, t, to)
          \/ \E r \in Run \union {None}, closes \in BOOLEAN : Accept(p, t, r, closes)

Whole ==
    \/ \E t \in Task, status \in TaskStart : CreateTask(t, status)
    \/ \E r \in Run, x \in Artifact : CompleteLifecycle(r, x)
    \/ \E t \in Worked :
          \/ \E u \in Task : AddDependency(t, u)
          \/ \E r \in Run, status \in RunStart : RecordRun(r, t, status)
          \/ \E x \in Artifact, r \in Run \union {None}, status \in ArtifactStart :
                Attach(x, t, r, status)
          \/ \E x \in Artifact \union {None}, status \in Verdict : RecordReview(t, x, status)

Next == Whole \/ \E p \in Process : Part(p)

Spec == Init /\ [][Next]_vars

-----------------------------------------------------------------------------
(* Properties *)

\* A task that was not created as done is done only on evidence: an approved
\* review of it and an acceptance (assertTaskCanCloseDone), in whatever order
\* the processes recorded, checked and closed.
ClosedOnEvidence ==
    \A t \in Task : task[t] = "done" => t \in declared \/ (Approved(t) /\ IsAccepted(t))

\* A task leaves done or canceled (final in ALLOWED_TASK_TRANSITIONS) only by a
\* transition whose process had read it before it got there.
ClosedStaysClosed ==
    [][\A t \in Task :
          task[t] \in Final /\ task'[t] # task[t] =>
              \E p \in Process :
                  call[p].at = "write" /\ call[p].task = t /\ call[p].from \notin Final]_vars

\* An accepted artifact was attached as such, or a review approved it, or an
\* acceptance of its task covers it (markReviewedArtifactStatus,
\* markAcceptedTaskArtifacts).
AcceptedIsExplained ==
    \A x \in Artifact : artifact[x].status = "accepted" =>
        \/ x \in declared
        \/ \E v \in reviews : v.artifact = x /\ v.status = "approved"
        \/ \E d \in accepted : d.task = artifact[x].task /\ d.run \in {None, artifact[x].run}

\* readV2CoreUnreviewedOutputs: what is submitted, has no verdict, and whose
\* task nobody has accepted.
Unreviewed(x) ==
    /\ artifact[x].status = "submitted"
    /\ ~\E v \in reviews : v.artifact = x /\ v.status \in {"approved", "rejected"}
    /\ ~IsAccepted(artifact[x].task)

\* A submitted artifact drops out of the list of unreviewed outputs only if it
\* was attached after an acceptance of its task, or every acceptance was of
\* other runs.
NoOutputIsForgotten ==
    \A x \in Artifact : artifact[x].status = "submitted" /\ ~Unreviewed(x) =>
        \/ x \in late
        \/ /\ IsAccepted(artifact[x].task)
           /\ \A d \in accepted :
                 d.task = artifact[x].task => d.run \notin {None, artifact[x].run}
=============================================================================
