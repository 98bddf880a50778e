----------------------------- MODULE AgentThreads -----------------------------
(***************************************************************************)
(* Work threads and the tasks they work on: the handlers of                *)
(* agent-threads.ts that start a thread, send it a message, stop its run   *)
(* or just read it, each reading moving the task of the thread on.         *)
(*                                                                         *)
(* A run moves by itself as RunLife says.  A handler is a sequence of      *)
(* steps between its awaits; req holds what it keeps across them.  Updates *)
(* of the thread store and of the control-plane store are atomic           *)
(* (RevisionedStore).  Runs are numbered as they are recorded.             *)
(***************************************************************************)
EXTENDS Naturals, ThreadRecords

CONSTANTS
    Thread,     \* work threads, each started for a task of its own
    Request,    \* server requests that may be in flight together
    Op,         \* operations the requests may ask for
    MaxRuns,    \* bound on the runs recorded
    MaxFaults   \* bound on server restarts and updates given up

Operations == {"look", "list", "start", "send", "cancel", "recover"}

NoThread == "no thread"

ASSUME ThreadAssumption ==
    /\ MaxRuns \in Nat /\ MaxFaults \in Nat
    /\ Op \subseteq Operations
    /\ NoThread \notin Thread

VARIABLES
    row,       \* thread -> its stored row: without its Codex thread id, which a
               \* run of it may show, or with it
    owner,     \* run -> the thread it is recorded for
    run,       \* run -> the run as it is read
    launched,  \* runs whose runner was launched
    task,      \* thread -> the task it works on
    req,       \* request -> what it does and what it has read
    faults,    \* restarts and given up updates so far
    basis,     \* run -> the runs that the request that recorded it had seen
    missed     \* thread -> the runs it had that the reading which put its task under
               \* review had not seen

vars == <<row, owner, run, launched, task, req, faults, basis, missed>>

Run == 1..MaxRuns
NoRun == 0

Row == {"absent", "fresh", "shown", "bound"}

\* report: what the thread told; run: its latest run, or the one recorded.
Step == {"idle", "apply", "record", "reopen", "launch", "link", "stop", "retire", "settle"}
Idle == [at |-> "idle", op |-> "look", thread |-> NoThread, next |-> "idle", report |-> "none",
         pid |-> FALSE, seen |-> {}, run |-> NoRun]
Pending == [at : Step, op : Operations, thread : Thread \union {NoThread},
            next : {"idle", "record", "stop"}, report : Report,
            pid : BOOLEAN, seen : SUBSET Run, run : Run \union {NoRun}]

TypeOK ==
    /\ row \in [Thread -> Row]
    /\ owner \in [Run -> Thread \union {NoThread}]
    /\ run \in [Run -> LifeRecord]
    /\ launched \in SUBSET Run
    /\ task \in [Thread -> LinkedTask]
    /\ req \in [Request -> Pending]
    /\ faults \in 0..MaxFaults
    /\ basis \in [Run -> SUBSET Run]
    /\ missed \in [Thread -> SUBSET Run]

\* A thread is new, or a native Codex thread, which has its id and a history
\* of completed runs of its own, and is put to work on a task.
Init ==
    /\ row \in [Thread -> {"absent", "bound"}]
    /\ owner = [r \in Run |-> NoThread]
    /\ run = [r \in Run |-> NoLife]
    /\ launched = {}
    /\ task = [t \in Thread |->
                  [Unlinked EXCEPT !.status = IF row[t] = "bound" THEN "in_progress" ELSE @]]
    /\ req = [p \in Request |-> Idle]
    /\ faults = 0
    /\ basis = [r \in Run |-> {}] /\ missed = [t \in Thread |-> {}]

-----------------------------------------------------------------------------
(* Reading a thread *)

RunsOf(t) == {r \in Run : owner[r] = t}
Latest(S) == IF S = {} THEN NoRun ELSE CHOOSE r \in S : \A q \in S : q <= r
Active(r) == IsActive(run[r])

\* A list reads only the latest run of a thread, its page all of them.
RunsRead(op, t) ==
    IF op = "list" THEN RunsOf(t) \intersect {Latest(RunsOf(t))} ELSE RunsOf(t)

\* The Codex thread id is known from the row or from a run.
Resumable(t) == row[t] \in {"shown", "bound"}

\* The status of the latest run, or of the native history.
LatestStatus(t) ==
    LET r == Latest(RunsOf(t)) IN
    IF r # NoRun THEN run[r].status ELSE IF row[t] = "bound" THEN "completed" ELSE "absent"

\* finalizeThreadDetail, and what is made of it for the task.
Told(op, t) ==
    Outcome(\E r \in RunsRead(op, t) : Active(r), LatestStatus(t), Resumable(t))

\* Mutant: sendAgentThreadMessage does not ask whether a run is active.
NextStepUnchecked(op, t) ==
    LET told == Told(op, t) IN
    CASE op = "send"    -> IF Resumable(t) THEN "record" ELSE "idle"
      [] op = "cancel"  -> IF LatestStatus(t) = "running" THEN "stop" ELSE "idle"
      [] op = "recover" -> IF told = "active" THEN "stop" ELSE "idle"
      [] OTHER          -> "idle"

\* Where a handler goes with the thread it has read: a message needs an idle
\* thread and its id, a cancellation a pid, a recovery an active thread.
NextStep(op, t) ==
    LET told == Told(op, t) IN
    CASE op = "send"    -> IF told # "active" /\ Resumable(t) THEN "record" ELSE "idle"
      [] op = "cancel"  -> IF LatestStatus(t) = "running" THEN "stop" ELSE "idle"
      [] op = "recover" -> IF told = "active" THEN "stop" ELSE "idle"
      [] OTHER          -> "idle"

-----------------------------------------------------------------------------
(* The server *)

Goto(p, step) == req' = [req EXCEPT ![p].at = step]
Finish(p)     == req' = [req EXCEPT ![p] = Idle]

\* A thread is started once: its id is made for the request.
BeginStart(p, t) ==
    /\ req[p] = Idle
    /\ row[t] = "absent"
    /\ \A q \in Request : req[q].thread # t
    /\ req' = [req EXCEPT ![p] = [Idle EXCEPT !.op = "start", !.thread = t, !.at = "record"]]
    /\ UNCHANGED <<row, owner, run, launched, task, faults, basis, missed>>

\* Every other request first reads the thread (getAgentThread, or
\* listAgentThreads for a list).  A report that is not due is dropped unless
\* it is news to the run of the task.
BeginRead(p, op, t) ==
    LET next == NextStep(op, t)  latest == Latest(RunsOf(t))  told == Told(op, t) IN
    /\ req[p] = Idle
    /\ row[t] # "absent"
    /\ \E report \in IF IsDue(task[t], told) THEN {told} ELSE {told, "none"} :
       req' = [req EXCEPT ![p] =
          [at |-> "apply", thread |-> t, next |-> next, report |-> report,
           op   |-> IF next = "idle" THEN "look" ELSE op,
           pid  |-> next = "stop" /\ LatestStatus(t) = "running",
           seen |-> IF next = "record" \/ report = "completed"
                    THEN {r \in RunsRead(op, t) : run[r].status # "absent"} ELSE {},
           run  |-> IF next = "stop" THEN latest ELSE NoRun]]
    /\ UNCHANGED <<row, owner, run, launched, task, faults, basis, missed>>

\* The task of the thread is brought in line with what was read; the run had
\* logged something or not.
Reconcile(t, report, seen) ==
    \E logged \in BOOLEAN :
        LET after == Reconciled(task[t], report, logged) IN
        /\ task' = [task EXCEPT ![t] = after]
        /\ missed' = IF after.status = task[t].status THEN missed
                     ELSE [missed EXCEPT ![t] = IF after.status = "review" THEN RunsOf(t) \ seen ELSE {}]

\* reconcileTaskStateFromSessionDetails applies the detail to the task as it
\* is by then; the handler goes on with the detail.
Apply(p) ==
    LET r == req[p] IN
    /\ r.at = "apply"
    /\ Reconcile(r.thread, r.report, r.seen)
    /\ IF r.next = "idle" THEN Finish(p)
       ELSE req' = [req EXCEPT ![p].at = r.next, ![p].next = "idle", ![p].report = "none",
                               ![p].seen = IF r.next = "record" THEN @ ELSE {}]
    /\ UNCHANGED <<row, owner, run, launched, faults, basis>>

NextRun == Latest({q \in Run : owner[q] # NoThread}) + 1

\* The bound on runs: a request beyond it is dropped.
DropRecord(p) ==
    /\ req[p].at = "record" /\ NextRun \notin Run
    /\ Finish(p)
    /\ UNCHANGED <<row, owner, run, launched, task, faults, basis, missed>>

\* startAgentThread and sendAgentThreadMessage record the run; the row of the
\* thread is replaced, its runs are not looked at again.
Record(p) ==
    LET r == req[p]  new == NextRun IN
    /\ r.at = "record"
    /\ new \in Run
    /\ owner' = [owner EXCEPT ![new] = r.thread]
    /\ row' = [row EXCEPT ![r.thread] = IF r.op = "start" THEN "fresh" ELSE "bound"]
    /\ req' = [req EXCEPT ![p].at = IF r.op = "start" THEN "launch" ELSE "reopen",
                          ![p].run = new, ![p].seen = {}]
    /\ basis' = [basis EXCEPT ![new] = r.seen]
    /\ UNCHANGED <<run, launched, task, faults, missed>>

\* The second update of sendAgentThreadMessage, of the other store.
Reopen(p) ==
    LET t == req[p].thread IN
    /\ req[p].at = "reopen"
    /\ task' = [task EXCEPT ![t] = Reopened(@)]
    /\ missed' = IF task[t].status = "review" THEN [missed EXCEPT ![t] = {}] ELSE missed
    /\ Goto(p, "launch")
    /\ UNCHANGED <<row, owner, run, launched, faults, basis>>

\* launchRunner.
Launch(p) ==
    LET r == req[p] IN
    /\ r.at = "launch"
    /\ launched' = launched \union {r.run}
    /\ IF r.op = "start" THEN req' = [req EXCEPT ![p].at = "link", ![p].run = NoRun] ELSE Finish(p)
    /\ UNCHANGED <<row, owner, run, task, faults, basis, missed>>

\* launchTaskFromPlan: the task the thread was started for is saved last.
Link(p) ==
    /\ req[p].at = "link"
    /\ task' = [task EXCEPT ![req[p].thread] = [Unlinked EXCEPT !.status = "in_progress"]]
    /\ Finish(p)
    /\ UNCHANGED <<row, owner, run, launched, faults, basis, missed>>

\* cancelAgentThread and recoverAgentThread signal the child; a recovery goes
\* on without one, or when the child has gone.
Stop(p) ==
    LET r == req[p]
        signals == r.pid /\ run[r.run].work = "works"
    IN
    /\ r.at = "stop"
    /\ IF signals \/ r.op = "recover"
       THEN /\ run' = [run EXCEPT ![r.run] = Stopped(@)]
            /\ req' = [req EXCEPT ![p].at = "retire", ![p].pid = FALSE,
                                  ![p].report = IF signals THEN "canceled" ELSE "failed"]
       ELSE Finish(p) /\ UNCHANGED run
    /\ UNCHANGED <<row, owner, launched, task, faults, basis, missed>>

\* They write the run as ended over whatever it is by then.
Retire(p) ==
    LET r == req[p] IN
    /\ r.at = "retire"
    /\ \E x \in Retired(run[r.run]) : x.status = r.report /\ run' = [run EXCEPT ![r.run] = x]
    /\ IF r.op = "recover" THEN Goto(p, "settle") ELSE Finish(p)
    /\ UNCHANGED <<row, owner, launched, task, faults, basis, missed>>

\* recoverAgentThread settles the task with the outcome it wrote.
Settle(p) ==
    /\ req[p].at = "settle"
    /\ Reconcile(req[p].thread, req[p].report, {})
    /\ Finish(p)
    /\ UNCHANGED <<row, owner, run, launched, faults, basis>>

\* An update of a store that gives up (RevisionedStore) ends the request.
Refuse(p) ==
    /\ faults < MaxFaults
    /\ req[p].at \in {"apply", "record", "reopen", "link", "settle"}
    /\ Finish(p)
    /\ faults' = faults + 1
    /\ UNCHANGED <<row, owner, run, launched, task, basis, missed>>

\* Requests in flight are lost; the runners, which are detached, live on.
RestartServer ==
    /\ faults < MaxFaults
    /\ req' = [p \in Request |-> Idle]
    /\ faults' = faults + 1
    /\ UNCHANGED <<row, owner, run, launched, task, basis, missed>>

-----------------------------------------------------------------------------
(* The surroundings *)

Move(r, moves) ==
    /\ r \in launched
    /\ \E x \in moves : run' = [run EXCEPT ![r] = x]
    /\ UNCHANGED <<row, owner, launched, task, req, faults, basis, missed>>

\* A launched run moves by itself; its child ends; it is shown as ended.
MoveRun(r) == Move(r, Moves(run[r]))
EndWork(r) == run[r].work \in {"none", "works"} /\ Move(r, Stops(run[r]))
EndRun(r)  == Active(r) /\ Move(r, {x \in Moves(run[r]) : HasEnded(x)})

\* The files of the runs come to show the thread id, or lose it (RunFiles).
ShowId(t) ==
    /\ \E r \in RunsOf(t) : run[r].work # "none"
    /\ \/ row[t] = "fresh" /\ row' = [row EXCEPT ![t] = "shown"]
       \/ row[t] = "shown" /\ row' = [row EXCEPT ![t] = "fresh"]
    /\ UNCHANGED <<owner, run, launched, task, req, faults, basis, missed>>

\* The governance queue opens a gate for a task in review, and a reviewer may
\* approve it (TaskLifecycle has the whole of it).
OpenGate(t) ==
    /\ task[t].status = "review" /\ ~task[t].gate
    /\ task' = [task EXCEPT ![t].gate = TRUE]
    /\ UNCHANGED <<row, owner, run, launched, req, faults, basis, missed>>

ApproveGate(t) ==
    /\ task[t].gate
    /\ task' = [task EXCEPT ![t].gate = FALSE, ![t].status = "done"]
    /\ missed' = [missed EXCEPT ![t] = {}]
    /\ UNCHANGED <<row, owner, run, launched, req, faults, basis>>

-----------------------------------------------------------------------------
Handle(p) ==
    \/ Apply(p) \/ Record(p) \/ DropRecord(p) \/ Reopen(p) \/ Launch(p) \/ Link(p)
    \/ Stop(p) \/ Retire(p) \/ Settle(p)

Look(p, t) == BeginRead(p, "look", t)

Begin(p, t) ==
    \/ "start" \in Op /\ BeginStart(p, t)
    \/ \E op \in Op \ {"start"} : BeginRead(p, op, t)

Next ==
    \/ \E p \in Request : Handle(p) \/ Refuse(p) \/ \E t \in Thread : Begin(p, t)
    \/ \E r \in Run : MoveRun(r)
    \/ \E t \in Thread : ShowId(t) \/ OpenGate(t) \/ ApproveGate(t)
    \/ RestartServer

Spec == Init /\ [][Next]_vars

\* A server that runs goes on with its requests; a child ends, and a run ends
\* (RunFiles: RunEnds); somebody looks at every thread again and again.
Fairness ==
    /\ \A p \in Request : WF_vars(Handle(p))
    /\ \A r \in Run : WF_vars(EndWork(r)) /\ WF_vars(EndRun(r))
    /\ \A t \in Thread : SF_vars(\E p \in Request : Look(p, t))

FairSpec == Spec /\ Fairness

-----------------------------------------------------------------------------
(* Properties *)

\* Two runs of a thread work at the same time ("Thread already has an active
\* run.", sendAgentThreadMessage) only if the younger was sent by a request
\* that had read the thread before the older had left a file, or the older had
\* been given up: by an operator, or for its silence.
RivalsAreExplained ==
    \A a, b \in Run :
        /\ a < b /\ owner[a] # NoThread /\ owner[a] = owner[b]
        /\ run[a].work = "works" /\ run[b].work = "works"
        => a \notin basis[b] \/ run[a].given

\* A task is under review while a run of its thread is active only if the
\* reading that moved the task came late, the run having been recorded since,
\* or the run had been given up (sendAgentThreadMessage reopens the task;
\* reconcileTaskStateFromSessionDetails applies a detail after an await).
ReviewOverWorkIsExplained ==
    \A t \in Thread, r \in Run :
        task[t].status = "review" /\ owner[r] = t /\ Active(r) =>
            r \in missed[t] \/ run[r].given

\* The thread of t has nothing more to tell: its latest run was never started,
\* or completed without a thread id to resume it by.
Mute(t) == Told("look", t) = "none"

\* Work in progress is handed back: the task leaves in_progress, unless its
\* thread has nothing more to tell.
WorkIsHandedBack ==
    \A t \in Thread : task[t].status = "in_progress" ~> task[t].status # "in_progress" \/ Mute(t)
=============================================================================
