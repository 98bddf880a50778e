-------------------------- MODULE AgentThreadsProofs --------------------------
(***************************************************************************)
(* Proofs about work threads, for any threads, requests, operations and    *)
(* bounds.  Both safety properties rest on one observation: a run that was *)
(* read as ended stays harmless, it never works again unless it had been   *)
(* given up.  So a request may act on what it read long ago; what it did   *)
(* not see is what the history variables basis and missed hold.            *)
(***************************************************************************)
EXTENDS AgentThreads, WellFoundedInduction, TLAPS

USE ThreadAssumption DEF NoRun

-----------------------------------------------------------------------------
(* Runs have a latest *)

LEMMA LeastNatural ==
    ASSUME NEW T, T \subseteq Nat, T # {}
    PROVE  \E x \in T : \A y \in T : ~ (y < x)
<1> DEFINE R == OpToRel(<, Nat)
<1>1. \A x, y \in Nat : <<y, x>> \in R <=> y < x
  BY Zenon DEF OpToRel
<1>2. IsWellFoundedOn(R, Nat)
  BY NatLessThanWellFounded
<1> HIDE DEF R
<1>3. PICK x \in T : \A y \in T : ~ (<<y, x>> \in R)
  BY <1>2, WFMin
<1>4. QED BY <1>1, <1>3

LEMMA LatestIsLargest ==
    ASSUME NEW S, S \subseteq Run, S # {}
    PROVE  Latest(S) \in S /\ \A q \in S : q <= Latest(S)
<1> DEFINE T == {n \in Nat : MaxRuns - n \in S}
<1>1. \A r \in S : r \in 1 .. MaxRuns /\ MaxRuns - r \in Nat /\ MaxRuns - (MaxRuns - r) = r
  BY DEF Run
<1>2. \A r \in S : MaxRuns - r \in T
  BY <1>1
<1>3. PICK x \in T : \A y \in T : ~ (y < x)
  BY <1>2, LeastNatural
<1>4. MaxRuns - x \in S /\ \A q \in S : ~ (MaxRuns - q < x)
  BY <1>2, <1>3
<1>5. \A q \in S : q <= MaxRuns - x
  BY <1>1, <1>4
<1>6. \E r \in S : \A q \in S : q <= r
  BY <1>4, <1>5
<1>7. QED BY <1>6 DEF Latest

LEMMA LatestType ==
    ASSUME NEW S, S \subseteq Run
    PROVE  Latest(S) \in Run \union {NoRun}
<1>1. CASE S = {} BY <1>1 DEF Latest
<1>2. CASE S # {} BY <1>2, LatestIsLargest
<1>3. QED BY <1>1, <1>2

\* A new run was nobody's.
LEMMA NewRunIsNew ==
    ASSUME NextRun \in Run
    PROVE  owner[NextRun] = NoThread
<1> DEFINE S == {q \in Run : owner[q] # NoThread}
<1>1. NextRun = Latest(S) + 1
  BY DEF NextRun
<1>2. S \subseteq Run
  OBVIOUS
<1> HIDE DEF S
<1>3. CASE S = {}
  <2>1. NextRun \notin S
    BY <1>3
  <2>2. QED BY <2>1 DEF S
<1>4. CASE S # {}
  <2>1. Latest(S) \in S /\ \A q \in S : q <= Latest(S)
    BY <1>2, <1>4, LatestIsLargest
  <2>2. Latest(S) \in Nat
    <3>1. Latest(S) \in Run
      BY <1>2, <2>1
    <3>2. QED BY <3>1 DEF Run
  <2>3. NextRun \notin S
    BY <1>1, <2>1, <2>2
  <2>4. QED BY <2>3 DEF S
<1>5. QED BY <1>3, <1>4

-----------------------------------------------------------------------------
(* The life of a run *)

\* The run is over for whoever read it as ended, or has been given up.
Harmless(x) == x.given \/ (HasEnded(x) /\ x.work # "works")

\* A run that works is shown as active, unless it was given up.
Sane(x) == x.work = "works" /\ ~IsActive(x) => x.given

\* What every step keeps of a run x that becomes y.
Ages(x, y) ==
    /\ y \in LifeRecord
    /\ Sane(x) => Sane(y)
    /\ x.given => y.given
    /\ Harmless(x) => Harmless(y)

LEMMA MovesAge ==
    ASSUME NEW x \in LifeRecord, NEW y \in Moves(x)
    PROVE  Ages(x, y)
<1> USE DEF Ages, Sane, Harmless, HasEnded, IsActive, LifeRecord, RunStatus, ActiveStatus, EndStatus
<1>1. CASE x.status = "absent" /\ y \in Appears(x)
  BY <1>1 DEF Appears
<1>2. CASE x.work = "none" /\ (x.status = "queued" \/ x.given) /\ y \in Spawns(x)
  BY <1>2 DEF Spawns
<1>3. CASE x.status = "queued" /\ x.work \in {"works", "over"} /\ y \in Runs(x)
  BY <1>3 DEF Runs
<1>4. CASE x.work \in {"none", "works"} /\ y \in Stops(x)
  BY <1>4 DEF Stops
<1>5. CASE x.work = "over" /\ y \in Closes(x)
  BY <1>5 DEF Closes
<1>6. CASE x.status = "queued" /\ x.work # "none" /\ y \in Expires(x)
  BY <1>6 DEF Expires
<1>7. CASE x.work = "works" /\ x.status # "queued" /\ y \in FallsSilent(x)
  BY <1>7 DEF FallsSilent
<1>8. CASE HasEnded(x) /\ x.given /\ x.work \in {"none", "works"} /\ y \in Resurfaces(x)
  BY <1>8 DEF Resurfaces
<1>9. QED BY <1>1, <1>2, <1>3, <1>4, <1>5, <1>6, <1>7, <1>8 DEF Moves

LEMMA OperatorsAge ==
    ASSUME NEW x \in LifeRecord
    PROVE  /\ Ages(x, x)
           /\ Ages(x, Stopped(x)) /\ Stopped(x).given
           /\ x.given => \A y \in Retired(x) : Ages(x, y) /\ y.given
BY DEF Ages, Sane, Harmless, HasEnded, IsActive, LifeRecord, RunStatus, ActiveStatus, EndStatus,
       Stopped, Retired

-----------------------------------------------------------------------------
(* The task of a thread *)

LEMMA OutcomeShape ==
    ASSUME NEW active \in BOOLEAN, NEW status, NEW resumable
    PROVE  /\ Outcome(active, status, resumable) \in Report
           /\ Outcome(active, status, resumable) = "active" <=> active
BY DEF Outcome, Report, EndStatus

\* Only the report of a completed run puts a task under review, and a task
\* not yet linked is left alone.
LEMMA ReconciledShape ==
    ASSUME NEW x \in LinkedTask, NEW report \in Report, NEW logged \in BOOLEAN
    PROVE  /\ Reconciled(x, report, logged) \in LinkedTask
           /\ x.status \in {"unlinked", "review"} => Reconciled(x, report, logged) = x
           /\ Reconciled(x, report, logged).status = "review" /\ x.status # "review"
                 => report = "completed"
           /\ Reconciled(x, report, logged).status = "unlinked" => x.status = "unlinked"
           /\ x.status # "unlinked" => Reconciled(x, report, logged).gate = x.gate
BY DEF Reconciled, IsDue, Repairs, LinkedTask, TaskStatus, Report, EndStatus

-----------------------------------------------------------------------------
(* The inductive invariant *)

\* A request has a thread; it records only runs of it; what it goes by was
\* harmless when it read it.
RequestSound(p) ==
    LET r == req[p] IN
    /\ r.at # "idle" => r.thread \in Thread
    /\ r.next = "record" \/ r.at = "record" \/ r.report = "completed" =>
          \A a \in r.seen : Harmless(run[a])
    /\ r.at \in {"reopen", "launch"} => r.run \in Run /\ owner[r.run] = r.thread
    /\ r.at = "retire" /\ r.run \in Run => run[r.run].given
    /\ r.at \in {"retire", "settle"} => r.report # "completed"

\* A start has its thread for itself, and the task is linked with it last.
StartSound(p) ==
    LET r == req[p] IN
    /\ r.op = "start" =>
          /\ r.at \in {"record", "launch", "link"}
          /\ task[r.thread].status = "unlinked"
          /\ \A q \in Request : req[q].op = "start" /\ req[q].thread = r.thread => q = p
    /\ r.at = "link" => r.op = "start"
    /\ r.op = "start" /\ r.at # "record" => row[r.thread] # "absent"

RunSound(r) ==
    /\ Sane(run[r])
    /\ r \notin launched => run[r].given \/ run[r].status = "absent"
    /\ r \in launched => owner[r] \in Thread
    /\ \A a \in basis[r] : Harmless(run[a])

\* Run r does not speak against a review of task t.
Excused(t, r) == r \in missed[t] \/ Harmless(run[r])

TaskSound(t) ==
    /\ row[t] = "absent" => task[t].status = "unlinked"
    /\ task[t].status = "unlinked" => ~task[t].gate
    /\ task[t].status = "review" =>
          /\ \A r \in launched : owner[r] = t => Excused(t, r)
          /\ \A p \in Request :
                req[p].at = "launch" /\ req[p].thread = t => Excused(t, req[p].run)

IInv ==
    /\ TypeOK
    /\ \A p \in Request : RequestSound(p) /\ StartSound(p)
    /\ \A r \in Run : RunSound(r)
    /\ \A t \in Thread : TaskSound(t)

LEMMA InvariantImplies == IInv => RivalsAreExplained /\ ReviewOverWorkIsExplained
<1> SUFFICES ASSUME IInv PROVE RivalsAreExplained /\ ReviewOverWorkIsExplained
  OBVIOUS
<1>1. RivalsAreExplained
  BY DEF IInv, RunSound, Harmless, RivalsAreExplained
<1>2. ASSUME NEW t \in Thread, NEW r \in Run,
             task[t].status = "review", owner[r] = t, Active(r)
      PROVE  r \in missed[t] \/ run[r].given
  <2>1. RunSound(r) /\ TaskSound(t)
    BY DEF IInv
  <2>2. CASE r \in launched
    BY <1>2, <2>1, <2>2 DEF TaskSound, Excused, Harmless, HasEnded, EndStatus, ActiveStatus,
       Active, IsActive
  <2>3. CASE r \notin launched
    BY <1>2, <2>1, <2>3 DEF RunSound, ActiveStatus, Active, IsActive
  <2>4. QED BY <2>2, <2>3
<1>3. QED BY <1>1, <1>2 DEF ReviewOverWorkIsExplained

LEMMA InitSound == Init => IInv
<1> SUFFICES ASSUME Init PROVE IInv
  OBVIOUS
<1>1. TypeOK
  <2>1. NoLife \in LifeRecord
    BY DEF NoLife, LifeRecord, RunStatus
  <2>2. Idle \in Pending
    BY DEF Idle, Pending, Step, Operations, Report
  <2>3. \A t \in Thread : task[t] \in LinkedTask
    BY DEF Init, Unlinked, LinkedTask, TaskStatus
  <2>4. task \in [Thread -> LinkedTask]
    BY <2>3 DEF Init
  <2>5. QED BY <2>1, <2>2, <2>4 DEF Init, TypeOK, Row
<1>2. ASSUME NEW p \in Request PROVE RequestSound(p) /\ StartSound(p)
  BY DEF Init, Idle, RequestSound, StartSound
<1>3. ASSUME NEW r \in Run PROVE RunSound(r)
  BY DEF Init, NoLife, RunSound, Sane
<1>4. ASSUME NEW t \in Thread PROVE TaskSound(t)
  BY DEF Init, Unlinked, Idle, TaskSound
<1>5. QED BY <1>1, <1>2, <1>3, <1>4 DEF IInv

-----------------------------------------------------------------------------
(* Types *)

\* What a request read is typed, and harmless if it is to be relied on.
LEMMA ReadShape ==
    ASSUME TypeOK, NEW op \in Operations \ {"start"}, NEW t \in Thread
    PROVE  /\ RunsOf(t) \subseteq Run
           /\ RunsRead(op, t) \subseteq RunsOf(t)
           /\ Latest(RunsOf(t)) \in Run \union {NoRun}
           /\ Told(op, t) \in Report
           /\ Told(op, t) # "active" => \A r \in RunsRead(op, t) : ~Active(r)
           /\ NextStep(op, t) \in {"idle", "record", "stop"}
           /\ NextStep(op, t) = "record" => Told(op, t) # "active"
<1>1. RunsOf(t) \subseteq Run /\ RunsRead(op, t) \subseteq RunsOf(t)
  BY DEF RunsOf, RunsRead
<1>2. Latest(RunsOf(t)) \in Run \union {NoRun}
  BY <1>1, LatestType
<1>3. /\ Told(op, t) \in Report
      /\ Told(op, t) # "active" => \A r \in RunsRead(op, t) : ~Active(r)
  BY OutcomeShape DEF Told
<1>4. /\ NextStep(op, t) \in {"idle", "record", "stop"}
      /\ NextStep(op, t) = "record" => Told(op, t) # "active"
  BY DEF NextStep
<1>5. QED BY <1>1, <1>2, <1>3, <1>4

\* A run of a thread that was read and not active is harmless.
LEMMA ReadIsHarmless ==
    ASSUME IInv, NEW r \in Run, ~Active(r), run[r].status # "absent"
    PROVE  Harmless(run[r])
BY DEF IInv, TypeOK, RunSound, Sane, Harmless, Active, IsActive, HasEnded, LifeRecord, RunStatus

-----------------------------------------------------------------------------
(* What a step leaves sound *)

RunsAge  == \A r \in Run : Ages(run[r], run'[r])
RowsKept == \A t \in Thread : row'[t] = "absent" => row[t] = "absent"
LaunchesKept(t) ==
    \A q \in Request : req'[q].at = "launch" /\ req'[q].thread = t => req'[q] = req[q]

LEMMA RunsStay == ASSUME TypeOK, UNCHANGED run PROVE RunsAge
BY OperatorsAge DEF TypeOK, RunsAge

\* A request that does not move stays sound.
LEMMA RequestStays ==
    ASSUME IInv, NEW q \in Request, req'[q] = req[q], RunsAge,
           \A r \in Run : owner[r] \in Thread => owner'[r] = owner[r]
    PROVE  RequestSound(q)'
<1>1. RequestSound(q) /\ req[q] \in Pending
  BY DEF IInv, TypeOK
<1>2. req[q].seen \subseteq Run /\ run \in [Run -> LifeRecord]
  BY <1>1 DEF Pending, IInv, TypeOK
<1>3. \A a \in Run : Harmless(run[a]) => Harmless(run'[a])
  BY DEF RunsAge, Ages
<1>4. \A a \in Run : run[a].given => run'[a].given
  BY DEF RunsAge, Ages
<1>5. ASSUME NEW a \in Run, Harmless(run'[a]) PROVE Harmless(run[a])'
  BY <1>5 DEF Harmless, HasEnded
<1>6. (req[q].next = "record" \/ req[q].at = "record" \/ req[q].report = "completed") =>
         \A a \in req[q].seen : Harmless(run[a])'
  BY <1>1, <1>2, <1>3, <1>5 DEF RequestSound
<1>7. req[q].at \in {"reopen", "launch"} =>
         req[q].run \in Run /\ owner'[req[q].run] = req[q].thread
  BY <1>1 DEF RequestSound
<1> HIDE DEF Harmless
<1>8. QED BY <1>1, <1>4, <1>6, <1>7 DEF RequestSound

\* One request at a time moves.
LEMMA RequestsStay ==
    ASSUME IInv, NEW p \in Request, \A q \in Request \ {p} : req'[q] = req[q], RunsAge, RowsKept,
           \A r \in Run : owner[r] \in Thread => owner'[r] = owner[r],
           \A q \in Request \ {p} : req[q].op = "start" =>
              /\ task'[req[q].thread].status = "unlinked"
              /\ req'[p].op = "start" => req'[p].thread # req[q].thread,
           RequestSound(p)', StartSound(p)'
    PROVE  \A q \in Request : RequestSound(q)' /\ StartSound(q)'
<1> SUFFICES ASSUME NEW q \in Request \ {p} PROVE RequestSound(q)' /\ StartSound(q)'
  OBVIOUS
<1>1. RequestSound(q)'
  BY RequestStays
<1>2. RequestSound(q) /\ StartSound(q)
  BY DEF IInv
<1>3. req[q].op = "start" =>
         \A s \in Request : req'[s].op = "start" /\ req'[s].thread = req[q].thread => s = q
  BY <1>2 DEF StartSound
<1>4. req[q].op = "start" => req[q].thread \in Thread
  BY <1>2 DEF StartSound, RequestSound
<1>5. StartSound(q)'
  BY <1>2, <1>3, <1>4 DEF StartSound, RowsKept
<1>6. QED BY <1>1, <1>5

LEMMA RunsStaySound ==
    ASSUME IInv, RunsAge, launched' = launched, owner' = owner, basis' = basis,
           \A r \in Run \ launched :
              run[r].status = "absent" => run'[r].given \/ run'[r].status = "absent"
    PROVE  \A r \in Run : RunSound(r)'
<1> TAKE r \in Run
<1>1. RunSound(r) /\ basis[r] \subseteq Run
  BY DEF IInv, TypeOK
<1>2. /\ Sane(run'[r]) /\ (run[r].given => run'[r].given)
      /\ \A a \in basis[r] : Harmless(run'[a])
  BY <1>1 DEF RunSound, RunsAge, Ages
<1>3. Sane(run'[r]) => Sane(run[r])'
  BY DEF Sane, IsActive
<1>4. ASSUME NEW a \in Run, Harmless(run'[a]) PROVE Harmless(run[a])'
  BY <1>4 DEF Harmless, HasEnded
<1>5. \A a \in basis[r] : Harmless(run[a])'
  BY <1>1, <1>2, <1>4
<1>6. r \notin launched => run'[r].given \/ run'[r].status = "absent"
  BY <1>1, <1>2 DEF RunSound
<1> HIDE DEF Sane, Harmless
<1>7. QED BY <1>1, <1>2, <1>3, <1>5, <1>6 DEF RunSound

\* A task that does not move stays sound.
LEMMA TaskStays ==
    ASSUME IInv, RunsAge, RowsKept, launched' = launched, owner' = owner,
           NEW t \in Thread, LaunchesKept(t), task'[t] = task[t], missed'[t] = missed[t]
    PROVE  TaskSound(t)'
<1>1. TaskSound(t) /\ launched \subseteq Run
  BY DEF IInv, TypeOK
<1>2. ASSUME NEW r \in Run, Excused(t, r) PROVE Excused(t, r)'
  BY <1>2 DEF Excused, RunsAge, Ages, Harmless, HasEnded
<1>3. ASSUME NEW q \in Request, req'[q].at = "launch", req'[q].thread = t, task'[t].status = "review"
      PROVE  Excused(t, req[q].run)'
  <2>1. req'[q] = req[q] /\ RequestSound(q)
    BY <1>3 DEF LaunchesKept, IInv
  <2>2. req[q].run \in Run /\ Excused(t, req[q].run)
    BY <1>1, <1>3, <2>1 DEF RequestSound, TaskSound
  <2>3. QED BY <1>2, <2>1, <2>2 DEF Excused, Harmless, HasEnded
<1> HIDE DEF Excused
<1>4. QED BY <1>1, <1>2, <1>3 DEF TaskSound, RowsKept

-----------------------------------------------------------------------------
(* Steps of a request that change nothing else *)

StoresUnchanged == UNCHANGED <<row, owner, run, launched, task, basis, missed>>

\* A request that moves, if what it becomes is sound.
LEMMA RequestMoves ==
    ASSUME IInv, NEW p \in Request, NEW r \in Pending, req' = [req EXCEPT ![p] = r],
           StoresUnchanged, faults' \in 0 .. MaxFaults, r.at # "launch",
           r.op = "start" => \A q \in Request \ {p} : req[q].op = "start" => req[q].thread # r.thread,
           RequestSound(p)', StartSound(p)'
    PROVE  IInv'
<1>0. TypeOK /\ req'[p] = r /\ \A q \in Request \ {p} : req'[q] = req[q]
  BY DEF IInv, TypeOK
<1>1. TypeOK'
  BY <1>0 DEF TypeOK, StoresUnchanged
<1>2. RunsAge /\ RowsKept
  BY <1>0, RunsStay DEF RowsKept, StoresUnchanged
<1>3. \A t \in Thread : LaunchesKept(t)
  BY <1>0 DEF LaunchesKept
<1>4. \A q \in Request : req[q].op = "start" => task[req[q].thread].status = "unlinked"
  BY DEF IInv, StartSound
<1>5. \A q \in Request : RequestSound(q)' /\ StartSound(q)'
  BY <1>0, <1>2, <1>4, RequestsStay DEF StoresUnchanged
<1>6. \A a \in Run : RunSound(a)'
  BY <1>2, RunsStaySound DEF StoresUnchanged
<1>7. \A t \in Thread : TaskSound(t)'
  BY <1>2, <1>3, TaskStays DEF StoresUnchanged
<1>8. QED BY <1>1, <1>5, <1>6, <1>7 DEF IInv

LEMMA IdleShape == /\ Idle \in Pending /\ Idle.at = "idle" /\ Idle.op = "look"
                   /\ Idle.next = "idle" /\ Idle.report = "none" /\ Idle.seen = {}
BY DEF Idle, Pending, Step, Operations, Report

\* A request that ends.
LEMMA FinishSound ==
    ASSUME IInv, NEW p \in Request, Finish(p), StoresUnchanged, faults' \in 0 .. MaxFaults
    PROVE  IInv'
<1>1. req' = [req EXCEPT ![p] = Idle] /\ req'[p] = Idle
  BY DEF Finish, IInv, TypeOK
<1>2. RequestSound(p)' /\ StartSound(p)'
  BY <1>1, IdleShape DEF RequestSound, StartSound
<1>3. QED BY <1>1, <1>2, IdleShape, RequestMoves

LEMMA BeginStartSound ==
    ASSUME IInv, NEW p \in Request, NEW t \in Thread, BeginStart(p, t)
    PROVE  IInv'
<1> DEFINE r == [Idle EXCEPT !.op = "start", !.thread = t, !.at = "record"]
<1>1. /\ req' = [req EXCEPT ![p] = r] /\ row[t] = "absent" /\ faults' = faults
      /\ \A q \in Request : req[q].thread # t
      /\ StoresUnchanged
  BY DEF BeginStart, StoresUnchanged
<1>2. /\ r \in Pending /\ r.at = "record" /\ r.op = "start" /\ r.thread = t
      /\ r.next = "idle" /\ r.report = "none" /\ r.seen = {}
  BY DEF Idle, Pending, Step, Operations, Report
<1> HIDE DEF r
<1>3. req'[p] = r /\ \A q \in Request \ {p} : req'[q] = req[q]
  BY <1>1 DEF IInv, TypeOK
<1>4. RequestSound(p)'
  BY <1>2, <1>3 DEF RequestSound
<1>5. task[t].status = "unlinked"
  BY <1>1 DEF IInv, TaskSound
<1>6. StartSound(p)'
  BY <1>1, <1>2, <1>3, <1>5 DEF StartSound, StoresUnchanged
<1>7. faults' \in 0 .. MaxFaults
  BY <1>1 DEF IInv, TypeOK
<1>8. QED BY <1>1, <1>2, <1>4, <1>6, <1>7, RequestMoves

LEMMA BeginReadSound ==
    ASSUME IInv, NEW p \in Request, NEW op \in Op \ {"start"}, NEW t \in Thread, BeginRead(p, op, t)
    PROVE  IInv'
<1> DEFINE next == NextStep(op, t)
           told == Told(op, t)
           seen == {a \in RunsRead(op, t) : run[a].status # "absent"}
<1>1. PICK report \in {told, "none"} :
         req' = [req EXCEPT ![p] =
            [at |-> "apply", thread |-> t, next |-> next, report |-> report,
             op   |-> IF next = "idle" THEN "look" ELSE op,
             pid  |-> next = "stop" /\ LatestStatus(t) = "running",
             seen |-> IF next = "record" \/ report = "completed" THEN seen ELSE {},
             run  |-> IF next = "stop" THEN Latest(RunsOf(t)) ELSE NoRun]]
  BY Zenon DEF BeginRead
<1> DEFINE pid == next = "stop" /\ LatestStatus(t) = "running"
           r == [at |-> "apply", thread |-> t, next |-> next, report |-> report,
                 op   |-> IF next = "idle" THEN "look" ELSE op, pid |-> pid,
                 seen |-> IF next = "record" \/ report = "completed" THEN seen ELSE {},
                 run  |-> IF next = "stop" THEN Latest(RunsOf(t)) ELSE NoRun]
<1>2. op \in Operations \ {"start"} /\ TypeOK
  BY DEF IInv
<1>3. /\ RunsRead(op, t) \subseteq Run /\ Latest(RunsOf(t)) \in Run \union {NoRun}
      /\ told \in Report
      /\ told # "active" => \A a \in RunsRead(op, t) : ~Active(a)
      /\ next \in {"idle", "record", "stop"}
      /\ next = "record" => told # "active"
  BY <1>2, ReadShape
<1>4. pid \in BOOLEAN
  OBVIOUS
<1>5. faults' \in 0 .. MaxFaults /\ StoresUnchanged
  BY <1>2 DEF BeginRead, TypeOK, StoresUnchanged
<1>6. next = "record" \/ report = "completed" => \A a \in seen : Harmless(run[a])
  BY <1>1, <1>3, ReadIsHarmless
<1>7. seen \in SUBSET Run
  BY <1>3
<1>8. report \in Report
  BY <1>1, <1>3 DEF Report
<1> HIDE DEF next, told, seen, pid
<1>9. /\ r \in Pending /\ r.at = "apply" /\ r.op # "start" /\ r.thread = t /\ r.next = next
      /\ r.report = report
      /\ r.seen = IF next = "record" \/ report = "completed" THEN seen ELSE {}
  BY <1>2, <1>3, <1>4, <1>7, <1>8 DEF Pending, Step, Operations
<1>10. req' = [req EXCEPT ![p] = r]
  BY <1>1 DEF pid
<1> HIDE DEF r
<1>11. req'[p] = r
  BY <1>2, <1>10 DEF TypeOK
<1>12. RequestSound(p)'
  <2>1. ASSUME NEW a \in r.seen, r.next = "record" \/ r.report = "completed"
        PROVE  Harmless(run[a])'
    BY <1>5, <1>6, <1>9, <2>1 DEF StoresUnchanged, Harmless, HasEnded
  <2> HIDE DEF Harmless
  <2>2. QED BY <1>9, <1>11, <2>1 DEF RequestSound
<1>13. StartSound(p)'
  BY <1>9, <1>11 DEF StartSound
<1>14. QED BY <1>5, <1>9, <1>10, <1>12, <1>13, RequestMoves

LEMMA DropRecordSound ==
    ASSUME IInv, NEW p \in Request, DropRecord(p)
    PROVE  IInv'
BY FinishSound DEF DropRecord, StoresUnchanged, IInv, TypeOK

LEMMA RefuseSound ==
    ASSUME IInv, NEW p \in Request, Refuse(p)
    PROVE  IInv'
<1>1. faults \in 0 .. MaxFaults /\ faults < MaxFaults /\ faults' = faults + 1
  BY DEF Refuse, IInv, TypeOK
<1>2. faults' \in 0 .. MaxFaults
  BY <1>1
<1>3. QED BY <1>2, FinishSound DEF Refuse, StoresUnchanged

LEMMA RestartServerSound ==
    ASSUME IInv, RestartServer
    PROVE  IInv'
<1>1. faults \in 0 .. MaxFaults /\ faults < MaxFaults /\ faults' = faults + 1 /\ TypeOK
  BY DEF RestartServer, IInv, TypeOK
<1>2. StoresUnchanged /\ req' = [p \in Request |-> Idle]
  BY DEF RestartServer, StoresUnchanged
<1>3. TypeOK'
  BY <1>1, <1>2, IdleShape DEF TypeOK, StoresUnchanged
<1>4. \A p \in Request : RequestSound(p)' /\ StartSound(p)'
  BY <1>2, IdleShape DEF RequestSound, StartSound
<1>5. RunsAge /\ RowsKept /\ \A t \in Thread : LaunchesKept(t)
  BY <1>1, <1>2, RunsStay, IdleShape DEF RowsKept, LaunchesKept, StoresUnchanged
<1>6. \A a \in Run : RunSound(a)'
  BY <1>5, RunsStaySound, <1>2 DEF StoresUnchanged
<1>7. \A t \in Thread : TaskSound(t)'
  BY <1>2, <1>5, TaskStays DEF StoresUnchanged
<1>8. QED BY <1>3, <1>4, <1>6, <1>7 DEF IInv

-----------------------------------------------------------------------------
(* Steps that change a task *)

RunsUnchanged == UNCHANGED <<row, owner, run, launched, basis>>

LEMMA RunsUnchangedShape ==
    ASSUME IInv, RunsUnchanged
    PROVE  /\ RunsAge /\ RowsKept
           /\ \A a \in Run : RunSound(a)'
<1>1. RunsAge /\ RowsKept
  BY RunsStay DEF RunsUnchanged, RowsKept, IInv
<1>2. QED BY <1>1, RunsStaySound DEF RunsUnchanged

LEMMA TaskMoves ==
    ASSUME IInv, NEW p \in Request, NEW r \in Pending, req' = [req EXCEPT ![p] = r],
           RunsUnchanged, faults' \in 0 .. MaxFaults,
           task' \in [Thread -> LinkedTask], missed' \in [Thread -> SUBSET Run],
           r.op # "start",
           \A q \in Request \ {p} :
              req[q].op = "start" => task'[req[q].thread].status = "unlinked",
           RequestSound(p)', StartSound(p)', \A t \in Thread : TaskSound(t)'
    PROVE  IInv'
<1>0. TypeOK /\ req'[p] = r /\ \A q \in Request \ {p} : req'[q] = req[q]
  BY DEF IInv, TypeOK
<1>1. TypeOK'
  BY <1>0 DEF TypeOK, RunsUnchanged
<1>2. RunsAge /\ RowsKept /\ \A a \in Run : RunSound(a)'
  BY RunsUnchangedShape
<1>3. \A q \in Request : RequestSound(q)' /\ StartSound(q)'
  BY <1>0, <1>2, RequestsStay DEF RunsUnchanged
<1>4. QED BY <1>1, <1>2, <1>3 DEF IInv

\* A task is put under review with every run that was not seen held against it.
LEMMA ReconcileSound ==
    ASSUME IInv, NEW t \in Thread, NEW report \in Report, NEW seen, Reconcile(t, report, seen),
           report = "completed" => \A a \in seen : Harmless(run[a]),
           RunsUnchanged, \A u \in Thread : LaunchesKept(u)
    PROVE  /\ task' \in [Thread -> LinkedTask] /\ missed' \in [Thread -> SUBSET Run]
           /\ \A u \in Thread : task[u].status = "unlinked" => task'[u].status = "unlinked"
           /\ \A u \in Thread : TaskSound(u)'
<1>1. PICK logged \in BOOLEAN :
          /\ task' = [task EXCEPT ![t] = Reconciled(task[t], report, logged)]
          /\ missed' = IF Reconciled(task[t], report, logged).status = task[t].status THEN missed
                       ELSE [missed EXCEPT ![t] =
                                IF Reconciled(task[t], report, logged).status = "review"
                                THEN RunsOf(t) \ seen ELSE {}]
  BY Zenon DEF Reconcile
<1> DEFINE x == Reconciled(task[t], report, logged)
<1>2. TypeOK /\ task[t] \in LinkedTask /\ missed \in [Thread -> SUBSET Run]
  BY DEF IInv, TypeOK
<1>3. /\ x \in LinkedTask
      /\ task[t].status \in {"unlinked", "review"} => x = task[t]
      /\ x.status = "review" /\ task[t].status # "review" => report = "completed"
      /\ x.status = "unlinked" => task[t].status = "unlinked"
      /\ task[t].status # "unlinked" => x.gate = task[t].gate
  BY <1>2, ReconciledShape
<1>4. RunsOf(t) \subseteq Run
  BY DEF RunsOf
<1> HIDE DEF x
<1>5. task' = [task EXCEPT ![t] = x] /\ \A u \in Thread : task'[u] = IF u = t THEN x ELSE task[u]
  BY <1>1, <1>2 DEF x, TypeOK
<1>6. /\ missed' \in [Thread -> SUBSET Run]
      /\ \A u \in Thread \ {t} : missed'[u] = missed[u]
      /\ x.status = task[t].status => missed'[t] = missed[t]
      /\ x.status # task[t].status /\ x.status = "review" => missed'[t] = RunsOf(t) \ seen
  BY <1>1, <1>2, <1>4 DEF x
<1>7. RunsAge /\ RowsKept
  BY RunsUnchangedShape
<1>8. ASSUME NEW u \in Thread \ {t} PROVE TaskSound(u)'
  BY <1>5, <1>6, <1>7, TaskStays DEF RunsUnchanged
<1>9. TaskSound(t)'
  <2>1. CASE x = task[t]
    BY <1>5, <1>6, <1>7, <2>1, TaskStays DEF RunsUnchanged
  <2>2. CASE x # task[t]
    <3>1. task[t].status \notin {"unlinked", "review"} /\ TaskSound(t)
      BY <1>3, <2>2 DEF IInv
    <3>2. x.status # "unlinked" /\ row'[t] # "absent"
      BY <1>3, <3>1 DEF TaskSound, RunsUnchanged
    <3>3. ASSUME x.status = "review", NEW a \in Run, owner[a] = t
          PROVE  Excused(t, a)'
      <4>1. missed'[t] = RunsOf(t) \ seen /\ a \in RunsOf(t)
        BY <1>6, <3>1, <3>3 DEF RunsOf
      <4>2. a \in seen => Harmless(run[a])
        BY <1>3, <3>1, <3>3
      <4>3. QED BY <4>1, <4>2 DEF Excused, Harmless, HasEnded, RunsUnchanged
    <3>4. ASSUME x.status = "review", NEW q \in Request, req'[q].at = "launch", req'[q].thread = t
          PROVE  Excused(t, req[q].run)'
      <4>1. req'[q] = req[q] /\ RequestSound(q)
        BY <3>4 DEF LaunchesKept, IInv
      <4>2. PICK a \in Run : a = req'[q].run /\ owner[a] = t
        BY <3>4, <4>1 DEF RequestSound
      <4>3. Excused(t, a)'
        BY <3>3, <3>4, <4>2
      <4>4. QED BY <4>2, <4>3 DEF Excused, Harmless, HasEnded
    <3>5. launched \subseteq Run /\ launched' = launched /\ owner' = owner
      BY <1>2 DEF TypeOK, RunsUnchanged
    <3> HIDE DEF Excused
    <3>6. QED BY <1>5, <3>2, <3>3, <3>4, <3>5 DEF TaskSound
  <2>3. QED BY <2>1, <2>2
<1>10. task' \in [Thread -> LinkedTask]
  BY <1>2, <1>3, <1>5 DEF TypeOK
<1>11. QED BY <1>3, <1>5, <1>6, <1>8, <1>9, <1>10

LEMMA ApplySound ==
    ASSUME IInv, NEW p \in Request, Apply(p)
    PROVE  IInv'
<1> DEFINE old == req[p]
           on == [old EXCEPT !.at = old.next, !.next = "idle", !.report = "none",
                             !.seen = IF old.next = "record" THEN @ ELSE {}]
           r == IF old.next = "idle" THEN Idle ELSE on
<1>1. TypeOK /\ old \in Pending /\ old.at = "apply" /\ RequestSound(p) /\ StartSound(p)
  BY DEF IInv, TypeOK, Apply
<1>2. /\ Reconcile(old.thread, old.report, old.seen)
      /\ req' = [req EXCEPT ![p] = r]
      /\ RunsUnchanged /\ faults' = faults
  BY <1>1 DEF Apply, Finish, RunsUnchanged, TypeOK
<1>3. /\ old.thread \in Thread /\ old.op # "start" /\ old.report \in Report
      /\ old.report = "completed" => \A a \in old.seen : Harmless(run[a])
      /\ old.next = "record" => \A a \in old.seen : Harmless(run[a])
  BY <1>1 DEF RequestSound, StartSound, Pending
<1>4. /\ on \in Pending /\ on.at = old.next /\ on.op = old.op /\ on.thread = old.thread
      /\ on.next = "idle" /\ on.report = "none" /\ old.next \in {"idle", "record", "stop"}
      /\ on.seen = IF old.next = "record" THEN old.seen ELSE {}
  BY <1>1 DEF Pending, Step, Report
<1> HIDE DEF old, on
<1>5. r \in Pending /\ r.at \in {"idle", "record", "stop"} /\ r.op # "start" /\ r.report = "none"
      /\ r.next = "idle" /\ (r.at # "idle" => r.thread \in Thread)
      /\ (r.at = "record" => \A a \in r.seen : Harmless(run[a]))
  BY <1>3, <1>4, IdleShape
<1> HIDE DEF r
<1>6. req'[p] = r /\ \A q \in Request \ {p} : req'[q] = req[q]
  BY <1>1, <1>2 DEF TypeOK
<1>7. \A u \in Thread : LaunchesKept(u)
  BY <1>5, <1>6 DEF LaunchesKept
<1>8. /\ task' \in [Thread -> LinkedTask] /\ missed' \in [Thread -> SUBSET Run]
      /\ \A u \in Thread : task[u].status = "unlinked" => task'[u].status = "unlinked"
      /\ \A u \in Thread : TaskSound(u)'
  BY <1>2, <1>3, <1>7, ReconcileSound
<1>9. RequestSound(p)'
  <2>1. ASSUME NEW a, Harmless(run[a]) PROVE Harmless(run[a])'
    BY <1>2, <2>1 DEF Harmless, HasEnded, RunsUnchanged
  <2> HIDE DEF Harmless
  <2>2. r.at = "record" => \A a \in r.seen : Harmless(run[a])'
    BY <1>5, <2>1
  <2>3. QED BY <1>5, <1>6, <2>2 DEF RequestSound
<1>10. StartSound(p)'
  BY <1>5, <1>6 DEF StartSound
<1>11. \A q \in Request : req[q].op = "start" => task'[req[q].thread].status = "unlinked"
  BY <1>8 DEF IInv, StartSound, RequestSound
<1>12. faults' \in 0 .. MaxFaults
  BY <1>1, <1>2 DEF TypeOK
<1>13. QED BY <1>2, <1>5, <1>8, <1>9, <1>10, <1>11, <1>12, TaskMoves

\* The outcome an operator's recovery writes is never a completion.
LEMMA SettleSound ==
    ASSUME IInv, NEW p \in Request, Settle(p)
    PROVE  IInv'
<1>1. TypeOK /\ req[p] \in Pending /\ req[p].at = "settle" /\ RequestSound(p)
  BY DEF IInv, TypeOK, Settle
<1>2. /\ Reconcile(req[p].thread, req[p].report, {})
      /\ req' = [req EXCEPT ![p] = Idle]
      /\ RunsUnchanged /\ faults' = faults
  BY DEF Settle, Finish, RunsUnchanged
<1>3. req[p].thread \in Thread /\ req[p].report \in Report
  BY <1>1 DEF RequestSound, Pending
<1>4. req'[p] = Idle /\ \A q \in Request \ {p} : req'[q] = req[q]
  BY <1>1, <1>2 DEF TypeOK
<1>5. \A u \in Thread : LaunchesKept(u)
  BY <1>4, IdleShape DEF LaunchesKept
<1>6. /\ task' \in [Thread -> LinkedTask] /\ missed' \in [Thread -> SUBSET Run]
      /\ \A u \in Thread : task[u].status = "unlinked" => task'[u].status = "unlinked"
      /\ \A u \in Thread : TaskSound(u)'
  BY <1>2, <1>3, <1>5, ReconcileSound
<1>7. RequestSound(p)' /\ StartSound(p)'
  BY <1>4, IdleShape DEF RequestSound, StartSound
<1>8. \A q \in Request : req[q].op = "start" => task'[req[q].thread].status = "unlinked"
  BY <1>6 DEF IInv, StartSound, RequestSound
<1>9. faults' \in 0 .. MaxFaults
  BY <1>1, <1>2 DEF TypeOK
<1>10. QED BY <1>2, <1>6, <1>7, <1>8, <1>9, IdleShape, TaskMoves

\* After the reopening the task is not under review: its new run may start.
LEMMA ReopenSound ==
    ASSUME IInv, NEW p \in Request, Reopen(p)
    PROVE  IInv'
<1>0. PICK t \in Thread : t = req[p].thread
  BY DEF IInv, Reopen, RequestSound
<1> DEFINE x == Reopened(task[t])
           r == [req[p] EXCEPT !.at = "launch"]
<1>1. /\ TypeOK /\ req[p] \in Pending /\ req[p].at = "reopen" /\ RequestSound(p) /\ StartSound(p)
      /\ TaskSound(t) /\ task[t] \in LinkedTask
  BY <1>0 DEF IInv, TypeOK, Reopen
<1>2. /\ task' = [task EXCEPT ![t] = x]
      /\ missed' = IF task[t].status = "review" THEN [missed EXCEPT ![t] = {}] ELSE missed
      /\ req' = [req EXCEPT ![p] = r]
      /\ RunsUnchanged /\ faults' = faults
  BY <1>0, <1>1 DEF Reopen, Goto, RunsUnchanged, TypeOK
<1>3. /\ x \in LinkedTask /\ x.status # "review"
      /\ task[t].status # "review" => x = task[t]
      /\ x.status = "unlinked" => task[t].status = "unlinked"
  BY <1>1 DEF Reopened, Unlinked, LinkedTask, TaskStatus
<1>4. /\ r \in Pending /\ r.at = "launch" /\ r.op = req[p].op /\ r.thread = t /\ r.op # "start"
      /\ r.next = req[p].next /\ r.report = req[p].report /\ r.seen = req[p].seen
      /\ r.run = req[p].run
  BY <1>0, <1>1 DEF Pending, Step, StartSound
<1> HIDE DEF x, r
<1>5. req'[p] = r /\ \A q \in Request \ {p} : req'[q] = req[q]
  BY <1>1, <1>2 DEF TypeOK
<1>6. \A u \in Thread : task'[u] = IF u = t THEN x ELSE task[u]
  BY <1>1, <1>2 DEF TypeOK
<1>7. \A u \in Thread \ {t} : missed'[u] = missed[u]
  BY <1>1, <1>2 DEF TypeOK
<1>8. RunsAge /\ RowsKept
  BY <1>2, RunsUnchangedShape
<1>9. ASSUME NEW u \in Thread \ {t} PROVE TaskSound(u)'
  <2>1. LaunchesKept(u)
    BY <1>4, <1>5 DEF LaunchesKept
  <2>2. QED BY <1>2, <1>6, <1>7, <1>8, <2>1, TaskStays DEF RunsUnchanged
<1>10. TaskSound(t)'
  BY <1>1, <1>2, <1>3, <1>6 DEF TaskSound, RunsUnchanged
<1>11. RequestSound(p)'
  <2>1. ASSUME NEW a, Harmless(run[a]) PROVE Harmless(run[a])'
    BY <1>2, <2>1 DEF Harmless, HasEnded, RunsUnchanged
  <2> HIDE DEF Harmless
  <2>2. (r.next = "record" \/ r.report = "completed") => \A a \in r.seen : Harmless(run[a])'
    BY <1>1, <1>4, <2>1 DEF RequestSound
  <2>3. r.run \in Run /\ owner'[r.run] = r.thread
    BY <1>0, <1>1, <1>2, <1>4 DEF RequestSound, RunsUnchanged
  <2>4. QED BY <1>1, <1>4, <1>5, <2>2, <2>3 DEF RequestSound
<1>12. StartSound(p)'
  BY <1>4, <1>5 DEF StartSound
<1>13. \A q \in Request : req[q].op = "start" => task'[req[q].thread].status = "unlinked"
  BY <1>3, <1>6 DEF IInv, StartSound, RequestSound
<1>14. /\ faults' \in 0 .. MaxFaults
       /\ task' \in [Thread -> LinkedTask] /\ missed' \in [Thread -> SUBSET Run]
  BY <1>1, <1>2, <1>3 DEF TypeOK
<1>15. \A u \in Thread : TaskSound(u)'
  BY <1>9, <1>10
<1>16. QED BY <1>2, <1>4, <1>11, <1>12, <1>13, <1>14, <1>15, TaskMoves

\* The task is linked last; no other start has its thread.
LEMMA LinkSound ==
    ASSUME IInv, NEW p \in Request, Link(p)
    PROVE  IInv'
<1>0. PICK t \in Thread : t = req[p].thread
  BY DEF IInv, Link, RequestSound
<1> DEFINE x == [Unlinked EXCEPT !.status = "in_progress"]
<1>1. /\ TypeOK /\ req[p].at = "link" /\ StartSound(p) /\ RequestSound(p)
      /\ req[p].op = "start" /\ row[t] # "absent"
  BY <1>0 DEF IInv, Link, RequestSound, StartSound
<1>2. /\ task' = [task EXCEPT ![t] = x] /\ missed' = missed
      /\ req' = [req EXCEPT ![p] = Idle]
      /\ RunsUnchanged /\ faults' = faults
  BY <1>0 DEF Link, Finish, RunsUnchanged
<1>3. x \in LinkedTask /\ x.status = "in_progress"
  BY DEF Unlinked, LinkedTask, TaskStatus
<1> HIDE DEF x
<1>4. req'[p] = Idle /\ \A q \in Request \ {p} : req'[q] = req[q]
  BY <1>1, <1>2 DEF TypeOK
<1>5. \A u \in Thread : task'[u] = IF u = t THEN x ELSE task[u]
  BY <1>1, <1>2 DEF TypeOK
<1>6. RunsAge /\ RowsKept
  BY <1>2, RunsUnchangedShape
<1>7. ASSUME NEW u \in Thread \ {t} PROVE TaskSound(u)'
  <2>1. LaunchesKept(u)
    BY <1>4, IdleShape DEF LaunchesKept
  <2>2. QED BY <1>2, <1>5, <1>6, <2>1, TaskStays DEF RunsUnchanged
<1>8. TaskSound(t)'
  BY <1>1, <1>2, <1>3, <1>5 DEF TaskSound, RunsUnchanged
<1>9. RequestSound(p)' /\ StartSound(p)'
  BY <1>4, IdleShape DEF RequestSound, StartSound
<1>10. \A q \in Request \ {p} : req[q].op = "start" => task'[req[q].thread].status = "unlinked"
  BY <1>0, <1>1, <1>5 DEF IInv, StartSound, RequestSound
<1>11. /\ faults' \in 0 .. MaxFaults
       /\ task' \in [Thread -> LinkedTask] /\ missed' \in [Thread -> SUBSET Run]
  BY <1>1, <1>2, <1>3 DEF TypeOK
<1>12. \A u \in Thread : TaskSound(u)'
  BY <1>7, <1>8
<1>13. QED BY <1>2, <1>9, <1>10, <1>11, <1>12, IdleShape, TaskMoves

\* The gate of a task under review opens, or is approved.
LEMMA GateSound ==
    ASSUME IInv, NEW t \in Thread, OpenGate(t) \/ ApproveGate(t)
    PROVE  IInv'
<1>1. TypeOK /\ TaskSound(t) /\ task[t] \in LinkedTask
  BY DEF IInv, TypeOK
<1>2. PICK x \in LinkedTask :
         /\ task' = [task EXCEPT ![t] = x]
         /\ x.status # "unlinked" /\ task[t].status # "unlinked"
         /\ x.status = "review" => task[t].status = "review" /\ missed'[t] = missed[t]
  <2>1. CASE OpenGate(t)
    <3>1. [task[t] EXCEPT !.gate = TRUE] \in LinkedTask
          /\ [task[t] EXCEPT !.gate = TRUE].status = task[t].status
      BY <1>1 DEF LinkedTask
    <3>2. task' = [task EXCEPT ![t] = [task[t] EXCEPT !.gate = TRUE]]
          /\ task[t].status = "review" /\ missed' = missed
      BY <1>1, <2>1 DEF OpenGate, TypeOK
    <3>3. QED BY <3>1, <3>2
  <2>2. CASE ApproveGate(t)
    <3>1. [task[t] EXCEPT !.gate = FALSE, !.status = "done"] \in LinkedTask
          /\ [task[t] EXCEPT !.gate = FALSE, !.status = "done"].status = "done"
      BY <1>1 DEF LinkedTask, TaskStatus
    <3>2. task' = [task EXCEPT ![t] = [task[t] EXCEPT !.gate = FALSE, !.status = "done"]]
          /\ task[t].gate
      BY <1>1, <2>2 DEF ApproveGate, TypeOK
    <3>3. QED BY <1>1, <3>1, <3>2 DEF TaskSound
  <2>3. QED BY <2>1, <2>2
<1>3. /\ missed' \in [Thread -> SUBSET Run]
      /\ \A u \in Thread \ {t} : missed'[u] = missed[u]
      /\ UNCHANGED req /\ RunsUnchanged /\ faults' = faults
  BY <1>1 DEF OpenGate, ApproveGate, TypeOK, RunsUnchanged
<1>4. \A u \in Thread : task'[u] = IF u = t THEN x ELSE task[u]
  BY <1>1, <1>2 DEF TypeOK
<1>5. TypeOK'
  BY <1>1, <1>2, <1>3 DEF TypeOK, RunsUnchanged
<1>6. RunsAge /\ RowsKept /\ \A a \in Run : RunSound(a)'
  BY <1>3, RunsUnchangedShape
<1>7. \A u \in Thread : LaunchesKept(u)
  BY <1>3 DEF LaunchesKept
<1>8. ASSUME NEW u \in Thread \ {t} PROVE TaskSound(u)'
  BY <1>3, <1>4, <1>6, <1>7, TaskStays DEF RunsUnchanged
<1>9. TaskSound(t)'
  <2>1. x.status = "review" =>
           /\ \A a \in launched : owner[a] = t => Excused(t, a)
           /\ \A p \in Request : req[p].at = "launch" /\ req[p].thread = t => Excused(t, req[p].run)
    BY <1>1, <1>2 DEF TaskSound
  <2>2. row'[t] # "absent"
    BY <1>1, <1>2, <1>3 DEF TaskSound, RunsUnchanged
  <2>3. QED BY <1>2, <1>3, <1>4, <2>1, <2>2
           DEF TaskSound, Excused, Harmless, HasEnded, RunsUnchanged
<1>10. ASSUME NEW q \in Request PROVE RequestSound(q)' /\ StartSound(q)'
  <2>1. RequestSound(q)'
    BY <1>3, <1>6, RequestStays DEF RunsUnchanged
  <2>2. StartSound(q) /\ RequestSound(q)
    BY DEF IInv
  <2>3. req[q].op = "start" => task'[req[q].thread].status = "unlinked"
    BY <1>2, <1>4, <2>2 DEF StartSound, RequestSound
  <2>4. QED BY <1>3, <2>1, <2>2, <2>3 DEF StartSound, RunsUnchanged
<1>11. QED BY <1>5, <1>6, <1>8, <1>9, <1>10 DEF IInv

-----------------------------------------------------------------------------
(* Steps that change the runs *)

\* The runs that count for the new one were harmless when they were read.
LEMMA RecordSound ==
    ASSUME IInv, NEW p \in Request, Record(p)
    PROVE  IInv'
<1>0. PICK new \in Run, t \in Thread : new = NextRun /\ t = req[p].thread
  BY DEF Record, IInv, RequestSound
<1> DEFINE old == req[p]
           start == old.op = "start"
           r == [old EXCEPT !.at = IF start THEN "launch" ELSE "reopen", !.run = new, !.seen = {}]
           x == IF start THEN "fresh" ELSE "bound"
<1>1. /\ TypeOK /\ old \in Pending /\ old.at = "record"
      /\ RequestSound(p) /\ StartSound(p) /\ owner[new] = NoThread
  BY <1>0, NewRunIsNew DEF Record, IInv, TypeOK
<1>2. /\ owner' = [owner EXCEPT ![new] = t]
      /\ row' = [row EXCEPT ![t] = x]
      /\ req' = [req EXCEPT ![p] = r]
      /\ basis' = [basis EXCEPT ![new] = old.seen]
      /\ UNCHANGED <<run, launched, task, faults, missed>>
  BY <1>0, <1>1 DEF Record, TypeOK
<1>3. /\ \A a \in old.seen : Harmless(run[a])
      /\ start => task[t].status = "unlinked"
      /\ old.seen \in SUBSET Run
  BY <1>0, <1>1 DEF RequestSound, StartSound, Pending
<1>4. /\ r \in Pending /\ r.at = (IF start THEN "launch" ELSE "reopen")
      /\ r.op = old.op /\ r.thread = t /\ r.run = new /\ r.seen = {}
  BY <1>0, <1>1 DEF Pending, Step
<1> HIDE DEF r
<1>5. req'[p] = r /\ \A q \in Request \ {p} : req'[q] = req[q]
  BY <1>1, <1>2 DEF TypeOK
<1>6. \A a \in Run : /\ owner'[a] = IF a = new THEN t ELSE owner[a]
                     /\ basis'[a] = IF a = new THEN old.seen ELSE basis[a]
  BY <1>1, <1>2 DEF TypeOK
<1>7. \A u \in Thread : row'[u] = IF u = t THEN x ELSE row[u]
  BY <1>1, <1>2 DEF TypeOK
<1>8. \A a \in Run : owner[a] \in Thread => owner'[a] = owner[a]
  BY <1>1, <1>6
<1>9. RunsAge /\ RowsKept
  BY <1>1, <1>2, <1>7, RunsStay DEF RowsKept
<1>10. TypeOK'
  <2>1. r \in Pending /\ x \in Row /\ t \in Thread \union {NoThread}
    BY <1>4 DEF Row
  <2> HIDE DEF x
  <2>2. /\ owner' \in [Run -> Thread \union {NoThread}] /\ row' \in [Thread -> Row]
        /\ req' \in [Request -> Pending] /\ basis' \in [Run -> SUBSET Run]
    BY <1>1, <1>2, <1>3, <2>1 DEF TypeOK
  <2>3. QED BY <1>1, <1>2, <2>2 DEF TypeOK
<1>11. RequestSound(p)'
  <2>1. owner'[new] = t
    BY <1>6
  <2>2. QED BY <1>4, <1>5, <2>1 DEF RequestSound
<1>12. StartSound(p)'
  <2>1. start => \A q \in Request \ {p} : req[q].op = "start" => req[q].thread # t
    BY <1>0, <1>1 DEF StartSound
  <2>2. row'[t] # "absent"
    BY <1>7
  <2>3. QED BY <1>2, <1>3, <1>4, <1>5, <2>1, <2>2 DEF StartSound
<1>13. \A q \in Request \ {p} : req[q].op = "start" =>
          /\ task'[req[q].thread].status = "unlinked"
          /\ req'[p].op = "start" => req'[p].thread # req[q].thread
  BY <1>0, <1>1, <1>2, <1>4, <1>5 DEF IInv, StartSound
<1>14. \A q \in Request : RequestSound(q)' /\ StartSound(q)'
  BY <1>5, <1>8, <1>9, <1>11, <1>12, <1>13, RequestsStay
<1>15. ASSUME NEW a \in Run PROVE RunSound(a)'
  <2>1. RunSound(a)
    BY DEF IInv
  <2>2. \A b \in basis'[a] : Harmless(run[b])
    BY <1>3, <1>6, <2>1 DEF RunSound
  <2>3. a \in launched => owner'[a] \in Thread
    BY <1>8, <2>1 DEF RunSound
  <2>4. QED BY <1>2, <2>1, <2>2, <2>3 DEF RunSound, Sane, IsActive, Harmless, HasEnded
<1>16. ASSUME NEW u \in Thread PROVE TaskSound(u)'
  <2>1. TaskSound(u) /\ launched \subseteq Run /\ launched' = launched /\ task' = task
    BY <1>1, <1>2 DEF IInv, TypeOK
  <2>2. row'[u] = "absent" => row[u] = "absent"
    BY <1>9 DEF RowsKept
  <2>3. \A a \in launched : owner'[a] = owner[a]
    BY <1>8 DEF IInv, TypeOK, RunSound
  <2>4. ASSUME NEW q \in Request, req'[q].at = "launch", req'[q].thread = u, task[u].status = "review"
        PROVE  req'[q] = req[q]
    BY <1>3, <1>4, <1>5, <2>4
  <2>5. \A a : Excused(u, a) => (a \in missed'[u] \/ Harmless(run'[a]))
    BY <1>2 DEF Excused
  <2>6. ASSUME NEW q \in Request, req'[q].at = "launch", req'[q].thread = u, task[u].status = "review"
        PROVE  Excused(u, req[q].run)'
    <3>1. req'[q] = req[q] /\ Excused(u, req[q].run)
      BY <2>1, <2>4, <2>6 DEF TaskSound
    <3>2. QED BY <1>2, <3>1 DEF Excused, Harmless, HasEnded
  <2>7. ASSUME NEW a \in launched, owner'[a] = u, task[u].status = "review"
        PROVE  Excused(u, a)'
    <3>1. Excused(u, a)
      BY <2>1, <2>3, <2>7 DEF TaskSound
    <3>2. QED BY <1>2, <3>1 DEF Excused, Harmless, HasEnded
  <2> HIDE DEF Excused
  <2>8. QED BY <2>1, <2>2, <2>6, <2>7 DEF TaskSound
<1>17. QED BY <1>10, <1>14, <1>15, <1>16 DEF IInv

\* What is launched was excused from a review of its task before.
LEMMA LaunchSound ==
    ASSUME IInv, NEW p \in Request, Launch(p)
    PROVE  IInv'
<1>0. PICK new \in Run, t \in Thread : new = req[p].run /\ t = req[p].thread
  BY DEF Launch, IInv, RequestSound
<1> DEFINE old == req[p]
           r == IF old.op = "start" THEN [old EXCEPT !.at = "link", !.run = NoRun] ELSE Idle
<1>1. /\ TypeOK /\ old \in Pending /\ old.at = "launch"
      /\ RequestSound(p) /\ StartSound(p) /\ owner[new] = t
  BY <1>0 DEF Launch, IInv, TypeOK, RequestSound
<1>2. /\ launched' = launched \union {new}
      /\ req' = [req EXCEPT ![p] = r]
      /\ UNCHANGED <<row, owner, run, task, faults, basis, missed>>
  BY <1>0 DEF Launch, Finish
<1>3. /\ r \in Pending /\ r.at = (IF old.op = "start" THEN "link" ELSE "idle")
      /\ old.op = "start" => r.op = "start" /\ r.thread = t /\ r.seen = old.seen /\ r.next = old.next
                             /\ r.report = old.report
      /\ old.op # "start" => r = Idle
  BY <1>0, <1>1, IdleShape DEF Pending, Step
<1> HIDE DEF r
<1>4. req'[p] = r /\ \A q \in Request \ {p} : req'[q] = req[q]
  BY <1>1, <1>2 DEF TypeOK
<1>5. RunsAge /\ RowsKept
  BY <1>1, <1>2, RunsStay DEF RowsKept
<1>6. TypeOK'
  BY <1>1, <1>2, <1>3 DEF TypeOK
<1>7. RequestSound(p)'
  <2>1. CASE old.op # "start"
    BY <1>3, <1>4, <2>1, IdleShape DEF RequestSound
  <2>2. CASE old.op = "start"
    <3>1. ASSUME NEW a, Harmless(run[a]) PROVE Harmless(run[a])'
      BY <1>2, <3>1 DEF Harmless, HasEnded
    <3> HIDE DEF Harmless
    <3>2. (r.next = "record" \/ r.report = "completed") => \A a \in r.seen : Harmless(run[a])'
      BY <1>1, <1>3, <2>2, <3>1 DEF RequestSound
    <3>3. QED BY <1>3, <1>4, <2>2, <3>2 DEF RequestSound
  <2>3. QED BY <2>1, <2>2
<1>8. StartSound(p)'
  <2>1. CASE old.op # "start"
    BY <1>3, <1>4, <2>1, IdleShape DEF StartSound
  <2>2. CASE old.op = "start"
    BY <1>0, <1>1, <1>2, <1>3, <1>4, <2>2 DEF StartSound
  <2>3. QED BY <2>1, <2>2
<1>9. \A q \in Request \ {p} : req[q].op = "start" =>
          /\ task'[req[q].thread].status = "unlinked"
          /\ req'[p].op = "start" => req'[p].thread # req[q].thread
  BY <1>0, <1>1, <1>2, <1>3, <1>4, IdleShape DEF IInv, StartSound
<1>10. \A q \in Request : RequestSound(q)' /\ StartSound(q)'
  BY <1>2, <1>4, <1>5, <1>7, <1>8, <1>9, RequestsStay
<1>11. ASSUME NEW a \in Run PROVE RunSound(a)'
  <2>1. RunSound(a)
    BY DEF IInv
  <2>2. QED BY <1>1, <1>2, <2>1 DEF RunSound, Sane, IsActive, Harmless, HasEnded
<1>12. ASSUME NEW u \in Thread PROVE TaskSound(u)'
  <2>1. TaskSound(u)
    BY DEF IInv
  <2>2. ASSUME NEW q \in Request, req'[q].at = "launch", req'[q].thread = u, task[u].status = "review"
        PROVE  Excused(u, req[q].run)'
    <3>1. req'[q] = req[q]
      BY <1>3, <1>4, <2>2
    <3>2. Excused(u, req[q].run)
      BY <2>1, <2>2, <3>1 DEF TaskSound
    <3>3. QED BY <1>2, <3>1, <3>2 DEF Excused, Harmless, HasEnded
  <2>3. ASSUME NEW a \in launched', owner[a] = u, task[u].status = "review"
        PROVE  Excused(u, a)'
    <3>1. Excused(u, a)
      BY <1>0, <1>1, <1>2, <2>1, <2>3 DEF TaskSound
    <3>2. QED BY <1>2, <3>1 DEF Excused, Harmless, HasEnded
  <2> HIDE DEF Excused
  <2>4. QED BY <1>2, <2>1, <2>2, <2>3 DEF TaskSound
<1>13. QED BY <1>6, <1>10, <1>11, <1>12 DEF IInv

\* Runs move, each as runs may; the tasks do not follow yet.
LEMMA RunsMove ==
    ASSUME IInv, TypeOK', RunsAge, UNCHANGED <<owner, launched, task, basis, missed>>, RowsKept,
           \A t \in Thread : LaunchesKept(t),
           \A r \in Run \ launched :
              run[r].status = "absent" => run'[r].given \/ run'[r].status = "absent",
           \A q \in Request : RequestSound(q)' /\ StartSound(q)'
    PROVE  IInv'
<1>1. \A r \in Run : RunSound(r)'
  BY RunsStaySound
<1>2. \A t \in Thread : TaskSound(t)'
  BY TaskStays
<1>3. QED BY <1>1, <1>2 DEF IInv

\* An operator's request gives up the run it has read, and goes on or ends.
LEMMA OperatorMoves ==
    ASSUME IInv, NEW p \in Request, req[p].at \in {"stop", "retire"},
           NEW r \in Pending, req' = [req EXCEPT ![p] = r],
           NEW x, run' = [run EXCEPT ![req[p].run] = x],
           UNCHANGED <<row, owner, launched, task, faults, basis, missed>>,
           req[p].run \in Run => Ages(run[req[p].run], x) /\ x.given,
           \/ r = Idle
           \/ /\ r.at \in {"retire", "settle"} /\ r.report # "completed" /\ r.op = req[p].op
              /\ r.thread = req[p].thread /\ r.next = req[p].next /\ r.seen = req[p].seen
              /\ r.run = req[p].run
    PROVE  IInv'
<1> DEFINE a == req[p].run
<1>1. TypeOK /\ RequestSound(p) /\ StartSound(p) /\ req[p] \in Pending
  BY DEF IInv, TypeOK
<1>2. \A b \in Run : run'[b] = IF b = a THEN x ELSE run[b]
  BY <1>1 DEF TypeOK
<1>3. RunsAge
  BY <1>1, <1>2, OperatorsAge DEF RunsAge, TypeOK
<1>4. run' \in [Run -> LifeRecord]
  BY <1>1, <1>3 DEF RunsAge, Ages, TypeOK
<1>5. TypeOK'
  BY <1>1, <1>4 DEF TypeOK
<1>6. req'[p] = r /\ \A q \in Request \ {p} : req'[q] = req[q]
  BY <1>1 DEF TypeOK
<1>7. r.op # "start" /\ r.at \notin {"record", "reopen", "launch", "link"}
  BY <1>1, IdleShape DEF StartSound
<1>8. RowsKept /\ \A t \in Thread : LaunchesKept(t)
  BY <1>6, <1>7 DEF RowsKept, LaunchesKept
<1>9. RequestSound(p)'
  <2>1. CASE r = Idle
    BY <1>6, <2>1, IdleShape DEF RequestSound
  <2>2. CASE r # Idle
    <3>1. r.seen \subseteq Run /\ r.thread \in Thread
      BY <1>1, <2>2 DEF RequestSound, Pending
    <3>2. ASSUME NEW b \in Run, Harmless(run[b]) PROVE Harmless(run[b])'
      BY <1>3, <3>2 DEF RunsAge, Ages, Harmless, HasEnded
    <3> HIDE DEF Harmless
    <3>3. r.next = "record" => \A b \in r.seen : Harmless(run[b])'
      BY <1>1, <2>2, <3>1, <3>2 DEF RequestSound
    <3>4. r.run \in Run => run'[r.run].given
      BY <1>2, <2>2
    <3>5. QED BY <1>6, <1>7, <2>2, <3>1, <3>3, <3>4 DEF RequestSound
  <2>3. QED BY <2>1, <2>2
<1>10. StartSound(p)'
  BY <1>6, <1>7 DEF StartSound
<1>11. \A q \in Request : req[q].op = "start" => task'[req[q].thread].status = "unlinked"
  BY DEF IInv, StartSound
<1>12. \A q \in Request : RequestSound(q)' /\ StartSound(q)'
  BY <1>3, <1>6, <1>7, <1>8, <1>9, <1>10, <1>11, RequestsStay
<1>13. \A b \in Run \ launched :
          run[b].status = "absent" => run'[b].given \/ run'[b].status = "absent"
  BY <1>2
<1>14. QED BY <1>3, <1>5, <1>8, <1>12, <1>13, RunsMove

LEMMA StopSound ==
    ASSUME IInv, NEW p \in Request, Stop(p)
    PROVE  IInv'
<1> DEFINE signals == req[p].pid /\ run[req[p].run].work = "works"
           r == [req[p] EXCEPT !.at = "retire", !.pid = FALSE,
                               !.report = IF signals THEN "canceled" ELSE "failed"]
           x == Stopped(run[req[p].run])
<1>1. TypeOK /\ req[p] \in Pending /\ req[p].at = "stop"
  BY DEF IInv, TypeOK, Stop
<1>2. UNCHANGED <<row, owner, launched, task, faults, basis, missed>>
  BY DEF Stop
<1>3. CASE signals \/ req[p].op = "recover"
  <2>1. run' = [run EXCEPT ![req[p].run] = x] /\ req' = [req EXCEPT ![p] = r]
    BY <1>1, <1>3 DEF Stop, TypeOK
  <2>2. req[p].run \in Run => Ages(run[req[p].run], x) /\ x.given
    BY <1>1, OperatorsAge DEF TypeOK
  <2>3. /\ r \in Pending /\ r.at = "retire" /\ r.report # "completed" /\ r.op = req[p].op
        /\ r.thread = req[p].thread /\ r.next = req[p].next /\ r.seen = req[p].seen
        /\ r.run = req[p].run
    BY <1>1 DEF Pending, Step, Report, EndStatus
  <2> HIDE DEF r, x
  <2>4. QED BY <1>1, <1>2, <2>1, <2>2, <2>3, OperatorMoves
<1>4. CASE ~(signals \/ req[p].op = "recover")
  <2>1. Finish(p) /\ StoresUnchanged
    BY <1>2, <1>4 DEF Stop, StoresUnchanged
  <2>2. faults' \in 0 .. MaxFaults
    BY <1>1, <1>2 DEF TypeOK
  <2>3. QED BY <2>1, <2>2, FinishSound
<1>5. QED BY <1>3, <1>4

LEMMA RetireSound ==
    ASSUME IInv, NEW p \in Request, Retire(p)
    PROVE  IInv'
<1> DEFINE r == IF req[p].op = "recover" THEN [req[p] EXCEPT !.at = "settle"] ELSE Idle
<1>1. TypeOK /\ req[p] \in Pending /\ req[p].at = "retire" /\ RequestSound(p)
  BY DEF IInv, TypeOK, Retire
<1>2. PICK x \in Retired(run[req[p].run]) : run' = [run EXCEPT ![req[p].run] = x]
  BY DEF Retire
<1>3. /\ UNCHANGED <<row, owner, launched, task, faults, basis, missed>>
      /\ req' = [req EXCEPT ![p] = r]
  BY <1>1 DEF Retire, Goto, Finish, TypeOK
<1>4. req[p].run \in Run => Ages(run[req[p].run], x) /\ x.given
  BY <1>1, <1>2, OperatorsAge DEF RequestSound, TypeOK
<1>5. /\ r \in Pending
      /\ \/ r = Idle
         \/ /\ r.at = "settle" /\ r.report # "completed" /\ r.op = req[p].op
            /\ r.thread = req[p].thread /\ r.next = req[p].next /\ r.seen = req[p].seen
            /\ r.run = req[p].run
  BY <1>1, IdleShape DEF RequestSound, Pending, Step
<1> HIDE DEF r
<1>6. QED BY <1>1, <1>2, <1>3, <1>4, <1>5, OperatorMoves

-----------------------------------------------------------------------------
(* Steps of the surroundings *)

LEMMA MoveRunSound ==
    ASSUME IInv, NEW a \in Run, MoveRun(a)
    PROVE  IInv'
<1>1. TypeOK /\ run[a] \in LifeRecord
  BY DEF IInv, TypeOK
<1>2. PICK x \in Moves(run[a]) : run' = [run EXCEPT ![a] = x]
  BY DEF MoveRun, Move
<1>3. a \in launched /\ UNCHANGED <<row, owner, launched, task, req, faults, basis, missed>>
  BY DEF MoveRun, Move
<1>4. \A b \in Run : run'[b] = IF b = a THEN x ELSE run[b]
  BY <1>1, <1>2 DEF TypeOK
<1>5. RunsAge
  BY <1>1, <1>4, MovesAge, OperatorsAge DEF RunsAge, TypeOK
<1>6. run' \in [Run -> LifeRecord]
  BY <1>1, <1>2, <1>5 DEF RunsAge, Ages, TypeOK
<1>7. TypeOK'
  BY <1>1, <1>3, <1>6 DEF TypeOK
<1>8. RowsKept /\ \A t \in Thread : LaunchesKept(t)
  BY <1>3 DEF RowsKept, LaunchesKept
<1>9. ASSUME NEW q \in Request PROVE RequestSound(q)' /\ StartSound(q)'
  <2>1. RequestSound(q)'
    BY <1>3, <1>5, RequestStays
  <2>2. StartSound(q)
    BY DEF IInv
  <2>3. QED BY <1>3, <2>1, <2>2 DEF StartSound
<1>10. QED BY <1>3, <1>4, <1>5, <1>7, <1>8, <1>9, RunsMove

LEMMA ShowIdSound ==
    ASSUME IInv, NEW t \in Thread, ShowId(t)
    PROVE  IInv'
<1>1. TypeOK
  BY DEF IInv
<1>2. PICK x \in {"fresh", "shown"} : row' = [row EXCEPT ![t] = x] /\ row[t] # "absent"
  BY DEF ShowId
<1>3. UNCHANGED <<owner, run, launched, task, req, faults, basis, missed>>
  BY DEF ShowId
<1>4. \A u \in Thread : row'[u] = IF u = t THEN x ELSE row[u]
  BY <1>1, <1>2 DEF TypeOK
<1>5. TypeOK'
  BY <1>1, <1>2, <1>3 DEF TypeOK, Row
<1>6. RunsAge
  BY <1>1, <1>3, RunsStay
<1>7. RowsKept /\ \A u \in Thread : LaunchesKept(u)
  BY <1>2, <1>3, <1>4 DEF RowsKept, LaunchesKept
<1>8. ASSUME NEW q \in Request PROVE RequestSound(q)' /\ StartSound(q)'
  <2>1. RequestSound(q)'
    BY <1>3, <1>6, RequestStays
  <2>2. StartSound(q) /\ RequestSound(q)
    BY DEF IInv
  <2>3. req[q].op = "start" => req[q].thread \in Thread
    BY <2>2 DEF StartSound, RequestSound
  <2>4. QED BY <1>3, <1>7, <2>1, <2>2, <2>3 DEF StartSound, RowsKept
<1>9. QED BY <1>3, <1>5, <1>6, <1>7, <1>8, RunsMove

LEMMA StutterSound ==
    ASSUME IInv, UNCHANGED vars
    PROVE  IInv'
<1>1. UNCHANGED <<row, owner, run, launched, task, req, faults, basis, missed>> /\ TypeOK
  BY DEF vars, IInv
<1>2. TypeOK'
  BY <1>1 DEF TypeOK
<1>3. RunsAge /\ RowsKept /\ \A u \in Thread : LaunchesKept(u)
  BY <1>1, RunsStay DEF RowsKept, LaunchesKept
<1>4. ASSUME NEW q \in Request PROVE RequestSound(q)' /\ StartSound(q)'
  <2>1. RequestSound(q)'
    BY <1>1, <1>3, RequestStays
  <2>2. StartSound(q)
    BY DEF IInv
  <2>3. QED BY <1>1, <2>1, <2>2 DEF StartSound
<1>5. QED BY <1>1, <1>2, <1>3, <1>4, RunsMove

-----------------------------------------------------------------------------
(* The theorems *)

LEMMA NextSound == ASSUME IInv, [Next]_vars PROVE IInv'
<1>1. ASSUME NEW p \in Request, Handle(p) PROVE IInv'
  BY <1>1, ApplySound, RecordSound, DropRecordSound, ReopenSound, LaunchSound, LinkSound,
     StopSound, RetireSound, SettleSound DEF Handle
<1>2. ASSUME NEW p \in Request, NEW t \in Thread, Begin(p, t) PROVE IInv'
  BY <1>2, BeginStartSound, BeginReadSound DEF Begin
<1>3. QED BY <1>1, <1>2, RefuseSound, MoveRunSound, ShowIdSound, GateSound, RestartServerSound,
             StutterSound DEF Next

\* In every reachable state requests, runs and tasks are sound: what a request
\* goes by was harmless when it was read and is so still.
THEOREM ThreadInvariant == Spec => []IInv
<1>1. IInv /\ [Next]_vars => IInv'
  BY NextSound
<1>2. QED BY InitSound, <1>1, PTL DEF Spec

\* The rows, runs, tasks and requests keep their types, whatever requests,
\* runners and restarts do.
THEOREM TypeCorrect == Spec => []TypeOK
<1>1. IInv => TypeOK
  BY DEF IInv
<1>2. QED BY ThreadInvariant, <1>1, PTL

\* Two runs of a thread work at the same time only if the younger was sent by
\* a request that had read the thread before the older was there, or the older
\* had been given up: sendAgentThreadMessage refuses a thread with an active
\* run, on what it has read.
THEOREM RivalsAreExplainedHolds == Spec => []RivalsAreExplained
<1>1. QED BY ThreadInvariant, InvariantImplies, PTL

\* A task is under review over an active run of its thread only if that run
\* was recorded after the reading that moved the task, or had been given up:
\* sendAgentThreadMessage reopens the task before it launches the run.
THEOREM ReviewOverWorkIsExplainedHolds == Spec => []ReviewOverWorkIsExplained
<1>1. QED BY ThreadInvariant, InvariantImplies, PTL
=============================================================================
