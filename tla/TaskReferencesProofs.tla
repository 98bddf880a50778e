------------------------ MODULE TaskReferencesProofs -------------------------
(***************************************************************************)
(* Reviews and approvals refer to runs that are saved, for any tasks,      *)
(* surfaces, clients and bounds.  An update computes whole collections but *)
(* saves only the ones it names, so what matters is which are saved        *)
(* together: an update that saves no runs must not have changed them, and  *)
(* one that drops runs must save the gates that are about them.            *)
(***************************************************************************)
EXTENDS TaskLifecycleProofs

USE RecordsAssumption, LifecycleAssumption

\* Every gate of the queue q is about one of the first n runs.
Bounded(q, n) == \A i \in DOMAIN q : q[i].run <= n

Resolved(d) ==
    \A t \in Task : /\ Bounded(d.reviews[t], LatestRun(d, t))
                    /\ Bounded(d.approvals[t], LatestRun(d, t))

\* No task has fewer runs in e than in d.
RunsKept(d, e) == \A t \in Task : LatestRun(d, t) <= LatestRun(e, t)

LEMMA ResolvedIsReferencesResolve == Resolved(db) <=> ReferencesResolve
BY DEF Resolved, Bounded, ReferencesResolve, LatestRun

-----------------------------------------------------------------------------
(* Queues *)

LEMMA AppendBounded ==
    ASSUME NEW S, NEW q \in Seq(S), NEW x \in S, NEW n, Bounded(q, n), x.run <= n
    PROVE  Bounded(Append(q, x), n)
<1> SUFFICES ASSUME NEW i \in DOMAIN Append(q, x)
             PROVE  Append(q, x)[i].run <= n
  BY DEF Bounded
<1>1. /\ i \in 1 .. Len(q) + 1
      /\ i \in 1 .. Len(q) => Append(q, x)[i] = q[i]
      /\ Append(q, x)[Len(q) + 1] = x
  BY AppendProperties
<1>2. CASE i \in 1 .. Len(q)
  BY <1>1, <1>2 DEF Bounded
<1>3. CASE i = Len(q) + 1
  BY <1>1, <1>3
<1>4. QED BY <1>1, <1>2, <1>3

\* More runs do not make a reference dangle.
LEMMA MoreRuns ==
    ASSUME NEW q, NEW n \in Nat, NEW m \in Nat, n <= m, Bounded(q, n),
           \A i \in DOMAIN q : q[i].run \in Nat
    PROVE  Bounded(q, m)
BY DEF Bounded

LEMMA RunsAreNumbers ==
    ASSUME NEW d \in Store, NEW t \in Task
    PROVE  /\ \A i \in DOMAIN d.reviews[t] : d.reviews[t][i].run \in Nat
           /\ \A i \in DOMAIN d.approvals[t] : d.approvals[t][i].run \in Nat
           /\ LatestRun(d, t) \in Nat
<1>1. d.reviews[t] \in Seq(Review) /\ d.approvals[t] \in Seq(Approval) /\ d.runs[t] \in Seq(Run)
  BY StoreParts
<1>2. /\ \A i \in DOMAIN d.reviews[t] : d.reviews[t][i] \in Review
      /\ \A i \in DOMAIN d.approvals[t] : d.approvals[t][i] \in Approval
      /\ Len(d.runs[t]) \in Nat
  BY <1>1
<1>3. /\ \A r \in Review : r.run \in Nat
      /\ \A a \in Approval : a.run \in Nat
  BY DEF Review, Approval
<1>4. QED BY <1>2, <1>3 DEF LatestRun

\* An update that leaves the gates alone and drops no run.
LEMMA FrameResolves ==
    ASSUME NEW d \in Store, Resolved(d), NEW e \in Store,
           e.reviews = d.reviews, e.approvals = d.approvals, RunsKept(d, e)
    PROVE  Resolved(e)
<1> SUFFICES ASSUME NEW t \in Task
             PROVE  /\ Bounded(e.reviews[t], LatestRun(e, t))
                    /\ Bounded(e.approvals[t], LatestRun(e, t))
  BY DEF Resolved
<1>1. LatestRun(d, t) <= LatestRun(e, t) /\ LatestRun(d, t) \in Nat /\ LatestRun(e, t) \in Nat
  BY RunsAreNumbers DEF RunsKept
<1>2. Bounded(d.reviews[t], LatestRun(d, t)) /\ Bounded(d.approvals[t], LatestRun(d, t))
  BY DEF Resolved
<1>3. QED BY <1>1, <1>2, RunsAreNumbers, MoreRuns

\* A queued gate is about the latest run.
LEMMA SyncGovernanceResolves ==
    ASSUME NEW d \in Store, Resolved(d)
    PROVE  Resolved(SyncGovernance(d))
<1> SUFFICES ASSUME NEW t \in Task
             PROVE  /\ Bounded(SyncGovernance(d).reviews[t], LatestRun(d, t))
                    /\ Bounded(SyncGovernance(d).approvals[t], LatestRun(d, t))
  BY SyncGovernanceShape DEF Resolved, LatestRun
<1> DEFINE x == [run |-> LatestRun(d, t), status |-> "open"]
           y == [run |-> LatestRun(d, t), mode |-> d.tasks[t].mode, status |-> "pending"]
<1>1. /\ d.reviews[t] \in Seq(Review) /\ d.approvals[t] \in Seq(Approval)
      /\ d.tasks[t] \in TaskRow /\ LatestRun(d, t) \in Nat
  BY StoreParts DEF LatestRun
<1>2. x \in Review /\ x.run <= LatestRun(d, t)
  BY <1>1 DEF Review
<1>3. y \in Approval /\ y.run <= LatestRun(d, t)
  <2>1. d.tasks[t].mode \in Mode
    BY <1>1 DEF TaskRow
  <2>2. QED BY <1>1, <2>1 DEF Approval
<1>4. /\ SyncGovernance(d).reviews[t] \in {d.reviews[t], Append(d.reviews[t], x)}
      /\ SyncGovernance(d).approvals[t] \in {d.approvals[t], Append(d.approvals[t], y)}
  BY SyncGovernanceShape
<1> HIDE DEF x, y
<1>5. Bounded(d.reviews[t], LatestRun(d, t)) /\ Bounded(d.approvals[t], LatestRun(d, t))
  BY DEF Resolved
<1>6. Bounded(Append(d.reviews[t], x), LatestRun(d, t))
  BY <1>1, <1>2, <1>5, AppendBounded
<1>7. Bounded(Append(d.approvals[t], y), LatestRun(d, t))
  BY <1>1, <1>3, <1>5, AppendBounded
<1>8. QED BY <1>4, <1>5, <1>6, <1>7

LEMMA SyncParentsResolves ==
    ASSUME NEW d \in Store, Resolved(d)
    PROVE  Resolved(SyncParents(d))
BY SyncParentsShape DEF Resolved, LatestRun

LEMMA SyncedResolves ==
    ASSUME NEW d \in Store, Resolved(d)
    PROVE  Resolved(Synced(d))
BY SyncParentsShape, SyncParentsResolves, SyncGovernanceResolves DEF Synced

-----------------------------------------------------------------------------
(* Updates *)

\* What must be saved together with what.
Together(next, saves) ==
    /\ "runs" \notin saves => next.runs = db.runs
    /\ {"reviews", "approvals"} \subseteq saves \/ RunsKept(db, next)

LEMMA CommitResolves ==
    ASSUME db \in Store, Resolved(db), NEW next \in Store, Resolved(next), NEW saves,
           Commit(next, saves), Together(next, saves)
    PROVE  Resolved(db')
<1> DEFINE e == Synced(next)
<1>1. /\ db'.runs = IF "runs" \in saves THEN next.runs ELSE db.runs
      /\ db'.reviews = IF "reviews" \in saves THEN e.reviews ELSE db.reviews
      /\ db'.approvals = IF "approvals" \in saves THEN e.approvals ELSE db.approvals
  BY CommitShape
<1>2. e \in Store /\ Resolved(e) /\ e.runs = next.runs
  BY SyncedShape, SyncedResolves
<1> HIDE DEF e
<1>3. db'.runs = next.runs
  BY <1>1 DEF Together
<1> SUFFICES ASSUME NEW t \in Task
             PROVE  /\ Bounded(db'.reviews[t], Len(next.runs[t]))
                    /\ Bounded(db'.approvals[t], Len(next.runs[t]))
  BY <1>3 DEF Resolved, LatestRun
<1>4. /\ Bounded(e.reviews[t], Len(next.runs[t]))
      /\ Bounded(e.approvals[t], Len(next.runs[t]))
  BY <1>2 DEF Resolved, LatestRun
<1>5. CASE {"reviews", "approvals"} \subseteq saves
  BY <1>1, <1>4, <1>5
<1>6. CASE RunsKept(db, next)
  <2>1. Len(db.runs[t]) \in Nat /\ Len(next.runs[t]) \in Nat /\ Len(db.runs[t]) <= Len(next.runs[t])
    BY <1>6, RunsAreNumbers DEF RunsKept, LatestRun
  <2>2. Bounded(db.reviews[t], Len(db.runs[t])) /\ Bounded(db.approvals[t], Len(db.runs[t]))
    BY DEF Resolved, LatestRun
  <2>3. Bounded(db.reviews[t], Len(next.runs[t])) /\ Bounded(db.approvals[t], Len(next.runs[t]))
    BY <2>1, <2>2, RunsAreNumbers, MoreRuns
  <2>4. QED BY <1>1, <1>4, <2>3
<1>7. QED BY <1>5, <1>6 DEF Together

LEMMA CommitTaskResolves ==
    ASSUME db \in Store, Resolved(db), NEW next \in Store, Resolved(next), NEW saves,
           CommitTask(next, saves), Together(next, saves)
    PROVE  Resolved(db')
<1>1. /\ SyncParents(next) \in Store /\ Commit(SyncParents(next), saves)
      /\ SyncParents(next).runs = next.runs
  BY CommitTaskIsCommit, SyncParentsShape
<1>2. Resolved(SyncParents(next))
  BY SyncParentsResolves
<1>3. Together(SyncParents(next), saves)
  BY <1>1 DEF Together, RunsKept, LatestRun
<1>4. QED BY <1>1, <1>2, <1>3, CommitResolves

\* The runs of a load are those saved.
LEMMA LoadedRuns ==
    ASSUME db \in Store, NEW e, RunsKept(Synced(db), e)
    PROVE  RunsKept(db, e)
BY SyncedShape DEF RunsKept, LatestRun

LEMMA EndLatestRunKeeps ==
    ASSUME NEW d \in Store, NEW t \in Task, NEW st \in RunStatus, NEW e,
           e.runs = EndLatestRun(d, t, st).runs
    PROVE  RunsKept(d, e)
<1> SUFFICES ASSUME NEW u \in Task
             PROVE  Len(d.runs[u]) <= Len(e.runs[u])
  BY DEF RunsKept, LatestRun
<1> DEFINE r == EndLatestRun(d, t, st).runs
<1>1. /\ \A v \in Task \ {t} : r[v] = d.runs[v]
      /\ LatestRun(d, t) = 0 => r[t] = d.runs[t]
      /\ LatestRun(d, t) # 0 => r[t] = EndRun(d.runs[t], st)
  BY EndLatestRunShape
<1> HIDE DEF r
<1>2. d.runs[u] \in Seq(Run) /\ d.runs[t] \in Seq(Run)
  BY StoreParts
<1>3. Len(EndRun(d.runs[t], st)) = Len(d.runs[t])
  <2> DEFINE x == [d.runs[t][Len(d.runs[t])] EXCEPT !.status = st]
  <2>1. EndRun(d.runs[t], st) = [d.runs[t] EXCEPT ![Len(d.runs[t])] = x]
    BY DEF EndRun
  <2> HIDE DEF x
  <2>2. QED BY <1>2, <2>1
<1>4. r[u] = d.runs[u] \/ Len(r[u]) = Len(d.runs[u])
  BY <1>1, <1>3
<1>5. e.runs = r
  BY DEF r
<1>6. QED BY <1>2, <1>4, <1>5

LEMMA WithRunKeeps ==
    ASSUME NEW d \in Store, NEW t \in Task, NEW row, NEW s \in Surface \union {NoSurface}
    PROVE  RunsKept(d, WithRun(d, t, row, s))
<1> SUFFICES ASSUME NEW u \in Task
             PROVE  Len(d.runs[u]) <= Len(WithRun(d, t, row, s).runs[u])
  BY DEF RunsKept, LatestRun
<1> DEFINE x == [surface |-> s, status |-> "running"]
<1>1. d.runs[u] \in Seq(Run) /\ d.runs \in [Task -> Seq(Run)]
  BY StoreParts
<1>2. x \in Run
  BY DEF Run, RunStatus
<1> HIDE DEF x
<1>3. WithRun(d, t, row, s).runs = [d.runs EXCEPT ![t] = Append(@, x)]
  BY DEF WithRun, Store, x
<1>4. WithRun(d, t, row, s).runs[u] = IF u = t THEN Append(d.runs[u], x) ELSE d.runs[u]
  BY <1>1, <1>3
<1>5. Len(Append(d.runs[u], x)) = Len(d.runs[u]) + 1
  BY <1>1, <1>2, AppendProperties
<1>6. QED BY <1>1, <1>4, <1>5

\* A decided gate is about the run it was about.
LEMMA ResolveReviewResolves ==
    ASSUME NEW d \in Store, Resolved(d), NEW t \in Task, NEW outcome
    PROVE  \A u \in Task : Bounded(ResolveReview(d, t, outcome).reviews[u], LatestRun(d, u))
<1> DEFINE n == Newest(OpenReviews(d, t))
           x == [d.reviews[t][n] EXCEPT !.status = outcome]
           q == [d.reviews[t] EXCEPT ![n] = x]
<1> TAKE u \in Task
<1>1. d.reviews \in [Task -> Seq(Review)] /\ d.reviews[t] \in Seq(Review)
  BY StoreParts
<1>2. ResolveReview(d, t, outcome).reviews = [d.reviews EXCEPT ![t] = q]
  BY <1>1 DEF ResolveReview, Store
<1>3. n \in DOMAIN d.reviews[t] => x.run = d.reviews[t][n].run
  <2> HIDE DEF n
  <2> HAVE n \in DOMAIN d.reviews[t]
  <2>1. d.reviews[t][n] \in Review
    BY <1>1
  <2>2. QED BY <2>1 DEF Review
<1> HIDE DEF n, x
<1>4. ASSUME NEW i \in DOMAIN q PROVE q[i].run = d.reviews[t][i].run
  BY <1>1, <1>3
<1>5. DOMAIN q = DOMAIN d.reviews[t]
  BY <1>1
<1>6. Bounded(q, LatestRun(d, t))
  BY <1>4, <1>5 DEF Resolved, Bounded
<1> HIDE DEF q
<1>7. QED BY <1>1, <1>2, <1>6 DEF Resolved

LEMMA ResolveApprovalResolves ==
    ASSUME NEW d \in Store, Resolved(d), NEW t \in Task, NEW outcome
    PROVE  \A u \in Task : Bounded(ResolveApproval(d, t, outcome).approvals[u], LatestRun(d, u))
<1> DEFINE n == Newest(PendingApprovals(d, t))
           x == [d.approvals[t][n] EXCEPT !.status = outcome]
           q == [d.approvals[t] EXCEPT ![n] = x]
<1> TAKE u \in Task
<1>1. d.approvals \in [Task -> Seq(Approval)] /\ d.approvals[t] \in Seq(Approval)
  BY StoreParts
<1>2. ResolveApproval(d, t, outcome).approvals = [d.approvals EXCEPT ![t] = q]
  BY <1>1 DEF ResolveApproval, Store
<1>3. n \in DOMAIN d.approvals[t] => x.run = d.approvals[t][n].run
  <2> HIDE DEF n
  <2> HAVE n \in DOMAIN d.approvals[t]
  <2>1. d.approvals[t][n] \in Approval
    BY <1>1
  <2>2. QED BY <2>1 DEF Approval
<1> HIDE DEF n, x
<1>4. ASSUME NEW i \in DOMAIN q PROVE q[i].run = d.approvals[t][i].run
  BY <1>1, <1>3
<1>5. DOMAIN q = DOMAIN d.approvals[t]
  BY <1>1
<1>6. Bounded(q, LatestRun(d, t))
  BY <1>4, <1>5 DEF Resolved, Bounded
<1> HIDE DEF q
<1>7. QED BY <1>1, <1>2, <1>6 DEF Resolved

-----------------------------------------------------------------------------
(* Every step keeps the references *)

RefInv == GateInv /\ ReferencesResolve

\* What a handler starts from.
LEMMA Loaded ==
    ASSUME RefInv
    PROVE  /\ db \in Store /\ Resolved(db) /\ Gated(db)
           /\ Synced(db) \in Store /\ Resolved(Synced(db)) /\ Gated(Synced(db))
           /\ Synced(db).runs = db.runs
BY SyncedShape, SyncedGates, SyncedResolves, GatedIsOneOpenGate, ResolvedIsReferencesResolve
   DEF RefInv, GateInv, TypeOK

\* Handlers that leave the gates alone and drop no run: creation, an edit, a
\* recorded launch.
LEMMA UngatedResolves ==
    ASSUME RefInv, NEW e \in Store, NEW saves,
           Commit(e, saves) \/ CommitTask(e, saves),
           e.reviews = Synced(db).reviews, e.approvals = Synced(db).approvals,
           RunsKept(Synced(db), e), "runs" \notin saves => e.runs = db.runs
    PROVE  Resolved(db')
<1>1. Resolved(e)
  BY Loaded, FrameResolves
<1>2. Together(e, saves)
  BY Loaded, LoadedRuns DEF Together
<1>3. QED BY <1>1, <1>2, Loaded, CommitResolves, CommitTaskResolves

LEMMA SameRuns ==
    ASSUME NEW d \in Store, NEW e, e.runs = d.runs
    PROVE  RunsKept(d, e)
BY RunsAreNumbers DEF RunsKept, LatestRun

LEMMA CreateTaskResolves ==
    ASSUME RefInv, NEW t \in Task, NEW row \in NewRow, CreateTask(t, row)
    PROVE  Resolved(db')
<1> DEFINE d == Synced(db)
           e == [d EXCEPT !.tasks[t] = row]
<1>1. Commit(e, {"tasks"})
  BY DEF CreateTask
<1>2. d \in Store /\ row \in TaskRow /\ d.runs = db.runs
  BY Loaded
<1> HIDE DEF d
<1>3. e \in Store /\ e.runs = d.runs /\ e.reviews = d.reviews /\ e.approvals = d.approvals
  BY <1>2, SetTask
<1> HIDE DEF e
<1>4. RunsKept(d, e)
  BY <1>2, <1>3, SameRuns
<1>5. QED BY <1>1, <1>2, <1>3, <1>4, UngatedResolves DEF d

LEMMA SaveEditResolves ==
    ASSUME RefInv, NEW c \in Editor, SaveEdit(c)
    PROVE  Resolved(db')
<1> DEFINE d == Synced(db)
           t == req[c].task
           row == req[c].row
           e == [d EXCEPT !.tasks[t] = row]
<1>1. UNCHANGED db \/ CommitTask(e, {"tasks"})
  BY Zenon DEF SaveEdit
<1>2. d \in Store /\ d.runs = db.runs
  BY Loaded
<1>3. t \in Task /\ row \in TaskRow
  <2>1. req[c] \in Request /\ req[c].op = "edit"
    BY DEF SaveEdit, RefInv, GateInv, TypeOK, Client
  <2>2. QED BY <2>1 DEF Request, Idle, ClaimRequest, WriteRequest
<1>4. CASE UNCHANGED db
  BY <1>4, Loaded DEF Resolved, LatestRun
<1>5. CASE CommitTask(e, {"tasks"})
  <2> HIDE DEF d, t, row
  <2>1. e \in Store /\ e.runs = d.runs /\ e.reviews = d.reviews /\ e.approvals = d.approvals
    BY <1>2, <1>3, SetTask
  <2> HIDE DEF e
  <2>2. RunsKept(d, e)
    BY <1>2, <2>1, SameRuns
  <2>3. QED BY <1>2, <1>5, <2>1, <2>2, UngatedResolves DEF d
<1>6. QED BY <1>1, <1>4, <1>5

LEMMA RecordLaunchResolves ==
    ASSUME RefInv, NEW c \in Launcher, RecordLaunch(c)
    PROVE  Resolved(db')
<1> DEFINE d == Synced(db)
           e == Launched(d, req[c])
<1>1. UNCHANGED db \/ CommitTask(e, {"tasks", "runs"})
  BY Zenon DEF RecordLaunch, Launched, LaunchRow
<1>2. req[c] \in WriteRequest
  <2>1. req[c] \in Request /\ req[c].op = "launch"
    BY DEF RecordLaunch, RefInv, GateInv, TypeOK, Client
  <2>2. QED BY <2>1 DEF Request, Idle, ClaimRequest, WriteRequest
<1>3. d \in Store
  BY Loaded
<1>4. CASE UNCHANGED db
  BY <1>4, Loaded DEF Resolved, LatestRun
<1>5. CASE CommitTask(e, {"tasks", "runs"})
  <2> HIDE DEF d
  <2>1. e \in Store /\ e.reviews = d.reviews /\ e.approvals = d.approvals
    BY <1>2, <1>3, LaunchRowType, WithRunFrame DEF Launched
  <2>2. RunsKept(d, e)
    BY <1>2, <1>3, LaunchRowType, WithRunKeeps DEF Launched
  <2> HIDE DEF e
  <2>3. QED BY <1>5, <2>1, <2>2, UngatedResolves DEF d
<1>6. QED BY <1>1, <1>4, <1>5

LEMMA CreateAndRunResolves ==
    ASSUME RefInv, NEW t \in Task, NEW row \in NewRow, NEW s \in Surface \union {NoSurface},
           CreateAndRun(t, row, s)
    PROVE  Resolved(db')
<1> DEFINE d == Synced(db)
           e == WithRun(d, t, RunningRow(row, s), s)
<1>1. Commit(e, {"tasks", "runs"})
  BY DEF CreateAndRun, RunningRow
<1>2. d \in Store
  BY Loaded
<1> HIDE DEF d
<1>3. e \in Store /\ e.reviews = d.reviews /\ e.approvals = d.approvals
  BY <1>2, RunningRowType, WithRunFrame
<1>4. RunsKept(d, e)
  BY <1>2, WithRunKeeps
<1> HIDE DEF e
<1>5. QED BY <1>1, <1>3, <1>4, UngatedResolves DEF d

\* A deletion drops the gates of the task with its runs.
LEMMA DeleteTaskResolves ==
    ASSUME RefInv, NEW t \in Task, DeleteTask(t)
    PROVE  Resolved(db')
<1> DEFINE d == Synced(db)
           e == Without(d, t)
           saves == {"tasks", "runs", "reviews", "approvals"}
<1>1. CommitTask(e, saves)
  BY DEF DeleteTask, Without
<1>2. d \in Store /\ Resolved(d)
  BY Loaded
<1> HIDE DEF d
<1>3. /\ e \in Store
      /\ \A u \in Task : \/ /\ e.runs[u] = d.runs[u]
                            /\ e.reviews[u] = d.reviews[u] /\ e.approvals[u] = d.approvals[u]
                         \/ e.reviews[u] = <<>> /\ e.approvals[u] = <<>>
  BY <1>2, DeleteShape
<1> HIDE DEF e
<1>4. Resolved(e)
  <2>1. ASSUME NEW n PROVE Bounded(<<>>, n)
    BY DEF Bounded
  <2>2. QED BY <1>2, <1>3, <2>1 DEF Resolved, LatestRun
<1>5. Together(e, saves)
  BY DEF Together
<1> HIDE DEF saves
<1>6. QED BY <1>1, <1>3, <1>4, <1>5, Loaded, CommitTaskResolves

\* Updates that save only surfaces.
LEMMA SurfaceResolves ==
    ASSUME RefInv, NEW next \in Store, Commit(next, {"surfaces"})
    PROVE  Resolved(db')
<1>1. db'.reviews = db.reviews /\ db'.approvals = db.approvals /\ db'.runs = db.runs
  BY Loaded, CommitShape
<1>2. QED BY <1>1, Loaded DEF Resolved, LatestRun

LEMMA RegisterResolves ==
    ASSUME RefInv, NEW s \in Surface, NEW cap \in Capacity, NEW n \in RunCap, Register(s, cap, n)
    PROVE  Resolved(db')
<1> DEFINE d == Synced(db)
           row == [status |-> "idle", capacity |-> cap, maxRuns |-> n]
           e == [d EXCEPT !.surfaces[s] = row]
<1>1. d \in Store /\ Commit(e, {"surfaces"})
  BY Loaded DEF Register
<1> HIDE DEF d
<1>2. row \in SurfaceRow
  BY DEF SurfaceRow
<1> HIDE DEF row
<1>3. e \in Store
  BY <1>1, <1>2 DEF Store
<1>4. QED BY <1>1, <1>3, SurfaceResolves

LEMMA HeartbeatResolves ==
    ASSUME RefInv, NEW s \in Surface, NEW st \in Presence, NEW cap \in Capacity,
           Heartbeat(s, st, cap)
    PROVE  Resolved(db')
<1> DEFINE d == Synced(db)
           row == [d.surfaces[s] EXCEPT !.status = st, !.capacity = cap]
           e == [d EXCEPT !.surfaces[s] = row]
<1>1. d \in Store
  BY Loaded
<1>2. Commit([d EXCEPT !.surfaces[s].status = st, !.surfaces[s].capacity = cap], {"surfaces"})
  BY DEF Heartbeat
<1> HIDE DEF d
<1>3. d.surfaces[s] \in SurfaceRow /\ d.surfaces \in [Surface -> SurfaceRow]
  BY <1>1, StoreParts
<1>4. [d EXCEPT !.surfaces[s].status = st, !.surfaces[s].capacity = cap] = e
  BY <1>1, <1>3 DEF Store, SurfaceRow
<1>5. row \in SurfaceRow
  BY <1>3 DEF SurfaceRow
<1> HIDE DEF row
<1>6. e \in Store
  BY <1>1, <1>3, <1>5 DEF Store
<1>7. QED BY <1>2, <1>4, <1>6, SurfaceResolves

-----------------------------------------------------------------------------
(* Governance and surfaces *)

\* requestTaskReview and requestTaskApproval ask about the latest run.
LEMMA RequestReviewResolves ==
    ASSUME RefInv, NEW t \in Task, RequestReview(t)
    PROVE  Resolved(db')
<1> DEFINE d == Synced(db)
           x == [run |-> LatestRun(d, t), status |-> "open"]
           q == Append(d.reviews[t], x)
           e == [d EXCEPT !.reviews[t] = q]
           f == IF d.tasks[t].status = "done" THEN e ELSE WithStatus(e, t, "review")
           saves == {"reviews", "tasks"}
<1>1. CommitTask(f, saves)
  BY DEF RequestReview
<1>2. d \in Store /\ Resolved(d) /\ d.runs = db.runs
  BY Loaded
<1> HIDE DEF d
<1>3. d.reviews \in [Task -> Seq(Review)] /\ d.reviews[t] \in Seq(Review) /\ x \in Review
  BY <1>2, StoreParts DEF LatestRun, Review
<1>4. x.run <= LatestRun(d, t)
  BY <1>2, RunsAreNumbers
<1> HIDE DEF x
<1>5. q \in Seq(Review) /\ Bounded(q, LatestRun(d, t))
  BY <1>2, <1>3, <1>4, AppendProperties, AppendBounded DEF Resolved
<1> HIDE DEF q
<1>6. /\ e \in Store /\ e.approvals = d.approvals /\ e.runs = d.runs
      /\ e.reviews = [d.reviews EXCEPT ![t] = q]
  BY <1>2, <1>5 DEF Store
<1> HIDE DEF e
<1>7. Resolved(e)
  <2>1. \A u \in Task : e.reviews[u] = IF u = t THEN q ELSE d.reviews[u]
    BY <1>3, <1>6
  <2>2. QED BY <1>2, <1>5, <1>6, <2>1 DEF Resolved, LatestRun
<1>8. /\ f \in Store /\ f.reviews = e.reviews /\ f.approvals = e.approvals
      /\ f.runs = e.runs
  <2> DEFINE g == WithStatus(e, t, "review")
  <2>1. "review" \in TaskStatus
    BY DEF TaskStatus
  <2>2. g \in Store /\ g.reviews = e.reviews /\ g.approvals = e.approvals /\ g.runs = e.runs
    BY <1>6, <2>1, WithStatusShape
  <2> HIDE DEF g
  <2>3. QED BY <1>6, <2>2 DEF g
<1> HIDE DEF f
<1>9. Resolved(f)
  BY <1>7, <1>8 DEF Resolved, LatestRun
<1>10. Together(f, saves)
  <2>1. f.runs = db.runs
    BY <1>2, <1>6, <1>8
  <2>2. RunsKept(db, f)
    BY <2>1, Loaded, SameRuns
  <2>3. QED BY <2>1, <2>2 DEF Together
<1> HIDE DEF saves
<1>11. QED BY <1>1, <1>8, <1>9, <1>10, Loaded, CommitTaskResolves

LEMMA RequestApprovalResolves ==
    ASSUME RefInv, NEW t \in Task, NEW mode \in FormMode, RequestApproval(t, mode)
    PROVE  Resolved(db')
<1> DEFINE d == Synced(db)
           x == [run |-> LatestRun(d, t), mode |-> mode, status |-> "pending"]
           q == Append(d.approvals[t], x)
           e == [d EXCEPT !.approvals[t] = q]
           saves == {"approvals", "tasks"}
<1>1. CommitTask(e, saves)
  BY DEF RequestApproval
<1>2. d \in Store /\ Resolved(d) /\ d.runs = db.runs
  BY Loaded
<1> HIDE DEF d
<1>3. d.approvals \in [Task -> Seq(Approval)] /\ d.approvals[t] \in Seq(Approval) /\ x \in Approval
  <2>1. LatestRun(d, t) \in Nat /\ mode \in Mode
    BY <1>2, RunsAreNumbers
  <2>2. QED BY <1>2, <2>1, StoreParts DEF Approval
<1>4. x.run <= LatestRun(d, t)
  BY <1>2, RunsAreNumbers
<1> HIDE DEF x
<1>5. q \in Seq(Approval) /\ Bounded(q, LatestRun(d, t))
  BY <1>2, <1>3, <1>4, AppendProperties, AppendBounded DEF Resolved
<1> HIDE DEF q
<1>6. /\ e \in Store /\ e.reviews = d.reviews /\ e.runs = d.runs
      /\ e.approvals = [d.approvals EXCEPT ![t] = q]
  BY <1>2, <1>5 DEF Store
<1> HIDE DEF e
<1>7. Resolved(e)
  <2>1. \A u \in Task : e.approvals[u] = IF u = t THEN q ELSE d.approvals[u]
    BY <1>3, <1>6
  <2>2. QED BY <1>2, <1>5, <1>6, <2>1 DEF Resolved, LatestRun
<1>8. Together(e, saves)
  <2>1. e.runs = db.runs
    BY <1>2, <1>6
  <2>2. RunsKept(db, e)
    BY <2>1, Loaded, SameRuns
  <2>3. QED BY <2>1, <2>2 DEF Together
<1> HIDE DEF saves
<1>9. QED BY <1>1, <1>6, <1>7, <1>8, Loaded, CommitTaskResolves

\* Closing and blocking end a run and leave the gates alone.
LEMMA OutcomeResolves ==
    ASSUME NEW d \in Store, Resolved(d), NEW t \in Task,
           NEW e \in {d, Close(d, t), Block(d, t)}
    PROVE  e \in Store /\ Resolved(e) /\ RunsKept(d, e)
<1>1. CASE e = d
  BY <1>1, SameRuns
<1>2. CASE e = Close(d, t)
  <2>1. /\ e \in Store /\ e.reviews = d.reviews /\ e.approvals = d.approvals
        /\ e.runs = EndLatestRun(d, t, "completed").runs
    BY <1>2, CloseShape
  <2>2. RunsKept(d, e)
    BY <2>1, EndLatestRunKeeps DEF RunStatus
  <2>3. QED BY <2>1, <2>2, FrameResolves
<1>3. CASE e = Block(d, t)
  <2>1. /\ e \in Store /\ e.reviews = d.reviews /\ e.approvals = d.approvals
        /\ e.runs = EndLatestRun(d, t, "blocked").runs
    BY <1>3, BlockShape
  <2>2. RunsKept(d, e)
    BY <2>1, EndLatestRunKeeps DEF RunStatus
  <2>3. QED BY <2>1, <2>2, FrameResolves
<1>4. QED BY <1>1, <1>2, <1>3

\* A decision and its outcome, saved with the runs.
LEMMA DecisionResolves ==
    ASSUME RefInv, NEW e \in Store, Resolved(e), e.runs = db.runs, NEW t \in Task,
           NEW next \in {e, Close(e, t), Block(e, t)}, NEW saves, "runs" \in saves,
           CommitTask(next, saves)
    PROVE  Resolved(db')
<1>1. next \in Store /\ Resolved(next) /\ RunsKept(e, next)
  BY OutcomeResolves
<1>2. Together(next, saves)
  BY <1>1 DEF Together, RunsKept, LatestRun
<1>3. QED BY <1>1, <1>2, Loaded, CommitTaskResolves

LEMMA DecideReviewResolves ==
    ASSUME RefInv, NEW t \in Task, ApproveReview(t) \/ RequestChanges(t)
    PROVE  Resolved(db')
<1> DEFINE d == Synced(db)
           saves == {"reviews", "runs", "tasks"}
<1>1. PICK outcome \in {"approved", "changes_requested"} :
          /\ OpenReviews(d, t) # {}
          /\ \E next :
                /\ CommitTask(next, saves)
                /\ next \in {ResolveReview(d, t, outcome), Close(ResolveReview(d, t, outcome), t),
                             Block(ResolveReview(d, t, outcome), t)}
  <2>1. CASE ApproveReview(t) BY <2>1, Zenon DEF ApproveReview
  <2>2. CASE RequestChanges(t) BY <2>2, Zenon DEF RequestChanges
  <2>3. QED BY <2>1, <2>2
<1> DEFINE e == ResolveReview(d, t, outcome)
<1>2. PICK next \in {e, Close(e, t), Block(e, t)} : CommitTask(next, saves)
  BY <1>1, Zenon
<1>3. d \in Store /\ Gated(d) /\ Resolved(d) /\ d.runs = db.runs
  BY Loaded
<1> HIDE DEF d
<1>4. e \in Store /\ e.runs = d.runs
  BY <1>1, <1>3, ResolveReviewGates
<1>5. e.approvals = d.approvals
  BY <1>3 DEF ResolveReview, Store
<1>6. \A u \in Task : Bounded(e.reviews[u], LatestRun(d, u))
  BY <1>3, ResolveReviewResolves
<1> HIDE DEF e
<1>7. Resolved(e)
  BY <1>3, <1>4, <1>5, <1>6 DEF Resolved, LatestRun
<1>8. "runs" \in saves
  OBVIOUS
<1> HIDE DEF saves
<1>9. QED BY <1>2, <1>3, <1>4, <1>7, <1>8, DecisionResolves

LEMMA DecideApprovalResolves ==
    ASSUME RefInv, NEW t \in Task, ApproveApproval(t) \/ RejectApproval(t)
    PROVE  Resolved(db')
<1> DEFINE d == Synced(db)
           saves == {"approvals", "runs", "tasks"}
<1>1. PICK outcome \in {"approved", "rejected"} :
          /\ PendingApprovals(d, t) # {}
          /\ \E next :
                /\ CommitTask(next, saves)
                /\ next \in {ResolveApproval(d, t, outcome), Close(ResolveApproval(d, t, outcome), t),
                             Block(ResolveApproval(d, t, outcome), t)}
  <2>1. CASE ApproveApproval(t) BY <2>1, Zenon DEF ApproveApproval
  <2>2. CASE RejectApproval(t) BY <2>2, Zenon DEF RejectApproval
  <2>3. QED BY <2>1, <2>2
<1> DEFINE e == ResolveApproval(d, t, outcome)
<1>2. PICK next \in {e, Close(e, t), Block(e, t)} : CommitTask(next, saves)
  BY <1>1, Zenon
<1>3. d \in Store /\ Gated(d) /\ Resolved(d) /\ d.runs = db.runs
  BY Loaded
<1> HIDE DEF d
<1>4. e \in Store
  BY <1>1, <1>3, ResolveApprovalGates
<1>5. e.runs = d.runs /\ e.reviews = d.reviews
  BY <1>3 DEF ResolveApproval, Store
<1>6. \A u \in Task : Bounded(e.approvals[u], LatestRun(d, u))
  BY <1>3, ResolveApprovalResolves
<1> HIDE DEF e
<1>7. Resolved(e)
  BY <1>3, <1>4, <1>5, <1>6 DEF Resolved, LatestRun
<1>8. "runs" \in saves
  OBVIOUS
<1> HIDE DEF saves
<1>9. QED BY <1>2, <1>3, <1>4, <1>5, <1>7, <1>8, DecisionResolves

\* Claims and reports queue the gates before they commit.
LEMMA SurfaceUpdateResolves ==
    ASSUME RefInv, NEW e \in Store, e.reviews = Synced(db).reviews,
           e.approvals = Synced(db).approvals, RunsKept(Synced(db), e),
           NEW next \in {e, SyncGovernance(e)}, NEW saves, "runs" \in saves,
           Commit(next, saves)
    PROVE  Resolved(db')
<1>1. Resolved(e)
  BY Loaded, FrameResolves
<1>2. next \in Store /\ Resolved(next) /\ next.runs = e.runs
  BY <1>1, SyncGovernanceShape, SyncGovernanceResolves
<1>3. RunsKept(db, next)
  BY <1>2, Loaded DEF RunsKept, LatestRun
<1>4. Together(next, saves)
  BY <1>3 DEF Together
<1>5. QED BY <1>2, <1>4, Loaded, CommitResolves

LEMMA ClaimTaskResolves ==
    ASSUME RefInv, NEW c \in Worker, ClaimTask(c)
    PROVE  Resolved(db')
<1> DEFINE d == Synced(db)
           t == req[c].task
           s == req[c].by
           e == StartRun(d, t, s)
           saves == {"tasks", "runs", "reviews", "approvals"}
<1>1. t \in Task /\ s \in Surface
  <2>1. req[c] \in Request /\ req[c].op = "claim"
    BY DEF ClaimTask, RefInv, GateInv, TypeOK, Client
  <2>2. QED BY <2>1 DEF Request, Idle, ClaimRequest, WriteRequest
<1>2. Commit(IF d.tasks[t].status = "in_progress" THEN d ELSE SyncGovernance(e), saves)
  BY DEF ClaimTask
<1>3. d \in Store /\ d.runs[t] \in Seq(Run)
  BY <1>1, Loaded, StoreParts
<1>4. "runs" \in saves
  OBVIOUS
<1> HIDE DEF d, t, s, saves
<1>5. CASE Commit(d, saves)
  <2>1. RunsKept(d, d)
    BY <1>3, SameRuns
  <2>2. QED BY <1>3, <1>4, <1>5, <2>1, SurfaceUpdateResolves DEF d
<1>6. CASE Commit(SyncGovernance(e), saves)
  <2>1. /\ e \in Store /\ e.reviews = d.reviews /\ e.approvals = d.approvals
        /\ e.runs[t] = Append(d.runs[t], NewRun(s))
        /\ \A u \in Task \ {t} : e.runs[u] = d.runs[u]
    BY <1>1, <1>3, StartRunShape
  <2>2. NewRun(s) \in Run
    BY <1>1 DEF NewRun, Run, RunStatus
  <2>3. Len(e.runs[t]) = Len(d.runs[t]) + 1
    BY <1>3, <2>1, <2>2, AppendProperties
  <2>4. RunsKept(d, e)
    BY <1>3, <2>1, <2>3, RunsAreNumbers DEF RunsKept, LatestRun
  <2> HIDE DEF e
  <2>5. QED BY <1>4, <1>6, <2>1, <2>4, SurfaceUpdateResolves DEF d
<1>7. QED BY <1>2, <1>5, <1>6

LEMMA ReportStatusResolves ==
    ASSUME RefInv, NEW s \in Surface, NEW t \in Task, NEW status \in Report,
           ReportStatus(s, t, status)
    PROVE  Resolved(db')
<1> DEFINE d == Synced(db)
           e == Reported(d, s, t, status)
           saves == {"tasks", "runs", "reviews", "approvals"}
<1>1. Commit(SyncGovernance(e), saves)
  BY ReportCommits
<1>2. d \in Store
  BY Loaded
<1>3. "runs" \in saves
  OBVIOUS
<1> HIDE DEF d, saves
<1>4. /\ e \in Store /\ e.reviews = d.reviews /\ e.approvals = d.approvals
      /\ e.runs = d.runs \/ e.runs = EndLatestRun(d, t, RunStatusOf(status)).runs
  BY <1>2, ReportedShape
<1> HIDE DEF e
<1>5. RunsKept(d, e)
  BY <1>2, <1>4, SameRuns, EndLatestRunKeeps, RunStatusOfType
<1>6. QED BY <1>1, <1>3, <1>4, <1>5, SurfaceUpdateResolves DEF d

-----------------------------------------------------------------------------
(* The theorem *)

LEMMA RefStep ==
    ASSUME RefInv, [Next]_vars
    PROVE  RefInv'
<1>1. UNCHANGED db \/ Resolved(db')
  <2>1. CASE \E t \in Task : DeleteTask(t) \/ Govern(t) \/ \E row \in NewRow : CreateTask(t, row)
    BY <2>1, DeleteTaskResolves, CreateTaskResolves, RequestReviewResolves, DecideReviewResolves,
       RequestApprovalResolves, DecideApprovalResolves DEF Govern
  <2>2. CASE \E s \in Surface :
            \/ \E cap \in Capacity : \/ \E n \in RunCap : Register(s, cap, n)
                                     \/ \E st \in Presence : Heartbeat(s, st, cap)
            \/ \E t \in Task, st \in Report : ReportStatus(s, t, st)
    BY <2>2, RegisterResolves, HeartbeatResolves, ReportStatusResolves
  <2>3. CASE \E c \in Worker : \/ \E s \in Surface, t \in Task : BeginClaim(c, s, t)
                               \/ ClaimTask(c)
                               \/ RefuseClaim(c)
    BY <2>3, ClaimTaskResolves DEF BeginClaim, RefuseClaim
  <2>4. CASE \E c \in Editor : (\E t \in Task : BeginEdit(c, t)) \/ SaveEdit(c)
    BY <2>4, SaveEditResolves DEF BeginEdit
  <2>5. CASE \E c \in Launcher :
            \/ RecordLaunch(c)
            \/ \E t \in Task, s \in Surface \union {NoSurface} :
                  BeginLaunch(c, t, s) \/ \E row \in NewRow : CreateAndRun(t, row, s)
    BY <2>5, RecordLaunchResolves, CreateAndRunResolves DEF BeginLaunch
  <2>6. CASE UNCHANGED vars
    BY <2>6 DEF vars
  <2>7. QED BY <2>1, <2>2, <2>3, <2>4, <2>5, <2>6 DEF Next
<1>2. CASE UNCHANGED db
  BY <1>2, GateStep DEF RefInv, ReferencesResolve
<1>3. CASE Resolved(db')
  <2>1. ReferencesResolve'
    BY <1>3 DEF Resolved, Bounded, LatestRun, ReferencesResolve
  <2>2. QED BY <2>1, GateStep DEF RefInv
<1>4. QED BY <1>1, <1>2, <1>3

\* Every saved review and approval is about a saved run of its task, whatever
\* collections the updates save and however a stale form or launch is written.
THEOREM ReferencesResolveHolds == Spec => []ReferencesResolve
<1>1. Init => RefInv
  BY GateInit DEF RefInv, Init, ReferencesResolve
<1>2. RefInv /\ [Next]_vars => RefInv'
  BY RefStep
<1>3. RefInv => ReferencesResolve
  BY DEF RefInv
<1>4. QED BY <1>1, <1>2, <1>3, PTL DEF Spec
=============================================================================
