--------------------------- MODULE TaskLeaseProofs ---------------------------
(***************************************************************************)
(* Proofs about who works on a task.  As long as no operator saves a stale *)
(* form or launches a task beside the surfaces (NoOperators), only the     *)
(* latest run of a task can be active, only while the task is in progress, *)
(* in review or canceled, and only for the surface the task is assigned    *)
(* to.  From that invariant: one active run, none when the task rests, the *)
(* abstract lease, and the limits of the surfaces.                         *)
(***************************************************************************)
EXTENDS TaskLifecycleProofs, FiniteSetTheorems

USE RecordsAssumption, LifecycleAssumption

NoOperators == Editor = {} /\ Launcher = {}

\* The row and the runs q of one task.
Leased(row, q) ==
    /\ \A i \in DOMAIN q : q[i].status = "running" =>
          /\ i = Len(q)
          /\ row.status \in {"in_progress", "review", "canceled"}
          /\ row.assignee \in Surface /\ q[i].surface = row.assignee
    /\ row.status \in NoRow => q = <<>>

LeaseInv == GateInv /\ \A t \in Leaf : Leased(db.tasks[t], db.runs[t])

\* One step of the runs of a task: gone, the latest in another status, or a
\* new one where none was active.
RunStep(q, r) ==
    \/ r = q
    \/ r = <<>>
    \/ q # <<>> /\ \E st \in RunStatus : r = EndRun(q, st)
    \/ /\ \A i \in DOMAIN q : q[i].status # "running"
       /\ \E s \in Surface : r = Append(q, NewRun(s))

\* What a step does to the runs: those of one task move, or none.
RunsMove == /\ \A t \in Leaf : RunStep(db.runs[t], db'.runs[t])
            /\ \A t, u \in Leaf : \/ db'.runs[t] = db.runs[t]
                                  \/ db'.runs[u] = db.runs[u]
                                  \/ t = u

-----------------------------------------------------------------------------
(* One task *)

\* The latest run takes another status: active only for the surface that has
\* the task, in a status in which it may work on it.
LEMMA EndedRun ==
    ASSUME NEW row, NEW q \in Seq(Run), Leased(row, q), q # <<>>,
           NEW st \in RunStatus, NEW row2, row2.status \in TaskStatus,
           st = "running" => /\ row2.status \in {"in_progress", "review", "canceled"}
                             /\ row2.assignee \in Surface /\ q[Len(q)].surface = row2.assignee
    PROVE  Leased(row2, EndRun(q, st)) /\ RunStep(q, EndRun(q, st))
<1> DEFINE n == Len(q)
           x == [q[n] EXCEPT !.status = st]
           r == [q EXCEPT ![n] = x]
<1>1. n \in DOMAIN q /\ q[n] \in Run
  BY EmptySeq
<1>2. x \in Run /\ x.status = st /\ x.surface = q[n].surface
  BY <1>1, StatusSet
<1>3. EndRun(q, st) = r
  BY DEF EndRun
<1>4. RunStep(q, EndRun(q, st))
  BY DEF RunStep
<1> HIDE DEF x
<1>5. /\ DOMAIN r = DOMAIN q /\ Len(r) = Len(q) /\ r[n] = x
      /\ \A i \in DOMAIN q : i # n => r[i] = q[i]
  BY <1>1, <1>2
<1>6. row2.status \notin NoRow
  BY DEF TaskStatus, NoRow
<1> HIDE DEF r
<1>7. Leased(row2, r)
  BY <1>1, <1>2, <1>5, <1>6 DEF Leased
<1>8. QED BY <1>3, <1>4, <1>7

\* A run starts where no run is active.
LEMMA StartedRun ==
    ASSUME NEW row, NEW q \in Seq(Run), Leased(row, q), row.status = "ready",
           NEW s \in Surface, NEW row2, row2.status = "in_progress", row2.assignee = s
    PROVE  Leased(row2, Append(q, NewRun(s))) /\ RunStep(q, Append(q, NewRun(s)))
<1> DEFINE x == NewRun(s)
           r == Append(q, x)
<1>1. \A i \in DOMAIN q : q[i].status # "running"
  BY DEF Leased
<1>2. RunStep(q, r)
  BY <1>1 DEF RunStep
<1>3. x \in Run /\ x.surface = s
  BY DEF Run, RunStatus, NewRun
<1> HIDE DEF x
<1>4. /\ Len(r) = Len(q) + 1 /\ DOMAIN q = 1 .. Len(q) /\ Len(q) \in Nat
      /\ DOMAIN r = 1 .. Len(q) + 1 /\ r[Len(q) + 1] = x
      /\ \A i \in 1 .. Len(q) : r[i] = q[i]
  BY <1>3, AppendProperties
<1> HIDE DEF r
<1>5. Leased(row2, r)
  BY <1>1, <1>3, <1>4 DEF Leased, NoRow
<1>6. QED BY <1>2, <1>5 DEF r, x

\* A task without active runs, or in a status that may have one, keeps its lease.
LEMMA SameRuns ==
    ASSUME NEW row, NEW q, Leased(row, q), NEW row2,
           row2.status \in NoRow => row.status \in NoRow,
           \/ \A i \in DOMAIN q : q[i].status # "running"
           \/ /\ row2.status \in {"in_progress", "review", "canceled"} \/ row2.status = row.status
              /\ row2.assignee = row.assignee
    PROVE  Leased(row2, q) /\ RunStep(q, q)
BY DEF Leased, RunStep

-----------------------------------------------------------------------------
(* The database *)

LeasesMove == (\A t \in Leaf : Leased(db'.tasks[t], db'.runs[t])) /\ RunsMove

LEMMA LeafIsItself ==
    ASSUME NEW d \in Store, NEW t \in Leaf
    PROVE  SyncParents(d).tasks[t] = d.tasks[t] /\ Synced(d).tasks[t] = d.tasks[t]
<1>1. LiveChildren(d, t) = {} /\ t \in Task
  BY DEF Leaf, LiveChildren
<1>2. QED BY <1>1, SyncParentsShape, SyncedShape

\* What a load returns to a handler.
LEMMA LoadedLease ==
    ASSUME LeaseInv
    PROVE  /\ db \in Store /\ Synced(db) \in Store /\ Gated(Synced(db))
           /\ Synced(db).runs = db.runs
           /\ \A t \in Leaf : Synced(db).tasks[t] = db.tasks[t]
           /\ \A t \in Leaf : Leased(Synced(db).tasks[t], Synced(db).runs[t])
           /\ \A t \in Task : Synced(db).runs[t] \in Seq(Run) /\ Synced(db).tasks[t] \in TaskRow
<1>1. db \in Store /\ Synced(db) \in Store /\ Gated(Synced(db)) /\ Synced(db).runs = db.runs
  BY SyncedShape, SyncedGates, GatedIsOneOpenGate DEF LeaseInv, GateInv, TypeOK
<1>2. \A t \in Leaf : Synced(db).tasks[t] = db.tasks[t]
  BY <1>1, LeafIsItself
<1>3. QED BY <1>1, <1>2, StoreParts DEF LeaseInv

LEMMA CommitLease ==
    ASSUME db \in Store, NEW next \in Store, NEW saves, "tasks" \in saves,
           Commit(next, saves) \/ CommitTask(next, saves),
           "runs" \in saves \/ next.runs = db.runs
    PROVE  /\ db'.runs = next.runs
           /\ \A t \in Leaf : db'.tasks[t] = next.tasks[t]
<1>1. CASE Commit(next, saves)
  BY <1>1, CommitShape, LeafIsItself
<1>2. CASE CommitTask(next, saves)
  <2>1. /\ Commit(SyncParents(next), saves) /\ SyncParents(next) \in Store
        /\ SyncParents(next).runs = next.runs
    BY <1>2, CommitTaskIsCommit, SyncParentsShape
  <2>2. /\ db'.runs = next.runs
        /\ db'.tasks = Synced(SyncParents(next)).tasks
    BY <2>1, CommitShape
  <2>3. QED BY <2>1, <2>2, LeafIsItself
<1>3. QED BY <1>1, <1>2

\* The handlers change the row and the runs of one task of the store they
\* loaded; the dependencies of the others do not matter here.
LEMMA OneTaskMoves ==
    ASSUME LeaseInv, NEW t \in Task, NEW next \in Store, NEW saves, "tasks" \in saves,
           Commit(next, saves) \/ CommitTask(next, saves),
           "runs" \in saves \/ next.runs = Synced(db).runs,
           \A u \in Task \ {t} : /\ next.runs[u] = Synced(db).runs[u]
                                 /\ next.tasks[u].status = Synced(db).tasks[u].status
                                 /\ next.tasks[u].assignee = Synced(db).tasks[u].assignee,
           t \in Leaf => /\ Leased(next.tasks[t], next.runs[t])
                         /\ RunStep(Synced(db).runs[t], next.runs[t])
    PROVE  LeasesMove
<1> DEFINE d == Synced(db)
<1>1. /\ db \in Store /\ d.runs = db.runs
      /\ \A u \in Leaf : d.tasks[u] = db.tasks[u] /\ Leased(d.tasks[u], d.runs[u])
  BY LoadedLease
<1> HIDE DEF d
<1>2. db'.runs = next.runs /\ \A u \in Leaf : db'.tasks[u] = next.tasks[u]
  BY <1>1, CommitLease DEF d
<1>3. \A u \in Task \ {t} : /\ next.runs[u] = d.runs[u]
                            /\ next.tasks[u].status = d.tasks[u].status
                            /\ next.tasks[u].assignee = d.tasks[u].assignee
  BY DEF d
<1>4. ASSUME NEW u \in Leaf, u # t
      PROVE  Leased(next.tasks[u], next.runs[u]) /\ RunStep(d.runs[u], next.runs[u])
  <2>1. u \in Task
    BY DEF Leaf
  <2>2. QED BY <1>1, <1>3, <1>4, <2>1, SameRuns
<1>5. t \in Leaf => Leased(next.tasks[t], next.runs[t]) /\ RunStep(d.runs[t], next.runs[t])
  BY DEF d
<1>6. \A u \in Leaf : Leased(db'.tasks[u], db'.runs[u]) /\ RunStep(db.runs[u], db'.runs[u])
  BY <1>1, <1>2, <1>4, <1>5
<1>7. \A u, v \in Leaf : db'.runs[u] = db.runs[u] \/ db'.runs[v] = db.runs[v] \/ u = v
  BY <1>1, <1>2, <1>3 DEF Leaf
<1>8. QED BY <1>6, <1>7 DEF LeasesMove, RunsMove

LEMMA NothingMoves ==
    ASSUME LeaseInv, db'.runs = db.runs, \A t \in Leaf : db'.tasks[t] = db.tasks[t]
    PROVE  LeasesMove
BY DEF LeaseInv, LeasesMove, RunsMove, RunStep

-----------------------------------------------------------------------------
(* The handlers *)

LEMMA CreateTaskLease ==
    ASSUME LeaseInv, NEW t \in Task, NEW row \in NewRow, CreateTask(t, row)
    PROVE  LeasesMove
<1> DEFINE d == Synced(db)
           e == [d EXCEPT !.tasks[t] = row]
<1>1. d \in Store /\ \A u \in Leaf : Leased(d.tasks[u], d.runs[u])
  BY LoadedLease
<1>2. Commit(e, {"tasks"}) /\ d.tasks[t].status = "unborn"
  BY DEF CreateTask
<1> HIDE DEF d
<1>3. row \in TaskRow /\ row.status \in TaskStatus
  OBVIOUS
<1>4. /\ e \in Store /\ e.tasks[t] = row /\ e.runs = d.runs
      /\ \A u \in Task \ {t} : e.tasks[u] = d.tasks[u]
  BY <1>1, <1>3, SetTask
<1> HIDE DEF e
<1>5. t \in Leaf => Leased(e.tasks[t], e.runs[t]) /\ RunStep(d.runs[t], e.runs[t])
  BY <1>1, <1>2, <1>3, <1>4 DEF Leased, NoRow, TaskStatus, RunStep
<1>6. QED BY <1>2, <1>4, <1>5, OneTaskMoves DEF d

LEMMA DeleteTaskLease ==
    ASSUME LeaseInv, NEW t \in Task, DeleteTask(t)
    PROVE  LeasesMove
<1> DEFINE d == Synced(db)
           e == Without(d, t)
<1>1. d \in Store
  BY LoadedLease
<1>2. CommitTask(e, {"tasks", "runs", "reviews", "approvals"})
  BY DEF DeleteTask, Without
<1> HIDE DEF d
<1>3. /\ e \in Store /\ e.runs[t] = <<>>
      /\ \A u \in Task \ {t} : /\ e.runs[u] = d.runs[u]
                               /\ e.tasks[u].status = d.tasks[u].status
                               /\ e.tasks[u].assignee = d.tasks[u].assignee
  BY <1>1, DeleteShape
<1> HIDE DEF e
<1>4. Leased(e.tasks[t], e.runs[t]) /\ RunStep(d.runs[t], e.runs[t])
  BY <1>3 DEF Leased, RunStep
<1>5. QED BY <1>2, <1>3, <1>4, OneTaskMoves DEF d

\* Asking for a review may take the task out of progress, but not its runs.
LEMMA RequestReviewLease ==
    ASSUME LeaseInv, NEW t \in Task, RequestReview(t)
    PROVE  LeasesMove
<1> DEFINE d == Synced(db)
           q == Append(d.reviews[t], [run |-> LatestRun(d, t), status |-> "open"])
           e == [d EXCEPT !.reviews[t] = q]
           f == IF d.tasks[t].status = "done" THEN e ELSE WithStatus(e, t, "review")
<1>1. d \in Store /\ \A u \in Leaf : Leased(d.tasks[u], d.runs[u])
  BY LoadedLease
<1>2. Exists(d, t) /\ CommitTask(f, {"reviews", "tasks"})
  BY DEF RequestReview
<1> HIDE DEF d
<1>3. q \in Seq(Review)
  <2>1. d.reviews[t] \in Seq(Review) /\ LatestRun(d, t) \in Nat
    BY <1>1, StoreParts DEF LatestRun
  <2>2. [run |-> LatestRun(d, t), status |-> "open"] \in Review
    BY <2>1 DEF Review
  <2>3. QED BY <2>1, <2>2, AppendProperties
<1> HIDE DEF q
<1>4. e \in Store /\ e.tasks = d.tasks /\ e.runs = d.runs
  BY <1>1, <1>3 DEF Store
<1> HIDE DEF e
<1>5. /\ f \in Store /\ f.runs = d.runs
      /\ \A u \in Task \ {t} : f.tasks[u] = d.tasks[u]
      /\ f.tasks[t].assignee = d.tasks[t].assignee
      /\ f.tasks[t].status \in {"review", d.tasks[t].status}
  <2> DEFINE g == WithStatus(e, t, "review")
  <2>1. "review" \in TaskStatus
    BY DEF TaskStatus
  <2>2. /\ g \in Store /\ g.runs = e.runs
        /\ g.tasks[t].status = "review" /\ g.tasks[t].assignee = e.tasks[t].assignee
        /\ \A u \in Task \ {t} : g.tasks[u] = e.tasks[u]
    BY <1>4, <2>1, WithStatusShape
  <2> HIDE DEF g
  <2>3. QED BY <1>4, <2>2 DEF g
<1> HIDE DEF f
<1>6. t \in Leaf => Leased(f.tasks[t], f.runs[t]) /\ RunStep(d.runs[t], f.runs[t])
  <2>1. f.tasks[t].status \notin NoRow
    BY <1>2, <1>5 DEF Exists, NoRow, TaskStatus
  <2>2. QED BY <1>1, <1>5, <2>1, SameRuns
<1>7. QED BY <1>2, <1>5, <1>6, OneTaskMoves DEF d

LEMMA RequestApprovalLease ==
    ASSUME LeaseInv, NEW t \in Task, NEW mode \in FormMode, RequestApproval(t, mode)
    PROVE  LeasesMove
<1> DEFINE d == Synced(db)
           q == Append(d.approvals[t], [run |-> LatestRun(d, t), mode |-> mode, status |-> "pending"])
           e == [d EXCEPT !.approvals[t] = q]
<1>1. /\ db \in Store /\ d \in Store /\ d.runs = db.runs
      /\ \A u \in Leaf : d.tasks[u] = db.tasks[u]
  BY LoadedLease
<1>2. CommitTask(e, {"approvals", "tasks"})
  BY DEF RequestApproval
<1> HIDE DEF d
<1>3. q \in Seq(Approval)
  <2>1. d.approvals[t] \in Seq(Approval) /\ LatestRun(d, t) \in Nat /\ mode \in Mode
    BY <1>1, StoreParts DEF LatestRun
  <2>2. [run |-> LatestRun(d, t), mode |-> mode, status |-> "pending"] \in Approval
    BY <2>1 DEF Approval
  <2>3. QED BY <2>1, <2>2, AppendProperties
<1> HIDE DEF q
<1>4. e \in Store /\ e.tasks = d.tasks /\ e.runs = d.runs
  BY <1>1, <1>3 DEF Store
<1> HIDE DEF e
<1>5. db'.runs = db.runs /\ \A u \in Leaf : db'.tasks[u] = e.tasks[u]
  BY <1>1, <1>2, <1>4, CommitLease
<1>6. QED BY <1>1, <1>4, <1>5, NothingMoves

\* Deciding a gate closes the task or blocks it, and ends its latest run, or
\* leaves both alone.
LEMMA DecidedLease ==
    ASSUME LeaseInv, NEW t \in Task, NEW e \in Store,
           e.tasks = Synced(db).tasks, e.runs = Synced(db).runs,
           NEW next, next \in {e, Close(e, t), Block(e, t)},
           NEW saves, {"tasks", "runs"} \subseteq saves, CommitTask(next, saves)
    PROVE  LeasesMove
<1> DEFINE d == Synced(db)
<1>1. \A u \in Leaf : Leased(d.tasks[u], d.runs[u]) /\ d.runs[u] \in Seq(Run) /\ u \in Task
  BY LoadedLease DEF Leaf
<1> HIDE DEF d
<1>2. e.tasks = d.tasks /\ e.runs = d.runs
  BY DEF d
<1>3. CASE next = e
  <2>1. t \in Leaf => Leased(e.tasks[t], e.runs[t]) /\ RunStep(d.runs[t], e.runs[t])
    BY <1>1, <1>2 DEF RunStep
  <2>2. QED BY <1>2, <1>3, <2>1, OneTaskMoves DEF d
<1>4. ASSUME NEW status \in {"done", "blocked"}, NEW st \in {"completed", "blocked"},
             next \in Store, next.tasks[t].status = status,
             \A u \in Task \ {t} : next.tasks[u] = e.tasks[u],
             next.runs = EndLatestRun(e, t, st).runs
      PROVE  LeasesMove
  <2>1. st \in RunStatus /\ status \in TaskStatus
    BY DEF RunStatus, TaskStatus
  <2>2. /\ \A u \in Task \ {t} : next.runs[u] = e.runs[u]
        /\ LatestRun(e, t) = 0 => next.runs[t] = e.runs[t]
        /\ LatestRun(e, t) # 0 => next.runs[t] = EndRun(e.runs[t], st)
    BY <1>4, <2>1, EndLatestRunShape
  <2>3. t \in Leaf => Leased(next.tasks[t], next.runs[t]) /\ RunStep(d.runs[t], next.runs[t])
    <3> SUFFICES ASSUME t \in Leaf
                 PROVE  Leased(next.tasks[t], next.runs[t]) /\ RunStep(d.runs[t], next.runs[t])
      OBVIOUS
    <3>1. CASE LatestRun(e, t) = 0
      <4>1. next.runs[t] = <<>> /\ d.runs[t] = <<>>
        BY <1>1, <1>2, <2>2, <3>1, EmptySeq DEF LatestRun
      <4>2. QED BY <4>1 DEF Leased, RunStep
    <3>2. CASE LatestRun(e, t) # 0
      <4>1. d.runs[t] # <<>> /\ next.runs[t] = EndRun(d.runs[t], st)
        BY <1>2, <2>2, <3>2 DEF LatestRun
      <4>2. st # "running" /\ next.tasks[t].status \in TaskStatus
        BY <1>4, <2>1
      <4>3. QED BY <1>1, <2>1, <4>1, <4>2, EndedRun
    <3>3. QED BY <3>1, <3>2
  <2>4. QED BY <1>2, <1>4, <2>2, <2>3, OneTaskMoves DEF d
<1>5. CASE next = Close(e, t)
  BY <1>4, <1>5, CloseShape
<1>6. CASE next = Block(e, t)
  BY <1>4, <1>6, BlockShape
<1>7. QED BY <1>3, <1>5, <1>6

\* What the four decisions save: a store with a gate decided, and the task
\* closed or blocked, or neither.
LEMMA DecisionCommits ==
    ASSUME LeaseInv, NEW t \in Task,
           ApproveReview(t) \/ RequestChanges(t) \/ ApproveApproval(t) \/ RejectApproval(t)
    PROVE  \E e, next, saves :
              /\ e \in Store
              /\ e.tasks = Synced(db).tasks /\ e.runs = Synced(db).runs
              /\ next \in {e, Close(e, t), Block(e, t)}
              /\ {"tasks", "runs"} \subseteq saves
              /\ CommitTask(next, saves)
<1> DEFINE d == Synced(db)
<1>1. d \in Store /\ Gated(d)
  BY LoadedLease
<1>2. CASE ApproveReview(t) \/ RequestChanges(t)
  <2>1. PICK outcome \in {"approved", "changes_requested"} :
            /\ OpenReviews(d, t) # {}
            /\ \E next :
                  /\ CommitTask(next, {"reviews", "runs", "tasks"})
                  /\ next \in {ResolveReview(d, t, outcome), Close(ResolveReview(d, t, outcome), t),
                               Block(ResolveReview(d, t, outcome), t)}
    <3>1. CASE ApproveReview(t) BY <3>1, Zenon DEF ApproveReview
    <3>2. CASE RequestChanges(t) BY <3>2, Zenon DEF RequestChanges
    <3>3. QED BY <1>2, <3>1, <3>2
  <2> DEFINE e == ResolveReview(d, t, outcome)
  <2>2. PICK next : /\ CommitTask(next, {"reviews", "runs", "tasks"})
                    /\ next \in {e, Close(e, t), Block(e, t)}
    BY <2>1, Zenon
  <2> HIDE DEF d
  <2>3. e \in Store /\ e.tasks = d.tasks /\ e.runs = d.runs
    BY <1>1, <2>1, ResolveReviewGates
  <2> HIDE DEF e
  <2>4. {"tasks", "runs"} \subseteq {"reviews", "runs", "tasks"}
    OBVIOUS
  <2>5. QED BY <2>2, <2>3, <2>4 DEF d
<1>3. CASE ApproveApproval(t) \/ RejectApproval(t)
  <2>1. PICK outcome \in {"approved", "rejected"} :
            /\ PendingApprovals(d, t) # {}
            /\ \E next :
                  /\ CommitTask(next, {"approvals", "runs", "tasks"})
                  /\ next \in {ResolveApproval(d, t, outcome), Close(ResolveApproval(d, t, outcome), t),
                               Block(ResolveApproval(d, t, outcome), t)}
    <3>1. CASE ApproveApproval(t) BY <3>1, Zenon DEF ApproveApproval
    <3>2. CASE RejectApproval(t) BY <3>2, Zenon DEF RejectApproval
    <3>3. QED BY <1>3, <3>1, <3>2
  <2> DEFINE e == ResolveApproval(d, t, outcome)
  <2>2. PICK next : /\ CommitTask(next, {"approvals", "runs", "tasks"})
                    /\ next \in {e, Close(e, t), Block(e, t)}
    BY <2>1, Zenon
  <2> HIDE DEF d
  <2>3. e \in Store /\ e.tasks = d.tasks /\ e.runs = d.runs
    BY <1>1, <2>1, ResolveApprovalGates
  <2> HIDE DEF e
  <2>4. {"tasks", "runs"} \subseteq {"approvals", "runs", "tasks"}
    OBVIOUS
  <2>5. QED BY <2>2, <2>3, <2>4 DEF d
<1>4. QED BY <1>2, <1>3

LEMMA DecisionLease ==
    ASSUME LeaseInv, NEW t \in Task,
           ApproveReview(t) \/ RequestChanges(t) \/ ApproveApproval(t) \/ RejectApproval(t)
    PROVE  LeasesMove
<1>1. PICK e, next, saves :
          /\ e \in Store
          /\ e.tasks = Synced(db).tasks /\ e.runs = Synced(db).runs
          /\ next \in {e, Close(e, t), Block(e, t)}
          /\ {"tasks", "runs"} \subseteq saves
          /\ CommitTask(next, saves)
  BY DecisionCommits, Zenon
<1>2. QED BY <1>1, DecidedLease

\* A claim takes a ready task, which has no active run, or changes nothing.
LEMMA ClaimTaskLease ==
    ASSUME LeaseInv, NEW c \in Worker, ClaimTask(c)
    PROVE  LeasesMove
<1> DEFINE d == Synced(db)
           t == req[c].task
           s == req[c].by
           e == StartRun(d, t, s)
           f == SyncGovernance(e)
           next == IF d.tasks[t].status = "in_progress" THEN d ELSE f
<1>1. d \in Store /\ \A u \in Leaf : Leased(d.tasks[u], d.runs[u]) /\ d.runs[u] \in Seq(Run)
  BY LoadedLease DEF Leaf
<1>2. t \in Task /\ s \in Surface
  <2>1. req[c] \in Request /\ req[c].op = "claim"
    BY DEF ClaimTask, LeaseInv, GateInv, TypeOK, Client
  <2>2. QED BY <2>1 DEF Request, Idle, ClaimRequest, WriteRequest
<1>3. Commit(next, {"tasks", "runs", "reviews", "approvals"})
  BY DEF ClaimTask
<1>4. d.tasks[t].status \in {"ready", "in_progress"}
  BY DEF ClaimTask, MayClaim
<1> HIDE DEF d, t, s
<1>5. /\ e \in Store /\ e.tasks[t].status = "in_progress" /\ e.tasks[t].assignee = s
      /\ \A u \in Task \ {t} : e.tasks[u] = d.tasks[u] /\ e.runs[u] = d.runs[u]
      /\ e.runs[t] = Append(d.runs[t], NewRun(s))
  BY <1>1, <1>2, StartRunShape
<1> HIDE DEF e
<1>6. f \in Store /\ f.tasks = e.tasks /\ f.runs = e.runs
  BY <1>5, SyncGovernanceShape
<1> HIDE DEF f
<1>7. CASE d.tasks[t].status = "in_progress"
  <2>1. next = d
    BY <1>7
  <2> HIDE DEF next
  <2>2. t \in Leaf => Leased(next.tasks[t], next.runs[t]) /\ RunStep(d.runs[t], next.runs[t])
    BY <1>1, <2>1 DEF RunStep
  <2>3. QED BY <1>1, <1>2, <1>3, <2>1, <2>2, OneTaskMoves DEF d
<1>8. CASE d.tasks[t].status = "ready"
  <2>1. next = f
    BY <1>8
  <2> HIDE DEF next
  <2>2. t \in Leaf => Leased(next.tasks[t], next.runs[t]) /\ RunStep(d.runs[t], next.runs[t])
    <3>1. t \in Leaf => Leased(d.tasks[t], d.runs[t]) /\ d.runs[t] \in Seq(Run)
      BY <1>1
    <3>2. /\ next.runs[t] = Append(d.runs[t], NewRun(s))
          /\ next.tasks[t].status = "in_progress" /\ next.tasks[t].assignee = s
      BY <1>5, <1>6, <2>1
    <3> DEFINE row == d.tasks[t]
               q == d.runs[t]
               row2 == next.tasks[t]
    <3>3. row.status = "ready" /\ row2.status = "in_progress" /\ row2.assignee = s
      BY <1>8, <3>2
    <3>4. t \in Leaf => Leased(row, q) /\ q \in Seq(Run)
      BY <3>1
    <3> HIDE DEF row, q, row2
    <3>5. t \in Leaf => Leased(row2, Append(q, NewRun(s))) /\ RunStep(q, Append(q, NewRun(s)))
      BY <1>2, <3>3, <3>4, StartedRun
    <3>6. QED BY <3>2, <3>5 DEF row, q, row2
  <2>3. QED BY <1>2, <1>3, <1>5, <1>6, <2>1, <2>2, OneTaskMoves DEF d
<1>9. QED BY <1>4, <1>7, <1>8

\* The surface a task is assigned to reports a status; a run of another surface
\* is not active and stays as it is.
LEMMA ReportStatusLease ==
    ASSUME LeaseInv, NEW s \in Surface, NEW t \in Task, NEW status \in Report, ReportStatus(s, t, status)
    PROVE  LeasesMove
<1> DEFINE d == Synced(db)
           e == Reported(d, s, t, status)
           f == SyncGovernance(e)
           st == RunStatusOf(status)
<1>1. d \in Store /\ \A u \in Leaf : Leased(d.tasks[u], d.runs[u]) /\ d.runs[u] \in Seq(Run)
  BY LoadedLease DEF Leaf
<1>2. Commit(f, {"tasks", "runs", "reviews", "approvals"})
  BY ReportCommits
<1>3. d.tasks[t].assignee = s
  BY DEF ReportStatus
<1>4. status \in TaskStatus /\ st \in RunStatus
  BY RunStatusOfType
<1>5. st = "running" => status \in {"in_progress", "canceled"}
  BY <1>4 DEF RunStatusOf, TaskStatus
<1> HIDE DEF d, st
<1>6. /\ e \in Store /\ e.tasks[t].status = status /\ e.tasks[t].assignee = s
      /\ \A u \in Task \ {t} : e.tasks[u] = d.tasks[u]
      /\ e.runs = IF LatestRun(d, t) # 0 /\ d.runs[t][LatestRun(d, t)].surface = s
                  THEN EndLatestRun(d, t, st).runs ELSE d.runs
  BY <1>1, <1>3, <1>4, ReportedShape DEF st
<1> HIDE DEF e
<1>7. f \in Store /\ f.tasks = e.tasks /\ f.runs = e.runs
  BY <1>6, SyncGovernanceShape
<1> HIDE DEF f
<1>8. CASE LatestRun(d, t) # 0 /\ d.runs[t][LatestRun(d, t)].surface = s
  <2>1. /\ e.runs[t] = EndRun(d.runs[t], st)
        /\ \A u \in Task \ {t} : e.runs[u] = d.runs[u]
    BY <1>1, <1>4, <1>6, <1>8, EndLatestRunShape
  <2>2. t \in Leaf => Leased(e.tasks[t], e.runs[t]) /\ RunStep(d.runs[t], e.runs[t])
    <3>1. d.runs[t] # <<>> /\ d.runs[t][Len(d.runs[t])].surface = s
      BY <1>8 DEF LatestRun
    <3>2. st = "running" =>
             /\ e.tasks[t].status \in {"in_progress", "review", "canceled"}
             /\ e.tasks[t].assignee \in Surface
             /\ d.runs[t][Len(d.runs[t])].surface = e.tasks[t].assignee
      BY <1>5, <1>6, <3>1
    <3>3. e.tasks[t].status \in TaskStatus
      BY <1>4, <1>6
    <3>4. QED BY <1>1, <1>4, <2>1, <3>1, <3>2, <3>3, EndedRun
  <2>3. QED BY <1>2, <1>6, <1>7, <2>1, <2>2, OneTaskMoves DEF d
<1>9. CASE ~(LatestRun(d, t) # 0 /\ d.runs[t][LatestRun(d, t)].surface = s)
  <2>1. e.runs = d.runs
    BY <1>6, <1>9
  <2>2. t \in Leaf => Leased(e.tasks[t], e.runs[t]) /\ RunStep(d.runs[t], e.runs[t])
    <3> SUFFICES ASSUME t \in Leaf
                 PROVE  Leased(e.tasks[t], e.runs[t]) /\ RunStep(d.runs[t], e.runs[t])
      OBVIOUS
    <3>1. \A i \in DOMAIN d.runs[t] : d.runs[t][i].status # "running"
      BY <1>1, <1>3, <1>9 DEF Leased, LatestRun
    <3>2. e.tasks[t].status \notin NoRow
      BY <1>4, <1>6 DEF NoRow, TaskStatus
    <3>3. QED BY <1>1, <2>1, <3>1, <3>2, SameRuns
  <2>3. QED BY <1>2, <1>6, <1>7, <2>1, <2>2, OneTaskMoves DEF d
<1>10. QED BY <1>8, <1>9

\* Surfaces save no task and no run.
LEMMA SurfaceLease ==
    ASSUME LeaseInv, NEW next, Commit(next, {"surfaces"})
    PROVE  LeasesMove
<1>1. db'.runs = db.runs /\ db'.tasks = db.tasks
  BY DEF Commit
<1>2. QED BY <1>1, NothingMoves

-----------------------------------------------------------------------------
(* Every step *)

LEMMA LeaseStep ==
    ASSUME NoOperators, LeaseInv, [Next]_vars
    PROVE  LeaseInv' /\ RunsMove
<1>gates. GateInv'
  BY GateStep DEF LeaseInv
<1>lease. LeasesMove
  <2>1. CASE UNCHANGED db
    BY <2>1, NothingMoves
  <2>2. CASE \E t \in Task : DeleteTask(t) \/ Govern(t) \/ \E row \in NewRow : CreateTask(t, row)
    BY <2>2, DeleteTaskLease, CreateTaskLease, RequestReviewLease, RequestApprovalLease,
       DecisionLease DEF Govern
  <2>3. CASE \E s \in Surface :
            \/ \E cap \in Capacity : \/ \E n \in RunCap : Register(s, cap, n)
                                     \/ \E st \in Presence : Heartbeat(s, st, cap)
            \/ \E t \in Task, st \in Report : ReportStatus(s, t, st)
    BY <2>3, SurfaceLease, ReportStatusLease DEF Register, Heartbeat
  <2>4. CASE \E c \in Worker : \/ \E s \in Surface, t \in Task : BeginClaim(c, s, t)
                               \/ ClaimTask(c)
                               \/ RefuseClaim(c)
    BY <2>1, <2>4, ClaimTaskLease DEF BeginClaim, RefuseClaim
  <2>5. CASE UNCHANGED vars
    BY <2>1, <2>5 DEF vars
  <2>6. QED BY <2>2, <2>3, <2>4, <2>5 DEF Next, NoOperators
<1>1. QED BY <1>gates, <1>lease DEF LeasesMove, LeaseInv

LEMMA LeaseInit == Init => LeaseInv
<1> SUFFICES ASSUME Init PROVE LeaseInv
  OBVIOUS
<1>1. \A t \in Task : db.runs[t] = <<>>
  BY DEF Init
<1>2. \A t \in Leaf : Leased(db.tasks[t], db.runs[t])
  BY <1>1 DEF Leased, Leaf
<1>3. QED BY <1>2, GateInit DEF LeaseInv

\* Without operators' writes, the leases of the tasks are in order.
THEOREM LeaseInvariant ==
    ASSUME NoOperators
    PROVE  Spec => []LeaseInv
<1>1. LeaseInv /\ [Next]_vars => LeaseInv'
  BY LeaseStep
<1>2. QED BY LeaseInit, <1>1, PTL DEF Spec

\* Surfaces alone never give a task two active runs, however their claims and
\* reports cross with reviews, approvals and deletions.
THEOREM OneActiveRunHolds ==
    ASSUME NoOperators
    PROVE  Spec => []OneActiveRun
<1>1. LeaseInv => OneActiveRun
  BY DEF LeaseInv, Leased, OneActiveRun, AtMostOne, ActiveRuns, Active
<1>2. QED BY LeaseInvariant, <1>1, PTL

\* A task that is not being worked on keeps no active run.
THEOREM RestingTasksHold ==
    ASSUME NoOperators
    PROVE  Spec => []RestingTasksHaveNoActiveRun
<1>1. LeaseInv => RestingTasksHaveNoActiveRun
  BY DEF LeaseInv, Leased, RestingTasksHaveNoActiveRun, ActiveRuns, Active
<1>2. QED BY LeaseInvariant, <1>1, PTL

-----------------------------------------------------------------------------
(* The abstract lease *)

\* Who works on a task with the runs q.
HolderOf(q) ==
    LET A == {i \in DOMAIN q : Active(q[i])}
    IN IF A = {} THEN NoSurface ELSE q[Newest(A)].surface

\* With its lease in order a task is held by the surface of its latest run, if
\* that run is active.
LEMMA HolderIsLatest ==
    ASSUME NEW row, NEW q \in Seq(Run), Leased(row, q)
    PROVE  /\ (\A i \in DOMAIN q : q[i].status # "running") => HolderOf(q) = NoSurface
           /\ (\E i \in DOMAIN q : q[i].status = "running") =>
                 /\ Len(q) \in DOMAIN q /\ q[Len(q)].status = "running"
                 /\ HolderOf(q) = q[Len(q)].surface /\ HolderOf(q) \in Surface
<1> DEFINE A == {i \in DOMAIN q : Active(q[i])}
<1>1. CASE \A i \in DOMAIN q : q[i].status # "running"
  <2>1. A = {}
    BY <1>1 DEF Active
  <2>2. QED BY <1>1, <2>1 DEF HolderOf
<1>2. CASE \E i \in DOMAIN q : q[i].status = "running"
  <2>1. /\ Len(q) \in A /\ Len(q) \in DOMAIN q /\ q[Len(q)].status = "running"
        /\ q[Len(q)].surface \in Surface
    BY <1>2 DEF Active, Leased
  <2>2. \A i \in A : i = Len(q)
    BY DEF Active, Leased
  <2>3. A \in SUBSET Nat
    OBVIOUS
  <2>4. HolderOf(q) = IF A = {} THEN NoSurface ELSE q[Newest(A)].surface
    BY DEF HolderOf
  <2> HIDE DEF A
  <2>5. Newest(A) \in A
    BY <2>1, <2>2, <2>3, NewestOfOne
  <2>6. QED BY <1>2, <2>1, <2>2, <2>4, <2>5
<1>3. QED BY <1>1, <1>2

\* One step of the runs of a task passes it on only through nobody.
LEMMA HolderStep ==
    ASSUME NEW row, NEW q \in Seq(Run), Leased(row, q),
           NEW row2, NEW r \in Seq(Run), Leased(row2, r), RunStep(q, r)
    PROVE  /\ HolderOf(q) \in Surface \union {NoSurface}
           /\ HolderOf(r) \in Surface \union {NoSurface}
           /\ HolderOf(r) = HolderOf(q) \/ HolderOf(r) = NoSurface \/ HolderOf(q) = NoSurface
<1>1. /\ HolderOf(q) \in Surface \union {NoSurface}
      /\ HolderOf(r) \in Surface \union {NoSurface}
  BY HolderIsLatest
<1>2. SUFFICES ASSUME HolderOf(q) # NoSurface, HolderOf(r) # NoSurface
               PROVE  HolderOf(r) = HolderOf(q)
  BY <1>1
<1>3. /\ \E i \in DOMAIN q : q[i].status = "running"
      /\ \E i \in DOMAIN r : r[i].status = "running"
  BY <1>2, HolderIsLatest
<1>4. /\ Len(q) \in DOMAIN q /\ HolderOf(q) = q[Len(q)].surface
      /\ Len(r) \in DOMAIN r /\ HolderOf(r) = r[Len(r)].surface
  BY <1>3, HolderIsLatest
<1>5. r # <<>>
  BY <1>4
<1>6. r = q \/ \E st \in RunStatus : r = EndRun(q, st)
  BY <1>3, <1>5 DEF RunStep
<1>7. CASE r = q
  BY <1>7
<1>8. CASE \E st \in RunStatus : r = EndRun(q, st)
  <2>1. PICK st \in RunStatus : r = EndRun(q, st)
    BY <1>8
  <2> DEFINE x == [q[Len(q)] EXCEPT !.status = st]
  <2>2. q[Len(q)] \in Run /\ x.surface = q[Len(q)].surface
    BY <1>4, StatusSet
  <2>3. r = [q EXCEPT ![Len(q)] = x]
    BY <2>1 DEF EndRun
  <2> HIDE DEF x
  <2>4. Len(r) = Len(q) /\ r[Len(q)] = x
    BY <1>4, <2>3
  <2>5. QED BY <1>4, <2>2, <2>4
<1>9. QED BY <1>6, <1>7, <1>8

LEMMA HolderIs == \A t \in Leaf : Holder[t] = HolderOf(db.runs[t])
BY DEF Holder, HolderOf, ActiveRuns

LEMMA HolderIsNext == \A t \in Leaf : Holder'[t] = HolderOf(db'.runs[t])
BY DEF Holder, HolderOf, ActiveRuns

\* Every step of the task life cycle is a step of the lease, or none.
LEMMA LeaseStepSimulates ==
    ASSUME NoOperators, LeaseInv, [Next]_vars
    PROVE  Lease!Next \/ Holder' = Holder
<1>1. LeaseInv' /\ RunsMove
  BY LeaseStep
<1>2. db \in Store /\ db' \in Store
  BY <1>1 DEF LeaseInv, GateInv, TypeOK
<1>3. ASSUME NEW t \in Leaf
      PROVE  /\ Holder[t] \in Surface \union {NoSurface}
             /\ Holder'[t] \in Surface \union {NoSurface}
             /\ Holder'[t] = Holder[t] \/ Holder'[t] = NoSurface \/ Holder[t] = NoSurface
  <2>1. t \in Task /\ db.runs[t] \in Seq(Run) /\ db'.runs[t] \in Seq(Run)
    BY <1>2, StoreParts DEF Leaf
  <2>2. /\ Leased(db.tasks[t], db.runs[t]) /\ Leased(db'.tasks[t], db'.runs[t])
        /\ RunStep(db.runs[t], db'.runs[t])
    BY <1>1 DEF LeaseInv, RunsMove
  <2>3. Holder[t] = HolderOf(db.runs[t]) /\ Holder'[t] = HolderOf(db'.runs[t])
    BY HolderIs, HolderIsNext
  <2>4. QED BY <2>1, <2>2, <2>3, HolderStep
<1>4. \A t, u \in Leaf : Holder'[t] = Holder[t] \/ Holder'[u] = Holder[u] \/ t = u
  BY <1>1, HolderIs, HolderIsNext DEF RunsMove
<1>5. DOMAIN Holder = Leaf /\ DOMAIN Holder' = Leaf
      /\ Holder = [t \in Leaf |-> Holder[t]] /\ Holder' = [t \in Leaf |-> Holder'[t]]
  BY DEF Holder
<1>6. CASE \A t \in Leaf : Holder'[t] = Holder[t]
  BY <1>5, <1>6
<1>7. CASE \E t \in Leaf : Holder'[t] # Holder[t]
  <2>1. PICK t \in Leaf : Holder'[t] # Holder[t]
    BY <1>7
  <2>2. \A u \in Leaf \ {t} : Holder'[u] = Holder[u]
    BY <1>4, <2>1
  <2>3. Holder' = [Holder EXCEPT ![t] = Holder'[t]]
    BY <1>5, <2>1, <2>2
  <2>4. CASE Holder'[t] = NoSurface
    <3>1. Lease!Release(t)
      BY <2>1, <2>3, <2>4 DEF Lease!Release
    <3>2. QED BY <2>1, <3>1 DEF Lease!Next
  <2>5. CASE Holder'[t] # NoSurface
    <3>1. Holder[t] = NoSurface /\ Holder'[t] \in Surface
      BY <1>3, <2>1, <2>5
    <3>2. Lease!Acquire(t, Holder'[t])
      BY <2>3, <3>1 DEF Lease!Acquire
    <3>3. QED BY <2>1, <3>1, <3>2 DEF Lease!Next
  <2>6. QED BY <2>4, <2>5
<1>8. QED BY <1>6, <1>7

\* Claims, reports, decisions and deletions implement the lease: no task passes
\* from one surface to another while the first still works on it.
THEOREM TasksAreLeased ==
    ASSUME NoOperators
    PROVE  Spec => ImplementsWorkLease
<1>1. Init => Lease!Init
  <2> SUFFICES ASSUME Init PROVE Lease!Init
    OBVIOUS
  <2>1. \A t \in Leaf : t \in Task /\ ActiveRuns(db, t) = {}
    BY DEF Init, Leaf, ActiveRuns
  <2>2. Holder = [t \in Leaf |-> NoSurface]
    BY <2>1 DEF Holder
  <2>3. QED BY <2>2 DEF Lease!Init
<1>2. LeaseInv /\ [Next]_vars => [Lease!Next]_Holder
  BY LeaseStepSimulates
<1>3. QED BY LeaseInvariant, <1>1, <1>2, PTL DEF Spec, ImplementsWorkLease, Lease!Spec
-----------------------------------------------------------------------------
(* Only a claim starts a run *)

GrowsNot == \A t \in Task : Len(db'.runs[t]) <= Len(db.runs[t])

LEMMA LengthsAreNumbers ==
    ASSUME NEW d \in Store, NEW t \in Task
    PROVE  Len(d.runs[t]) \in Nat
<1>1. d.runs[t] \in Seq(Run)
  BY StoreParts
<1>2. QED BY <1>1

LEMMA SameRunsGrowNot ==
    ASSUME db \in Store, db'.runs = db.runs
    PROVE  GrowsNot
BY LengthsAreNumbers DEF GrowsNot

LEMMA CommittedRuns ==
    ASSUME db \in Store, NEW next \in Store, NEW saves, "runs" \in saves,
           Commit(next, saves) \/ CommitTask(next, saves)
    PROVE  db'.runs = next.runs
<1>1. CASE Commit(next, saves)
  BY <1>1, CommitShape
<1>2. CASE CommitTask(next, saves)
  BY <1>2, CommitTaskIsCommit, SyncParentsShape, CommitShape
<1>3. QED BY <1>1, <1>2

LEMMA EndedRunsGrowNot ==
    ASSUME NEW d \in Store, NEW t \in Task, NEW st \in RunStatus, NEW u \in Task
    PROVE  Len(EndLatestRun(d, t, st).runs[u]) = Len(d.runs[u])
<1> DEFINE e == EndLatestRun(d, t, st)
<1>1. d.runs[t] \in Seq(Run)
  BY StoreParts
<1>2. /\ \A v \in Task \ {t} : e.runs[v] = d.runs[v]
      /\ LatestRun(d, t) = 0 => e.runs[t] = d.runs[t]
      /\ LatestRun(d, t) # 0 => e.runs[t] = EndRun(d.runs[t], st)
  BY EndLatestRunShape
<1> HIDE DEF e
<1>3. Len(EndRun(d.runs[t], st)) = Len(d.runs[t])
  BY <1>1 DEF EndRun
<1>4. QED BY <1>2, <1>3 DEF e

LEMMA DecisionGrowsNot ==
    ASSUME LeaseInv, NEW t \in Task,
           ApproveReview(t) \/ RequestChanges(t) \/ ApproveApproval(t) \/ RejectApproval(t)
    PROVE  GrowsNot
<1>1. PICK e, next, saves :
          /\ e \in Store
          /\ e.tasks = Synced(db).tasks /\ e.runs = Synced(db).runs
          /\ next \in {e, Close(e, t), Block(e, t)}
          /\ {"tasks", "runs"} \subseteq saves
          /\ CommitTask(next, saves)
  BY DecisionCommits, Zenon
<1>2. db \in Store /\ e.runs = db.runs
  BY <1>1, LoadedLease
<1>3. next \in Store /\ \A u \in Task : Len(next.runs[u]) = Len(e.runs[u])
  <2>1. CASE next = e
    BY <1>1, <2>1
  <2>2. CASE next = Close(e, t)
    <3>1. next \in Store /\ next.runs = EndLatestRun(e, t, "completed").runs
      BY <1>1, <2>2, CloseShape
    <3>2. "completed" \in RunStatus
      BY DEF RunStatus
    <3>3. QED BY <1>1, <3>1, <3>2, EndedRunsGrowNot
  <2>3. CASE next = Block(e, t)
    <3>1. next \in Store /\ next.runs = EndLatestRun(e, t, "blocked").runs
      BY <1>1, <2>3, BlockShape
    <3>2. "blocked" \in RunStatus
      BY DEF RunStatus
    <3>3. QED BY <1>1, <3>1, <3>2, EndedRunsGrowNot
  <2>4. QED BY <1>1, <2>1, <2>2, <2>3
<1>4. db'.runs = next.runs
  BY <1>1, <1>2, <1>3, CommittedRuns
<1>5. QED BY <1>2, <1>3, <1>4, LengthsAreNumbers DEF GrowsNot

LEMMA DeletionGrowsNot ==
    ASSUME LeaseInv, NEW t \in Task, DeleteTask(t)
    PROVE  GrowsNot
<1> DEFINE d == Synced(db)
           e == Without(d, t)
<1>1. db \in Store /\ d \in Store /\ d.runs = db.runs
  BY LoadedLease
<1>2. CommitTask(e, {"tasks", "runs", "reviews", "approvals"})
  BY DEF DeleteTask, Without
<1> HIDE DEF d
<1>3. e \in Store /\ e.runs[t] = <<>> /\ \A u \in Task \ {t} : e.runs[u] = d.runs[u]
  BY <1>1, DeleteShape
<1> HIDE DEF e
<1>4. db'.runs = e.runs
  BY <1>1, <1>2, <1>3, CommittedRuns
<1>5. \A u \in Task : Len(db.runs[u]) \in Nat
  BY <1>1, LengthsAreNumbers
<1>6. Len(e.runs[t]) = 0
  BY <1>3
<1>7. QED BY <1>1, <1>3, <1>4, <1>5, <1>6 DEF GrowsNot

LEMMA ReportGrowsNot ==
    ASSUME LeaseInv, NEW s \in Surface, NEW t \in Task, NEW status \in Report, ReportStatus(s, t, status)
    PROVE  GrowsNot
<1> DEFINE d == Synced(db)
           e == Reported(d, s, t, status)
           f == SyncGovernance(e)
<1>1. db \in Store /\ d \in Store /\ d.runs = db.runs
  BY LoadedLease
<1>2. Commit(f, {"tasks", "runs", "reviews", "approvals"})
  BY ReportCommits
<1>3. status \in TaskStatus /\ RunStatusOf(status) \in RunStatus
  BY RunStatusOfType
<1> HIDE DEF d
<1>4. /\ e \in Store
      /\ e.runs = d.runs \/ e.runs = EndLatestRun(d, t, RunStatusOf(status)).runs
  BY <1>1, <1>3, ReportedShape
<1> HIDE DEF e
<1>5. f \in Store /\ f.runs = e.runs
  BY <1>4, SyncGovernanceShape
<1> HIDE DEF f
<1>6. db'.runs = e.runs
  BY <1>1, <1>2, <1>5, CommittedRuns
<1>7. \A u \in Task : Len(e.runs[u]) = Len(d.runs[u])
  BY <1>1, <1>3, <1>4, EndedRunsGrowNot
<1>8. QED BY <1>1, <1>6, <1>7, LengthsAreNumbers DEF GrowsNot

\* A run is started by a claim, or no sequence of runs grows.
LEMMA OnlyClaimsStart ==
    ASSUME NoOperators, LeaseInv, [Next]_vars
    PROVE  GrowsNot \/ \E c \in Worker : ClaimTask(c)
<1>0. db \in Store
  BY LoadedLease
<1>1. CASE db'.runs = db.runs
  BY <1>0, <1>1, SameRunsGrowNot
<1>2. CASE \E t \in Task : DeleteTask(t) \/ Govern(t) \/ \E row \in NewRow : CreateTask(t, row)
  <2>1. ASSUME NEW t \in Task, RequestReview(t)
        PROVE  db'.runs = db.runs
    BY <2>1 DEF RequestReview, CommitTask, Commit
  <2>2. ASSUME NEW t \in Task, NEW mode \in FormMode, RequestApproval(t, mode)
        PROVE  db'.runs = db.runs
    BY <2>2 DEF RequestApproval, CommitTask, Commit
  <2>3. ASSUME NEW t \in Task, NEW row \in NewRow, CreateTask(t, row)
        PROVE  db'.runs = db.runs
    BY <2>3 DEF CreateTask, Commit
  <2>4. QED BY <1>1, <1>2, <2>1, <2>2, <2>3, DeletionGrowsNot, DecisionGrowsNot DEF Govern
<1>3. CASE \E s \in Surface :
          \/ \E cap \in Capacity : \/ \E n \in RunCap : Register(s, cap, n)
                                   \/ \E st \in Presence : Heartbeat(s, st, cap)
          \/ \E t \in Task, st \in Report : ReportStatus(s, t, st)
  <2>1. ASSUME NEW s \in Surface, NEW cap \in Capacity, NEW n \in RunCap, Register(s, cap, n)
        PROVE  db'.runs = db.runs
    BY <2>1 DEF Register, Commit
  <2>2. ASSUME NEW s \in Surface, NEW cap \in Capacity, NEW st \in Presence, Heartbeat(s, st, cap)
        PROVE  db'.runs = db.runs
    BY <2>2 DEF Heartbeat, Commit
  <2>3. QED BY <1>1, <1>3, <2>1, <2>2, ReportGrowsNot
<1>4. CASE \E c \in Worker : \/ \E s \in Surface, t \in Task : BeginClaim(c, s, t)
                             \/ ClaimTask(c)
                             \/ RefuseClaim(c)
  BY <1>1, <1>4 DEF BeginClaim, RefuseClaim
<1>5. CASE UNCHANGED vars
  BY <1>1, <1>5 DEF vars
<1>6. QED BY <1>2, <1>3, <1>4, <1>5 DEF Next, NoOperators

-----------------------------------------------------------------------------
(* The limits of a surface *)

\* The runs of finitely many tasks are finitely many.
LEMMA RunsAreFinite ==
    ASSUME IsFiniteSet(Task), NEW d \in Store, NEW s
    PROVE  IsFiniteSet(RunsOn(d, s))
<1> DEFINE Of(t) == {t} \X ActiveRuns(d, t)
           f == [t \in Task |-> Of(t)]
           S == {Of(t) : t \in Task}
<1>1. f \in Surjection(Task, S)
  BY DEF Surjection
<1>2. IsFiniteSet(S)
  BY <1>1, FS_Surjection
<1>3. ASSUME NEW t \in Task
      PROVE  IsFiniteSet(Of(t))
  <2>1. d.runs[t] \in Seq(Run)
    BY StoreParts
  <2>2. ActiveRuns(d, t) \in SUBSET (1 .. Len(d.runs[t])) /\ Len(d.runs[t]) \in Nat
    BY <2>1 DEF ActiveRuns
  <2>3. IsFiniteSet(1 .. Len(d.runs[t]))
    BY <2>2, FS_Interval
  <2>4. IsFiniteSet(ActiveRuns(d, t))
    BY <2>2, <2>3, FS_Subset
  <2>5. IsFiniteSet({t})
    BY FS_Singleton
  <2>6. QED BY <2>4, <2>5, FS_Product
<1>4. \A T \in S : IsFiniteSet(T)
  BY <1>3
<1>5. IsFiniteSet(UNION S)
  BY <1>2, <1>4, FS_UNION
<1>6. RunsOn(d, s) \in SUBSET UNION S
  BY DEF RunsOn
<1>7. QED BY <1>5, <1>6, FS_Subset

LEMMA AssignedAreFinite ==
    ASSUME IsFiniteSet(Task), NEW d, NEW s
    PROVE  IsFiniteSet(AssignedOpen(d, s))
<1>1. AssignedOpen(d, s) \in SUBSET Task
  BY DEF AssignedOpen
<1>2. QED BY <1>1, FS_Subset

\* A set that has grown by one element at most.
LEMMA OneMore ==
    ASSUME NEW S, IsFiniteSet(S), NEW x, NEW T, T \subseteq S \union {x}
    PROVE  /\ Cardinality(S) \in Nat /\ Cardinality(T) \in Nat
           /\ Cardinality(T) <= Cardinality(S) + 1
           /\ x \in S => Cardinality(T) <= Cardinality(S)
<1>1. /\ IsFiniteSet(S \union {x})
      /\ Cardinality(S \union {x}) = IF x \in S THEN Cardinality(S) ELSE Cardinality(S) + 1
  BY FS_AddElement
<1>2. IsFiniteSet(T) /\ Cardinality(T) <= Cardinality(S \union {x})
  BY <1>1, FS_Subset
<1>3. Cardinality(S) \in Nat /\ Cardinality(T) \in Nat
  BY <1>2, FS_CardinalityType
<1>4. QED BY <1>1, <1>2, <1>3

LEMMA ParentsKeepAssignee ==
    ASSUME NEW d \in Store, NEW t \in Task
    PROVE  Synced(d).tasks[t].assignee = d.tasks[t].assignee
<1>1. SyncParents(d).tasks[t].assignee = d.tasks[t].assignee
  <2>1. d.tasks[t] \in TaskRow /\ d \in Store
    BY StoreParts
  <2> DEFINE st == ParentStatus({d.tasks[c].status : c \in LiveChildren(d, t)})
  <2>2. SyncParents(d).tasks[t] = IF Exists(d, t) /\ LiveChildren(d, t) # {}
                                  THEN [d.tasks[t] EXCEPT !.status = st] ELSE d.tasks[t]
    BY <2>1 DEF SyncParents, Store
  <2> HIDE DEF st
  <2>3. [d.tasks[t] EXCEPT !.status = st].assignee = d.tasks[t].assignee
    BY <2>1 DEF TaskRow
  <2>4. QED BY <2>2, <2>3
<1>2. QED BY <1>1, SyncedShape

\* In flat families a parent that was done when the store was loaded is done
\* when it is saved with one of the ready leaves put in progress.
LEMMA DoneParentsStay ==
    ASSUME FlatFamilies, NEW x \in Store, NEW t \in Task, x.tasks[t].status = "ready",
           NEW f \in Store, f.tasks[t].status = "in_progress",
           \A u \in Task \ {t} : f.tasks[u] = Synced(x).tasks[u],
           NEW u \in Task, u # t, Synced(x).tasks[u].status = "done"
    PROVE  Synced(f).tasks[u].status = "done"
<1> DEFINE d == Synced(x)
<1>1. /\ d \in Store /\ \A v \in Task : Exists(d, v) = Exists(x, v)
      /\ \A v \in Task : LiveChildren(x, v) = {} => d.tasks[v] = x.tasks[v]
      /\ d.tasks = SyncParents(x).tasks
  BY SyncedShape
<1> HIDE DEF d
<1>2. \A v \in Task : Exists(f, v) = Exists(x, v)
  BY <1>1 DEF Exists, TaskStatus, d
<1>3. LiveChildren(f, u) = LiveChildren(x, u)
  BY <1>2 DEF LiveChildren
<1>4. CASE LiveChildren(x, u) = {}
  BY <1>3, <1>4, SyncedShape DEF d
<1>5. CASE LiveChildren(x, u) # {}
  <2> DEFINE kids  == {x.tasks[c].status : c \in LiveChildren(x, u)}
             kids2 == {f.tasks[c].status : c \in LiveChildren(f, u)}
  <2>1. Exists(x, u) /\ Exists(f, u)
    BY <1>1, <1>2 DEF Exists, TaskStatus, d
  <2>2. ParentStatus(kids) = "done"
    BY <1>1, <1>5, <2>1, SyncParentsShape DEF d
  <2>3. kids \subseteq {"done", "canceled"}
    <3> HIDE DEF kids
    <3>1. QED BY <2>2 DEF ParentStatus
  <2>4. \A c \in LiveChildren(x, u) : c \in Task /\ c # t /\ f.tasks[c] = x.tasks[c]
    <3> TAKE c \in LiveChildren(x, u)
    <3>1. c \in Task /\ LiveChildren(x, c) = {}
      BY DEF LiveChildren, FlatFamilies
    <3>2. c # t
      BY <2>3
    <3>3. d.tasks[c] = x.tasks[c]
      BY <1>1, <3>1
    <3>4. QED BY <3>1, <3>2, <3>3 DEF d
  <2>5. kids2 = kids
    BY <1>3, <2>4
  <2>6. Synced(f).tasks[u].status = ParentStatus(kids2)
    <3>1. Synced(f).tasks = SyncParents(f).tasks
      BY SyncedShape
    <3>2. QED BY <1>3, <1>5, <2>1, <3>1, SyncParentsShape
  <2> HIDE DEF kids, kids2
  <2>7. QED BY <2>2, <2>5, <2>6
<1>6. QED BY <1>4, <1>5

\* What a claim that starts a run was checked against.
Within(d, s, row) == /\ Cardinality(RunsOn(d, s)) <= ConcurrencyLimit(row)
                     /\ Cardinality(AssignedOpen(d, s)) <= AssignmentLimit(row)

LEMMA ClaimKeepsLimits ==
    ASSUME FlatFamilies, IsFiniteSet(Task), LeaseInv, NEW c \in Worker, ClaimTask(c),
           NEW t \in Leaf, Len(db'.runs[t]) > Len(db.runs[t])
    PROVE  /\ t = req[c].task
           /\ db'.runs[t][Len(db'.runs[t])].surface = req[c].by
           /\ Within(db', req[c].by, req[c].seen)
<1> DEFINE d == Synced(db)
           r == req[c]
           s == r.by
           k == r.task
           e == StartRun(d, k, s)
           f == SyncGovernance(e)
           next == IF d.tasks[k].status = "in_progress" THEN d ELSE f
           saves == {"tasks", "runs", "reviews", "approvals"}
<1>1. /\ db \in Store /\ d \in Store /\ d.runs = db.runs /\ t \in Task
      /\ \A u \in Leaf : d.tasks[u] = db.tasks[u] /\ Leased(d.tasks[u], d.runs[u])
      /\ \A u \in Task : d.runs[u] \in Seq(Run) /\ Len(d.runs[u]) \in Nat
  BY LoadedLease DEF Leaf
<1>2. k \in Task /\ s \in Surface /\ r.seen \in SurfaceRow
  <2>1. req[c] \in Request /\ req[c].op = "claim"
    BY DEF ClaimTask, LeaseInv, GateInv, TypeOK, Client
  <2>2. QED BY <2>1 DEF Request, Idle, ClaimRequest, WriteRequest
<1>3. Commit(next, saves) /\ MayClaim(d, r)
  BY DEF ClaimTask
<1> HIDE DEF d, r, s, k
<1>4. /\ e \in Store /\ e.tasks[k].status = "in_progress" /\ e.tasks[k].assignee = s
      /\ \A u \in Task \ {k} : e.tasks[u] = d.tasks[u] /\ e.runs[u] = d.runs[u]
      /\ e.runs[k] = Append(d.runs[k], NewRun(s))
  <2>1. d \in Store /\ k \in Task /\ s \in Surface
    BY <1>1, <1>2
  <2>2. QED BY <2>1, StartRunShape
<1> HIDE DEF e
<1>5. f \in Store /\ f.tasks = e.tasks /\ f.runs = e.runs
  BY <1>4, SyncGovernanceShape
<1> HIDE DEF f
<1>6. d.tasks[k].status # "in_progress"
  <2> SUFFICES ASSUME d.tasks[k].status = "in_progress" PROVE FALSE
    OBVIOUS
  <2>1. Commit(d, saves) /\ d \in Store
    BY <1>1, <1>3
  <2>2. db'.runs = d.runs
    BY <1>1, <2>1, CommittedRuns
  <2>3. QED BY <1>1, <2>2
<1>7. Commit(f, saves) /\ d.tasks[k].status = "ready"
  BY <1>3, <1>6 DEF MayClaim, k
<1>8. db'.runs = f.runs /\ db'.tasks = Synced(f).tasks
  BY <1>1, <1>5, <1>7, CommitShape
<1>9. t = k
  <2> SUFFICES ASSUME t # k PROVE FALSE
    OBVIOUS
  <2>1. db'.runs[t] = db.runs[t]
    BY <1>1, <1>4, <1>5, <1>8
  <2>2. QED BY <1>1, <2>1
<1> HIDE DEF next
<1> DEFINE q == d.runs[t]
           n == Len(q)
           x == NewRun(s)
<1>10. x \in Run /\ x.surface = s
  BY <1>2 DEF NewRun, Run, RunStatus
<1> HIDE DEF x
<1>11. /\ db'.runs[t] = Append(q, x) /\ q \in Seq(Run) /\ n \in Nat
       /\ \A u \in Task \ {t} : db'.runs[u] = d.runs[u]
  BY <1>1, <1>4, <1>5, <1>8, <1>9 DEF x
<1>12. /\ Len(db'.runs[t]) = n + 1 /\ DOMAIN db'.runs[t] = 1 .. n + 1
       /\ db'.runs[t][n + 1] = x
       /\ \A i \in 1 .. n : db'.runs[t][i] = q[i]
       /\ DOMAIN q = 1 .. n
  BY <1>10, <1>11, AppendProperties
<1>13. ActiveRuns(d, t) = {}
  BY <1>1, <1>7, <1>9 DEF ActiveRuns, Active, Leased
<1>14. Cardinality(RunsOn(db', s)) <= ConcurrencyLimit(r.seen)
  <2>1. RunsOn(db', s) \subseteq RunsOn(d, s) \union {<<t, n + 1>>}
    <3> SUFFICES ASSUME NEW u \in Task, NEW i \in DOMAIN db'.runs[u], Active(db'.runs[u][i]),
                        db'.runs[u][i].surface = s, u # t \/ i # n + 1
                 PROVE  <<u, i>> \in RunsOn(d, s)
      BY DEF RunsOn, ActiveRuns
    <3>1. i \in DOMAIN d.runs[u] /\ d.runs[u][i] = db'.runs[u][i]
      <4>1. CASE u = t
        <5>1. i \in 1 .. n + 1 /\ i # n + 1
          BY <1>12, <4>1
        <5>2. i \in 1 .. n
          BY <1>11, <5>1
        <5>3. QED BY <1>12, <4>1, <5>2
      <4>2. CASE u # t
        BY <1>11, <4>2
      <4>3. QED BY <4>1, <4>2
    <3>2. QED BY <3>1 DEF RunsOn, ActiveRuns
  <2>2. Cardinality(RunsOn(d, s)) + 1 <= ConcurrencyLimit(r.seen)
    <3>1. WithinConcurrency(d, s, r.seen, t)
      BY <1>3, <1>9 DEF MayClaim, Eligible, s, k
    <3>2. QED BY <1>7, <1>9, <1>13, <3>1 DEF WithinConcurrency
  <2>3. IsFiniteSet(RunsOn(d, s))
    BY <1>1, RunsAreFinite
  <2>4. /\ Cardinality(RunsOn(d, s)) \in Nat /\ Cardinality(RunsOn(db', s)) \in Nat
        /\ Cardinality(RunsOn(db', s)) <= Cardinality(RunsOn(d, s)) + 1
    BY <2>1, <2>3, OneMore
  <2>5. ConcurrencyLimit(r.seen) \in Nat
    BY <1>2 DEF ConcurrencyLimit, AssignmentLimit, SurfaceRow
  <2>6. QED BY <2>2, <2>4, <2>5
<1>15. Cardinality(AssignedOpen(db', s)) <= AssignmentLimit(r.seen)
  <2>1. AssignedOpen(db', s) \subseteq AssignedOpen(d, s) \union {t}
    <3> SUFFICES ASSUME NEW u \in Task, Exists(db', u), db'.tasks[u].assignee = s,
                        db'.tasks[u].status # "done", u # t
                 PROVE  u \in AssignedOpen(d, s)
      BY DEF AssignedOpen
    <3>1. f.tasks[u] = d.tasks[u]
      BY <1>4, <1>5, <1>9
    <3>2. d.tasks[u].assignee = s
      BY <1>5, <1>8, <3>1, ParentsKeepAssignee
    <3>3. Exists(d, u)
      BY <1>5, <1>8, <3>1, SyncedShape DEF Exists
    <3>4. d.tasks[u].status # "done"
      <4>1. db.tasks[t].status = "ready" /\ f.tasks[t].status = "in_progress"
        BY <1>1, <1>4, <1>5, <1>7, <1>9
      <4>2. \A v \in Task \ {t} : f.tasks[v] = Synced(db).tasks[v]
        BY <1>4, <1>5, <1>9 DEF d
      <4>3. QED BY <1>1, <1>5, <1>8, <4>1, <4>2, DoneParentsStay DEF d
    <3>5. QED BY <3>2, <3>3, <3>4 DEF AssignedOpen
  <2>2. WithinAssignment(d, s, r.seen, t)
    BY <1>3, <1>9 DEF MayClaim, Eligible, s, k
  <2>3. IsFiniteSet(AssignedOpen(d, s))
    BY AssignedAreFinite
  <2>4. /\ Cardinality(AssignedOpen(d, s)) \in Nat /\ Cardinality(AssignedOpen(db', s)) \in Nat
        /\ Cardinality(AssignedOpen(db', s)) <= Cardinality(AssignedOpen(d, s)) + 1
        /\ t \in AssignedOpen(d, s) => Cardinality(AssignedOpen(db', s)) <= Cardinality(AssignedOpen(d, s))
    BY <2>1, <2>3, OneMore
  <2>5. AssignmentLimit(r.seen) \in Nat
    BY <1>2 DEF AssignmentLimit, SurfaceRow
  <2>6. d.tasks[t].status # "done"
    BY <1>7, <1>9
  <2>7. QED BY <2>2, <2>4, <2>5, <2>6 DEF WithinAssignment
<1>16. db'.runs[t][Len(db'.runs[t])].surface = s
  BY <1>10, <1>12
<1>17. QED BY <1>9, <1>14, <1>15, <1>16 DEF Within, r, s, k

\* Registered surfaces keep what they registered with, and announce capacities
\* from Capacity; a claim holds the row of such a surface, as it was.
SeenFits ==
    /\ \A s \in Surface : db.surfaces[s].status # "absent" => db.surfaces[s].capacity \in Capacity
    /\ \A c \in Worker : req[c].op = "claim" =>
          /\ req[c].by \in Surface /\ db.surfaces[req[c].by].status # "absent"
          /\ req[c].seen.capacity \in Capacity
          /\ req[c].seen.maxRuns = db.surfaces[req[c].by].maxRuns

LEMMA SurfaceSaved ==
    ASSUME db \in Store, NEW s \in Surface, NEW row \in SurfaceRow,
           Commit([Synced(db) EXCEPT !.surfaces[s] = row], {"surfaces"})
    PROVE  db'.surfaces = [db.surfaces EXCEPT ![s] = row]
<1> DEFINE d == Synced(db)
           e == [d EXCEPT !.surfaces[s] = row]
<1>1. d \in Store /\ d.surfaces = db.surfaces
  BY SyncedShape
<1> HIDE DEF d
<1>2. e \in Store /\ e.surfaces = [d.surfaces EXCEPT ![s] = row]
  BY <1>1 DEF Store
<1>3. Commit(e, {"surfaces"})
  BY DEF d
<1> HIDE DEF e
<1>4. QED BY <1>1, <1>2, <1>3, CommitShape

LEMMA SeenStep ==
    ASSUME NoOperators, LeaseInv, SeenFits, [Next]_vars
    PROVE  SeenFits'
<1>0. /\ db \in Store /\ db.surfaces \in [Surface -> SurfaceRow]
      /\ Synced(db) \in Store /\ Synced(db).surfaces = db.surfaces
      /\ req \in [Client -> Request] /\ Worker \subseteq Client
  BY LoadedLease, StoreParts, SyncedShape DEF LeaseInv, GateInv, TypeOK, Client
<1>1. CASE db'.surfaces = db.surfaces /\ req' = req
  BY <1>1 DEF SeenFits
<1>2. ASSUME NEW s \in Surface, NEW row \in SurfaceRow, row.status # "absent",
             row.capacity \in Capacity,
             db.surfaces[s].status # "absent" => row.maxRuns = db.surfaces[s].maxRuns,
             db'.surfaces = [db.surfaces EXCEPT ![s] = row], req' = req
      PROVE  SeenFits'
  <2>1. db'.surfaces[s] = row /\ \A u \in Surface : u # s => db'.surfaces[u] = db.surfaces[u]
    BY <1>0, <1>2
  <2>2. QED BY <1>2, <2>1 DEF SeenFits
<1>3. CASE \E t \in Task : DeleteTask(t) \/ Govern(t) \/ \E row \in NewRow : CreateTask(t, row)
  <2>1. req' = req
    BY <1>3 DEF DeleteTask, Govern, CreateTask, RequestReview, ApproveReview, RequestChanges,
       RequestApproval, ApproveApproval, RejectApproval
  <2>2. ASSUME NEW t \in Task, DeleteTask(t)
        PROVE  db'.surfaces = db.surfaces
    BY <2>2 DEF DeleteTask, CommitTask, Commit
  <2>3. ASSUME NEW t \in Task, RequestReview(t) \/ ApproveReview(t) \/ RequestChanges(t)
        PROVE  db'.surfaces = db.surfaces
    BY <2>3 DEF RequestReview, ApproveReview, RequestChanges, CommitTask, Commit
  <2>4. ASSUME NEW t \in Task, ApproveApproval(t) \/ RejectApproval(t)
        PROVE  db'.surfaces = db.surfaces
    BY <2>4 DEF ApproveApproval, RejectApproval, CommitTask, Commit
  <2>5. ASSUME NEW t \in Task, NEW mode \in FormMode, RequestApproval(t, mode)
        PROVE  db'.surfaces = db.surfaces
    BY <2>5 DEF RequestApproval, CommitTask, Commit
  <2>6. ASSUME NEW t \in Task, NEW row \in NewRow, CreateTask(t, row)
        PROVE  db'.surfaces = db.surfaces
    BY <2>6 DEF CreateTask, Commit
  <2>7. QED BY <1>1, <1>3, <2>1, <2>2, <2>3, <2>4, <2>5, <2>6 DEF Govern
<1>4. ASSUME NEW s \in Surface, NEW cap \in Capacity, NEW n \in RunCap, Register(s, cap, n)
      PROVE  SeenFits'
  <2> DEFINE row == [status |-> "idle", capacity |-> cap, maxRuns |-> n]
  <2>1. row \in SurfaceRow /\ row.status # "absent" /\ row.capacity = cap
    BY DEF SurfaceRow
  <2>2. /\ Commit([Synced(db) EXCEPT !.surfaces[s] = row], {"surfaces"})
        /\ req' = req /\ db.surfaces[s].status = "absent"
    BY <1>0, <1>4 DEF Register
  <2> HIDE DEF row
  <2>3. db'.surfaces = [db.surfaces EXCEPT ![s] = row]
    BY <1>0, <2>1, <2>2, SurfaceSaved
  <2>4. QED BY <1>2, <2>1, <2>2, <2>3
<1>5. ASSUME NEW s \in Surface, NEW cap \in Capacity, NEW st \in Presence, Heartbeat(s, st, cap)
      PROVE  SeenFits'
  <2> DEFINE row == [db.surfaces[s] EXCEPT !.status = st, !.capacity = cap]
  <2>1. db.surfaces[s] \in SurfaceRow /\ st \in {"idle", "busy", "offline"} /\ cap \in Nat
    BY <1>0
  <2>2. /\ row \in SurfaceRow /\ row.status = st /\ row.capacity = cap
        /\ row.maxRuns = db.surfaces[s].maxRuns
    BY <2>1 DEF SurfaceRow
  <2>3. /\ Commit([Synced(db) EXCEPT !.surfaces[s].status = st, !.surfaces[s].capacity = cap],
                  {"surfaces"})
        /\ req' = req
    BY <1>5 DEF Heartbeat
  <2>4. [Synced(db) EXCEPT !.surfaces[s].status = st, !.surfaces[s].capacity = cap]
        = [Synced(db) EXCEPT !.surfaces[s] = row]
    BY <1>0 DEF Store
  <2>5. Commit([Synced(db) EXCEPT !.surfaces[s] = row], {"surfaces"})
    BY <2>3, <2>4
  <2> HIDE DEF row
  <2>6. db'.surfaces = [db.surfaces EXCEPT ![s] = row]
    BY <1>0, <2>2, <2>5, SurfaceSaved
  <2>7. row.status # "absent"
    BY <2>1, <2>2
  <2>8. QED BY <1>2, <2>2, <2>3, <2>6, <2>7
<1>6. ASSUME NEW s \in Surface, NEW t \in Task, NEW st \in Report, ReportStatus(s, t, st)
      PROVE  SeenFits'
  <2>1. db'.surfaces = db.surfaces /\ req' = req
    BY <1>6 DEF ReportStatus, Commit
  <2>2. QED BY <1>1, <2>1
<1>7. ASSUME NEW c \in Worker, NEW s \in Surface, NEW t \in Task, BeginClaim(c, s, t)
      PROVE  SeenFits'
  <2>1. /\ db' = db /\ db.surfaces[s].status # "absent"
        /\ req'[c] = [op |-> "claim", task |-> t, by |-> s, seen |-> db.surfaces[s]]
        /\ \A w \in Worker : w # c => req'[w] = req[w]
    BY <1>0, <1>7 DEF BeginClaim
  <2>2. /\ req'[c].by = s /\ req'[c].seen = db.surfaces[s]
    BY <2>1
  <2>3. QED BY <2>1, <2>2 DEF SeenFits
<1>8. ASSUME NEW c \in Worker, ClaimTask(c) \/ RefuseClaim(c)
      PROVE  SeenFits'
  <2>1. req' = [req EXCEPT ![c] = Idle]
    BY <1>8 DEF ClaimTask, RefuseClaim
  <2>2. db'.surfaces = db.surfaces
    <3>1. CASE ClaimTask(c)
      BY <3>1 DEF ClaimTask, Commit
    <3>2. CASE RefuseClaim(c)
      BY <3>2 DEF RefuseClaim
    <3>3. QED BY <1>8, <3>1, <3>2
  <2>3. req'[c].op = "idle" /\ \A w \in Worker : w # c => req'[w] = req[w]
    BY <1>0, <2>1 DEF Idle
  <2>4. QED BY <2>2, <2>3 DEF SeenFits
<1>9. CASE UNCHANGED vars
  BY <1>1, <1>9 DEF vars
<1>10. QED BY <1>3, <1>4, <1>5, <1>6, <1>7, <1>8, <1>9 DEF Next, NoOperators

LEMMA SeenInvariant ==
    ASSUME NoOperators
    PROVE  Spec => [](LeaseInv /\ SeenFits)
<1>1. Init => LeaseInv /\ SeenFits
  <2> SUFFICES ASSUME Init PROVE SeenFits
    BY LeaseInit
  <2>1. \A s \in Surface : db.surfaces[s].status = "absent"
    BY DEF Init, NoTraffic
  <2>2. \A c \in Worker : req[c].op = "idle"
    BY DEF Init, Client, Idle
  <2>3. QED BY <2>1, <2>2 DEF SeenFits
<1>2. (LeaseInv /\ SeenFits) /\ [Next]_vars => (LeaseInv /\ SeenFits)'
  BY LeaseStep, SeenStep
<1>3. QED BY <1>1, <1>2, PTL DEF Spec

\* A run starts only by a claim, and with it the surface is within the limits
\* that the claim has read, however late it is and whatever else happened.
ClaimsKeepTheLimitsTheyRead ==
    [][\A t \in Leaf : Len(db'.runs[t]) > Len(db.runs[t]) =>
          \E c \in Worker :
             /\ req[c].op = "claim" /\ req[c].task = t
             /\ db'.runs[t][Len(db'.runs[t])].surface = req[c].by
             /\ Within(db', req[c].by, req[c].seen)]_vars

LEMMA StartedByClaim ==
    ASSUME NoOperators, FlatFamilies, IsFiniteSet(Task), LeaseInv, [Next]_vars,
           NEW t \in Leaf, Len(db'.runs[t]) > Len(db.runs[t])
    PROVE  \E c \in Worker :
              /\ req[c].op = "claim" /\ req[c].task = t
              /\ db'.runs[t][Len(db'.runs[t])].surface = req[c].by
              /\ Within(db', req[c].by, req[c].seen)
<1>1. db \in Store /\ db' \in Store /\ t \in Task
  BY LeaseStep, LoadedLease DEF LeaseInv, GateInv, TypeOK, Leaf
<1>2. Len(db.runs[t]) \in Nat /\ Len(db'.runs[t]) \in Nat
  BY <1>1, LengthsAreNumbers
<1>3. ~GrowsNot
  BY <1>1, <1>2 DEF GrowsNot
<1>4. PICK c \in Worker : ClaimTask(c)
  BY <1>3, OnlyClaimsStart
<1>5. req[c].op = "claim"
  BY <1>4 DEF ClaimTask
<1>6. QED BY <1>4, <1>5, ClaimKeepsLimits

THEOREM LimitsReadAreKept ==
    ASSUME NoOperators, FlatFamilies, IsFiniteSet(Task)
    PROVE  Spec => ClaimsKeepTheLimitsTheyRead
<1>1. LeaseInv /\ [Next]_vars =>
         \A t \in Leaf : Len(db'.runs[t]) > Len(db.runs[t]) =>
            \E c \in Worker :
               /\ req[c].op = "claim" /\ req[c].task = t
               /\ db'.runs[t][Len(db'.runs[t])].surface = req[c].by
               /\ Within(db', req[c].by, req[c].seen)
  BY StartedByClaim
<1>2. QED BY <1>1, LeaseInvariant, PTL DEF Spec, ClaimsKeepTheLimitsTheyRead

\* A surface always announces the same capacity.
OneCapacity == \A m, n \in Capacity : m = n

\* The limits read are those the surface still has, unless its capacity changes:
\* then no claim exceeds them, however many overlap.
THEOREM ClaimsStayWithinLimitsHolds ==
    ASSUME NoOperators, FlatFamilies, IsFiniteSet(Task), OneCapacity
    PROVE  Spec => ClaimsStayWithinLimits
<1>1. ASSUME LeaseInv, SeenFits, [Next]_vars, NEW s \in Surface, NEW t \in Leaf,
             Len(db'.runs[t]) > Len(db.runs[t]),
             db'.runs[t][Len(db'.runs[t])].surface = s
      PROVE  Within(db', s, db.surfaces[s])
  <2>1. PICK c \in Worker :
            /\ req[c].op = "claim" /\ req[c].by = s
            /\ Within(db', s, req[c].seen)
    BY <1>1, StartedByClaim
  <2>2. /\ req[c].seen.capacity = db.surfaces[s].capacity
        /\ req[c].seen.maxRuns = db.surfaces[s].maxRuns
    BY <1>1, <2>1 DEF SeenFits, OneCapacity
  <2>3. QED BY <2>1, <2>2 DEF Within, ConcurrencyLimit, AssignmentLimit
<1>2. (LeaseInv /\ SeenFits) /\ [Next]_vars =>
         \A s \in Surface :
            (\E t \in Leaf : Len(db'.runs[t]) > Len(db.runs[t]) /\ db'.runs[t][Len(db'.runs[t])].surface = s)
            => /\ Cardinality(RunsOn(db', s)) <= ConcurrencyLimit(db.surfaces[s])
               /\ Cardinality(AssignedOpen(db', s)) <= AssignmentLimit(db.surfaces[s])
  BY <1>1 DEF Within
<1>3. QED BY <1>2, SeenInvariant, PTL DEF Spec, ClaimsStayWithinLimits

=============================================================================
