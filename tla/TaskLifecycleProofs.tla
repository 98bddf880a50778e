------------------------- MODULE TaskLifecycleProofs -------------------------
(***************************************************************************)
(* Proofs about the life of a task, for any tasks, surfaces, clients and   *)
(* bounds.  Every handler is an update of a synchronised store followed by *)
(* Commit, so the argument goes operator by operator: what SyncParents,    *)
(* SyncGovernance and Commit preserve, then what each handler does to the  *)
(* store it commits.                                                       *)
(***************************************************************************)
EXTENDS TaskLifecycle, SequenceTheorems, TLAPS

USE RecordsAssumption, LifecycleAssumption

-----------------------------------------------------------------------------
(* Stores keep their shape *)

LEMMA StoreParts ==
    ASSUME NEW d \in Store
    PROVE  /\ d.tasks \in [Task -> TaskRow]
           /\ d.runs \in [Task -> Seq(Run)]
           /\ d.reviews \in [Task -> Seq(Review)]
           /\ d.approvals \in [Task -> Seq(Approval)]
           /\ d.surfaces \in [Surface -> SurfaceRow]
BY DEF Store

\* A parent takes a task status.
LEMMA ParentStatusType ==
    ASSUME NEW kids
    PROVE  ParentStatus(kids) \in TaskStatus
BY DEF ParentStatus, TaskStatus

\* SyncParents changes nothing but the status of parents.
LEMMA SyncParentsShape ==
    ASSUME NEW d \in Store
    PROVE  /\ SyncParents(d) \in Store
           /\ SyncParents(d).runs = d.runs
           /\ SyncParents(d).reviews = d.reviews
           /\ SyncParents(d).approvals = d.approvals
           /\ SyncParents(d).surfaces = d.surfaces
           /\ \A t \in Task : Exists(SyncParents(d), t) = Exists(d, t)
           /\ \A t \in Task : LiveChildren(d, t) = {} => SyncParents(d).tasks[t] = d.tasks[t]
           /\ \A t \in Task : Exists(d, t) /\ LiveChildren(d, t) # {} =>
                 SyncParents(d).tasks[t].status =
                    ParentStatus({d.tasks[c].status : c \in LiveChildren(d, t)})
<1> DEFINE row(t) == IF Exists(d, t) /\ LiveChildren(d, t) # {}
                     THEN [d.tasks[t] EXCEPT !.status =
                              ParentStatus({d.tasks[c].status : c \in LiveChildren(d, t)})]
                     ELSE d.tasks[t]
<1>1. ASSUME NEW t \in Task
      PROVE  /\ row(t) \in TaskRow
             /\ (row(t).status \in TaskStatus) = (d.tasks[t].status \in TaskStatus)
             /\ Exists(d, t) /\ LiveChildren(d, t) # {} =>
                   row(t).status = ParentStatus({d.tasks[c].status : c \in LiveChildren(d, t)})
  <2>1. d.tasks[t] \in TaskRow
    BY StoreParts
  <2>2. CASE Exists(d, t) /\ LiveChildren(d, t) # {}
    <3> DEFINE st == ParentStatus({d.tasks[c].status : c \in LiveChildren(d, t)})
    <3>1. st \in TaskStatus
      BY ParentStatusType
    <3> HIDE DEF st
    <3>2. row(t) = [d.tasks[t] EXCEPT !.status = st]
      BY <2>2 DEF st
    <3>3. row(t) \in TaskRow /\ row(t).status = st
      BY <2>1, <3>1, <3>2 DEF TaskRow
    <3>4. QED BY <2>2, <3>1, <3>3 DEF Exists, st
  <2>3. QED BY <2>1, <2>2
<1>2. SyncParents(d) = [d EXCEPT !.tasks = [t \in Task |-> row(t)]]
  BY DEF SyncParents
<1>3. [t \in Task |-> row(t)] \in [Task -> TaskRow]
  BY <1>1
<1>4. SyncParents(d).tasks = [t \in Task |-> row(t)]
  BY <1>2 DEF Store
<1>5. /\ SyncParents(d).runs = d.runs
      /\ SyncParents(d).reviews = d.reviews
      /\ SyncParents(d).approvals = d.approvals
      /\ SyncParents(d).surfaces = d.surfaces
  BY <1>2 DEF Store
<1>6. SyncParents(d) \in Store
  <2> HIDE DEF row
  <2>1. QED BY <1>2, <1>3 DEF Store
<1>7. \A t \in Task : Exists(SyncParents(d), t) = Exists(d, t)
  BY <1>1, <1>4 DEF Exists
<1>8. \A t \in Task : LiveChildren(d, t) = {} => SyncParents(d).tasks[t] = d.tasks[t]
  BY <1>4
<1>9. \A t \in Task : Exists(d, t) /\ LiveChildren(d, t) # {} =>
         SyncParents(d).tasks[t].status =
            ParentStatus({d.tasks[c].status : c \in LiveChildren(d, t)})
  <2> HIDE DEF row
  <2>1. QED BY <1>1, <1>4
<1>10. QED BY <1>5, <1>6, <1>7, <1>8, <1>9

\* SyncGovernance appends at most one review and one approval to each task.
LEMMA SyncGovernanceShape ==
    ASSUME NEW d \in Store
    PROVE  /\ SyncGovernance(d) \in Store
           /\ SyncGovernance(d).tasks = d.tasks
           /\ SyncGovernance(d).runs = d.runs
           /\ SyncGovernance(d).surfaces = d.surfaces
           /\ \A t \in Task : SyncGovernance(d).reviews[t] =
                 IF ReviewDue(d, t)
                 THEN Append(d.reviews[t], [run |-> LatestRun(d, t), status |-> "open"])
                 ELSE d.reviews[t]
           /\ \A t \in Task : SyncGovernance(d).approvals[t] =
                 IF ApprovalDue(d, t)
                 THEN Append(d.approvals[t], [run |-> LatestRun(d, t),
                                              mode |-> d.tasks[t].mode, status |-> "pending"])
                 ELSE d.approvals[t]
<1> DEFINE rev(t) == IF ReviewDue(d, t)
                     THEN Append(d.reviews[t], [run |-> LatestRun(d, t), status |-> "open"])
                     ELSE d.reviews[t]
           app(t) == IF ApprovalDue(d, t)
                     THEN Append(d.approvals[t], [run |-> LatestRun(d, t),
                                                  mode |-> d.tasks[t].mode, status |-> "pending"])
                     ELSE d.approvals[t]
<1>1. ASSUME NEW t \in Task PROVE rev(t) \in Seq(Review)
  <2>1. d.reviews[t] \in Seq(Review) /\ LatestRun(d, t) \in Nat
    BY StoreParts DEF LatestRun
  <2>2. [run |-> LatestRun(d, t), status |-> "open"] \in Review
    BY <2>1 DEF Review
  <2>3. QED BY <2>1, <2>2, AppendProperties
<1>2. ASSUME NEW t \in Task PROVE app(t) \in Seq(Approval)
  <2>1. d.approvals[t] \in Seq(Approval) /\ LatestRun(d, t) \in Nat /\ d.tasks[t].mode \in Mode
    BY StoreParts DEF LatestRun, TaskRow
  <2>2. [run |-> LatestRun(d, t), mode |-> d.tasks[t].mode, status |-> "pending"] \in Approval
    BY <2>1 DEF Approval
  <2>3. QED BY <2>1, <2>2, AppendProperties
<1>3. SyncGovernance(d) = [d EXCEPT !.reviews = [t \in Task |-> rev(t)],
                                    !.approvals = [t \in Task |-> app(t)]]
  BY DEF SyncGovernance
<1>4. /\ [t \in Task |-> rev(t)] \in [Task -> Seq(Review)]
      /\ [t \in Task |-> app(t)] \in [Task -> Seq(Approval)]
  BY <1>1, <1>2
<1>5. /\ SyncGovernance(d).reviews = [t \in Task |-> rev(t)]
      /\ SyncGovernance(d).approvals = [t \in Task |-> app(t)]
  <2> HIDE DEF rev, app
  <2>1. QED BY <1>3 DEF Store
<1>6. /\ SyncGovernance(d).tasks = d.tasks
      /\ SyncGovernance(d).runs = d.runs
      /\ SyncGovernance(d).surfaces = d.surfaces
      /\ SyncGovernance(d) \in Store
  <2> HIDE DEF rev, app
  <2>1. QED BY <1>3, <1>4 DEF Store
<1>7. QED BY <1>5, <1>6

\* What a load returns.
LEMMA SyncedShape ==
    ASSUME NEW d \in Store
    PROVE  /\ Synced(d) \in Store
           /\ Synced(d).tasks = SyncParents(d).tasks
           /\ Synced(d).runs = d.runs
           /\ Synced(d).surfaces = d.surfaces
           /\ \A t \in Task : Exists(Synced(d), t) = Exists(d, t)
           /\ \A t \in Task : LiveChildren(d, t) = {} => Synced(d).tasks[t] = d.tasks[t]
<1>1. SyncParents(d) \in Store
  BY SyncParentsShape
<1>2. /\ Synced(d) \in Store
      /\ Synced(d).tasks = SyncParents(d).tasks
      /\ Synced(d).runs = SyncParents(d).runs
      /\ Synced(d).surfaces = SyncParents(d).surfaces
  BY <1>1, SyncGovernanceShape DEF Synced
<1>3. QED BY <1>2, SyncParentsShape DEF Exists

\* Each collection of the database is afterwards what it was or what the
\* synchronised update made of it.
LEMMA CommitShape ==
    ASSUME db \in Store, NEW next \in Store, NEW saves, Commit(next, saves)
    PROVE  /\ db' \in Store
           /\ db'.tasks = IF "tasks" \in saves THEN Synced(next).tasks ELSE db.tasks
           /\ db'.runs = IF "runs" \in saves THEN next.runs ELSE db.runs
           /\ db'.reviews = IF "reviews" \in saves THEN Synced(next).reviews ELSE db.reviews
           /\ db'.approvals = IF "approvals" \in saves THEN Synced(next).approvals ELSE db.approvals
           /\ db'.surfaces = IF "surfaces" \in saves THEN next.surfaces ELSE db.surfaces
<1>1. /\ Synced(next) \in Store
      /\ Synced(next).runs = next.runs
      /\ Synced(next).surfaces = next.surfaces
  BY SyncedShape
<1> HIDE DEF Synced
<1>2. QED BY <1>1 DEF Commit, Store

\* The same for an update that brings the parents up to date first.
LEMMA CommitTaskIsCommit ==
    ASSUME db \in Store, NEW next \in Store, NEW saves, CommitTask(next, saves)
    PROVE  Commit(SyncParents(next), saves) /\ SyncParents(next) \in Store
BY SyncParentsShape DEF CommitTask

-----------------------------------------------------------------------------
(* The updates the handlers are made of *)

LEMMA SetTask ==
    ASSUME NEW d \in Store, NEW t \in Task, NEW row \in TaskRow
    PROVE  /\ [d EXCEPT !.tasks[t] = row] \in Store
           /\ [d EXCEPT !.tasks[t] = row].tasks[t] = row
           /\ \A u \in Task \ {t} : [d EXCEPT !.tasks[t] = row].tasks[u] = d.tasks[u]
           /\ [d EXCEPT !.tasks[t] = row].runs = d.runs
           /\ [d EXCEPT !.tasks[t] = row].reviews = d.reviews
           /\ [d EXCEPT !.tasks[t] = row].approvals = d.approvals
           /\ [d EXCEPT !.tasks[t] = row].surfaces = d.surfaces
<1> DEFINE e == [d EXCEPT !.tasks[t] = row]
<1>1. /\ e \in Store /\ e.tasks = [d.tasks EXCEPT ![t] = row]
      /\ e.runs = d.runs /\ e.reviews = d.reviews
      /\ e.approvals = d.approvals /\ e.surfaces = d.surfaces
  BY DEF Store
<1>2. d.tasks \in [Task -> TaskRow]
  BY StoreParts
<1> HIDE DEF e
<1>3. e.tasks[t] = row /\ \A u \in Task \ {t} : e.tasks[u] = d.tasks[u]
  BY <1>1, <1>2
<1>4. QED BY <1>1, <1>3 DEF e

\* A record with another status is a record.
LEMMA StatusSet ==
    /\ \A r \in TaskRow, st \in TaskStatus :
          /\ [r EXCEPT !.status = st] \in TaskRow
          /\ [r EXCEPT !.status = st].status = st
          /\ [r EXCEPT !.status = st].assignee = r.assignee
    /\ \A r \in Run, st \in RunStatus :
          /\ [r EXCEPT !.status = st] \in Run
          /\ [r EXCEPT !.status = st].status = st
          /\ [r EXCEPT !.status = st].surface = r.surface
BY DEF TaskRow, Run

\* WithStatus changes the status of t and nothing else.
LEMMA WithStatusShape ==
    ASSUME NEW d \in Store, NEW t \in Task, NEW st \in TaskStatus
    PROVE  /\ WithStatus(d, t, st) \in Store
           /\ WithStatus(d, t, st).tasks[t].status = st
           /\ WithStatus(d, t, st).tasks[t].assignee = d.tasks[t].assignee
           /\ \A u \in Task \ {t} : WithStatus(d, t, st).tasks[u] = d.tasks[u]
           /\ WithStatus(d, t, st).runs = d.runs
           /\ WithStatus(d, t, st).reviews = d.reviews
           /\ WithStatus(d, t, st).approvals = d.approvals
           /\ WithStatus(d, t, st).surfaces = d.surfaces
<1> DEFINE row == [d.tasks[t] EXCEPT !.status = st]
           e == [d EXCEPT !.tasks[t] = row]
<1>1. row \in TaskRow /\ row.status = st /\ row.assignee = d.tasks[t].assignee
  <2>1. d.tasks[t] \in TaskRow
    BY StoreParts
  <2>2. QED BY <2>1, StatusSet
<1>2. WithStatus(d, t, st) = e
  BY DEF WithStatus, Store
<1> HIDE DEF row
<1>3. /\ e \in Store /\ e.tasks[t] = row /\ \A u \in Task \ {t} : e.tasks[u] = d.tasks[u]
      /\ e.runs = d.runs /\ e.reviews = d.reviews
      /\ e.approvals = d.approvals /\ e.surfaces = d.surfaces
  BY <1>1, SetTask
<1> HIDE DEF e
<1>4. QED BY <1>1, <1>2, <1>3

\* The runs q with the latest in the given status.
EndRun(q, st) == [q EXCEPT ![Len(q)] = [q[Len(q)] EXCEPT !.status = st]]

\* EndLatestRun changes the latest run of t and nothing else.
LEMMA EndLatestRunShape ==
    ASSUME NEW d \in Store, NEW t \in Task, NEW st \in RunStatus
    PROVE  /\ EndLatestRun(d, t, st) \in Store
           /\ EndLatestRun(d, t, st).tasks = d.tasks
           /\ EndLatestRun(d, t, st).reviews = d.reviews
           /\ EndLatestRun(d, t, st).approvals = d.approvals
           /\ EndLatestRun(d, t, st).surfaces = d.surfaces
           /\ \A u \in Task \ {t} : EndLatestRun(d, t, st).runs[u] = d.runs[u]
           /\ LatestRun(d, t) = 0 => EndLatestRun(d, t, st).runs[t] = d.runs[t]
           /\ LatestRun(d, t) # 0 => EndLatestRun(d, t, st).runs[t] = EndRun(d.runs[t], st)
<1> DEFINE q == EndRun(d.runs[t], st)
           e == EndLatestRun(d, t, st)
<1>1. CASE LatestRun(d, t) = 0
  <2>1. e = d
    BY <1>1 DEF EndLatestRun
  <2> HIDE DEF e
  <2>2. QED BY <1>1, <2>1 DEF e
<1>2. CASE LatestRun(d, t) # 0
  <2>1. d.runs[t] \in Seq(Run) /\ Len(d.runs[t]) \in 1 .. Len(d.runs[t])
    BY <1>2, StoreParts DEF LatestRun
  <2>2. q \in Seq(Run)
    <3> DEFINE x == [d.runs[t][Len(d.runs[t])] EXCEPT !.status = st]
    <3>1. d.runs[t][Len(d.runs[t])] \in Run
      BY <2>1
    <3>2. x \in Run
      BY <3>1, StatusSet
    <3>3. q = [d.runs[t] EXCEPT ![Len(d.runs[t])] = x]
      BY DEF EndRun
    <3> HIDE DEF x, q
    <3>4. QED BY <2>1, <3>2, <3>3
  <2>3. e = [d EXCEPT !.runs = [d.runs EXCEPT ![t] = q]]
    BY <1>2, <2>1 DEF EndLatestRun, EndRun, LatestRun, Store
  <2> HIDE DEF q, e
  <2>4. d.runs \in [Task -> Seq(Run)] /\ [d.runs EXCEPT ![t] = q] \in [Task -> Seq(Run)]
    BY <2>2, StoreParts
  <2>5. e \in Store /\ e.runs = [d.runs EXCEPT ![t] = q] /\ e.tasks = d.tasks
        /\ e.reviews = d.reviews /\ e.approvals = d.approvals /\ e.surfaces = d.surfaces
    BY <2>3, <2>4 DEF Store
  <2>6. e.runs[t] = q /\ \A u \in Task \ {t} : e.runs[u] = d.runs[u]
    BY <2>4, <2>5
  <2>7. QED BY <1>2, <2>5, <2>6 DEF q, e
<1>3. QED BY <1>1, <1>2, Zenon

NewRun(s) == [surface |-> s, status |-> "running"]

\* StartRun puts t in progress on s, with a new run, and changes nothing else.
LEMMA StartRunShape ==
    ASSUME NEW d \in Store, NEW t \in Task, NEW s \in Surface
    PROVE  /\ StartRun(d, t, s) \in Store
           /\ StartRun(d, t, s).tasks[t].status = "in_progress"
           /\ StartRun(d, t, s).tasks[t].assignee = s
           /\ \A u \in Task \ {t} : StartRun(d, t, s).tasks[u] = d.tasks[u]
           /\ StartRun(d, t, s).runs[t] = Append(d.runs[t], NewRun(s))
           /\ \A u \in Task \ {t} : StartRun(d, t, s).runs[u] = d.runs[u]
           /\ StartRun(d, t, s).reviews = d.reviews
           /\ StartRun(d, t, s).approvals = d.approvals
           /\ StartRun(d, t, s).surfaces = d.surfaces
<1> DEFINE row == [d.tasks[t] EXCEPT !.assignee = s, !.status = "in_progress"]
           q == Append(d.runs[t], NewRun(s))
           e == StartRun(d, t, s)
<1>1. row \in TaskRow /\ row.status = "in_progress" /\ row.assignee = s
  <2>1. d.tasks[t] \in TaskRow
    BY StoreParts
  <2>2. QED BY <2>1 DEF TaskRow, TaskStatus
<1>2. q \in Seq(Run)
  <2>1. d.runs[t] \in Seq(Run) /\ NewRun(s) \in Run
    BY StoreParts DEF NewRun, Run, RunStatus
  <2>2. QED BY <2>1, AppendProperties
<1>3. e = [d EXCEPT !.runs = [d.runs EXCEPT ![t] = q], !.tasks = [d.tasks EXCEPT ![t] = row]]
  <2>1. d.tasks[t] \in TaskRow
    BY StoreParts
  <2>2. QED BY <2>1 DEF StartRun, NewRun, TaskRow, Store
<1> HIDE DEF row, q, e
<1>4. /\ d.runs \in [Task -> Seq(Run)] /\ [d.runs EXCEPT ![t] = q] \in [Task -> Seq(Run)]
      /\ d.tasks \in [Task -> TaskRow] /\ [d.tasks EXCEPT ![t] = row] \in [Task -> TaskRow]
  BY <1>1, <1>2, StoreParts
<1>5. /\ e \in Store
      /\ e.runs = [d.runs EXCEPT ![t] = q] /\ e.tasks = [d.tasks EXCEPT ![t] = row]
      /\ e.reviews = d.reviews /\ e.approvals = d.approvals /\ e.surfaces = d.surfaces
  BY <1>3, <1>4 DEF Store
<1>6. /\ e.runs[t] = q /\ \A u \in Task \ {t} : e.runs[u] = d.runs[u]
      /\ e.tasks[t] = row /\ \A u \in Task \ {t} : e.tasks[u] = d.tasks[u]
  BY <1>4, <1>5
<1>7. QED BY <1>1, <1>5, <1>6 DEF e, q

-----------------------------------------------------------------------------
(* Gates *)

\* The queue q has at most one entry with status live.
OneLive(q, live) == \A i, j \in DOMAIN q : q[i].status = live /\ q[j].status = live => i = j

\* Every entry of q with another status is an entry of r.
Kept(q, r, live) == \A i \in DOMAIN q : q[i].status # live => i \in DOMAIN r /\ r[i] = q[i]

LEMMA AppendGate ==
    ASSUME NEW S, NEW q \in Seq(S), NEW live, NEW x \in S,
           \A i \in DOMAIN q : q[i].status # live
    PROVE  /\ Append(q, x) \in Seq(S)
           /\ OneLive(Append(q, x), live)
           /\ Kept(q, Append(q, x), live)
<1>1. /\ Append(q, x) \in Seq(S) /\ Len(Append(q, x)) = Len(q) + 1
      /\ \A i \in 1 .. Len(q) : Append(q, x)[i] = q[i]
      /\ DOMAIN q = 1 .. Len(q) /\ DOMAIN Append(q, x) = 1 .. Len(q) + 1
      /\ Len(q) \in Nat
  BY AppendProperties
<1>2. \A i \in DOMAIN Append(q, x) : Append(q, x)[i].status = live => i = Len(q) + 1
  BY <1>1
<1>3. QED BY <1>1, <1>2 DEF OneLive, Kept

LEMMA DecideGate ==
    ASSUME NEW S, NEW q \in Seq(S), NEW live, OneLive(q, live),
           NEW n \in DOMAIN q, q[n].status = live, NEW x \in S, x.status # live
    PROVE  /\ [q EXCEPT ![n] = x] \in Seq(S)
           /\ OneLive([q EXCEPT ![n] = x], live)
           /\ Kept(q, [q EXCEPT ![n] = x], live)
<1>1. /\ [q EXCEPT ![n] = x] \in Seq(S) /\ DOMAIN [q EXCEPT ![n] = x] = DOMAIN q
      /\ [q EXCEPT ![n] = x][n] = x
      /\ \A i \in DOMAIN q : i # n => [q EXCEPT ![n] = x][i] = q[i]
  OBVIOUS
<1>2. QED BY <1>1 DEF OneLive, Kept

LEMMA KeptTransitive ==
    ASSUME NEW p, NEW q, NEW r, NEW live, Kept(p, q, live), Kept(q, r, live)
    PROVE  Kept(p, r, live)
BY DEF Kept

\* The store d queues every gate once.
Gated(d) == \A t \in Task : OneLive(d.reviews[t], "open") /\ OneLive(d.approvals[t], "pending")

\* The decisions on t in d stand in e.
Stands(d, e, t) == Kept(d.reviews[t], e.reviews[t], "open")
                   /\ Kept(d.approvals[t], e.approvals[t], "pending")

LEMMA GatedIsOneOpenGate == Gated(db) <=> OneOpenGate
BY DEF Gated, OneOpenGate, OneLive, AtMostOne, OpenReviews, PendingApprovals

LEMMA StandsTransitive ==
    ASSUME NEW c, NEW d, NEW e, NEW t, Stands(c, d, t), Stands(d, e, t)
    PROVE  Stands(c, e, t)
BY KeptTransitive DEF Stands

\* With at most one element the newest is that element.
LEMMA NewestOfOne ==
    ASSUME NEW S \in SUBSET Nat, S # {}, \A i, j \in S : i = j
    PROVE  Newest(S) \in S
<1>1. PICK i \in S : TRUE
  OBVIOUS
<1>2. \A j \in S : j <= i
  <2>1. i <= i
    OBVIOUS
  <2>2. QED BY <2>1
<1>3. QED BY <1>2 DEF Newest

LEMMA SyncGovernanceGates ==
    ASSUME NEW d \in Store, Gated(d)
    PROVE  Gated(SyncGovernance(d)) /\ \A t \in Task : Stands(d, SyncGovernance(d), t)
<1> SUFFICES ASSUME NEW t \in Task
             PROVE  /\ OneLive(SyncGovernance(d).reviews[t], "open")
                    /\ OneLive(SyncGovernance(d).approvals[t], "pending")
                    /\ Stands(d, SyncGovernance(d), t)
  BY DEF Gated
<1>1. /\ OneLive(SyncGovernance(d).reviews[t], "open")
      /\ Kept(d.reviews[t], SyncGovernance(d).reviews[t], "open")
  <2> DEFINE x == [run |-> LatestRun(d, t), status |-> "open"]
  <2>1. CASE ReviewDue(d, t)
    <3>1. \A i \in DOMAIN d.reviews[t] : d.reviews[t][i].status # "open"
      BY <2>1 DEF ReviewDue, OpenReviews
    <3>2. d.reviews[t] \in Seq(Review) /\ x \in Review
      BY StoreParts DEF LatestRun, Review
    <3>3. SyncGovernance(d).reviews[t] = Append(d.reviews[t], x)
      BY <2>1, SyncGovernanceShape
    <3> HIDE DEF x
    <3>4. QED BY <3>1, <3>2, <3>3, AppendGate
  <2>2. CASE ~ReviewDue(d, t)
    BY <2>2, SyncGovernanceShape DEF Gated, Kept
  <2>3. QED BY <2>1, <2>2
<1>2. /\ OneLive(SyncGovernance(d).approvals[t], "pending")
      /\ Kept(d.approvals[t], SyncGovernance(d).approvals[t], "pending")
  <2> DEFINE x == [run |-> LatestRun(d, t), mode |-> d.tasks[t].mode, status |-> "pending"]
  <2>1. CASE ApprovalDue(d, t)
    <3>1. \A i \in DOMAIN d.approvals[t] : d.approvals[t][i].status # "pending"
      BY <2>1 DEF ApprovalDue, PendingApprovals
    <3>2. d.approvals[t] \in Seq(Approval) /\ x \in Approval
      <4>1. /\ d.tasks[t] \in TaskRow /\ d.approvals[t] \in Seq(Approval)
            /\ LatestRun(d, t) \in Nat
        BY StoreParts DEF LatestRun
      <4>2. d.tasks[t].mode \in Mode
        BY <4>1 DEF TaskRow
      <4>3. QED BY <4>1, <4>2 DEF Approval
    <3>3. SyncGovernance(d).approvals[t] = Append(d.approvals[t], x)
      BY <2>1, SyncGovernanceShape
    <3> HIDE DEF x
    <3>4. QED BY <3>1, <3>2, <3>3, AppendGate
  <2>2. CASE ~ApprovalDue(d, t)
    BY <2>2, SyncGovernanceShape DEF Gated, Kept
  <2>3. QED BY <2>1, <2>2
<1>3. QED BY <1>1, <1>2 DEF Stands

LEMMA SyncedGates ==
    ASSUME NEW d \in Store, Gated(d)
    PROVE  Gated(Synced(d)) /\ \A t \in Task : Stands(d, Synced(d), t)
<1>1. SyncParents(d) \in Store /\ Gated(SyncParents(d))
  BY SyncParentsShape DEF Gated
<1>2. \A t \in Task : Stands(SyncParents(d), Synced(d), t)
  BY <1>1, SyncGovernanceGates DEF Synced
<1>3. QED BY <1>1, <1>2, SyncGovernanceGates, SyncParentsShape DEF Synced, Stands

\* The step leaves the saved tasks as they were or brings every parent up to
\* date with them.
ParentsSynced ==
    db'.tasks = db.tasks \/ \E x \in Store : db'.tasks = SyncParents(x).tasks

\* A committed update that keeps gates single and decisions standing leaves
\* the database so.
LEMMA CommitGates ==
    ASSUME db \in Store, Gated(db), NEW next \in Store, Gated(next), NEW saves,
           Commit(next, saves), "tasks" \in saves,
           \A t \in Task : Exists(next, t) => Stands(Synced(db), next, t)
    PROVE  /\ db' \in Store /\ Gated(db')
           /\ \A t \in Task : Exists(db', t) => Stands(db, db', t)
           /\ ParentsSynced
<1>1. /\ db' \in Store
      /\ db'.tasks = Synced(next).tasks
      /\ db'.reviews = IF "reviews" \in saves THEN Synced(next).reviews ELSE db.reviews
      /\ db'.approvals = IF "approvals" \in saves THEN Synced(next).approvals ELSE db.approvals
  BY CommitShape
<1>2. Gated(Synced(next)) /\ \A t \in Task : Stands(next, Synced(next), t)
  BY SyncedGates
<1>3. Gated(db')
  BY <1>1, <1>2 DEF Gated
<1>4. ASSUME NEW t \in Task, Exists(db', t) PROVE Stands(db, db', t)
  <2>1. Exists(next, t)
    BY <1>1, <1>4, SyncedShape DEF Exists
  <2>2. Stands(db, Synced(db), t)
    BY SyncedGates
  <2>3. Stands(db, Synced(next), t)
    BY <1>2, <2>1, <2>2, StandsTransitive
  <2>4. QED BY <1>1, <2>3 DEF Stands, Kept
<1>5. ParentsSynced
  BY <1>1, SyncedShape DEF ParentsSynced
<1>6. QED BY <1>1, <1>3, <1>4, <1>5

LEMMA CommitTaskGates ==
    ASSUME db \in Store, Gated(db), NEW next \in Store, Gated(next), NEW saves,
           CommitTask(next, saves), "tasks" \in saves,
           \A t \in Task : Exists(next, t) => Stands(Synced(db), next, t)
    PROVE  /\ db' \in Store /\ Gated(db')
           /\ \A t \in Task : Exists(db', t) => Stands(db, db', t)
           /\ ParentsSynced
<1>1. /\ SyncParents(next) \in Store
      /\ Commit(SyncParents(next), saves)
      /\ SyncParents(next).reviews = next.reviews
      /\ SyncParents(next).approvals = next.approvals
      /\ \A t \in Task : Exists(SyncParents(next), t) = Exists(next, t)
  BY CommitTaskIsCommit, SyncParentsShape
<1>2. /\ Gated(SyncParents(next))
      /\ \A t \in Task : Exists(SyncParents(next), t) => Stands(Synced(db), SyncParents(next), t)
  BY <1>1 DEF Gated, Stands
<1>3. QED BY <1>1, <1>2, CommitGates

\* An update that leaves reviews and approvals alone.
LEMMA UntouchedGates ==
    ASSUME NEW d \in Store, Gated(d), NEW e,
           e.reviews = d.reviews, e.approvals = d.approvals
    PROVE  Gated(e) /\ \A t \in Task : Stands(d, e, t)
BY DEF Gated, Stands, Kept

LEMMA ResolveReviewGates ==
    ASSUME NEW d \in Store, Gated(d), NEW t \in Task, OpenReviews(d, t) # {},
           NEW outcome \in {"approved", "changes_requested"}
    PROVE  /\ ResolveReview(d, t, outcome) \in Store
           /\ Gated(ResolveReview(d, t, outcome))
           /\ ResolveReview(d, t, outcome).tasks = d.tasks
           /\ ResolveReview(d, t, outcome).runs = d.runs
           /\ \A u \in Task : Stands(d, ResolveReview(d, t, outcome), u)
<1> DEFINE n == Newest(OpenReviews(d, t))
           x == [d.reviews[t][n] EXCEPT !.status = outcome]
           q == [d.reviews[t] EXCEPT ![n] = x]
<1>1. d.reviews[t] \in Seq(Review) /\ OneLive(d.reviews[t], "open")
  BY StoreParts DEF Gated
<1>2. n \in DOMAIN d.reviews[t] /\ d.reviews[t][n].status = "open"
  <2>1. OpenReviews(d, t) \in SUBSET Nat
    BY <1>1 DEF OpenReviews
  <2>2. \A i, j \in OpenReviews(d, t) : i = j
    BY <1>1 DEF OneLive, OpenReviews
  <2>3. n \in OpenReviews(d, t)
    BY <2>1, <2>2, NewestOfOne
  <2>4. QED BY <2>3 DEF OpenReviews
<1>3. x \in Review /\ x.status # "open"
  <2>1. d.reviews[t][n] \in Review
    BY <1>1, <1>2
  <2> HIDE DEF n
  <2>2. QED BY <2>1 DEF Review
<1>4. ResolveReview(d, t, outcome) = [d EXCEPT !.reviews = [d.reviews EXCEPT ![t] = q]]
  BY <1>1, <1>2, StoreParts DEF ResolveReview, Store
<1> HIDE DEF n, x
<1>5. q \in Seq(Review) /\ OneLive(q, "open") /\ Kept(d.reviews[t], q, "open")
  BY <1>1, <1>2, <1>3, DecideGate
<1> HIDE DEF q
<1>6. LET e == ResolveReview(d, t, outcome) IN
      /\ e \in Store
      /\ e.tasks = d.tasks /\ e.runs = d.runs /\ e.surfaces = d.surfaces
      /\ e.reviews = [d.reviews EXCEPT ![t] = q] /\ e.approvals = d.approvals
  <2>1. [d.reviews EXCEPT ![t] = q] \in [Task -> Seq(Review)]
    BY <1>5, StoreParts
  <2>2. QED BY <1>4, <2>1 DEF Store
<1>7. \A u \in Task : ResolveReview(d, t, outcome).reviews[u] = IF u = t THEN q ELSE d.reviews[u]
  BY <1>6, StoreParts
<1>8. QED BY <1>5, <1>6, <1>7 DEF Gated, Stands, Kept

LEMMA ResolveApprovalGates ==
    ASSUME NEW d \in Store, Gated(d), NEW t \in Task, PendingApprovals(d, t) # {},
           NEW outcome \in {"approved", "rejected"}
    PROVE  /\ ResolveApproval(d, t, outcome) \in Store
           /\ Gated(ResolveApproval(d, t, outcome))
           /\ ResolveApproval(d, t, outcome).tasks = d.tasks
           /\ ResolveApproval(d, t, outcome).runs = d.runs
           /\ \A u \in Task : Stands(d, ResolveApproval(d, t, outcome), u)
<1> DEFINE n == Newest(PendingApprovals(d, t))
           x == [d.approvals[t][n] EXCEPT !.status = outcome]
           q == [d.approvals[t] EXCEPT ![n] = x]
<1>1. d.approvals[t] \in Seq(Approval) /\ OneLive(d.approvals[t], "pending")
  BY StoreParts DEF Gated
<1>2. n \in DOMAIN d.approvals[t] /\ d.approvals[t][n].status = "pending"
  <2>1. PendingApprovals(d, t) \in SUBSET Nat
    BY <1>1 DEF PendingApprovals
  <2>2. \A i, j \in PendingApprovals(d, t) : i = j
    BY <1>1 DEF OneLive, PendingApprovals
  <2>3. n \in PendingApprovals(d, t)
    BY <2>1, <2>2, NewestOfOne
  <2>4. QED BY <2>3 DEF PendingApprovals
<1>3. x \in Approval /\ x.status # "pending"
  <2>1. d.approvals[t][n] \in Approval
    BY <1>1, <1>2
  <2> HIDE DEF n
  <2>2. QED BY <2>1 DEF Approval
<1>4. ResolveApproval(d, t, outcome) = [d EXCEPT !.approvals = [d.approvals EXCEPT ![t] = q]]
  BY <1>1, <1>2, StoreParts DEF ResolveApproval, Store
<1> HIDE DEF n, x
<1>5. q \in Seq(Approval) /\ OneLive(q, "pending") /\ Kept(d.approvals[t], q, "pending")
  BY <1>1, <1>2, <1>3, DecideGate
<1> HIDE DEF q
<1>6. LET e == ResolveApproval(d, t, outcome) IN
      /\ e \in Store
      /\ e.tasks = d.tasks /\ e.runs = d.runs /\ e.surfaces = d.surfaces
      /\ e.approvals = [d.approvals EXCEPT ![t] = q] /\ e.reviews = d.reviews
  <2>1. [d.approvals EXCEPT ![t] = q] \in [Task -> Seq(Approval)]
    BY <1>5, StoreParts
  <2>2. QED BY <1>4, <2>1 DEF Store
<1>7. \A u \in Task : ResolveApproval(d, t, outcome).approvals[u] = IF u = t THEN q ELSE d.approvals[u]
  BY <1>6, StoreParts
<1>8. QED BY <1>5, <1>6, <1>7 DEF Gated, Stands, Kept

LEMMA CloseShape ==
    ASSUME NEW d \in Store, NEW t \in Task
    PROVE  /\ Close(d, t) \in Store
           /\ Close(d, t).reviews = d.reviews
           /\ Close(d, t).approvals = d.approvals
           /\ Close(d, t).tasks[t].status = "done"
           /\ \A u \in Task \ {t} : Close(d, t).tasks[u] = d.tasks[u]
           /\ Close(d, t).runs = EndLatestRun(d, t, "completed").runs
<1>1. "completed" \in RunStatus /\ "done" \in TaskStatus
  BY DEF RunStatus, TaskStatus
<1> DEFINE e == EndLatestRun(d, t, "completed")
           f == WithStatus(e, t, "done")
<1>2. e \in Store /\ e.tasks = d.tasks /\ e.reviews = d.reviews /\ e.approvals = d.approvals
  BY <1>1, EndLatestRunShape
<1>3. Close(d, t) = f
  BY DEF Close
<1> HIDE DEF e
<1>4. /\ f \in Store /\ f.tasks[t].status = "done"
      /\ \A u \in Task \ {t} : f.tasks[u] = e.tasks[u]
      /\ f.runs = e.runs /\ f.reviews = e.reviews /\ f.approvals = e.approvals
  BY <1>1, <1>2, WithStatusShape
<1> HIDE DEF f
<1>5. QED BY <1>2, <1>3, <1>4 DEF e

LEMMA BlockShape ==
    ASSUME NEW d \in Store, NEW t \in Task
    PROVE  /\ Block(d, t) \in Store
           /\ Block(d, t).reviews = d.reviews
           /\ Block(d, t).approvals = d.approvals
           /\ Block(d, t).tasks[t].status = "blocked"
           /\ \A u \in Task \ {t} : Block(d, t).tasks[u] = d.tasks[u]
           /\ Block(d, t).runs = EndLatestRun(d, t, "blocked").runs
<1>1. "blocked" \in RunStatus /\ "blocked" \in TaskStatus
  BY DEF RunStatus, TaskStatus
<1> DEFINE e == EndLatestRun(d, t, "blocked")
           f == WithStatus(e, t, "blocked")
<1>2. e \in Store /\ e.tasks = d.tasks /\ e.reviews = d.reviews /\ e.approvals = d.approvals
  BY <1>1, EndLatestRunShape
<1>3. Block(d, t) = f
  BY DEF Block
<1> HIDE DEF e
<1>4. /\ f \in Store /\ f.tasks[t].status = "blocked"
      /\ \A u \in Task \ {t} : f.tasks[u] = e.tasks[u]
      /\ f.runs = e.runs /\ f.reviews = e.reviews /\ f.approvals = e.approvals
  BY <1>1, <1>2, WithStatusShape
<1> HIDE DEF f
<1>5. QED BY <1>2, <1>3, <1>4 DEF e

\* The store without t.
Without(d, t) ==
    [d EXCEPT !.tasks = [u \in Task |-> IF u = t THEN [NoTask EXCEPT !.status = "deleted"]
                                       ELSE [d.tasks[u] EXCEPT !.deps = @ \ {t}]],
              !.runs[t] = <<>>, !.reviews[t] = <<>>, !.approvals[t] = <<>>]

\* The records of a deleted task are gone, and its row with them.
LEMMA DeleteShape ==
    ASSUME NEW d \in Store, NEW t \in Task
    PROVE  /\ Without(d, t) \in Store
           /\ ~Exists(Without(d, t), t)
           /\ \A u \in Task \ {t} :
                 /\ Without(d, t).tasks[u].status = d.tasks[u].status
                 /\ Without(d, t).tasks[u].assignee = d.tasks[u].assignee
                 /\ Without(d, t).runs[u] = d.runs[u]
                 /\ Without(d, t).reviews[u] = d.reviews[u]
                 /\ Without(d, t).approvals[u] = d.approvals[u]
           /\ Without(d, t).runs[t] = <<>>
           /\ Without(d, t).reviews[t] = <<>>
           /\ Without(d, t).approvals[t] = <<>>
<1> DEFINE row(u) == IF u = t THEN [NoTask EXCEPT !.status = "deleted"]
                     ELSE [d.tasks[u] EXCEPT !.deps = @ \ {t}]
           rows == [u \in Task |-> row(u)]
           e == Without(d, t)
<1>1. ASSUME NEW u \in Task
      PROVE  /\ row(u) \in TaskRow
             /\ u = t => row(u).status = "deleted"
             /\ u # t => row(u).status = d.tasks[u].status /\ row(u).assignee = d.tasks[u].assignee
  <2>1. d.tasks[u] \in TaskRow
    BY StoreParts
  <2>2. CASE u = t
    BY <2>2 DEF TaskRow, NoTask, NoRow, Mode
  <2>3. CASE u # t
    <3>1. [d.tasks[u] EXCEPT !.deps = @ \ {t}] \in TaskRow
      BY <2>1 DEF TaskRow
    <3>2. row(u) = [d.tasks[u] EXCEPT !.deps = @ \ {t}]
      BY <2>3
    <3>3. /\ [d.tasks[u] EXCEPT !.deps = @ \ {t}].status = d.tasks[u].status
          /\ [d.tasks[u] EXCEPT !.deps = @ \ {t}].assignee = d.tasks[u].assignee
      BY <2>1 DEF TaskRow
    <3>4. QED BY <2>3, <3>1, <3>2, <3>3
  <2>4. QED BY <2>2, <2>3
<1> HIDE DEF row
<1>2. rows \in [Task -> TaskRow] /\ \A u \in Task : rows[u] = row(u)
  BY <1>1
<1> HIDE DEF rows
<1>3. /\ [d.runs EXCEPT ![t] = <<>>] \in [Task -> Seq(Run)]
      /\ [d.reviews EXCEPT ![t] = <<>>] \in [Task -> Seq(Review)]
      /\ [d.approvals EXCEPT ![t] = <<>>] \in [Task -> Seq(Approval)]
  BY StoreParts, EmptySeq
<1>4. e = [d EXCEPT !.tasks = rows, !.runs = [d.runs EXCEPT ![t] = <<>>],
                    !.reviews = [d.reviews EXCEPT ![t] = <<>>],
                    !.approvals = [d.approvals EXCEPT ![t] = <<>>]]
  BY DEF Store, Without, rows, row
<1> HIDE DEF e
<1>5. /\ e \in Store
      /\ e.tasks = rows
      /\ e.runs = [d.runs EXCEPT ![t] = <<>>]
      /\ e.reviews = [d.reviews EXCEPT ![t] = <<>>]
      /\ e.approvals = [d.approvals EXCEPT ![t] = <<>>]
      /\ e.surfaces = d.surfaces
  BY <1>2, <1>3, <1>4 DEF Store
<1>6. rows[t].status = "deleted" /\ ~Exists(e, t)
  BY <1>1, <1>2, <1>5 DEF Exists, TaskStatus
<1>7. /\ e.runs[t] = <<>> /\ \A u \in Task \ {t} : e.runs[u] = d.runs[u]
      /\ e.reviews[t] = <<>> /\ \A u \in Task \ {t} : e.reviews[u] = d.reviews[u]
      /\ e.approvals[t] = <<>> /\ \A u \in Task \ {t} : e.approvals[u] = d.approvals[u]
  BY <1>5, StoreParts
<1>8. QED BY <1>1, <1>2, <1>5, <1>6, <1>7 DEF e

-----------------------------------------------------------------------------
(* Every step keeps types, gates and decisions *)

\* The inductive invariant: the newest open gate is the only one, which is
\* what makes a decision land on it.
GateInv == TypeOK /\ OneOpenGate

\* What every handler does to the database.
GatesKept == /\ db' \in Store /\ Gated(db')
             /\ \A t \in Task : Exists(db', t) => Stands(db, db', t)
             /\ ParentsSynced

LEMMA CreateTaskGates ==
    ASSUME GateInv, NEW t \in Task, NEW row \in NewRow, CreateTask(t, row)
    PROVE  GatesKept
<1> DEFINE d == Synced(db)
<1>1. d \in Store /\ Gated(d) /\ db \in Store /\ Gated(db)
  BY SyncedShape, SyncedGates, GatedIsOneOpenGate DEF GateInv, TypeOK
<1> DEFINE e == [d EXCEPT !.tasks[t] = row]
<1>2. Commit(e, {"tasks"})
  BY DEF CreateTask
<1>3. row \in TaskRow
  OBVIOUS
<1> HIDE DEF d
<1>4. e \in Store /\ e.reviews = d.reviews /\ e.approvals = d.approvals
  BY <1>1, <1>3, SetTask
<1> HIDE DEF e
<1>5. Gated(e) /\ \A u \in Task : Stands(d, e, u)
  BY <1>1, <1>4, UntouchedGates
<1>6. QED BY <1>1, <1>2, <1>4, <1>5, CommitGates DEF GatesKept, d

LEMMA DeleteTaskGates ==
    ASSUME GateInv, NEW t \in Task, DeleteTask(t)
    PROVE  GatesKept
<1> DEFINE d == Synced(db)
<1>1. d \in Store /\ Gated(d) /\ db \in Store /\ Gated(db)
  BY SyncedShape, SyncedGates, GatedIsOneOpenGate DEF GateInv, TypeOK
<1> DEFINE e == Without(d, t)
<1>2. CommitTask(e, {"tasks", "runs", "reviews", "approvals"})
  BY DEF DeleteTask, Without
<1> HIDE DEF d
<1>3. e \in Store /\ ~Exists(e, t)
  BY <1>1, DeleteShape
<1>4. \A u \in Task : /\ e.reviews[u] = IF u = t THEN <<>> ELSE d.reviews[u]
                      /\ e.approvals[u] = IF u = t THEN <<>> ELSE d.approvals[u]
  BY <1>1, DeleteShape
<1> HIDE DEF e
<1>5. Gated(e)
  BY <1>1, <1>4 DEF Gated, OneLive
<1>6. \A u \in Task : Exists(e, u) => Stands(d, e, u)
  BY <1>3, <1>4 DEF Stands, Kept
<1>7. QED BY <1>1, <1>2, <1>3, <1>5, <1>6, CommitTaskGates DEF GatesKept, d

\* Updates that save only surfaces.
LEMMA SurfaceGates ==
    ASSUME GateInv, NEW next \in Store, Commit(next, {"surfaces"})
    PROVE  GatesKept
<1>1. db \in Store /\ Gated(db)
  BY GatedIsOneOpenGate DEF GateInv, TypeOK
<1>2. db' \in Store /\ db'.reviews = db.reviews /\ db'.approvals = db.approvals
      /\ db'.tasks = db.tasks
  BY <1>1, CommitShape
<1>3. QED BY <1>1, <1>2, UntouchedGates DEF GatesKept, ParentsSynced

LEMMA RegisterGates ==
    ASSUME GateInv, NEW s \in Surface, NEW cap \in Capacity, NEW n \in RunCap, Register(s, cap, n)
    PROVE  GatesKept
<1> DEFINE d == Synced(db)
           row == [status |-> "idle", capacity |-> cap, maxRuns |-> n]
           e == [d EXCEPT !.surfaces[s] = row]
<1>1. d \in Store
  BY SyncedShape DEF GateInv, TypeOK
<1>2. Commit(e, {"surfaces"})
  BY DEF Register
<1> HIDE DEF d
<1>3. row \in SurfaceRow
  BY DEF SurfaceRow
<1> HIDE DEF row
<1>4. e \in Store
  BY <1>1, <1>3 DEF Store
<1>5. QED BY <1>2, <1>4, SurfaceGates

LEMMA HeartbeatGates ==
    ASSUME GateInv, NEW s \in Surface, NEW st \in Presence, NEW cap \in Capacity, Heartbeat(s, st, cap)
    PROVE  GatesKept
<1> DEFINE d == Synced(db)
           row == [d.surfaces[s] EXCEPT !.status = st, !.capacity = cap]
           e == [d EXCEPT !.surfaces[s] = row]
<1>1. d \in Store
  BY SyncedShape DEF GateInv, TypeOK
<1> HIDE DEF d
<1>2. d.surfaces[s] \in SurfaceRow /\ d.surfaces \in [Surface -> SurfaceRow]
  BY <1>1, StoreParts
<1>3. Commit([d EXCEPT !.surfaces[s].status = st, !.surfaces[s].capacity = cap], {"surfaces"})
  BY DEF Heartbeat, d
<1>4. [d EXCEPT !.surfaces[s].status = st, !.surfaces[s].capacity = cap] = e
  BY <1>1, <1>2 DEF Store, SurfaceRow
<1>5. row \in SurfaceRow
  BY <1>2 DEF SurfaceRow
<1> HIDE DEF row
<1>6. e \in Store
  BY <1>1, <1>2, <1>5 DEF Store
<1>7. QED BY <1>3, <1>4, <1>6, SurfaceGates

LEMMA RequestReviewGates ==
    ASSUME GateInv, NEW t \in Task, RequestReview(t)
    PROVE  GatesKept
<1> DEFINE d == Synced(db)
           x == [run |-> LatestRun(d, t), status |-> "open"]
           e == [d EXCEPT !.reviews[t] = Append(d.reviews[t], x)]
           f == IF d.tasks[t].status = "done" THEN e ELSE WithStatus(e, t, "review")
<1>1. d \in Store /\ Gated(d) /\ db \in Store /\ Gated(db)
  BY SyncedShape, SyncedGates, GatedIsOneOpenGate DEF GateInv, TypeOK
<1>2. OpenReviews(d, t) = {} /\ CommitTask(f, {"reviews", "tasks"})
  BY DEF RequestReview
<1> HIDE DEF d
<1>3. d.reviews[t] \in Seq(Review) /\ x \in Review
  BY <1>1, StoreParts DEF LatestRun, Review
<1>4. \A i \in DOMAIN d.reviews[t] : d.reviews[t][i].status # "open"
  BY <1>2 DEF OpenReviews
<1> DEFINE q == Append(d.reviews[t], x)
<1> HIDE DEF x
<1>5. q \in Seq(Review) /\ OneLive(q, "open") /\ Kept(d.reviews[t], q, "open")
  BY <1>3, <1>4, AppendGate
<1>6. /\ e \in Store /\ e.approvals = d.approvals
      /\ e.reviews = [d.reviews EXCEPT ![t] = q]
  BY <1>1, <1>5 DEF Store
<1> HIDE DEF e, q
<1>7. Gated(e) /\ \A u \in Task : Stands(d, e, u)
  <2>1. \A u \in Task : e.reviews[u] = IF u = t THEN q ELSE d.reviews[u]
    BY <1>1, <1>6, StoreParts
  <2>2. QED BY <1>1, <1>5, <1>6, <2>1 DEF Gated, Stands, Kept
<1>8. f \in Store /\ f.reviews = e.reviews /\ f.approvals = e.approvals
  <2>1. "review" \in TaskStatus
    BY DEF TaskStatus
  <2> DEFINE g == WithStatus(e, t, "review")
  <2>2. g \in Store /\ g.reviews = e.reviews /\ g.approvals = e.approvals
    BY <1>6, <2>1, WithStatusShape
  <2> HIDE DEF g
  <2>3. QED BY <1>6, <2>2 DEF g
<1> HIDE DEF f
<1>9. Gated(f) /\ \A u \in Task : Stands(d, f, u)
  BY <1>7, <1>8 DEF Gated, Stands
<1>10. QED BY <1>1, <1>2, <1>8, <1>9, CommitTaskGates DEF GatesKept, d

LEMMA RequestApprovalGates ==
    ASSUME GateInv, NEW t \in Task, NEW mode \in FormMode, RequestApproval(t, mode)
    PROVE  GatesKept
<1> DEFINE d == Synced(db)
           x == [run |-> LatestRun(d, t), mode |-> mode, status |-> "pending"]
           q == Append(d.approvals[t], x)
           e == [d EXCEPT !.approvals[t] = q]
<1>1. d \in Store /\ Gated(d) /\ db \in Store /\ Gated(db)
  BY SyncedShape, SyncedGates, GatedIsOneOpenGate DEF GateInv, TypeOK
<1>2. PendingApprovals(d, t) = {} /\ CommitTask(e, {"approvals", "tasks"})
  BY DEF RequestApproval
<1> HIDE DEF d
<1>3. d.approvals[t] \in Seq(Approval) /\ x \in Approval
  <2>1. d.approvals[t] \in Seq(Approval) /\ LatestRun(d, t) \in Nat /\ mode \in Mode
    BY <1>1, StoreParts DEF LatestRun
  <2>2. QED BY <2>1 DEF Approval
<1>4. \A i \in DOMAIN d.approvals[t] : d.approvals[t][i].status # "pending"
  BY <1>2 DEF PendingApprovals
<1> HIDE DEF x
<1>5. q \in Seq(Approval) /\ OneLive(q, "pending") /\ Kept(d.approvals[t], q, "pending")
  BY <1>3, <1>4, AppendGate
<1> HIDE DEF q
<1>6. /\ e \in Store /\ e.reviews = d.reviews
      /\ e.approvals = [d.approvals EXCEPT ![t] = q]
  BY <1>1, <1>5 DEF Store
<1> HIDE DEF e
<1>7. Gated(e) /\ \A u \in Task : Stands(d, e, u)
  <2>1. \A u \in Task : e.approvals[u] = IF u = t THEN q ELSE d.approvals[u]
    BY <1>1, <1>6, StoreParts
  <2>2. QED BY <1>1, <1>5, <1>6, <2>1 DEF Gated, Stands, Kept
<1>8. QED BY <1>1, <1>2, <1>6, <1>7, CommitTaskGates DEF GatesKept, d

\* The decisions: ApproveReview and RequestChanges resolve the open review.
LEMMA DecideReviewGates ==
    ASSUME GateInv, NEW t \in Task, ApproveReview(t) \/ RequestChanges(t)
    PROVE  GatesKept
<1> DEFINE d == Synced(db)
<1>1. d \in Store /\ Gated(d) /\ db \in Store /\ Gated(db)
  BY SyncedShape, SyncedGates, GatedIsOneOpenGate DEF GateInv, TypeOK
<1>2. PICK outcome \in {"approved", "changes_requested"} :
          /\ OpenReviews(d, t) # {}
          /\ \E next :
                /\ CommitTask(next, {"reviews", "runs", "tasks"})
                /\ next \in {ResolveReview(d, t, outcome), Close(ResolveReview(d, t, outcome), t),
                             Block(ResolveReview(d, t, outcome), t)}
  <2>1. CASE ApproveReview(t) BY <2>1, Zenon DEF ApproveReview
  <2>2. CASE RequestChanges(t) BY <2>2, Zenon DEF RequestChanges
  <2>3. QED BY <2>1, <2>2
<1>3. PICK next :
          /\ CommitTask(next, {"reviews", "runs", "tasks"})
          /\ next \in {ResolveReview(d, t, outcome), Close(ResolveReview(d, t, outcome), t),
                       Block(ResolveReview(d, t, outcome), t)}
  BY <1>2, Zenon
<1> HIDE DEF d
<1> DEFINE e == ResolveReview(d, t, outcome)
<1>4. e \in Store /\ Gated(e) /\ \A u \in Task : Stands(d, e, u)
  BY <1>1, <1>2, ResolveReviewGates
<1> HIDE DEF e
<1>5. next \in Store /\ next.reviews = e.reviews /\ next.approvals = e.approvals
  <2>1. Close(e, t) \in Store /\ Close(e, t).reviews = e.reviews /\ Close(e, t).approvals = e.approvals
    BY <1>4, CloseShape
  <2>2. Block(e, t) \in Store /\ Block(e, t).reviews = e.reviews /\ Block(e, t).approvals = e.approvals
    BY <1>4, BlockShape
  <2>3. next \in {e, Close(e, t), Block(e, t)}
    BY <1>3 DEF e
  <2>4. QED BY <1>4, <2>1, <2>2, <2>3
<1>6. Gated(next) /\ \A u \in Task : Stands(d, next, u)
  BY <1>4, <1>5 DEF Gated, Stands
<1>7. QED BY <1>1, <1>3, <1>5, <1>6, CommitTaskGates DEF GatesKept, d

\* ApproveApproval and RejectApproval resolve the pending approval.
LEMMA DecideApprovalGates ==
    ASSUME GateInv, NEW t \in Task, ApproveApproval(t) \/ RejectApproval(t)
    PROVE  GatesKept
<1> DEFINE d == Synced(db)
<1>1. d \in Store /\ Gated(d) /\ db \in Store /\ Gated(db)
  BY SyncedShape, SyncedGates, GatedIsOneOpenGate DEF GateInv, TypeOK
<1>2. PICK outcome \in {"approved", "rejected"} :
          /\ PendingApprovals(d, t) # {}
          /\ \E next :
                /\ CommitTask(next, {"approvals", "runs", "tasks"})
                /\ next \in {ResolveApproval(d, t, outcome), Close(ResolveApproval(d, t, outcome), t),
                             Block(ResolveApproval(d, t, outcome), t)}
  <2>1. CASE ApproveApproval(t) BY <2>1, Zenon DEF ApproveApproval
  <2>2. CASE RejectApproval(t) BY <2>2, Zenon DEF RejectApproval
  <2>3. QED BY <2>1, <2>2
<1>3. PICK next :
          /\ CommitTask(next, {"approvals", "runs", "tasks"})
          /\ next \in {ResolveApproval(d, t, outcome), Close(ResolveApproval(d, t, outcome), t),
                       Block(ResolveApproval(d, t, outcome), t)}
  BY <1>2, Zenon
<1> HIDE DEF d
<1> DEFINE e == ResolveApproval(d, t, outcome)
<1>4. e \in Store /\ Gated(e) /\ \A u \in Task : Stands(d, e, u)
  BY <1>1, <1>2, ResolveApprovalGates
<1> HIDE DEF e
<1>5. next \in Store /\ next.reviews = e.reviews /\ next.approvals = e.approvals
  <2>1. Close(e, t) \in Store /\ Close(e, t).reviews = e.reviews /\ Close(e, t).approvals = e.approvals
    BY <1>4, CloseShape
  <2>2. Block(e, t) \in Store /\ Block(e, t).reviews = e.reviews /\ Block(e, t).approvals = e.approvals
    BY <1>4, BlockShape
  <2>3. next \in {e, Close(e, t), Block(e, t)}
    BY <1>3 DEF e
  <2>4. QED BY <1>4, <2>1, <2>2, <2>3
<1>6. Gated(next) /\ \A u \in Task : Stands(d, next, u)
  BY <1>4, <1>5 DEF Gated, Stands
<1>7. QED BY <1>1, <1>3, <1>5, <1>6, CommitTaskGates DEF GatesKept, d

-----------------------------------------------------------------------------
(* Surfaces and operators *)

LEMMA ClaimTaskGates ==
    ASSUME GateInv, NEW c \in Worker, ClaimTask(c)
    PROVE  GatesKept
<1> DEFINE d == Synced(db)
           t == req[c].task
           s == req[c].by
<1>1. d \in Store /\ Gated(d) /\ db \in Store /\ Gated(db)
  BY SyncedShape, SyncedGates, GatedIsOneOpenGate DEF GateInv, TypeOK
<1>2. t \in Task /\ s \in Surface
  <2>1. req[c] \in Request /\ req[c].op = "claim"
    BY DEF ClaimTask, GateInv, TypeOK, Client
  <2>2. QED BY <2>1 DEF Request, Idle, ClaimRequest, WriteRequest
<1> DEFINE e == StartRun(d, t, s)
           f == SyncGovernance(e)
           next == IF d.tasks[t].status = "in_progress" THEN d ELSE f
<1>3. Commit(next, {"tasks", "runs", "reviews", "approvals"})
  BY DEF ClaimTask
<1> HIDE DEF d, t, s
<1>4. e \in Store /\ e.reviews = d.reviews /\ e.approvals = d.approvals
  BY <1>1, <1>2, StartRunShape
<1> HIDE DEF e
<1>5. Gated(e) /\ \A u \in Task : Stands(d, e, u)
  BY <1>1, <1>4, UntouchedGates
<1>6. f \in Store /\ Gated(f) /\ \A u \in Task : Stands(d, f, u)
  BY <1>4, <1>5, SyncGovernanceShape, SyncGovernanceGates, StandsTransitive
<1> HIDE DEF f
<1>7. next \in Store /\ Gated(next) /\ \A u \in Task : Stands(d, next, u)
  BY <1>1, <1>6, UntouchedGates
<1> HIDE DEF next
<1>8. QED BY <1>1, <1>3, <1>7, CommitGates DEF GatesKept, d

LEMMA RunStatusOfType == \A st : RunStatusOf(st) \in RunStatus
BY DEF RunStatusOf, RunStatus

\* What a report makes of the store before the gates are queued.
Reported(d, s, t, status) ==
    WithStatus(IF LatestRun(d, t) # 0 /\ d.runs[t][LatestRun(d, t)].surface = s
               THEN EndLatestRun(d, t, RunStatusOf(status)) ELSE d, t, status)

LEMMA ReportedShape ==
    ASSUME NEW d \in Store, NEW s \in Surface, NEW t \in Task, NEW status \in TaskStatus
    PROVE  /\ Reported(d, s, t, status) \in Store
           /\ Reported(d, s, t, status).tasks[t].status = status
           /\ Reported(d, s, t, status).tasks[t].assignee = d.tasks[t].assignee
           /\ \A u \in Task \ {t} : Reported(d, s, t, status).tasks[u] = d.tasks[u]
           /\ Reported(d, s, t, status).runs =
                 IF LatestRun(d, t) # 0 /\ d.runs[t][LatestRun(d, t)].surface = s
                 THEN EndLatestRun(d, t, RunStatusOf(status)).runs ELSE d.runs
           /\ Reported(d, s, t, status).reviews = d.reviews
           /\ Reported(d, s, t, status).approvals = d.approvals
<1> DEFINE mine == LatestRun(d, t) # 0 /\ d.runs[t][LatestRun(d, t)].surface = s
           r == IF mine THEN EndLatestRun(d, t, RunStatusOf(status)) ELSE d
           f == WithStatus(r, t, status)
<1>1. /\ r \in Store /\ r.tasks = d.tasks
      /\ r.reviews = d.reviews /\ r.approvals = d.approvals
      /\ r.runs = IF mine THEN EndLatestRun(d, t, RunStatusOf(status)).runs ELSE d.runs
  <2> DEFINE x == EndLatestRun(d, t, RunStatusOf(status))
  <2>1. x \in Store /\ x.tasks = d.tasks /\ x.reviews = d.reviews /\ x.approvals = d.approvals
    BY RunStatusOfType, EndLatestRunShape
  <2> HIDE DEF x, mine
  <2>2. QED BY <2>1 DEF x
<1>2. Reported(d, s, t, status) = f
  BY DEF Reported
<1> HIDE DEF r, mine
<1>3. /\ f \in Store /\ f.tasks[t].status = status /\ f.tasks[t].assignee = r.tasks[t].assignee
      /\ \A u \in Task \ {t} : f.tasks[u] = r.tasks[u]
      /\ f.runs = r.runs /\ f.reviews = r.reviews /\ f.approvals = r.approvals
  BY <1>1, WithStatusShape
<1> HIDE DEF f
<1>4. QED BY <1>1, <1>2, <1>3 DEF mine

LEMMA ReportCommits ==
    ASSUME NEW s \in Surface, NEW t \in Task, NEW status \in Report, ReportStatus(s, t, status)
    PROVE  Commit(SyncGovernance(Reported(Synced(db), s, t, status)),
                  {"tasks", "runs", "reviews", "approvals"})
BY Zenon DEF ReportStatus, Reported, EndLatestRun

LEMMA ReportStatusGates ==
    ASSUME GateInv, NEW s \in Surface, NEW t \in Task, NEW status \in Report, ReportStatus(s, t, status)
    PROVE  GatesKept
<1> DEFINE d == Synced(db)
           e == Reported(d, s, t, status)
           f == SyncGovernance(e)
<1>1. d \in Store /\ Gated(d) /\ db \in Store /\ Gated(db)
  BY SyncedShape, SyncedGates, GatedIsOneOpenGate DEF GateInv, TypeOK
<1>2. Commit(f, {"tasks", "runs", "reviews", "approvals"})
  BY ReportCommits
<1> HIDE DEF d
<1>3. e \in Store /\ e.reviews = d.reviews /\ e.approvals = d.approvals
  BY <1>1, ReportedShape
<1> HIDE DEF e
<1>4. Gated(e) /\ \A u \in Task : Stands(d, e, u)
  BY <1>1, <1>3, UntouchedGates
<1>5. f \in Store /\ Gated(f) /\ \A u \in Task : Stands(d, f, u)
  BY <1>3, <1>4, SyncGovernanceShape, SyncGovernanceGates, StandsTransitive
<1> HIDE DEF f
<1>6. QED BY <1>1, <1>2, <1>5, CommitGates DEF GatesKept, d

LEMMA SaveEditGates ==
    ASSUME GateInv, NEW c \in Editor, SaveEdit(c)
    PROVE  GatesKept
<1> DEFINE d == Synced(db)
           t == req[c].task
           row == req[c].row
           e == [d EXCEPT !.tasks[t] = row]
<1>1. d \in Store /\ Gated(d) /\ db \in Store /\ Gated(db)
  BY SyncedShape, SyncedGates, GatedIsOneOpenGate DEF GateInv, TypeOK
<1>2. t \in Task /\ row \in TaskRow
  <2>1. req[c] \in Request /\ req[c].op = "edit"
    BY DEF SaveEdit, GateInv, TypeOK, Client
  <2>2. QED BY <2>1 DEF Request, Idle, ClaimRequest, WriteRequest
<1>3. UNCHANGED db \/ CommitTask(e, {"tasks"})
  BY Zenon DEF SaveEdit
<1>4. CASE UNCHANGED db
  BY <1>1, <1>4, UntouchedGates DEF GatesKept, ParentsSynced, Gated, Stands, Kept, Exists
<1>5. CASE CommitTask(e, {"tasks"})
  <2> HIDE DEF d, t, row
  <2>1. e \in Store /\ e.reviews = d.reviews /\ e.approvals = d.approvals
    BY <1>1, <1>2, SetTask
  <2> HIDE DEF e
  <2>2. Gated(e) /\ \A u \in Task : Stands(d, e, u)
    BY <1>1, <2>1, UntouchedGates
  <2>3. QED BY <1>1, <1>5, <2>1, <2>2, CommitTaskGates DEF GatesKept, d
<1>6. QED BY <1>3, <1>4, <1>5

\* The row a recorded launch writes, and the store with the launch r recorded.
LaunchRow(d, r) ==
    [r.row EXCEPT !.assignee = IF @ = NoSurface THEN d.tasks[r.task].assignee ELSE @]

Launched(d, r) == WithRun(d, r.task, LaunchRow(d, r), r.row.assignee)

LEMMA WithRunFrame ==
    ASSUME NEW d \in Store, NEW t \in Task, NEW row \in TaskRow,
           NEW s \in Surface \union {NoSurface}
    PROVE  /\ WithRun(d, t, row, s) \in Store
           /\ WithRun(d, t, row, s).reviews = d.reviews
           /\ WithRun(d, t, row, s).approvals = d.approvals
<1> DEFINE seq == Append(d.runs[t], [surface |-> s, status |-> "running"])
<1>1. d.runs[t] \in Seq(Run)
  BY StoreParts
<1>2. WithRun(d, t, row, s) = [d EXCEPT !.tasks = [d.tasks EXCEPT ![t] = row],
                                        !.runs = [d.runs EXCEPT ![t] = seq]]
  BY <1>1 DEF WithRun, Store
<1>3. seq \in Seq(Run)
  <2>1. [surface |-> s, status |-> "running"] \in Run
    BY DEF Run, RunStatus
  <2>2. QED BY <1>1, <2>1, AppendProperties
<1> HIDE DEF seq
<1>4. /\ [d.tasks EXCEPT ![t] = row] \in [Task -> TaskRow]
      /\ [d.runs EXCEPT ![t] = seq] \in [Task -> Seq(Run)]
  BY <1>1, <1>3, StoreParts
<1>5. QED BY <1>2, <1>4 DEF Store

LEMMA LaunchRowType ==
    ASSUME NEW d \in Store, NEW r \in WriteRequest
    PROVE  /\ r.task \in Task /\ LaunchRow(d, r) \in TaskRow
           /\ r.row.assignee \in Surface \union {NoSurface}
<1>1. r.task \in Task /\ r.row \in TaskRow /\ d.tasks[r.task] \in TaskRow
  BY StoreParts DEF WriteRequest
<1>2. QED BY <1>1 DEF LaunchRow, TaskRow

\* The row createAndRun saves.
RunningRow(row, s) == [row EXCEPT !.assignee = s, !.status = "in_progress"]

LEMMA RunningRowType ==
    ASSUME NEW row \in NewRow, NEW s \in Surface \union {NoSurface}
    PROVE  RunningRow(row, s) \in TaskRow
<1>1. row \in TaskRow
  BY LifecycleAssumption
<1>2. QED BY <1>1 DEF RunningRow, TaskRow, TaskStatus

LEMMA CreateAndRunGates ==
    ASSUME GateInv, NEW t \in Task, NEW row \in NewRow, NEW s \in Surface \union {NoSurface},
           CreateAndRun(t, row, s)
    PROVE  GatesKept
<1> DEFINE d == Synced(db)
           e == WithRun(d, t, RunningRow(row, s), s)
<1>1. d \in Store /\ Gated(d) /\ db \in Store /\ Gated(db)
  BY SyncedShape, SyncedGates, GatedIsOneOpenGate DEF GateInv, TypeOK
<1>2. Commit(e, {"tasks", "runs"})
  BY DEF CreateAndRun, RunningRow
<1> HIDE DEF d
<1>3. e \in Store /\ e.reviews = d.reviews /\ e.approvals = d.approvals
  BY <1>1, RunningRowType, WithRunFrame
<1> HIDE DEF e
<1>4. Gated(e) /\ \A u \in Task : Stands(d, e, u)
  BY <1>1, <1>3, UntouchedGates
<1>5. QED BY <1>1, <1>2, <1>3, <1>4, CommitGates DEF GatesKept, d

LEMMA RecordLaunchGates ==
    ASSUME GateInv, NEW c \in Launcher, RecordLaunch(c)
    PROVE  GatesKept
<1> DEFINE d == Synced(db)
           e == Launched(d, req[c])
<1>1. d \in Store /\ Gated(d) /\ db \in Store /\ Gated(db)
  BY SyncedShape, SyncedGates, GatedIsOneOpenGate DEF GateInv, TypeOK
<1>2. req[c] \in WriteRequest
  <2>1. req[c] \in Request /\ req[c].op = "launch"
    BY DEF RecordLaunch, GateInv, TypeOK, Client
  <2>2. QED BY <2>1 DEF Request, Idle, ClaimRequest, WriteRequest
<1>3. UNCHANGED db \/ CommitTask(e, {"tasks", "runs"})
  BY Zenon DEF RecordLaunch, Launched, LaunchRow
<1>4. CASE UNCHANGED db
  BY <1>1, <1>4, UntouchedGates DEF GatesKept, ParentsSynced, Gated, Stands, Kept, Exists
<1>5. CASE CommitTask(e, {"tasks", "runs"})
  <2> HIDE DEF d
  <2>1. e \in Store /\ e.reviews = d.reviews /\ e.approvals = d.approvals
    BY <1>1, <1>2, LaunchRowType, WithRunFrame DEF Launched
  <2> HIDE DEF e
  <2>2. Gated(e) /\ \A u \in Task : Stands(d, e, u)
    BY <1>1, <2>1, UntouchedGates
  <2>3. QED BY <1>1, <1>5, <2>1, <2>2, CommitTaskGates DEF GatesKept, d
<1>6. QED BY <1>3, <1>4, <1>5

-----------------------------------------------------------------------------
(* Requests in flight, and the theorems *)

LEMMA EditsAreRows ==
    ASSUME NEW d \in Store, NEW t \in Task, NEW row \in Edits(d, t)
    PROVE  row \in TaskRow
<1> DEFINE old == d.tasks[t]
<1>1. old \in TaskRow
  BY StoreParts
<1>2. \/ \E x \in FormStatus : row = [old EXCEPT !.status = x]
      \/ \E s \in Surface \union {NoSurface} : row = [old EXCEPT !.assignee = s]
      \/ \E m \in FormMode : row = [old EXCEPT !.mode = m]
      \/ \E b \in BOOLEAN : row = [old EXCEPT !.requiresReview = b]
      \/ \E D \in SUBSET Task : row = [old EXCEPT !.deps = D]
  BY DEF Edits
<1> HIDE DEF old
<1>3. CASE \E x \in FormStatus : row = [old EXCEPT !.status = x]
  BY <1>1, <1>3 DEF TaskRow
<1>4. CASE \E s \in Surface \union {NoSurface} : row = [old EXCEPT !.assignee = s]
  BY <1>1, <1>4 DEF TaskRow
<1>5. CASE \E m \in FormMode : row = [old EXCEPT !.mode = m]
  BY <1>1, <1>5 DEF TaskRow
<1>6. CASE \E b \in BOOLEAN : row = [old EXCEPT !.requiresReview = b]
  BY <1>1, <1>6 DEF TaskRow
<1>7. CASE \E D \in SUBSET Task : row = [old EXCEPT !.deps = D]
  BY <1>1, <1>7 DEF TaskRow
<1>8. QED BY <1>2, <1>3, <1>4, <1>5, <1>6, <1>7

\* A client's request is idle again or one of the three kinds.
LEMMA RequestStep ==
    ASSUME GateInv, [Next]_vars
    PROVE  req' \in [Client -> Request]
<1>d. Synced(db) \in Store /\ req \in [Client -> Request] /\ db \in Store
  BY SyncedShape DEF GateInv, TypeOK
<1>0. Idle \in Request
  BY DEF Request
<1>1. ASSUME NEW c \in Worker, NEW s \in Surface, NEW t \in Task, BeginClaim(c, s, t)
      PROVE  req' \in [Client -> Request]
  <2>1. [op |-> "claim", task |-> t, by |-> s, seen |-> db.surfaces[s]] \in Request
    BY <1>d, StoreParts DEF Request, ClaimRequest
  <2>2. QED BY <1>d, <1>1, <2>1 DEF BeginClaim
<1>2. ASSUME NEW c \in Editor, NEW t \in Task, BeginEdit(c, t)
      PROVE  req' \in [Client -> Request]
  <2>1. PICK row \in Edits(Synced(db), t) :
            req' = [req EXCEPT ![c] = [op |-> "edit", task |-> t, row |-> row]]
    BY <1>2 DEF BeginEdit
  <2>2. row \in TaskRow
    BY <1>d, EditsAreRows
  <2>3. [op |-> "edit", task |-> t, row |-> row] \in Request
    BY <2>2 DEF Request, WriteRequest
  <2>4. QED BY <1>d, <2>1, <2>3
<1>3. ASSUME NEW c \in Launcher, NEW t \in Task, NEW s \in Surface \union {NoSurface},
             BeginLaunch(c, t, s)
      PROVE  req' \in [Client -> Request]
  <2> DEFINE row == [Synced(db).tasks[t] EXCEPT !.assignee = s, !.status = "in_progress"]
  <2>1. row \in TaskRow
    <3>1. Synced(db).tasks[t] \in TaskRow
      BY <1>d, StoreParts
    <3>2. QED BY <3>1 DEF TaskRow, TaskStatus
  <2>2. req' = [req EXCEPT ![c] = [op |-> "launch", task |-> t, row |-> row]]
    BY <1>3 DEF BeginLaunch
  <2> HIDE DEF row
  <2>3. [op |-> "launch", task |-> t, row |-> row] \in Request
    BY <2>1 DEF Request, WriteRequest
  <2>4. QED BY <1>d, <2>2, <2>3
<1>4. ASSUME NEW c \in Client, req' = [req EXCEPT ![c] = Idle]
      PROVE  req' \in [Client -> Request]
  BY <1>d, <1>0, <1>4
<1>5. CASE UNCHANGED req
  BY <1>d, <1>5
<1>6. CASE \E t \in Task : DeleteTask(t) \/ Govern(t) \/ \E row \in NewRow : CreateTask(t, row)
  BY <1>5, <1>6 DEF DeleteTask, Govern, CreateTask, RequestReview, ApproveReview,
     RequestChanges, RequestApproval, ApproveApproval, RejectApproval
<1>7. CASE \E s \in Surface :
          \/ \E cap \in Capacity : \/ \E n \in RunCap : Register(s, cap, n)
                                   \/ \E st \in Presence : Heartbeat(s, st, cap)
          \/ \E t \in Task, st \in Report : ReportStatus(s, t, st)
  BY <1>5, <1>7 DEF Register, Heartbeat, ReportStatus
<1>8. CASE \E c \in Worker : \/ \E s \in Surface, t \in Task : BeginClaim(c, s, t)
                             \/ ClaimTask(c)
                             \/ RefuseClaim(c)
  BY <1>1, <1>4, <1>8 DEF ClaimTask, RefuseClaim, Client
<1>9. CASE \E c \in Editor : (\E t \in Task : BeginEdit(c, t)) \/ SaveEdit(c)
  BY <1>2, <1>4, <1>9 DEF SaveEdit, Client
<1>10. CASE \E c \in Launcher :
          \/ RecordLaunch(c)
          \/ \E t \in Task, s \in Surface \union {NoSurface} :
                BeginLaunch(c, t, s) \/ \E row \in NewRow : CreateAndRun(t, row, s)
  BY <1>3, <1>4, <1>5, <1>10 DEF RecordLaunch, CreateAndRun, Client
<1>11. CASE UNCHANGED vars
  BY <1>5, <1>11 DEF vars
<1>12. QED BY <1>6, <1>7, <1>8, <1>9, <1>10, <1>11 DEF Next

LEMMA GateStep ==
    ASSUME GateInv, [Next]_vars
    PROVE  GateInv' /\ GatesKept
<1>kept. GatesKept
  <2>1. CASE UNCHANGED db
    BY <2>1, GatedIsOneOpenGate
       DEF GateInv, TypeOK, GatesKept, ParentsSynced, Gated, Stands, Kept, Exists
  <2>2. CASE \E t \in Task : DeleteTask(t) \/ Govern(t) \/ \E row \in NewRow : CreateTask(t, row)
    BY <2>2, DeleteTaskGates, CreateTaskGates, RequestReviewGates, DecideReviewGates,
       RequestApprovalGates, DecideApprovalGates DEF Govern
  <2>3. CASE \E s \in Surface :
            \/ \E cap \in Capacity : \/ \E n \in RunCap : Register(s, cap, n)
                                     \/ \E st \in Presence : Heartbeat(s, st, cap)
            \/ \E t \in Task, st \in Report : ReportStatus(s, t, st)
    BY <2>3, RegisterGates, HeartbeatGates, ReportStatusGates
  <2>4. CASE \E c \in Worker : \/ \E s \in Surface, t \in Task : BeginClaim(c, s, t)
                               \/ ClaimTask(c)
                               \/ RefuseClaim(c)
    BY <2>1, <2>4, ClaimTaskGates DEF BeginClaim, RefuseClaim
  <2>5. CASE \E c \in Editor : (\E t \in Task : BeginEdit(c, t)) \/ SaveEdit(c)
    BY <2>1, <2>5, SaveEditGates DEF BeginEdit
  <2>6. CASE \E c \in Launcher :
            \/ RecordLaunch(c)
            \/ \E t \in Task, s \in Surface \union {NoSurface} :
                  BeginLaunch(c, t, s) \/ \E row \in NewRow : CreateAndRun(t, row, s)
    BY <2>1, <2>6, RecordLaunchGates, CreateAndRunGates DEF BeginLaunch
  <2>7. CASE UNCHANGED vars
    BY <2>1, <2>7 DEF vars
  <2>8. QED BY <2>1, <2>2, <2>3, <2>4, <2>5, <2>6, <2>7 DEF Next
<1>gates. OneOpenGate'
  BY <1>kept DEF GatesKept, Gated, OneOpenGate, OneLive, AtMostOne, OpenReviews, PendingApprovals
<1>1. QED BY <1>kept, <1>gates, RequestStep DEF GateInv, TypeOK, GatesKept

LEMMA GateInit == Init => GateInv
<1> SUFFICES ASSUME Init PROVE GateInv
  OBVIOUS
<1>1. NoTask \in TaskRow /\ NoTraffic \in SurfaceRow
  BY DEF NoTask, NoTraffic, TaskRow, SurfaceRow, NoRow, Mode
<1>2. /\ db.tasks = [t \in Task |-> NoTask] /\ db.runs = [t \in Task |-> <<>>]
      /\ db.reviews = [t \in Task |-> <<>>] /\ db.approvals = [t \in Task |-> <<>>]
      /\ db.surfaces = [s \in Surface |-> NoTraffic]
  BY DEF Init
<1>3. db \in Store
  BY <1>1, EmptySeq DEF Init, Store
<1>4. OneOpenGate
  BY <1>2 DEF OneOpenGate, AtMostOne, OpenReviews, PendingApprovals
<1>5. req \in [Client -> Request]
  BY DEF Init, Request
<1>6. QED BY <1>3, <1>4, <1>5 DEF GateInv, TypeOK

\* The database is well typed and queues every gate once.
THEOREM GateInvariant == Spec => []GateInv
<1>1. GateInv /\ [Next]_vars => GateInv'
  BY GateStep
<1>2. QED BY GateInit, <1>1, PTL DEF Spec

\* Types are right in every reachable state, for any tasks and surfaces.
THEOREM TypeCorrect == Spec => []TypeOK
<1>1. GateInv => TypeOK
  BY DEF GateInv
<1>2. QED BY GateInvariant, <1>1, PTL

\* A task never has two open reviews or two pending approvals, whoever edits,
\* claims, launches or decides, and however the gates are queued.
THEOREM OneOpenGateHolds == Spec => []OneOpenGate
<1>1. GateInv => OneOpenGate
  BY DEF GateInv
<1>2. QED BY GateInvariant, <1>1, PTL

\* Resolved reviews and approvals are never changed or dropped again short of
\* deletion.
THEOREM DecisionsAreFinalHolds == Spec => DecisionsAreFinal
<1>1. ASSUME GateInv, [Next]_vars
      PROVE  \A t \in Task :
                Exists(db', t) /\ Exists(db, t) =>
                  /\ \A i \in DOMAIN db.reviews[t] \ OpenReviews(db, t) :
                        i \in DOMAIN db'.reviews[t] /\ db'.reviews[t][i] = db.reviews[t][i]
                  /\ \A i \in DOMAIN db.approvals[t] \ PendingApprovals(db, t) :
                        i \in DOMAIN db'.approvals[t] /\ db'.approvals[t][i] = db.approvals[t][i]
  BY <1>1, GateStep DEF GatesKept, Stands, Kept, OpenReviews, PendingApprovals
<1>2. QED BY <1>1, GateInvariant, PTL DEF Spec, DecisionsAreFinal

\* The children of a workflow parent have no children of their own.
FlatFamilies == \A t \in Task : \A c \in Children[t] : Children[c] = {}

\* In flat families a parent that has just been brought up to date is done
\* only when its children are closed.
LEMMA SyncedParentCloses ==
    ASSUME FlatFamilies, NEW x \in Store, NEW t \in Task,
           SyncParents(x).tasks[t].status = "done", NEW c \in LiveChildren(SyncParents(x), t)
    PROVE  SyncParents(x).tasks[c].status \in {"done", "canceled"}
<1>1. c \in Task /\ c \in Children[t] /\ Exists(SyncParents(x), c)
  BY DEF LiveChildren
<1>2. c \in LiveChildren(x, t) /\ LiveChildren(x, c) = {}
  BY <1>1, SyncParentsShape DEF LiveChildren, FlatFamilies
<1>3. SyncParents(x).tasks[c] = x.tasks[c]
  BY <1>1, <1>2, SyncParentsShape
<1>4. Exists(x, t)
  <2>1. Exists(SyncParents(x), t)
    BY DEF Exists, TaskStatus
  <2>2. QED BY <2>1, SyncParentsShape
<1> DEFINE kids == {x.tasks[k].status : k \in LiveChildren(x, t)}
<1>5. ParentStatus(kids) = "done"
  BY <1>2, <1>4, SyncParentsShape
<1>6. x.tasks[c].status \in kids
  BY <1>2
<1> HIDE DEF kids
<1>7. kids \subseteq {"done", "canceled"}
  BY <1>5 DEF ParentStatus
<1>8. QED BY <1>3, <1>6, <1>7

\* A workflow parent is never saved as done while one of its children is open,
\* whatever the surfaces and the operators do, if families have one level.
THEOREM ParentsCloseLastHolds ==
    ASSUME FlatFamilies
    PROVE  Spec => []ParentsCloseLast
<1>1. Init => ParentsCloseLast
  <2> SUFFICES ASSUME Init PROVE ParentsCloseLast
    OBVIOUS
  <2>1. \A t \in Task : db.tasks[t].status = "unborn"
    BY DEF Init, NoTask
  <2>2. QED BY <2>1 DEF ParentsCloseLast
<1>2. GateInv /\ ParentsCloseLast /\ [Next]_vars => ParentsCloseLast'
  <2> SUFFICES ASSUME GateInv, ParentsCloseLast, [Next]_vars PROVE ParentsCloseLast'
    OBVIOUS
  <2>1. ParentsSynced
    BY GateStep DEF GatesKept
  <2>2. CASE db'.tasks = db.tasks
    BY <2>2 DEF ParentsCloseLast, LiveChildren, Exists
  <2>3. CASE \E x \in Store : db'.tasks = SyncParents(x).tasks
    <3>1. PICK x \in Store : db'.tasks = SyncParents(x).tasks
      BY <2>3
    <3>2. \A t \in Task : LiveChildren(db', t) = LiveChildren(SyncParents(x), t)
      BY <3>1 DEF LiveChildren, Exists
    <3>3. ASSUME NEW t \in Task, db'.tasks[t].status = "done", NEW c \in LiveChildren(db', t)
          PROVE  db'.tasks[c].status \in {"done", "canceled"}
      BY <3>1, <3>2, <3>3, SyncedParentCloses
    <3>4. QED BY <3>3 DEF ParentsCloseLast
  <2>4. QED BY <2>1, <2>2, <2>3 DEF ParentsSynced
<1>3. QED BY GateInvariant, <1>1, <1>2, PTL DEF Spec

=============================================================================
