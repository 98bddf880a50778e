----------------------------- MODULE V2CoreProofs -----------------------------
(***************************************************************************)
(* Proofs about the v2 core, for any rows, processes and statuses a row    *)
(* may be created with.  The argument: rows and evidence are only added    *)
(* (EvidenceGrows), so what a process found out before its write still     *)
(* holds at the write, except for the status it read (CallSound); and an   *)
(* artifact that is submitted has no verdict (Unjudged).                   *)
(***************************************************************************)
EXTENDS V2Core, TLAPS

USE V2Assumption

\* A recorded run belongs to a task.
RunOwned == \A r \in Run : run[r].status # Absent => run[r].task \in Task

\* What is known of a write about to be made: the rows exist, the transition
\* was allowed, and the evidence of a closure is there.
Sound(c) ==
    /\ c.at \in {"record", "check", "write"} => c.task \in Task
    /\ c.at \in {"check", "write"} => c.to \in TaskStatus
    /\ c.at = "finish" => c.run \in Run /\ run[c.run].status # Absent
    /\ c.at = "write" => Allowed(c.from, c.to) /\ (c.to = "done" => CanCloseDone(c.task))

CallSound == \A p \in Process : Sound(call[p])

\* An artifact that was never judged is not attached, submitted, or neither.
Unjudged ==
    \A x \in Artifact : artifact[x].status \in {Absent, "submitted"} =>
        ~\E v \in reviews : v.artifact = x /\ v.status \in {"approved", "rejected"}

\* A submitted artifact is covered by an acceptance only if it came after one.
Uncovered ==
    \A x \in Artifact : artifact[x].status = "submitted" =>
        x \in late \/ \A d \in accepted : ~Covers(d, x)

\* The inductive invariant.
IInv ==
    /\ TypeOK /\ RunOwned /\ CallSound
    /\ ClosedOnEvidence /\ AcceptedIsExplained /\ Unjudged /\ Uncovered

-----------------------------------------------------------------------------
(* Who writes what *)

LEMMA WritersOfTask ==
    ASSUME Next, task' # task
    PROVE  \/ \E t \in Task, status \in TaskStart : CreateTask(t, status)
           \/ \E p \in Process : WriteMove(p)
           \/ \E r \in Run, x \in Artifact : CompleteLifecycle(r, x)
BY ZenonT(40) DEF Next, Whole, Part, AddDependency, RecordRun, Attach, RecordReview, CheckMove,
             Crash, RecordLaunch, BeginComplete, WriteComplete, BeginLaunch, BeginMove,
             Accept, rows

LEMMA WritersOfRun ==
    ASSUME Next, run' # run
    PROVE  \/ \E r \in Run, t \in Task, status \in RunStart : RecordRun(r, t, status)
           \/ \E p \in Process, r \in Run : RecordLaunch(p, r)
           \/ \E p \in Process, status \in {"completed", "failed"} : WriteComplete(p, status)
           \/ \E r \in Run, x \in Artifact : CompleteLifecycle(r, x)
<1>1. ASSUME NEW t \in Worked PROVE t \in Task
  OBVIOUS
<1> QED
  BY <1>1, ZenonT(40) DEF Next, Whole, Part, CreateTask, AddDependency, Attach, RecordReview,
             CheckMove, WriteMove, Crash, BeginComplete, BeginLaunch, BeginMove, Accept, rows

LEMMA WritersOfOutputs ==
    ASSUME Next, <<artifact, reviews, accepted>>' # <<artifact, reviews, accepted>>
    PROVE  \/ \E t \in Task, x \in Artifact, r \in Run \union {None}, status \in ArtifactStart :
                 Attach(x, t, r, status)
           \/ \E t \in Task, x \in Artifact \union {None}, status \in Verdict :
                 RecordReview(t, x, status)
           \/ \E p \in Process, t \in Task, r \in Run \union {None}, closes \in BOOLEAN :
                 Accept(p, t, r, closes)
           \/ \E r \in Run, x \in Artifact : CompleteLifecycle(r, x)
<1>1. ASSUME NEW t \in Worked PROVE t \in Task
  OBVIOUS
<1> QED
  BY <1>1, ZenonT(40) DEF Next, Whole, Part, CreateTask, AddDependency, RecordRun, CheckMove,
             WriteMove, Crash, RecordLaunch, BeginComplete, WriteComplete, BeginLaunch,
             BeginMove, rows

\* Evidence, and what explains a status, is never taken back.
LEMMA EvidenceGrows ==
    ASSUME [Next]_vars
    PROVE  /\ reviews \subseteq reviews' /\ accepted \subseteq accepted'
           /\ declared \subseteq declared' /\ late \subseteq late'
<1>1. CASE Whole
  BY <1>1 DEF Whole, CreateTask, AddDependency, RecordRun, Attach, RecordReview, CompleteLifecycle
<1>2. ASSUME NEW p \in Process, Part(p)
      PROVE  /\ reviews' = reviews /\ declared' = declared /\ late' = late
             /\ accepted \subseteq accepted'
  BY <1>2 DEF Part, CheckMove, WriteMove, Crash, RecordLaunch, BeginComplete, WriteComplete,
              BeginLaunch, BeginMove, Accept, rows
<1> QED
  BY <1>1, <1>2 DEF Next, vars

LEMMA CanCloseDoneGrows ==
    ASSUME [Next]_vars, NEW t, CanCloseDone(t)
    PROVE  CanCloseDone(t)'
BY EvidenceGrows DEF CanCloseDone, Approved, IsAccepted

-----------------------------------------------------------------------------
(* Types *)

LEMMA WriteType ==
    ASSUME TypeOK, NEW p \in Process, NEW t \in Task, NEW to \in TaskStatus, Write(p, t, to)
    PROVE  call' \in [Process -> Call]
<1>1. [NoCall EXCEPT !.at = "write", !.task = t, !.to = to, !.from = task[t]] \in Call
  BY DEF TypeOK, NoCall, Call
<1>2. \E c \in Call : call' = [call EXCEPT ![p] = c]
  BY <1>1, Zenon DEF Write
<1> QED
  BY <1>2 DEF TypeOK

LEMMA TypeStep ==
    ASSUME TypeOK, RunOwned, CallSound, [Next]_vars
    PROVE  TypeOK'
<1> USE DEF TypeOK, TaskStatus, RunStatus, ArtifactStatus, ReviewStatus, Absent, Call, NoCall
<1>1. ASSUME NEW t \in Task, NEW status \in TaskStart, CreateTask(t, status) PROVE TypeOK'
  BY <1>1 DEF CreateTask
<1>2. ASSUME NEW t \in Worked, NEW u \in Task, AddDependency(t, u) PROVE TypeOK'
  BY <1>2 DEF AddDependency
<1>3. ASSUME NEW t \in Worked, NEW r \in Run, NEW status \in RunStart, RecordRun(r, t, status)
      PROVE  TypeOK'
  BY <1>3 DEF RecordRun
<1>4. ASSUME NEW t \in Worked, NEW x \in Artifact, NEW r \in Run \union {None},
             NEW status \in ArtifactStart, Attach(x, t, r, status)
      PROVE  TypeOK'
  BY <1>4 DEF Attach
<1>5. ASSUME NEW t \in Worked, NEW x \in Artifact \union {None}, NEW status \in Verdict,
             RecordReview(t, x, status)
      PROVE  TypeOK'
  BY <1>5 DEF RecordReview, Reviewed
<1>accept. ASSUME NEW d PROVE AcceptedBy(d) \in [Artifact -> [status : ArtifactStatus \union {Absent},
                                  task : Task \union {None}, run : Run \union {None}]]
  BY DEF AcceptedBy
<1>6. ASSUME NEW r \in Run, NEW x \in Artifact, CompleteLifecycle(r, x) PROVE TypeOK'
  <2>1. run[r].task \in Task
    BY <1>6 DEF CompleteLifecycle, RunOwned
  <2> QED
    BY <1>6, <2>1, <1>accept DEF CompleteLifecycle
<1>7. ASSUME NEW p \in Process, CheckMove(p) PROVE TypeOK'
  <2>1. call[p].task \in Task /\ call[p].to \in TaskStatus
    BY <1>7 DEF CheckMove, CallSound, Sound
  <2>2. call' = [call EXCEPT ![p] = NoCall] => call' \in [Process -> Call]
    OBVIOUS
  <2>3. call' \in [Process -> Call]
    <3> HIDE DEF TypeOK, Call, NoCall
    <3> QED
      BY <1>7, <2>1, <2>2, WriteType DEF CheckMove
  <2> QED
    BY <1>7, <2>3 DEF CheckMove, rows
<1>8. ASSUME NEW p \in Process, WriteMove(p) PROVE TypeOK'
  BY <1>8 DEF WriteMove
<1>9. ASSUME NEW p \in Process, Crash(p) PROVE TypeOK'
  BY <1>9 DEF Crash, rows
<1>10. ASSUME NEW p \in Process, NEW r \in Run, RecordLaunch(p, r) PROVE TypeOK'
  BY <1>10 DEF RecordLaunch
<1>11. ASSUME NEW p \in Process, NEW r \in Run, BeginComplete(p, r) PROVE TypeOK'
  BY <1>11 DEF BeginComplete, rows
<1>12. ASSUME NEW p \in Process, NEW status \in {"completed", "failed"}, WriteComplete(p, status)
       PROVE  TypeOK'
  <2>1. run' \in [Run -> [status : RunStatus \union {Absent}, task : Task \union {None}]]
    BY <1>12 DEF WriteComplete, CallSound, Sound
  <2>2. call' \in [Process -> Call]
    BY <1>12 DEF WriteComplete
  <2> QED
    BY <1>12, <2>1, <2>2 DEF WriteComplete
<1>13. ASSUME NEW p \in Process, NEW t \in Worked, BeginLaunch(p, t) PROVE TypeOK'
  BY <1>13 DEF BeginLaunch, rows
<1>14. ASSUME NEW p \in Process, NEW t \in Worked, NEW to \in Target, BeginMove(p, t, to)
       PROVE  TypeOK'
  <2>1. call' \in [Process -> Call]
    <3> HIDE DEF TypeOK, Call
    <3> QED
      BY <1>14, WriteType DEF BeginMove, TaskStatus
  <2> QED
    BY <1>14, <2>1 DEF BeginMove, rows
<1>15. ASSUME NEW p \in Process, NEW t \in Worked, NEW r \in Run \union {None},
              NEW closes \in BOOLEAN, Accept(p, t, r, closes)
       PROVE  TypeOK'
  <2>1. [NoCall EXCEPT !.at = "check", !.task = t, !.to = "done"] \in Call
    OBVIOUS
  <2>2. call' \in [Process -> Call]
    BY <1>15, <2>1 DEF Accept
  <2>3. [task |-> t, run |-> r] \in [task : Task, run : Run \union {None}]
    OBVIOUS
  <2>4. accepted' \in SUBSET [task : Task, run : Run \union {None}]
    BY <1>15, <2>3 DEF Accept
  <2> QED
    BY <1>15, <2>2, <2>4, <1>accept DEF Accept
<1>16. CASE UNCHANGED vars
  BY <1>16 DEF vars
<1>17. ASSUME Next PROVE TypeOK'
  <2> HIDE DEF TypeOK
  <2>1. CASE Whole
    BY <2>1, <1>1, <1>2, <1>3, <1>4, <1>5, <1>6, Zenon DEF Whole
  <2>2. ASSUME NEW p \in Process, Part(p) PROVE TypeOK'
    <3>1. CASE \E t \in Worked : \E r \in Run \union {None}, closes \in BOOLEAN :
                  Accept(p, t, r, closes)
      BY <3>1, <1>15, SMT
    <3> QED
      BY <2>2, <3>1, <1>7, <1>8, <1>9, <1>10, <1>11, <1>12, <1>13, <1>14, Zenon DEF Part
  <2> QED
    BY <1>17, <2>1, <2>2 DEF Next
<1> QED
  BY <1>16, <1>17

LEMMA RunOwnedStep ==
    ASSUME TypeOK, RunOwned, CallSound, [Next]_vars
    PROVE  RunOwned'
<1>1. CASE run' = run
  BY <1>1 DEF RunOwned
<1>2. ASSUME Next, run' # run PROVE RunOwned'
  <2>1. ASSUME NEW r \in Run, NEW t \in Task, NEW status \in RunStart, RecordRun(r, t, status)
        PROVE  RunOwned'
    BY <2>1 DEF RecordRun, RunOwned, TypeOK
  <2>2. ASSUME NEW p \in Process, NEW r \in Run, RecordLaunch(p, r) PROVE RunOwned'
    BY <2>2 DEF RecordLaunch, RunOwned, CallSound, Sound, TypeOK
  <2>3. ASSUME NEW p \in Process, NEW status \in {"completed", "failed"}, WriteComplete(p, status)
        PROVE  RunOwned'
    <3>1. call[p].run \in Run /\ run[call[p].run].task \in Task
      BY <2>3 DEF WriteComplete, RunOwned, CallSound, Sound
    <3>2. \A r \in Run : run'[r].task = run[r].task
      BY <2>3 DEF WriteComplete, TypeOK
    <3>3. \A r \in Run : r # call[p].run => run'[r] = run[r]
      BY <2>3 DEF WriteComplete, TypeOK
    <3> QED
      BY <3>1, <3>2, <3>3 DEF RunOwned
  <2>4. ASSUME NEW r \in Run, NEW x \in Artifact, CompleteLifecycle(r, x) PROVE RunOwned'
    BY <2>4 DEF CompleteLifecycle, RunOwned, TypeOK, Absent
  <2> QED
    BY <1>2, <2>1, <2>2, <2>3, <2>4, WritersOfRun, Zenon
<1> QED
  BY <1>1, <1>2 DEF vars

\* A recorded run stays recorded.
LEMMA RunsStay ==
    ASSUME TypeOK, [Next]_vars, NEW r \in Run, run[r].status # Absent
    PROVE  run'[r].status # Absent
<1>1. CASE run' = run
  BY <1>1
<1>2. ASSUME Next, run' # run PROVE run'[r].status # Absent
  <2>1. ASSUME NEW q \in Run, NEW t \in Task, NEW status \in RunStart, RecordRun(q, t, status)
        PROVE  run'[r].status # Absent
    BY <2>1 DEF RecordRun, TypeOK
  <2>2. ASSUME NEW p \in Process, NEW q \in Run, RecordLaunch(p, q) PROVE run'[r].status # Absent
    BY <2>2 DEF RecordLaunch, TypeOK
  <2>3. ASSUME NEW p \in Process, NEW status \in {"completed", "failed"}, WriteComplete(p, status)
        PROVE  run'[r].status # Absent
    BY <2>3 DEF WriteComplete, TypeOK, Absent
  <2>4. ASSUME NEW q \in Run, NEW x \in Artifact, CompleteLifecycle(q, x)
        PROVE  run'[r].status # Absent
    BY <2>4 DEF CompleteLifecycle, TypeOK, Absent
  <2> QED
    BY <1>2, <2>1, <2>2, <2>3, <2>4, WritersOfRun, Zenon
<1> QED
  BY <1>1, <1>2 DEF vars

LEMMA SoundStays ==
    ASSUME TypeOK, [Next]_vars, NEW c, Sound(c)
    PROVE  Sound(c)'
BY RunsStay, CanCloseDoneGrows DEF Sound

LEMMA CallSoundStep ==
    ASSUME TypeOK, CallSound, [Next]_vars
    PROVE  CallSound'
<1>1. ASSUME NEW p \in Process, NEW c \in Call, Sound(c)', call' = [call EXCEPT ![p] = c]
      PROVE  CallSound'
  BY <1>1, SoundStays DEF CallSound, TypeOK
<1>2. CASE call' = call
  BY <1>2, SoundStays DEF CallSound
<1>no. NoCall \in Call /\ Sound(NoCall)'
  BY DEF NoCall, Call, Sound
<1> USE DEF NoCall, Call
<1>3. ASSUME NEW p \in Process, NEW t \in Task, NEW to \in TaskStatus, MayMove(t, to), Write(p, t, to)
      PROVE  CallSound'
  <2>1. PICK c \in Call : c = [NoCall EXCEPT !.at = "write", !.task = t, !.to = to, !.from = task[t]]
    BY DEF TypeOK
  <2>2. Sound(c)
    BY <1>3, <2>1 DEF MayMove, Sound
  <2> QED
    BY <1>1, <1>3, <2>1, <2>2, SoundStays DEF Write
<1>4. ASSUME NEW p \in Process, CheckMove(p) PROVE CallSound'
  <2>1. call[p].task \in Task /\ call[p].to \in TaskStatus
    BY <1>4 DEF CheckMove, CallSound, Sound
  <2> QED
    BY <1>1, <1>3, <1>4, <1>no, <2>1 DEF CheckMove
<1>5. ASSUME NEW p \in Process, WriteMove(p) PROVE CallSound'
  BY <1>1, <1>5, <1>no DEF WriteMove
<1>6. ASSUME NEW p \in Process, Crash(p) PROVE CallSound'
  BY <1>1, <1>6, <1>no DEF Crash
<1>7. ASSUME NEW p \in Process, NEW r \in Run, RecordLaunch(p, r) PROVE CallSound'
  <2>1. call[p].task \in Task
    BY <1>7 DEF RecordLaunch, CallSound, Sound
  <2>2. PICK c \in Call : c = [NoCall EXCEPT !.at = "check", !.task = call[p].task,
                                            !.to = "in_progress"]
    BY <2>1 DEF TaskStatus
  <2>3. Sound(c)
    BY <2>1, <2>2 DEF TaskStatus, Sound
  <2>4. call' = [call EXCEPT ![p] = c] \/ call' = [call EXCEPT ![p] = NoCall]
    BY <1>7, <2>2 DEF RecordLaunch
  <2> QED
    BY <1>1, <1>no, <2>3, <2>4, SoundStays
<1>8. ASSUME NEW p \in Process, NEW r \in Run, BeginComplete(p, r) PROVE CallSound'
  <2>1. PICK c \in Call : c = [NoCall EXCEPT !.at = "finish", !.run = r]
    OBVIOUS
  <2>2. run[r].status # Absent
    BY <1>8 DEF BeginComplete, Absent
  <2>3. Sound(c)
    BY <2>1, <2>2 DEF Sound
  <2> QED
    BY <1>1, <1>8, <2>1, <2>3, SoundStays DEF BeginComplete
<1>9. ASSUME NEW p \in Process, NEW status \in {"completed", "failed"}, WriteComplete(p, status)
      PROVE  CallSound'
  BY <1>1, <1>9, <1>no DEF WriteComplete
<1>10. ASSUME NEW p \in Process, NEW t \in Task, BeginLaunch(p, t) PROVE CallSound'
  <2>1. PICK c \in Call : c = [NoCall EXCEPT !.at = "record", !.task = t, !.from = task[t]]
    BY DEF TypeOK
  <2>2. Sound(c)
    BY <2>1 DEF Sound
  <2> QED
    BY <1>1, <1>10, <2>1, <2>2, SoundStays DEF BeginLaunch
<1>11. ASSUME NEW p \in Process, NEW t \in Task, NEW to \in TaskStatus, BeginMove(p, t, to)
       PROVE  CallSound'
  BY <1>3, <1>11 DEF BeginMove
<1>12. ASSUME NEW p \in Process, NEW t \in Task, NEW r \in Run \union {None},
              NEW closes \in BOOLEAN, Accept(p, t, r, closes)
       PROVE  CallSound'
  <2>1. PICK c \in Call : c = [NoCall EXCEPT !.at = "check", !.task = t, !.to = "done"]
    BY DEF TaskStatus
  <2>2. Sound(c)
    BY <2>1 DEF TaskStatus, Sound
  <2> QED
    BY <1>1, <1>2, <1>12, <2>1, <2>2, SoundStays DEF Accept
<1> QED
  <2> USE <1>2, <1>4, <1>5, <1>6, <1>7, <1>8, <1>9, <1>10, <1>11, <1>12
  <2>1. CASE Whole
    BY <2>1, Zenon DEF Whole, CreateTask, AddDependency, RecordRun, Attach, RecordReview,
                       CompleteLifecycle
  <2>2. ASSUME NEW p \in Process, Part(p) PROVE CallSound'
    <3>1. CASE \E t \in Worked : \E r \in Run \union {None}, closes \in BOOLEAN :
                  Accept(p, t, r, closes)
      BY <3>1, SMT
    <3>2. CASE \E t \in Worked, to \in Target : BeginMove(p, t, to)
      BY <3>2, SMT
    <3> QED
      BY <2>2, <3>1, <3>2, Zenon DEF Part
  <2> QED
    BY <2>1, <2>2 DEF Next, vars

-----------------------------------------------------------------------------
(* Tasks *)

LEMMA EvidenceStep ==
    ASSUME TypeOK, CallSound, ClosedOnEvidence, [Next]_vars
    PROVE  ClosedOnEvidence'
<1> SUFFICES ASSUME NEW t \in Task, task'[t] = "done"
             PROVE  (t \in declared \/ CanCloseDone(t))'
  BY DEF ClosedOnEvidence, CanCloseDone
<1>1. CASE task[t] = "done"
  BY <1>1, EvidenceGrows, CanCloseDoneGrows DEF ClosedOnEvidence, CanCloseDone
<1>2. CASE task[t] # "done"
  <2>1. ASSUME NEW u \in Task, NEW status \in TaskStart, CreateTask(u, status)
        PROVE  t \in declared'
    BY <1>2, <2>1 DEF CreateTask, TypeOK
  <2>2. ASSUME NEW p \in Process, WriteMove(p) PROVE CanCloseDone(t)'
    <3>1. call[p].task = t /\ call[p].to = "done"
      BY <1>2, <2>2 DEF WriteMove, TypeOK
    <3>2. CanCloseDone(t)
      BY <3>1, <2>2 DEF WriteMove, CallSound, Sound
    <3> QED
      BY <3>2, CanCloseDoneGrows
  <2>3. ASSUME NEW r \in Run, NEW x \in Artifact, CompleteLifecycle(r, x) PROVE CanCloseDone(t)'
    <3>1. t = run[r].task
      BY <1>2, <2>3 DEF CompleteLifecycle, TypeOK
    <3>2. /\ [task |-> t, artifact |-> x, status |-> "approved"] \in reviews'
          /\ [task |-> t, run |-> r] \in accepted'
      BY <2>3, <3>1 DEF CompleteLifecycle
    <3> QED
      BY <3>2 DEF CanCloseDone, Approved, IsAccepted
  <2>4. Next /\ task' # task
    BY <1>2 DEF vars
  <2> QED
    BY <2>1, <2>2, <2>3, <2>4, WritersOfTask
<1> QED
  BY <1>1, <1>2

LEMMA FinalStep ==
    ASSUME TypeOK, CallSound, [Next]_vars, NEW t \in Task, task[t] \in Final, task'[t] # task[t]
    PROVE  \E p \in Process :
              call[p].at = "write" /\ call[p].task = t /\ call[p].from \notin Final
<1>1. ASSUME NEW u \in Task, NEW status \in TaskStart, CreateTask(u, status) PROVE FALSE
  BY <1>1 DEF CreateTask, TaskExists, TypeOK, Final, Absent
<1>2. ASSUME NEW p \in Process, WriteMove(p)
      PROVE  call[p].at = "write" /\ call[p].task = t /\ call[p].from \notin Final
  <2>1. call[p].at = "write" /\ call[p].task = t
    BY <1>2 DEF WriteMove, TypeOK
  <2>2. Allowed(call[p].from, call[p].to)
    BY <2>1 DEF CallSound, Sound
  <2> QED
    BY <2>1, <2>2 DEF Allowed, Final
<1>3. ASSUME NEW r \in Run, NEW x \in Artifact, CompleteLifecycle(r, x) PROVE FALSE
  BY <1>3 DEF CompleteLifecycle, TypeOK, Final
<1>4. Next /\ task' # task
  BY DEF vars
<1> QED
  BY <1>1, <1>2, <1>3, <1>4, WritersOfTask, Zenon

-----------------------------------------------------------------------------
(* Artifacts *)

LEMMA ExplainedStep ==
    ASSUME TypeOK, AcceptedIsExplained, [Next]_vars
    PROVE  AcceptedIsExplained'
<1> SUFFICES ASSUME NEW x \in Artifact, artifact'[x].status = "accepted"
             PROVE  \/ x \in declared'
                    \/ \E v \in reviews' : v.artifact = x /\ v.status = "approved"
                    \/ \E d \in accepted' :
                          d.task = artifact'[x].task /\ d.run \in {None, artifact'[x].run}
  BY DEF AcceptedIsExplained
<1>1. CASE artifact'[x] = artifact[x]
  BY <1>1, EvidenceGrows DEF AcceptedIsExplained
<1>2. CASE artifact'[x] # artifact[x]
  <2>1. ASSUME NEW t \in Task, NEW y \in Artifact, NEW r \in Run \union {None},
               NEW status \in ArtifactStatus, Attach(y, t, r, status)
        PROVE  x \in declared'
    BY <1>2, <2>1 DEF Attach, TypeOK
  <2>2. ASSUME NEW t \in Task, NEW y \in Artifact \union {None}, NEW status \in Verdict,
               RecordReview(t, y, status)
        PROVE  \E v \in reviews' : v.artifact = x /\ v.status = "approved"
    <3>1. y = x /\ status = "approved"
      BY <1>2, <2>2 DEF RecordReview, Reviewed, TypeOK
    <3>2. [task |-> t, artifact |-> y, status |-> status] \in reviews'
      BY <2>2 DEF RecordReview
    <3> QED
      BY <3>1, <3>2
  <2>3. ASSUME NEW d \in accepted', artifact'[x] = AcceptedBy(d)[x]
        PROVE  \E e \in accepted' :
                  e.task = artifact'[x].task /\ e.run \in {None, artifact'[x].run}
    <3>1. artifact'[x] = [artifact[x] EXCEPT !.status = "accepted"] /\ Covers(d, x)
      BY <1>2, <2>3 DEF AcceptedBy
    <3>2. artifact'[x].task = artifact[x].task /\ artifact'[x].run = artifact[x].run
      BY <3>1 DEF TypeOK
    <3> QED
      BY <3>1, <3>2 DEF Covers
  <2>4. ASSUME NEW p \in Process, NEW t \in Task, NEW r \in Run \union {None},
               NEW closes \in BOOLEAN, Accept(p, t, r, closes)
        PROVE  \E d \in accepted' :
                  d.task = artifact'[x].task /\ d.run \in {None, artifact'[x].run}
    BY <2>3, <2>4 DEF Accept
  <2>5. ASSUME NEW r \in Run, NEW y \in Artifact, CompleteLifecycle(r, y)
        PROVE  \/ \E v \in reviews' : v.artifact = x /\ v.status = "approved"
               \/ \E d \in accepted' :
                     d.task = artifact'[x].task /\ d.run \in {None, artifact'[x].run}
    <3>1. CASE x = y
      <4>1. [task |-> run[r].task, artifact |-> y, status |-> "approved"] \in reviews'
        BY <2>5 DEF CompleteLifecycle
      <4> QED
        BY <3>1, <4>1
    <3>2. CASE x # y
      <4>1. PICK d \in accepted' : artifact'[x] = AcceptedBy(d)[x]
        BY <2>5, <3>2 DEF CompleteLifecycle, AcceptedBy
      <4> QED
        BY <4>1, <2>3
    <3> QED
      BY <3>1, <3>2
  <2>6. Next /\ <<artifact, reviews, accepted>>' # <<artifact, reviews, accepted>>
    BY <1>2 DEF vars
  <2> QED
    BY <2>1, <2>2, <2>4, <2>5, <2>6, WritersOfOutputs
<1> QED
  BY <1>1, <1>2

LEMMA UnjudgedStep ==
    ASSUME TypeOK, Unjudged, [Next]_vars
    PROVE  Unjudged'
<1> SUFFICES ASSUME NEW x \in Artifact, artifact'[x].status \in {Absent, "submitted"},
                    NEW v \in reviews', v.artifact = x, v.status \in {"approved", "rejected"}
             PROVE  FALSE
  BY DEF Unjudged
<1> USE DEF Absent
<1>1. CASE <<artifact, reviews, accepted>>' = <<artifact, reviews, accepted>>
  BY <1>1 DEF Unjudged
<1>2. CASE <<artifact, reviews, accepted>>' # <<artifact, reviews, accepted>>
  <2>1. ASSUME NEW t \in Task, NEW y \in Artifact, NEW r \in Run \union {None},
               NEW status \in ArtifactStatus, Attach(y, t, r, status)
        PROVE  FALSE
    BY <2>1 DEF Attach, TypeOK, Unjudged
  <2>2. ASSUME NEW t \in Task, NEW y \in Artifact \union {None}, NEW status \in Verdict,
               RecordReview(t, y, status)
        PROVE  FALSE
    <3>1. CASE v \in reviews
      <4>1. artifact[x].status \notin {Absent, "submitted"}
        BY <3>1 DEF Unjudged
      <4>2. artifact'[x].status \in {artifact[x].status, "accepted", "rejected"}
        BY <2>2 DEF RecordReview, Reviewed, TypeOK
      <4> QED
        BY <4>1, <4>2
    <3>2. CASE v \notin reviews
      <4>1. v = [task |-> t, artifact |-> y, status |-> status]
        BY <2>2, <3>2 DEF RecordReview
      <4>2. y = x /\ status \in {"approved", "rejected"}
        BY <4>1
      <4>3. artifact'[x].status \in {"accepted", "rejected"}
        BY <2>2, <4>2 DEF RecordReview, Reviewed, TypeOK
      <4> QED
        BY <4>3
    <3> QED
      BY <3>1, <3>2
  <2>3. ASSUME NEW p \in Process, NEW t \in Task, NEW r \in Run \union {None},
               NEW closes \in BOOLEAN, Accept(p, t, r, closes)
        PROVE  FALSE
    <3>1. artifact[x].status \in {Absent, "submitted"}
      BY <2>3 DEF Accept, AcceptedBy, TypeOK
    <3> QED
      BY <2>3, <3>1 DEF Accept, Unjudged
  <2>4. ASSUME NEW r \in Run, NEW y \in Artifact, CompleteLifecycle(r, y) PROVE FALSE
    <3>1. x # y
      BY <2>4 DEF CompleteLifecycle, AcceptedBy
    <3>2. artifact[x].status \in {Absent, "submitted"}
      BY <2>4, <3>1 DEF CompleteLifecycle, AcceptedBy, TypeOK
    <3>3. v \in reviews
      BY <2>4, <3>1 DEF CompleteLifecycle
    <3> QED
      BY <3>2, <3>3 DEF Unjudged
  <2>5. Next
    BY <1>2 DEF vars
  <2> QED
    BY <1>2, <2>1, <2>2, <2>3, <2>4, <2>5, WritersOfOutputs
<1> QED
  BY <1>1, <1>2

LEMMA UncoveredStep ==
    ASSUME TypeOK, Uncovered, [Next]_vars
    PROVE  Uncovered'
<1> SUFFICES ASSUME NEW x \in Artifact, artifact'[x].status = "submitted", x \notin late',
                    NEW d \in accepted', Covers(d, x)'
             PROVE  FALSE
  BY DEF Uncovered
<1>1. CASE <<artifact, reviews, accepted>>' = <<artifact, reviews, accepted>>
  BY <1>1, EvidenceGrows DEF Uncovered, Covers
<1>2. CASE <<artifact, reviews, accepted>>' # <<artifact, reviews, accepted>>
  <2>kept. ASSUME artifact'[x] = artifact[x], d \in accepted PROVE FALSE
    BY <2>kept, EvidenceGrows DEF Uncovered, Covers
  <2>1. ASSUME NEW t \in Task, NEW y \in Artifact, NEW r \in Run \union {None},
               NEW status \in ArtifactStatus, Attach(y, t, r, status)
        PROVE  FALSE
    <3>1. d \in accepted /\ artifact'[x] # artifact[x] => x = y
      BY <2>1 DEF Attach, TypeOK
    <3>2. CASE x = y
      <4>1. ~IsAccepted(t) /\ artifact'[x].task = t
        BY <2>1, <3>2 DEF Attach, TypeOK
      <4> QED
        BY <2>1, <4>1 DEF Attach, IsAccepted, Covers
    <3> QED
      BY <2>1, <2>kept, <3>1, <3>2 DEF Attach
  <2>2. ASSUME NEW t \in Task, NEW y \in Artifact \union {None}, NEW status \in Verdict,
               RecordReview(t, y, status)
        PROVE  FALSE
    <3>1. artifact'[x] = artifact[x]
      BY <2>2 DEF RecordReview, Reviewed, TypeOK
    <3> QED
      BY <2>2, <2>kept, <3>1 DEF RecordReview
  <2>3. ASSUME NEW e, accepted' = accepted \union {e}, artifact'[x] = AcceptedBy(e)[x]
        PROVE  FALSE
    <3>1. artifact'[x] = artifact[x] /\ ~Covers(e, x)
      BY <2>3 DEF AcceptedBy, TypeOK
    <3>2. d # e
      BY <3>1 DEF Covers
    <3> QED
      BY <2>3, <2>kept, <3>1, <3>2
  <2>4. ASSUME NEW p \in Process, NEW t \in Task, NEW r \in Run \union {None},
               NEW closes \in BOOLEAN, Accept(p, t, r, closes)
        PROVE  FALSE
    BY <2>3, <2>4 DEF Accept
  <2>5. ASSUME NEW r \in Run, NEW y \in Artifact, CompleteLifecycle(r, y) PROVE FALSE
    <3>1. x # y
      BY <2>5 DEF CompleteLifecycle, AcceptedBy
    <3>2. PICK e : e = [task |-> run[r].task, run |-> r]
      OBVIOUS
    <3>3. artifact'[x] = AcceptedBy(e)[x] /\ accepted' = accepted \union {e}
      BY <2>5, <3>1, <3>2 DEF CompleteLifecycle, AcceptedBy
    <3> QED
      BY <2>3, <3>3
  <2>6. Next
    BY <1>2 DEF vars
  <2> QED
    BY <1>2, <2>1, <2>2, <2>4, <2>5, <2>6, WritersOfOutputs
<1> QED
  BY <1>1, <1>2

-----------------------------------------------------------------------------
(* The theorems *)

LEMMA Initially == ASSUME Init PROVE IInv
BY DEF Init, IInv, TypeOK, RunOwned, CallSound, Sound, NoCall, Call, ClosedOnEvidence,
       AcceptedIsExplained, Unjudged, Uncovered, Absent

LEMMA Inductive == ASSUME IInv, [Next]_vars PROVE IInv'
BY TypeStep, RunOwnedStep, CallSoundStep, EvidenceStep, ExplainedStep, UnjudgedStep,
   UncoveredStep DEF IInv

LEMMA Invariance == Spec => []IInv
<1> QED
  BY Initially, Inductive, PTL DEF Spec

\* Every row has its type, and its foreign keys are rows or none.
THEOREM TypeCorrect == Spec => []TypeOK
<1>1. IInv => TypeOK
  BY DEF IInv
<1> QED
  BY <1>1, Invariance, PTL

\* However reviews, acceptances, transitions and crashes of several processes
\* interleave, a task is closed as done on evidence (assertTaskCanCloseDone).
THEOREM ClosedOnEvidenceHolds == Spec => []ClosedOnEvidence
<1>1. IInv => ClosedOnEvidence
  BY DEF IInv
<1> QED
  BY <1>1, Invariance, PTL

\* A final status changes only under a transition that was checked before the
\* task became final (transitionV2CoreTaskStatus).
THEOREM ClosedStaysClosedHolds == Spec => ClosedStaysClosed
<1>1. IInv /\ [Next]_vars =>
        [\A t \in Task : task[t] \in Final /\ task'[t] # task[t] =>
            \E p \in Process :
                call[p].at = "write" /\ call[p].task = t /\ call[p].from \notin Final]_vars
  BY FinalStep DEF IInv
<1> QED
  BY <1>1, Invariance, PTL DEF Spec, ClosedStaysClosed

\* An accepted artifact was attached so, approved, or covered by an acceptance
\* (markReviewedArtifactStatus, markAcceptedTaskArtifacts).
THEOREM AcceptedIsExplainedHolds == Spec => []AcceptedIsExplained
<1>1. IInv => AcceptedIsExplained
  BY DEF IInv
<1> QED
  BY <1>1, Invariance, PTL

\* A submitted artifact is in the list of unreviewed outputs unless it came
\* after an acceptance of its task or only other runs of the task were accepted
\* (readV2CoreUnreviewedOutputs).
THEOREM NoOutputIsForgottenHolds == Spec => []NoOutputIsForgotten
<1>1. IInv => NoOutputIsForgotten
  <2> SUFFICES ASSUME IInv, NEW x \in Artifact, artifact[x].status = "submitted", ~Unreviewed(x),
                      x \notin late
               PROVE  /\ IsAccepted(artifact[x].task)
                      /\ \A d \in accepted :
                            d.task = artifact[x].task => d.run \notin {None, artifact[x].run}
    BY DEF NoOutputIsForgotten
  <2>1. IsAccepted(artifact[x].task)
    BY DEF Unreviewed, IInv, Unjudged
  <2> QED
    BY <2>1 DEF IInv, Uncovered, Covers
<1> QED
  BY <1>1, Invariance, PTL
=============================================================================
