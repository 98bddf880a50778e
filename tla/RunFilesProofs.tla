----------------------------- MODULE RunFilesProofs -----------------------------
(***************************************************************************)
(* Proofs about the files of one run, for any operators, lines and faults. *)
(* The state that a step finds in a file was written by another process,   *)
(* perhaps long ago.  What can be said of it is Told: it reads as running, *)
(* with a pid to probe, or as ended, and then the child is over or an      *)
(* operator wrote it.                                                      *)
(***************************************************************************)
EXTENDS RunFiles, TLAPS

-----------------------------------------------------------------------------
(* The invariant *)

Touched == "touched" \in hist
Given   == hist \intersect {"touched", "silent"} # {}

Before == {"off", "boot", "queued", "ready"}
After  == {"marked", "listening", "merging", "closed", "exiting"}
Over   == {"merging", "closed", "exiting", "exited"}

Told(s) ==
    \/ s.status = "running" /\ s.pid /\ child.life # "none"
    \/ s.status \in EndStatus /\ child.life \in Exit
    \/ s.status \in {"failed", "canceled"} /\ Touched

\* The child is started by the runner and ends before the runner reads its exit.
ChildFits ==
    /\ runner.at \in Before => child.life = "none"
    /\ runner.at \in After \union {"spawned", "exited"} => child.life # "none"
    /\ runner.at \in Over => child.life \in Exit
    /\ aged => runner.at = "gone"

\* state.json, which counts while there is no summary.
FileFits ==
    /\ runner.at \in {"off", "boot"} => file = NoState /\ summary = NoSummary
    /\ summary.state.status = "absent" =>
          /\ runner.at \in {"off", "boot", "queued", "gone"} /\ child.life = "none"
          /\ \/ file.status = "absent" /\ runner.at # "queued"
             \/ file.status = "queued" /\ ~file.pid
             \/ file.status \in {"failed", "canceled"} /\ (Touched \/ runner.at = "gone")
    /\ runner.at \in After => Told(file)

SummaryFits ==
    summary.state.status # "absent" =>
       /\ \/ /\ summary.state.status = "queued" /\ ~summary.state.pid
             /\ ~summary.said /\ summary.log # "stalled"
             /\ runner.at \in {"ready", "spawned", "marked", "gone"}
          \/ Told(summary.state)
       /\ IsActive(summary.state) /\ Alive =>
             ~summary.said /\ (summary.log = "stalled" => "silent" \in hist)

\* What the runner is about to write.
RunnerFits ==
    /\ runner.at \in {"queued", "ready", "spawned"} =>
          runner.mem.state.status = "queued" /\ ~runner.mem.state.pid
    /\ runner.at \in After => Told(runner.mem.state)
    /\ runner.mem.said => runner.at = "exiting"
    /\ runner.mem.log = "stalled" => "silent" \in hist /\ runner.at \in After
    /\ runner.at \in Running \union {"off"} /\ runner.id # "none" => runner.at \in After \ {"marked"}
    /\ runner.at \in Running /\ runner.id = "read" => Told(runner.idCopy)

RequestsFit ==
    \A p \in Operator :
       /\ req[p].at \in {"state", "summary"} => Touched
       /\ req[p].at # "idle" => runner.at \notin {"off", "boot"}

\* The end that the runner writes reaches the summary unless something it did not
\* wait for, or an operator, wrote in between.
CloseFits ==
    hist \intersect {"touched", "overlap"} = {} =>
       /\ runner.at \in Over => runner.id \in {"none", "done"}
       /\ runner.at \in Running /\ runner.id \in {"written", "done"} => file.codex
       /\ runner.at = "merging" /\ runner.id = "done" => runner.copy.codex
       /\ runner.at = "closed" => /\ runner.mem.state.status = EndOf(child.life)
                                  /\ runner.id = "done" => runner.mem.state.codex
       /\ runner.at \in {"exiting", "exited"} => /\ summary.state.status = EndOf(child.life)
                                                 /\ runner.id = "done" => summary.state.codex

IInv == TypeOK /\ ChildFits /\ FileFits /\ SummaryFits /\ RunnerFits /\ RequestsFit /\ CloseFits
-----------------------------------------------------------------------------
(* Types *)

\* The sets of names and the groups of variables are expanded everywhere.
USE DEF ActiveStatus, EndStatus, LogTail, RunnerStep, Running, IdStep, Exit, files, server,
        ServerOnly, RunnerOnly, Before, After, Over, Touched

LEMMA Shapes ==
    /\ NoState \in StateFile /\ NoSummary \in Summary /\ Off \in Runner /\ Idle \in Pending
    /\ NoState.status = "absent" /\ NoSummary.state.status = "absent"
    /\ Off.at = "off" /\ Off.id = "none"
    /\ Idle.at = "idle"
<1>1. NoState \in StateFile /\ NoState.status = "absent"
  BY DEF NoState, StateFile
<1>2. NoSummary \in Summary /\ NoSummary.state.status = "absent"
  BY <1>1 DEF NoSummary, Summary, LogTail
<1>3. Off \in Runner /\ Off.at = "off" /\ Off.id = "none"
  BY <1>1, <1>2 DEF Off, Runner, RunnerStep, IdStep
<1>4. Idle \in Pending /\ Idle.at = "idle"
  BY <1>2 DEF Idle, Pending
<1>5. QED BY <1>1, <1>2, <1>3, <1>4

LEMMA EndedRunner ==
    ASSUME TypeOK, NEW how \in {"exited", "gone"}
    PROVE  /\ Ended(how) \in Runner
           /\ Ended(how).at = how /\ Ended(how).id = runner.id
           /\ Ended(how).mem = NoSummary
<1>1. runner.id \in IdStep /\ how \in RunnerStep
  BY DEF TypeOK, Runner, RunnerStep
<1>2. Off.mem = NoSummary
  BY DEF Off
<1>3. QED BY <1>1, <1>2, Shapes DEF Ended, Runner

\* Each step of the runner but its first and last changes some of these fields.
LEMMA RunnerFields ==
    ASSUME NEW r \in Runner
    PROVE  /\ r.at \in RunnerStep /\ r.mem \in Summary /\ r.copy \in StateFile
           /\ r.id \in IdStep /\ r.idCopy \in StateFile
           /\ r.mem.state \in StateFile /\ r.mem.said \in BOOLEAN /\ r.mem.log \in LogTail
           /\ \A a \in RunnerStep : [r EXCEPT !.at = a] \in Runner
           /\ \A a \in RunnerStep, s \in StateFile :
                 [r EXCEPT !.at = a, !.mem.state = s] \in Runner
<1>1. r.mem \in Summary /\ r.copy \in StateFile /\ r.idCopy \in StateFile
  BY DEF Runner
<1>2. r.at \in RunnerStep /\ r.id \in IdStep
  BY DEF Runner
<1>3. r.mem.state \in StateFile /\ r.mem.said \in BOOLEAN /\ r.mem.log \in LogTail
  BY <1>1 DEF Summary
<1>4. ASSUME NEW a \in RunnerStep
      PROVE  [r EXCEPT !.at = a] \in Runner
  BY DEF Runner
<1>5. ASSUME NEW a \in RunnerStep, NEW s \in StateFile
      PROVE  [r EXCEPT !.at = a, !.mem.state = s] \in Runner
  <2>1. [r.mem EXCEPT !.state = s] \in Summary
    BY <1>1 DEF Summary
  <2>2. QED BY <2>1 DEF Runner
<1>6. QED BY <1>1, <1>2, <1>3, <1>4, <1>5

\* What a reader is told is a state, and depends on nothing else than these.
LEMMA DerivedState ==
    ASSUME NEW s \in Summary, NEW alive \in BOOLEAN, NEW old \in BOOLEAN
    PROVE  DeriveRunState(s, alive, old) \in StateFile
BY DEF DeriveRunState, Summary, StateFile

LEMMA Readings ==
    ASSUME TypeOK
    PROVE  Detail \in Summary /\ Shown \in StateFile
<1>1. RawDetail \in Summary
  BY DEF TypeOK, RawDetail, Summary
<1>2. Detail \in Summary
  BY <1>1 DEF TypeOK, Detail
<1>3. Shown \in StateFile
  BY <1>2, DerivedState DEF TypeOK, Shown, Alive
<1>4. QED BY <1>2, <1>3

LEMMA ServerTypes ==
    ASSUME TypeOK, Launch \/ NoticeExit \/ Look \/ RestartServer
    PROVE  TypeOK'
<1>1. CASE Launch
  <2>1. PICK at \in {"boot", "gone"} : runner' = [runner EXCEPT !.at = at]
    BY <1>1 DEF Launch
  <2>2. runner' \in Runner
    BY <2>1, RunnerFields DEF TypeOK
  <2>3. QED BY <1>1, <2>2 DEF TypeOK, Launch
<1>2. CASE NoticeExit
  <2>1. file' \in StateFile
    BY <1>2 DEF TypeOK, NoticeExit, StateFile
  <2>2. QED BY <1>2, <2>1 DEF TypeOK, NoticeExit
<1>3. CASE Look
  BY <1>3 DEF TypeOK, Look
<1>4. CASE RestartServer
  <2>1. faults' \in 0..MaxFaults
    BY <1>4, RunAssumption DEF TypeOK, RestartServer
  <2>2. req' \in [Operator -> Pending]
    BY <1>4, Shapes DEF RestartServer
  <2>3. QED BY <1>4, <2>1, <2>2 DEF TypeOK, RestartServer
<1>5. QED BY <1>1, <1>2, <1>3, <1>4

\* What an operator writes over the run is ended, with a verdict of his.
LEMMA EndedStateFields ==
    ASSUME NEW r \in Pending
    PROVE  /\ EndedState(r) \in StateFile
           /\ EndedState(r).status \in {"failed", "canceled"}
           /\ [r.seen EXCEPT !.state = EndedState(r)] \in Summary
           /\ [r.seen EXCEPT !.state = EndedState(r)].state = EndedState(r)
<1>1. r.seen \in Summary /\ r.seen.state \in StateFile /\ r.verdict \in {"failed", "canceled"}
  BY DEF Pending, Summary
<1>2. EndedState(r) \in StateFile /\ EndedState(r).status = r.verdict
  BY <1>1 DEF EndedState, StateFile
<1>3. QED BY <1>1, <1>2 DEF Summary

LEMMA StopTypes ==
    ASSUME TypeOK, NEW p \in Operator, NEW op \in {"cancel", "recover"}, Stop(p) \/ BeginStop(p, op)
    PROVE  TypeOK'
<1>1. req[p] \in Pending
  BY DEF TypeOK
<1>2. CASE BeginStop(p, op)
  <2>1. [Detail EXCEPT !.state = Shown] \in Summary
    BY Readings DEF Summary
  <2>2. [at |-> "kill", op |-> op, verdict |-> "failed", seen |-> [Detail EXCEPT !.state = Shown]] \in Pending
    BY <2>1 DEF Pending
  <2>3. QED BY <1>2, <2>2 DEF TypeOK, BeginStop
<1>3. CASE Kill(p)
  <2>1. child' \in Child
    BY <1>3 DEF TypeOK, Kill, Child
  <2>2. req' \in [Operator -> Pending]
    <3>1. \A v \in {"failed", "canceled"} : [req[p] EXCEPT !.at = "state", !.verdict = v] \in Pending
      BY <1>1 DEF Pending
    <3>2. QED BY <1>3, <3>1, Shapes DEF TypeOK, Kill
  <2>3. hist' \in SUBSET {"touched", "silent", "overlap"}
    BY <1>3 DEF TypeOK, Kill
  <2>4. QED BY <1>3, <2>1, <2>2, <2>3 DEF TypeOK, Kill
<1>4. CASE WriteState(p)
  <2>1. [req[p] EXCEPT !.at = "summary"] \in Pending
    BY <1>1 DEF Pending
  <2>2. QED BY <1>1, <1>4, <2>1, EndedStateFields DEF TypeOK, WriteState
<1>5. CASE WriteSummary(p)
  BY <1>1, <1>5, EndedStateFields, Shapes DEF TypeOK, WriteSummary
<1>6. QED BY <1>2, <1>3, <1>4, <1>5 DEF Stop

LEMMA RunnerTypes ==
    ASSUME TypeOK, RunnerWrites \/ MergeId \/ FindThreadId \/ CrashRunner
    PROVE  TypeOK'
<1>0. runner \in Runner /\ file \in StateFile /\ summary \in Summary /\ resumes \in BOOLEAN /\ message \in BOOLEAN
  BY DEF TypeOK
<1>1. CASE WriteQueued
  <2>1. [status |-> "queued", pid |-> FALSE, codex |-> resumes] \in StateFile
    BY <1>0 DEF StateFile
  <2>2. file' \in StateFile /\ runner' \in Runner
    BY <1>0, <1>1, <2>1, RunnerFields DEF WriteQueued
  <2>3. QED BY <1>1, <2>2 DEF TypeOK, WriteQueued
<1>2. CASE WriteFirstSummary
  <2>1. summary' \in Summary /\ runner' \in Runner
    BY <1>0, <1>2, RunnerFields DEF WriteFirstSummary
  <2>2. QED BY <1>2, <2>1 DEF TypeOK, WriteFirstSummary
<1>3. CASE SpawnChild
  <2>1. runner' \in Runner
    BY <1>0, <1>3, RunnerFields DEF SpawnChild
  <2>2. child' \in Child
    BY <1>3 DEF TypeOK, SpawnChild, Child
  <2>3. QED BY <1>3, <2>1, <2>2 DEF TypeOK, SpawnChild
<1>4. CASE FailSpawn
  BY <1>4, EndedRunner DEF TypeOK, FailSpawn
<1>5. RunningState \in StateFile
  BY <1>0 DEF RunningState, StateFile
<1>6. CASE MarkRunning
  <2>1. runner' \in Runner
    BY <1>0, <1>5, <1>6, RunnerFields DEF MarkRunning
  <2>2. QED BY <1>5, <1>6, <2>1 DEF TypeOK, MarkRunning
<1>7. CASE Listen
  <2>1. summary' \in Summary /\ runner' \in Runner
    BY <1>0, <1>7, RunnerFields DEF Listen
  <2>2. QED BY <1>7, <2>1 DEF TypeOK, Listen
<1>8. CASE MissClose
  <2>1. summary' \in Summary
    BY <1>0, <1>5, <1>8, RunnerFields DEF MissClose, Summary
  <2>2. QED BY <1>5, <1>8, <2>1, EndedRunner DEF TypeOK, MissClose
<1>9. CASE ReadForClose
  <2>1. runner' \in Runner
    BY <1>0, <1>9 DEF ReadForClose, Runner
  <2>2. hist' \in SUBSET {"touched", "silent", "overlap"}
    BY <1>9 DEF TypeOK, ReadForClose
  <2>3. QED BY <1>9, <2>1, <2>2 DEF TypeOK, ReadForClose
<1>10. CASE WriteClose
  <2>1. EndOf(child.life) \in EndStatus
    BY DEF EndOf
  <2>2. [runner.copy EXCEPT !.status = EndOf(child.life)] \in StateFile
    <3>1. runner.copy \in StateFile
      BY <1>0, RunnerFields
    <3>2. QED BY <2>1, <3>1 DEF StateFile
  <2>3. \A s \in StateFile :
           [runner EXCEPT !.at = "closed", !.mem.state = s, !.copy = NoState] \in Runner
    BY <1>0, Shapes DEF Runner, Summary
  <2>4. runner' \in Runner
    BY <1>10, <2>2, <2>3 DEF WriteClose
  <2>5. QED BY <1>10, <2>2, <2>4 DEF TypeOK, WriteClose
<1>11. CASE WriteLastSummary
  <2>1. [runner.mem EXCEPT !.said = message] \in Summary
    BY <1>0, RunnerFields DEF Summary
  <2>2. runner' \in Runner
    BY <1>0, <1>11, <2>1 DEF WriteLastSummary, Runner
  <2>3. QED BY <1>11, <2>1, <2>2 DEF TypeOK, WriteLastSummary
<1>12. CASE ExitRunner
  BY <1>12, EndedRunner DEF TypeOK, ExitRunner
<1>13. CASE FindThreadId
  <2>1. runner' \in Runner
    BY <1>0, <1>13 DEF FindThreadId, Runner, Summary
  <2>2. QED BY <1>13, <2>1 DEF TypeOK, FindThreadId
<1>14. CASE ReadForId
  <2>1. runner' \in Runner
    BY <1>0, <1>14 DEF ReadForId, Runner
  <2>2. QED BY <1>14, <2>1 DEF TypeOK, ReadForId
<1>15. CASE WriteId
  <2>1. [runner.idCopy EXCEPT !.codex = TRUE] \in StateFile
    <3>1. runner.idCopy \in StateFile
      BY <1>0, RunnerFields
    <3>2. QED BY <3>1 DEF StateFile
  <2>2. \A s \in StateFile :
           [runner EXCEPT !.id = "written", !.mem.state = s, !.idCopy = NoState] \in Runner
    BY <1>0, Shapes DEF Runner, Summary
  <2>3. runner' \in Runner
    BY <1>15, <2>1, <2>2 DEF WriteId
  <2>4. QED BY <1>15, <2>1, <2>3 DEF TypeOK, WriteId
<1>16. CASE WriteIdSummary
  <2>1. summary' \in Summary /\ runner' \in Runner
    BY <1>0, <1>16 DEF WriteIdSummary, Runner
  <2>2. QED BY <1>16, <2>1 DEF TypeOK, WriteIdSummary
<1>17. CASE CrashRunner
  BY <1>17, RunAssumption, EndedRunner DEF TypeOK, CrashRunner
<1>18. QED
  BY <1>1, <1>2, <1>3, <1>4, <1>6, <1>7, <1>8, <1>9, <1>10, <1>11, <1>12, <1>13, <1>14, <1>15,
     <1>16, <1>17 DEF RunnerWrites, MergeId

LEMMA LineTypes ==
    ASSUME TypeOK, NEW log \in Lines, WriteLine(log)
    PROVE  TypeOK'
<1>1. runner \in Runner /\ log \in LogTail
  BY RunAssumption DEF TypeOK
<1>2. runner' \in Runner /\ summary' \in Summary
  BY <1>1 DEF WriteLine, Runner, Summary
<1>3. hist' \in SUBSET {"touched", "silent", "overlap"}
  BY DEF TypeOK, WriteLine
<1>4. QED BY <1>2, <1>3 DEF TypeOK, WriteLine

LEMMA WorldTypes ==
    ASSUME TypeOK, ChildEnds \/ PassGrace
    PROVE  TypeOK'
<1>1. CASE ChildEnds
  <2>1. PICK how \in Exit, said \in BOOLEAN : EndChild(how, said)
    BY <1>1 DEF ChildEnds
  <2>2. child' \in Child
    BY <2>1 DEF TypeOK, EndChild, Child
  <2>3. QED BY <2>1, <2>2 DEF TypeOK, EndChild
<1>2. CASE PassGrace
  <2>1. hist' \in SUBSET {"touched", "silent", "overlap"}
    BY <1>2 DEF TypeOK, PassGrace
  <2>2. QED BY <1>2, <2>1 DEF TypeOK, PassGrace
<1>3. QED BY <1>1, <1>2

LEMMA TypeStep ==
    ASSUME TypeOK, Next
    PROVE  TypeOK'
BY ServerTypes, StopTypes, RunnerTypes, LineTypes, WorldTypes DEF Next

-----------------------------------------------------------------------------
(* Each step keeps the invariant: first what it changes, then each part of *)
(* the invariant.                                                          *)

LEMMA LaunchKeeps ==
    ASSUME IInv, TypeOK', Launch
    PROVE  IInv'
<1>1. runner \in Runner
  BY DEF IInv, TypeOK
<1>2. /\ runner.at = "off" /\ runner'.at \in {"boot", "gone"}
      /\ runner'.mem = runner.mem /\ runner'.id = runner.id
      /\ file' = file /\ summary' = summary /\ child' = child /\ aged' = aged
      /\ req' = req /\ hist' = hist
  BY <1>1 DEF Launch, Runner
<1>3. ChildFits'
  BY <1>1, <1>2 DEF IInv, ChildFits
<1>4. FileFits'
  BY <1>1, <1>2 DEF IInv, FileFits, Told
<1>5. SummaryFits'
  BY <1>2, Shapes DEF IInv, FileFits, SummaryFits
<1>6. RunnerFits'
  BY <1>1, <1>2 DEF IInv, RunnerFits, Told
<1>7. RequestsFit'
  BY <1>1, <1>2 DEF IInv, RequestsFit
<1>8. CloseFits'
  BY <1>1, <1>2 DEF IInv, CloseFits, RunnerFits
<1>9. QED BY <1>3, <1>4, <1>5, <1>6, <1>7, <1>8 DEF IInv

LEMMA NoticeExitKeeps ==
    ASSUME IInv, TypeOK', NoticeExit
    PROVE  IInv'
<1>1. file \in StateFile
  BY DEF IInv, TypeOK
<1>2. /\ runner.at = "gone" /\ file'.status = "failed"
      /\ summary' = summary /\ runner' = runner /\ child' = child /\ aged' = aged
      /\ req' = req /\ hist' = hist
  BY <1>1 DEF NoticeExit, StateFile
<1>3. ChildFits'
  BY <1>1, <1>2 DEF IInv, ChildFits
<1>4. FileFits'
  BY <1>1, <1>2 DEF IInv, FileFits, Told
<1>5. SummaryFits'
  BY <1>1, <1>2 DEF IInv, SummaryFits, Told, Alive
<1>6. RunnerFits'
  BY <1>1, <1>2 DEF IInv, RunnerFits, Told
<1>7. RequestsFit'
  BY <1>1, <1>2 DEF IInv, RequestsFit
<1>8. CloseFits'
  BY <1>1, <1>2 DEF IInv, CloseFits
<1>9. QED BY <1>3, <1>4, <1>5, <1>6, <1>7, <1>8 DEF IInv

\* A run is found active when its runner has written that it is queued.
LEMMA ActiveIsWritten ==
    ASSUME IInv, Active
    PROVE  runner.at \notin {"off", "boot"}
<1> SUFFICES ASSUME runner.at \in {"off", "boot"} PROVE FALSE
  OBVIOUS
<1>1. file = NoState /\ summary = NoSummary
  BY DEF IInv, FileFits
<1>2. Shown.status = "absent"
  BY <1>1, Shapes DEF Shown, UsesCache, Detail, RawDetail, DeriveRunState
<1>3. QED BY <1>2 DEF Active

LEMMA BeginStopKeeps ==
    ASSUME IInv, TypeOK', NEW p \in Operator, NEW op \in {"cancel", "recover"}, BeginStop(p, op)
    PROVE  IInv'
<1>1. runner.at \notin {"off", "boot"}
  BY ActiveIsWritten DEF BeginStop
<1>2. /\ req \in [Operator -> Pending]
      /\ file' = file /\ summary' = summary /\ runner' = runner /\ child' = child
      /\ aged' = aged /\ hist' = hist
  BY DEF IInv, TypeOK, BeginStop
<1>3. \A q \in Operator : req'[q].at = "kill" \/ req'[q] = req[q]
  BY <1>2 DEF BeginStop
<1>4. ChildFits'
  BY <1>1, <1>2, <1>3 DEF IInv, ChildFits
<1>5. FileFits'
  BY <1>1, <1>2, <1>3 DEF IInv, FileFits, Told
<1>6. SummaryFits'
  BY <1>1, <1>2, <1>3 DEF IInv, SummaryFits, Told, Alive
<1>7. RunnerFits'
  BY <1>1, <1>2, <1>3 DEF IInv, RunnerFits, Told
<1>8. RequestsFit'
  BY <1>1, <1>2, <1>3 DEF IInv, RequestsFit
<1>9. CloseFits'
  BY <1>1, <1>2, <1>3 DEF IInv, CloseFits
<1>10. QED BY <1>4, <1>5, <1>6, <1>7, <1>8, <1>9 DEF IInv

LEMMA KillKeeps ==
    ASSUME IInv, TypeOK', NEW p \in Operator, Kill(p)
    PROVE  IInv'
<1>1. req \in [Operator -> Pending] /\ req[p] \in Pending /\ child \in Child
  BY DEF IInv, TypeOK
<1>2. runner.at \notin {"off", "boot"}
  BY DEF IInv, RequestsFit, Kill
<1>3. /\ child'.life = child.life /\ (Touched => "touched" \in hist')
      /\ \A x \in {"silent", "overlap"} : x \in hist' <=> x \in hist
      /\ file' = file /\ summary' = summary /\ runner' = runner /\ aged' = aged
  BY <1>1 DEF Kill, Child
<1>4. \A q \in Operator : \/ req'[q].at = "idle" \/ req'[q] = req[q]
                          \/ req'[q].at = "state" /\ "touched" \in hist'
  <2>1. CASE req' = [req EXCEPT ![p] = Idle]
    <3>1. req'[p] = Idle /\ \A q \in Operator : q # p => req'[q] = req[q]
      BY <1>1, <2>1
    <3>2. req'[p].at = "idle"
      BY <3>1, Shapes
    <3>3. QED BY <3>1, <3>2
  <2>2. CASE req' # [req EXCEPT ![p] = Idle]
    <3>1. PICK v \in {"failed", "canceled"} : req' = [req EXCEPT ![p].at = "state", ![p].verdict = v]
      BY <2>2 DEF Kill
    <3>2. "touched" \in hist'
      BY <2>2 DEF Kill
    <3>3. req'[p].at = "state" /\ \A q \in Operator : q # p => req'[q] = req[q]
      BY <1>1, <3>1 DEF Pending
    <3>4. QED BY <3>2, <3>3
  <2>3. QED BY <2>1, <2>2
<1>5. ChildFits'
  BY <1>1, <1>2, <1>3, <1>4 DEF IInv, ChildFits
<1>6. FileFits'
  BY <1>1, <1>2, <1>3, <1>4 DEF IInv, FileFits, Told
<1>7. SummaryFits'
  BY <1>1, <1>2, <1>3, <1>4 DEF IInv, SummaryFits, Told, Alive
<1>8. RunnerFits'
  BY <1>1, <1>2, <1>3, <1>4 DEF IInv, RunnerFits, Told
<1>9. RequestsFit'
  BY <1>1, <1>2, <1>3, <1>4 DEF IInv, RequestsFit
<1>10. CloseFits'
  BY <1>1, <1>2, <1>3, <1>4 DEF IInv, CloseFits
<1>11. QED BY <1>5, <1>6, <1>7, <1>8, <1>9, <1>10 DEF IInv

LEMMA RestartServerKeeps ==
    ASSUME IInv, TypeOK', RestartServer
    PROVE  IInv'
<1>1. \A q \in Operator : req'[q].at = "idle"
  BY Shapes DEF RestartServer
<1>2. file' = file /\ summary' = summary /\ runner' = runner /\ child' = child /\ aged' = aged /\ hist' = hist
  BY DEF RestartServer
<1>3. ChildFits'
  BY <1>1, <1>2 DEF IInv, ChildFits
<1>4. FileFits'
  BY <1>1, <1>2 DEF IInv, FileFits, Told
<1>5. SummaryFits'
  BY <1>1, <1>2 DEF IInv, SummaryFits, Told, Alive
<1>6. RunnerFits'
  BY <1>1, <1>2 DEF IInv, RunnerFits, Told
<1>7. RequestsFit'
  BY <1>1, <1>2 DEF IInv, RequestsFit
<1>8. CloseFits'
  BY <1>1, <1>2 DEF IInv, CloseFits
<1>9. QED BY <1>3, <1>4, <1>5, <1>6, <1>7, <1>8 DEF IInv

LEMMA WriteStateKeeps ==
    ASSUME IInv, TypeOK', NEW p \in Operator, WriteState(p)
    PROVE  IInv'
<1>1. req \in [Operator -> Pending] /\ req[p] \in Pending
  BY DEF IInv, TypeOK
<1>2. Touched /\ runner.at \notin {"off", "boot"}
  BY DEF IInv, RequestsFit, WriteState
<1>3. /\ file'.status \in {"failed", "canceled"}
      /\ summary' = summary /\ runner' = runner /\ child' = child /\ aged' = aged
      /\ hist' = hist
  BY <1>1, EndedStateFields DEF WriteState
<1>4. \A q \in Operator : req'[q].at = "summary" \/ req'[q] = req[q]
  BY <1>1 DEF WriteState, Pending
<1>5. ChildFits'
  BY <1>1, <1>2, <1>3, <1>4 DEF IInv, ChildFits
<1>6. FileFits'
  BY <1>1, <1>2, <1>3, <1>4 DEF IInv, FileFits, Told
<1>7. SummaryFits'
  BY <1>1, <1>2, <1>3, <1>4 DEF IInv, SummaryFits, Told, Alive
<1>8. RunnerFits'
  BY <1>1, <1>2, <1>3, <1>4 DEF IInv, RunnerFits, Told
<1>9. RequestsFit'
  BY <1>1, <1>2, <1>3, <1>4 DEF IInv, RequestsFit
<1>10. CloseFits'
  BY <1>1, <1>2, <1>3, <1>4 DEF IInv, CloseFits
<1>11. QED BY <1>5, <1>6, <1>7, <1>8, <1>9, <1>10 DEF IInv

LEMMA WriteSummaryKeeps ==
    ASSUME IInv, TypeOK', NEW p \in Operator, WriteSummary(p)
    PROVE  IInv'
<1>1. req[p] \in Pending /\ Touched
  BY DEF IInv, TypeOK, RequestsFit, WriteSummary
<1>2. /\ summary'.state.status \in {"failed", "canceled"}
      /\ file' = file /\ runner' = runner /\ child' = child /\ hist' = hist /\ aged' = aged
  BY <1>1, EndedStateFields DEF WriteSummary
<1>3. ChildFits'
  BY <1>2 DEF IInv, ChildFits
<1>4. FileFits'
  <2>1. runner.at \notin {"off", "boot"}
    BY DEF IInv, RequestsFit, WriteSummary
  <2>2. QED BY <1>2, <2>1 DEF IInv, FileFits, Told
<1>5. SummaryFits'
  BY <1>1, <1>2 DEF SummaryFits, Told, IsActive
<1>6. RunnerFits'
  BY <1>2 DEF IInv, RunnerFits, Told
<1>7. RequestsFit'
  BY <1>2, Shapes DEF IInv, TypeOK, RequestsFit, WriteSummary
<1>8. CloseFits'
  BY <1>1, <1>2 DEF CloseFits
<1>9. QED BY <1>3, <1>4, <1>5, <1>6, <1>7, <1>8 DEF IInv

LEMMA WriteQueuedKeeps ==
    ASSUME IInv, TypeOK', WriteQueued
    PROVE  IInv'
<1>1. runner \in Runner
  BY DEF IInv, TypeOK
<1>2. /\ runner.at = "boot" /\ runner'.at = "queued" /\ runner'.id = runner.id
      /\ file'.status = "queued" /\ ~file'.pid
      /\ runner'.mem = [runner.mem EXCEPT !.state = file']
      /\ summary' = summary /\ child' = child /\ aged' = aged /\ req' = req /\ hist' = hist
  BY <1>1 DEF WriteQueued, Runner, Summary
<1>3. runner'.mem.state = file' /\ runner'.mem.said = runner.mem.said /\ runner'.mem.log = runner.mem.log
  BY <1>1, <1>2 DEF Runner, Summary
<1>4. ChildFits'
  BY <1>1, <1>2, <1>3 DEF IInv, ChildFits
<1>5. FileFits'
  BY <1>1, <1>2, <1>3 DEF IInv, FileFits, Told
<1>6. SummaryFits'
  BY <1>2, Shapes DEF IInv, FileFits, SummaryFits
<1>7. RunnerFits'
  BY <1>1, <1>2, <1>3 DEF IInv, RunnerFits, Told
<1>8. RequestsFit'
  BY <1>1, <1>2, <1>3 DEF IInv, RequestsFit
<1>9. CloseFits'
  BY <1>1, <1>2, <1>3 DEF IInv, CloseFits, RunnerFits
<1>10. QED BY <1>4, <1>5, <1>6, <1>7, <1>8, <1>9 DEF IInv

LEMMA WriteFirstSummaryKeeps ==
    ASSUME IInv, TypeOK', WriteFirstSummary
    PROVE  IInv'
<1>1. runner \in Runner
  BY DEF IInv, TypeOK
<1>2. /\ runner.at = "queued" /\ runner'.at = "ready"
      /\ runner'.mem = runner.mem /\ runner'.id = runner.id /\ summary' = runner.mem
      /\ file' = file /\ child' = child /\ aged' = aged /\ req' = req /\ hist' = hist
  BY <1>1 DEF WriteFirstSummary, Runner
<1>3. ChildFits'
  BY <1>1, <1>2 DEF IInv, ChildFits
<1>4. FileFits'
  BY <1>1, <1>2 DEF IInv, FileFits, Told, RunnerFits
<1>5. SummaryFits'
  BY <1>1, <1>2 DEF IInv, SummaryFits, Told, Alive, RunnerFits
<1>6. RunnerFits'
  BY <1>1, <1>2 DEF IInv, RunnerFits, Told
<1>7. RequestsFit'
  BY <1>1, <1>2 DEF IInv, RequestsFit
<1>8. CloseFits'
  BY <1>1, <1>2 DEF IInv, CloseFits
<1>9. QED BY <1>3, <1>4, <1>5, <1>6, <1>7, <1>8 DEF IInv

LEMMA SpawnChildKeeps ==
    ASSUME IInv, TypeOK', SpawnChild
    PROVE  IInv'
<1>1. runner \in Runner /\ child \in Child
  BY DEF IInv, TypeOK
<1>2. /\ runner.at = "ready" /\ runner'.at = "spawned"
      /\ runner'.mem = runner.mem /\ runner'.id = runner.id
      /\ child.life = "none" /\ child'.life = "alive"
      /\ file' = file /\ summary' = summary /\ aged' = aged /\ req' = req /\ hist' = hist
  BY <1>1 DEF SpawnChild, Runner, Child, IInv, ChildFits
<1>3. ChildFits'
  BY <1>1, <1>2 DEF IInv, ChildFits
<1>4. FileFits'
  BY <1>1, <1>2 DEF IInv, FileFits, Told
<1>5. SummaryFits'
  BY <1>1, <1>2 DEF IInv, SummaryFits, Told, Alive, IsActive
<1>6. RunnerFits'
  BY <1>1, <1>2 DEF IInv, RunnerFits, Told
<1>7. RequestsFit'
  BY <1>1, <1>2 DEF IInv, RequestsFit
<1>8. CloseFits'
  BY <1>1, <1>2 DEF IInv, CloseFits
<1>9. QED BY <1>3, <1>4, <1>5, <1>6, <1>7, <1>8 DEF IInv

LEMMA FailSpawnKeeps ==
    ASSUME IInv, TypeOK', FailSpawn
    PROVE  IInv'
<1>1. /\ runner.at = "ready" /\ runner'.at = "gone" /\ runner'.mem = NoSummary /\ runner'.id = runner.id
      /\ file' = file /\ summary' = summary /\ child' = child /\ aged' = aged
      /\ req' = req /\ hist' = hist
  BY EndedRunner DEF IInv, FailSpawn
<1>2. ChildFits'
  BY <1>1 DEF IInv, ChildFits
<1>3. FileFits'
  BY <1>1 DEF IInv, FileFits, Told
<1>4. SummaryFits'
  BY <1>1 DEF IInv, SummaryFits, Told, Alive
<1>5. RunnerFits'
  BY <1>1 DEF IInv, RunnerFits, Told, NoSummary, NoState
<1>6. RequestsFit'
  BY <1>1 DEF IInv, RequestsFit
<1>7. CloseFits'
  BY <1>1 DEF IInv, CloseFits
<1>8. QED BY <1>2, <1>3, <1>4, <1>5, <1>6, <1>7 DEF IInv

LEMMA MarkRunningKeeps ==
    ASSUME IInv, TypeOK', MarkRunning
    PROVE  IInv'
<1>1. runner \in Runner /\ file \in StateFile
  BY DEF IInv, TypeOK
<1>2. RunningState.status = "running" /\ RunningState.pid
  BY <1>1 DEF RunningState, StateFile
<1>3. /\ runner.at = "spawned" /\ runner'.at = "marked"
      /\ runner'.mem.state = RunningState /\ runner'.mem.said = runner.mem.said
      /\ runner'.mem.log = runner.mem.log /\ runner'.id = runner.id
      /\ file' = RunningState
      /\ summary' = summary /\ child' = child /\ aged' = aged /\ req' = req /\ hist' = hist
  BY <1>1 DEF MarkRunning, Runner, Summary
<1>4. ChildFits'
  BY <1>3 DEF IInv, ChildFits
<1>5. FileFits'
  BY <1>2, <1>3 DEF IInv, ChildFits, FileFits, Told
<1>6. SummaryFits'
  BY <1>3 DEF IInv, SummaryFits, Told, Alive
<1>7. RunnerFits'
  BY <1>2, <1>3 DEF IInv, ChildFits, RunnerFits, Told
<1>8. RequestsFit'
  BY <1>3 DEF IInv, RequestsFit
<1>9. CloseFits'
  BY <1>3 DEF IInv, RunnerFits, CloseFits
<1>10. QED BY <1>4, <1>5, <1>6, <1>7, <1>8, <1>9 DEF IInv

LEMMA ListenKeeps ==
    ASSUME IInv, TypeOK', Listen
    PROVE  IInv'
<1>1. runner \in Runner
  BY DEF IInv, TypeOK
<1>2. /\ runner.at = "marked" /\ runner'.at = "listening"
      /\ runner'.mem = runner.mem /\ runner'.id = runner.id /\ runner'.idCopy = runner.idCopy
      /\ summary' = runner.mem
      /\ file' = file /\ child' = child /\ aged' = aged /\ req' = req /\ hist' = hist
  BY <1>1 DEF Listen, Runner
<1>3. ChildFits'
  BY <1>1, <1>2 DEF IInv, ChildFits
<1>4. FileFits'
  BY <1>1, <1>2 DEF IInv, FileFits, Told, RunnerFits
<1>5. SummaryFits'
  BY <1>1, <1>2 DEF IInv, SummaryFits, Told, Alive, RunnerFits
<1>6. RunnerFits'
  BY <1>1, <1>2 DEF IInv, RunnerFits, Told
<1>7. RequestsFit'
  BY <1>1, <1>2 DEF IInv, RequestsFit
<1>8. CloseFits'
  BY <1>1, <1>2 DEF IInv, CloseFits, RunnerFits
<1>9. QED BY <1>3, <1>4, <1>5, <1>6, <1>7, <1>8 DEF IInv

LEMMA MissCloseKeeps ==
    ASSUME IInv, TypeOK', MissClose
    PROVE  IInv'
<1>1. /\ runner' = Ended("gone") /\ Ended("gone").at = "gone" /\ Ended("gone").mem = NoSummary
      /\ child' = child /\ hist' = hist /\ aged' = aged /\ req' = req
      /\ child.life \in Exit /\ runner.at \in {"spawned", "marked"}
  BY EndedRunner DEF IInv, MissClose
<1>2. runner.mem \in Summary /\ RunningState.status = "running" /\ RunningState.pid
  BY DEF IInv, TypeOK, Runner, RunningState, StateFile
<1>3. file' = RunningState /\ summary'.state = RunningState /\ summary'.said = runner.mem.said
  BY <1>2 DEF MissClose, Summary
<1>4. ChildFits'
  BY <1>1 DEF ChildFits
<1>5. FileFits'
  BY <1>1, <1>2, <1>3 DEF FileFits
<1>6. SummaryFits'
  BY <1>1, <1>2, <1>3 DEF SummaryFits, Told, Alive
<1>7. RunnerFits'
  BY <1>1, Shapes DEF RunnerFits, NoSummary
<1>8. RequestsFit'
  BY <1>1 DEF IInv, RequestsFit
<1>9. CloseFits'
  BY <1>1 DEF CloseFits
<1>10. QED BY <1>4, <1>5, <1>6, <1>7, <1>8, <1>9 DEF IInv

LEMMA WriteLineKeeps ==
    ASSUME IInv, TypeOK', NEW log \in Lines, WriteLine(log)
    PROVE  IInv'
<1>1. runner \in Runner /\ log \in {"line", "stalled"}
  BY RunAssumption DEF IInv, TypeOK
<1>2. /\ runner.at = "listening" /\ runner'.at = "listening"
      /\ runner'.mem.state = runner.mem.state /\ runner'.mem.said = runner.mem.said
      /\ runner'.mem.log = log /\ runner'.id = runner.id /\ runner'.idCopy = runner.idCopy
      /\ summary' = runner'.mem
      /\ file' = file /\ child' = child /\ aged' = aged /\ req' = req
  BY <1>1 DEF WriteLine, Runner, Summary
<1>3. /\ log = "stalled" => "silent" \in hist'
      /\ hist \subseteq hist' /\ (\A x \in {"touched", "overlap"} : x \in hist' <=> x \in hist)
  BY DEF WriteLine
<1>4. ChildFits'
  BY <1>1, <1>2, <1>3 DEF IInv, ChildFits
<1>5. FileFits'
  BY <1>1, <1>2, <1>3 DEF IInv, FileFits, Told, RunnerFits
<1>6. SummaryFits'
  BY <1>1, <1>2, <1>3 DEF IInv, SummaryFits, Told, Alive, RunnerFits
<1>7. RunnerFits'
  BY <1>1, <1>2, <1>3 DEF IInv, RunnerFits, Told
<1>8. RequestsFit'
  BY <1>1, <1>2, <1>3 DEF IInv, RequestsFit
<1>9. CloseFits'
  BY <1>1, <1>2, <1>3 DEF IInv, CloseFits
<1>10. QED BY <1>4, <1>5, <1>6, <1>7, <1>8, <1>9 DEF IInv

LEMMA FindThreadIdKeeps ==
    ASSUME IInv, TypeOK', FindThreadId
    PROVE  IInv'
<1>1. runner \in Runner
  BY DEF IInv, TypeOK
<1>2. /\ runner.at = "listening" /\ runner'.at = "listening"
      /\ runner.id = "none" /\ runner'.id = "due"
      /\ runner'.mem.state = runner.mem.state /\ runner'.mem.said = runner.mem.said
      /\ runner'.mem.log = "line"
      /\ file' = file /\ summary' = summary /\ child' = child /\ aged' = aged
      /\ req' = req /\ hist' = hist
  BY <1>1 DEF FindThreadId, Runner, Summary
<1>3. ChildFits'
  BY <1>1, <1>2 DEF IInv, ChildFits
<1>4. FileFits'
  BY <1>1, <1>2 DEF IInv, FileFits, Told
<1>5. SummaryFits'
  BY <1>1, <1>2 DEF IInv, SummaryFits, Told, Alive
<1>6. RunnerFits'
  BY <1>1, <1>2 DEF IInv, RunnerFits, Told
<1>7. RequestsFit'
  BY <1>1, <1>2 DEF IInv, RequestsFit
<1>8. CloseFits'
  BY <1>1, <1>2 DEF IInv, CloseFits
<1>9. QED BY <1>3, <1>4, <1>5, <1>6, <1>7, <1>8 DEF IInv

LEMMA ReadForIdKeeps ==
    ASSUME IInv, TypeOK', ReadForId
    PROVE  IInv'
<1>1. runner \in Runner
  BY DEF IInv, TypeOK
<1>2. /\ runner.at \in Running /\ runner'.at = runner.at
      /\ runner.id = "due" /\ runner'.id = "read" /\ runner'.idCopy = file
      /\ runner'.mem = runner.mem /\ runner'.copy = runner.copy
      /\ file' = file /\ summary' = summary /\ child' = child /\ aged' = aged
      /\ req' = req /\ hist' = hist
  BY <1>1 DEF ReadForId, Runner
<1>3. ChildFits'
  BY <1>1, <1>2 DEF IInv, ChildFits
<1>4. FileFits'
  BY <1>1, <1>2 DEF IInv, FileFits, Told
<1>5. SummaryFits'
  BY <1>1, <1>2 DEF IInv, SummaryFits, Told, Alive
<1>6. RunnerFits'
  BY <1>1, <1>2 DEF IInv, RunnerFits, Told, FileFits
<1>7. RequestsFit'
  BY <1>1, <1>2 DEF IInv, RequestsFit
<1>8. CloseFits'
  BY <1>1, <1>2 DEF IInv, CloseFits
<1>9. QED BY <1>3, <1>4, <1>5, <1>6, <1>7, <1>8 DEF IInv

LEMMA WriteIdKeeps ==
    ASSUME IInv, TypeOK', WriteId
    PROVE  IInv'
<1>1. runner \in Runner /\ runner.idCopy \in StateFile
  BY DEF IInv, TypeOK, Runner
<1>2. /\ runner.at \in Running /\ runner'.at = runner.at
      /\ runner.id = "read" /\ runner'.id = "written"
      /\ file'.status = runner.idCopy.status /\ file'.pid = runner.idCopy.pid /\ file'.codex
      /\ runner'.mem.state = file' /\ runner'.mem.said = runner.mem.said
      /\ runner'.mem.log = runner.mem.log
      /\ summary' = summary /\ child' = child /\ aged' = aged /\ req' = req /\ hist' = hist
  BY <1>1 DEF WriteId, Runner, Summary, StateFile
<1>3. ChildFits'
  BY <1>1, <1>2 DEF IInv, ChildFits
<1>4. FileFits'
  BY <1>1, <1>2 DEF IInv, FileFits, Told, RunnerFits
<1>5. SummaryFits'
  BY <1>1, <1>2 DEF IInv, SummaryFits, Told, Alive, RunnerFits
<1>6. RunnerFits'
  BY <1>1, <1>2 DEF IInv, RunnerFits, Told
<1>7. RequestsFit'
  BY <1>1, <1>2 DEF IInv, RequestsFit
<1>8. CloseFits'
  BY <1>1, <1>2 DEF IInv, CloseFits, RunnerFits
<1>9. QED BY <1>3, <1>4, <1>5, <1>6, <1>7, <1>8 DEF IInv

LEMMA WriteIdSummaryKeeps ==
    ASSUME IInv, TypeOK', WriteIdSummary
    PROVE  IInv'
<1>1. runner \in Runner
  BY DEF IInv, TypeOK
<1>2. /\ runner.at \in Running /\ runner'.at = runner.at
      /\ runner.id = "written" /\ runner'.id = "done"
      /\ runner'.mem = runner.mem /\ runner'.copy = runner.copy /\ summary' = runner.mem
      /\ file' = file /\ child' = child /\ aged' = aged /\ req' = req /\ hist' = hist
  BY <1>1 DEF WriteIdSummary, Runner
<1>3. ChildFits'
  BY <1>1, <1>2 DEF IInv, ChildFits
<1>4. FileFits'
  BY <1>1, <1>2 DEF IInv, FileFits, Told, RunnerFits
<1>5. SummaryFits'
  BY <1>1, <1>2 DEF IInv, SummaryFits, Told, Alive, ChildFits, RunnerFits
<1>6. RunnerFits'
  BY <1>1, <1>2 DEF IInv, RunnerFits, Told
<1>7. RequestsFit'
  BY <1>1, <1>2 DEF IInv, RequestsFit
<1>8. CloseFits'
  BY <1>1, <1>2 DEF IInv, CloseFits, RunnerFits
<1>9. QED BY <1>3, <1>4, <1>5, <1>6, <1>7, <1>8 DEF IInv

LEMMA ReadForCloseKeeps ==
    ASSUME IInv, TypeOK', ReadForClose
    PROVE  IInv'
<1>1. runner \in Runner /\ child.life \in Exit
  BY DEF IInv, TypeOK, ReadForClose
<1>2. /\ runner.at = "listening" /\ runner'.at = "merging" /\ runner'.copy = file
      /\ runner'.mem = runner.mem /\ runner'.id = runner.id /\ runner'.idCopy = runner.idCopy
      /\ file' = file /\ summary' = summary /\ child' = child /\ aged' = aged /\ req' = req
  BY <1>1 DEF ReadForClose, Runner
<1>3. /\ hist \subseteq hist' /\ ("touched" \in hist' <=> Touched)
      /\ runner.id \in {"due", "read", "written"} => "overlap" \in hist'
  BY DEF ReadForClose
<1>4. ChildFits'
  BY <1>1, <1>2 DEF IInv, ChildFits
<1>5. FileFits'
  BY <1>2, <1>3 DEF IInv, FileFits, Told
<1>6. SummaryFits'
  BY <1>2, <1>3 DEF IInv, SummaryFits, Told, Alive
<1>7. RunnerFits'
  BY <1>2, <1>3 DEF IInv, RunnerFits, Told
<1>8. RequestsFit'
  BY <1>2, <1>3 DEF IInv, RequestsFit
<1>9. CloseFits'
  BY <1>1, <1>2, <1>3 DEF IInv, CloseFits, Runner
<1>10. QED BY <1>4, <1>5, <1>6, <1>7, <1>8, <1>9 DEF IInv

LEMMA WriteCloseKeeps ==
    ASSUME IInv, TypeOK', WriteClose
    PROVE  IInv'
<1>1. runner \in Runner /\ runner.copy \in StateFile
  BY DEF IInv, TypeOK, Runner
<1>2. /\ runner.at = "merging" /\ runner'.at = "closed" /\ runner'.id = runner.id
      /\ file'.status = EndOf(child.life) /\ file'.codex = runner.copy.codex
      /\ runner'.mem.state = file' /\ runner'.mem.said = runner.mem.said
      /\ runner'.mem.log = runner.mem.log /\ runner'.idCopy = runner.idCopy
      /\ summary' = summary /\ child' = child /\ aged' = aged /\ req' = req /\ hist' = hist
  BY <1>1 DEF WriteClose, Runner, Summary, StateFile
<1>3. child.life \in Exit /\ EndOf(child.life) \in EndStatus
  BY DEF IInv, ChildFits, WriteClose, EndOf
<1>4. ChildFits'
  BY <1>1, <1>2, <1>3 DEF IInv, ChildFits
<1>5. FileFits'
  BY <1>1, <1>2, <1>3 DEF IInv, FileFits, Told
<1>6. SummaryFits'
  BY <1>1, <1>2, <1>3 DEF IInv, SummaryFits, Told, Alive
<1>7. RunnerFits'
  BY <1>1, <1>2, <1>3 DEF IInv, RunnerFits, Told
<1>8. RequestsFit'
  BY <1>1, <1>2, <1>3 DEF IInv, RequestsFit
<1>9. CloseFits'
  BY <1>1, <1>2, <1>3 DEF IInv, CloseFits, RunnerFits
<1>10. QED BY <1>4, <1>5, <1>6, <1>7, <1>8, <1>9 DEF IInv

LEMMA WriteLastSummaryKeeps ==
    ASSUME IInv, TypeOK', WriteLastSummary
    PROVE  IInv'
<1>1. runner \in Runner
  BY DEF IInv, TypeOK
<1>2. /\ runner.at = "closed" /\ runner'.at = "exiting" /\ runner'.id = runner.id
      /\ runner'.mem.state = runner.mem.state /\ runner'.mem.log = runner.mem.log
      /\ runner'.idCopy = runner.idCopy /\ summary' = runner'.mem
      /\ file' = file /\ child' = child /\ aged' = aged /\ req' = req /\ hist' = hist
  BY <1>1 DEF WriteLastSummary, Runner, Summary
<1>3. ChildFits'
  BY <1>1, <1>2 DEF IInv, ChildFits
<1>4. FileFits'
  BY <1>1, <1>2 DEF IInv, FileFits, Told, RunnerFits
<1>5. SummaryFits'
  BY <1>1, <1>2 DEF IInv, SummaryFits, Told, Alive, ChildFits, RunnerFits
<1>6. RunnerFits'
  BY <1>1, <1>2 DEF IInv, RunnerFits, Told
<1>7. RequestsFit'
  BY <1>1, <1>2 DEF IInv, RequestsFit
<1>8. CloseFits'
  BY <1>1, <1>2 DEF IInv, CloseFits
<1>9. QED BY <1>3, <1>4, <1>5, <1>6, <1>7, <1>8 DEF IInv

LEMMA ExitRunnerKeeps ==
    ASSUME IInv, TypeOK', ExitRunner
    PROVE  IInv'
<1>1. /\ runner.at = "exiting" /\ runner'.at = "exited" /\ runner'.mem = NoSummary /\ runner'.id = runner.id
      /\ file' = file /\ summary' = summary /\ child' = child /\ aged' = aged
      /\ req' = req /\ hist' = hist
  BY EndedRunner DEF IInv, ExitRunner
<1>2. ChildFits'
  BY <1>1 DEF IInv, ChildFits
<1>3. FileFits'
  BY <1>1 DEF IInv, FileFits, Told
<1>4. SummaryFits'
  BY <1>1 DEF IInv, SummaryFits, Told, Alive
<1>5. RunnerFits'
  BY <1>1 DEF IInv, RunnerFits, Told, NoSummary, NoState
<1>6. RequestsFit'
  BY <1>1 DEF IInv, RequestsFit
<1>7. CloseFits'
  BY <1>1 DEF IInv, CloseFits
<1>8. QED BY <1>2, <1>3, <1>4, <1>5, <1>6, <1>7 DEF IInv

LEMMA EndChildKeeps ==
    ASSUME IInv, TypeOK', NEW how \in Exit, NEW said \in BOOLEAN, EndChild(how, said)
    PROVE  IInv'
<1>1. /\ child.life = "alive" /\ child'.life = how
      /\ file' = file /\ summary' = summary /\ runner' = runner /\ aged' = aged /\ req' = req
      /\ hist' = hist
  BY DEF IInv, TypeOK, EndChild, Child, Alive
<1>2. ChildFits'
  BY <1>1 DEF IInv, ChildFits
<1>3. FileFits'
  BY <1>1 DEF IInv, FileFits, Told
<1>4. SummaryFits'
  BY <1>1 DEF IInv, SummaryFits, Told, Alive
<1>5. RunnerFits'
  BY <1>1 DEF IInv, RunnerFits, Told
<1>6. RequestsFit'
  BY <1>1 DEF IInv, RequestsFit
<1>7. CloseFits'
  BY <1>1 DEF IInv, ChildFits, CloseFits
<1>8. QED BY <1>2, <1>3, <1>4, <1>5, <1>6, <1>7 DEF IInv

LEMMA PassGraceKeeps ==
    ASSUME IInv, TypeOK', PassGrace
    PROVE  IInv'
<1>1. /\ runner.at = "gone" /\ hist \subseteq hist'
      /\ \A x \in {"touched", "overlap"} : x \in hist' <=> x \in hist
      /\ file' = file /\ summary' = summary /\ runner' = runner /\ child' = child /\ req' = req
  BY DEF PassGrace
<1>2. ChildFits'
  BY <1>1 DEF IInv, ChildFits
<1>3. FileFits'
  BY <1>1 DEF IInv, FileFits, Told
<1>4. SummaryFits'
  BY <1>1 DEF IInv, SummaryFits, Told, Alive
<1>5. RunnerFits'
  BY <1>1 DEF IInv, RunnerFits, Told
<1>6. RequestsFit'
  BY <1>1 DEF IInv, RequestsFit
<1>7. CloseFits'
  BY <1>1 DEF IInv, CloseFits
<1>8. QED BY <1>2, <1>3, <1>4, <1>5, <1>6, <1>7 DEF IInv

LEMMA CrashRunnerKeeps ==
    ASSUME IInv, TypeOK', CrashRunner
    PROVE  IInv'
<1>1. /\ runner.at \in Running /\ runner'.at = "gone" /\ runner'.mem = NoSummary /\ runner'.id = runner.id
      /\ file' = file /\ summary' = summary /\ child' = child /\ aged' = aged
      /\ req' = req /\ hist' = hist
  BY EndedRunner DEF IInv, CrashRunner
<1>2. ChildFits'
  BY <1>1 DEF IInv, ChildFits
<1>3. FileFits'
  BY <1>1 DEF IInv, FileFits, Told
<1>4. SummaryFits'
  BY <1>1 DEF IInv, SummaryFits, Told, Alive
<1>5. RunnerFits'
  BY <1>1 DEF IInv, RunnerFits, Told, NoSummary, NoState
<1>6. RequestsFit'
  BY <1>1 DEF IInv, RequestsFit
<1>7. CloseFits'
  BY <1>1 DEF IInv, CloseFits
<1>8. QED BY <1>2, <1>3, <1>4, <1>5, <1>6, <1>7 DEF IInv

\* The other variables are not in the invariant but for their types.
LEMMA StutterKeeps ==
    ASSUME IInv, TypeOK', UNCHANGED <<file, summary, runner, child, aged, req, hist>>
    PROVE  IInv'
BY DEF IInv, ChildFits, FileFits, SummaryFits, RunnerFits, RequestsFit, CloseFits, Told, Alive

LEMMA InitFits == Init => IInv
<1> SUFFICES ASSUME Init PROVE IInv
  OBVIOUS
<1>1. TypeOK
  <2>1. child \in Child
    BY DEF Init, Child
  <2>2. req \in [Operator -> Pending]
    BY Shapes DEF Init
  <2>3. faults \in 0..MaxFaults
    BY RunAssumption DEF Init
  <2>4. QED BY <2>1, <2>2, <2>3, Shapes DEF Init, TypeOK
<1>2. runner = Off /\ file = NoState /\ summary = NoSummary /\ child.life = "none" /\ ~aged
  BY DEF Init
<1>3. ChildFits /\ FileFits /\ SummaryFits
  BY <1>2, Shapes DEF ChildFits, FileFits, SummaryFits
<1>4. RunnerFits /\ CloseFits
  BY <1>2, Shapes DEF RunnerFits, CloseFits, Off, NoSummary
<1>5. RequestsFit
  BY Shapes DEF Init, RequestsFit
<1>6. QED BY <1>1, <1>3, <1>4, <1>5 DEF IInv

LEMMA StepFits == IInv /\ [Next]_vars => IInv'
<1> SUFFICES ASSUME IInv, [Next]_vars PROVE IInv'
  OBVIOUS
<1>1. CASE UNCHANGED vars
  <2>1. TypeOK'
    BY <1>1 DEF IInv, TypeOK, vars
  <2>2. QED BY <1>1, <2>1, StutterKeeps DEF vars
<1>2. CASE Next
  <2>1. TypeOK'
    BY <1>2, TypeStep DEF IInv
  <2>2. CASE Launch \/ NoticeExit \/ RestartServer
    BY <2>1, <2>2, LaunchKeeps, NoticeExitKeeps, RestartServerKeeps
  <2>3. CASE Look
    BY <2>1, <2>3, StutterKeeps DEF Look
  <2>4. CASE \E p \in Operator : Stop(p) \/ \E op \in {"cancel", "recover"} : BeginStop(p, op)
    BY <2>1, <2>4, BeginStopKeeps, KillKeeps, WriteStateKeeps, WriteSummaryKeeps DEF Stop
  <2>5. CASE RunnerWrites
    BY <2>1, <2>5, WriteQueuedKeeps, WriteFirstSummaryKeeps, SpawnChildKeeps, FailSpawnKeeps,
       MarkRunningKeeps, ListenKeeps, MissCloseKeeps, ReadForCloseKeeps, WriteCloseKeeps,
       WriteLastSummaryKeeps, ExitRunnerKeeps DEF RunnerWrites
  <2>6. CASE MergeId \/ FindThreadId
    BY <2>1, <2>6, ReadForIdKeeps, WriteIdKeeps, WriteIdSummaryKeeps, FindThreadIdKeeps DEF MergeId
  <2>7. CASE \E log \in Lines : WriteLine(log)
    BY <2>1, <2>7, WriteLineKeeps
  <2>8. CASE ChildEnds
    BY <2>1, <2>8, EndChildKeeps DEF ChildEnds
  <2>9. CASE PassGrace \/ CrashRunner
    BY <2>1, <2>9, PassGraceKeeps, CrashRunnerKeeps
  <2>10. QED BY <1>2, <2>2, <2>3, <2>4, <2>5, <2>6, <2>7, <2>8, <2>9 DEF Next
<1>3. QED BY <1>1, <1>2

-----------------------------------------------------------------------------
(* Invariants *)

\* The files of the run, the memory of its runner and the requests of the
\* operators fit each other after every step.
THEOREM RunInvariant == Spec => []IInv
<1>1. Init => IInv
  BY InitFits
<1>2. IInv /\ [Next]_vars => IInv'
  BY StepFits
<1>3. QED BY <1>1, <1>2, PTL DEF Spec

\* Every variable keeps its type.
THEOREM TypeCorrect == Spec => []TypeOK
<1>1. IInv => TypeOK
  BY DEF IInv
<1>2. QED BY <1>1, RunInvariant, PTL

\* When its runner has exited, a run is shown with the outcome of its child and
\* the thread id it printed, unless an operator wrote over it or the id was
\* being merged at the close.
THEOREM OutcomeHolds == Spec => []OutcomeFollowsExit
<1>1. IInv => OutcomeFollowsExit
  <2> SUFFICES ASSUME IInv, runner.at = "exited", hist \intersect {"touched", "overlap"} = {}
               PROVE  Shown.status = EndOf(child.life) /\ (runner.id = "done" => Shown.codex)
    BY DEF OutcomeFollowsExit
  <2>1. /\ summary.state.status = EndOf(child.life)
        /\ runner.id = "done" => summary.state.codex
    BY DEF IInv, CloseFits
  <2>2. EndOf(child.life) \in EndStatus
    BY DEF EndOf
  <2>3. Shown = summary.state
    BY <2>1, <2>2 DEF Shown, UsesCache, Detail, DeriveRunState
  <2>4. QED BY <2>1, <2>3
<1>2. QED BY <1>1, RunInvariant, PTL

-----------------------------------------------------------------------------
(* What the readers see *)

\* The status a reader is told, worked out from the files.
Read ==
    IF summary.state.status = "absent"
    THEN IF file.status = "queued" /\ aged /\ ~message /\ ~cached THEN "failed" ELSE file.status
    ELSE CASE summary.state.status = "queued" ->
                IF aged /\ summary.log = "none" THEN "failed" ELSE "queued"
           [] summary.state.status = "running" ->
                IF summary.log # "stalled" /\ Alive THEN "running"
                ELSE IF summary.log # "stalled" /\ summary.said THEN "completed" ELSE "failed"
           [] OTHER -> summary.state.status

Work == IF child.life = "none" THEN IF runner.at = "gone" THEN "never" ELSE "none"
        ELSE IF Alive THEN "works" ELSE "over"

LEMMA DerivedStatus ==
    ASSUME NEW s \in Summary, NEW alive \in BOOLEAN, NEW old \in BOOLEAN
    PROVE  /\ s.state.status \notin ActiveStatus =>
                 DeriveRunState(s, alive, old).status = s.state.status
           /\ s.state.status = "queued" /\ ~s.state.pid /\ ~s.said /\ s.log # "stalled" =>
                 DeriveRunState(s, alive, old).status =
                    IF old /\ s.log = "none" THEN "failed" ELSE "queued"
           /\ s.state.status = "queued" /\ ~s.state.pid /\ s.said /\ s.log = "none" =>
                 DeriveRunState(s, alive, old).status = "queued"
           /\ s.state.status = "running" /\ s.state.pid =>
                 DeriveRunState(s, alive, old).status =
                    IF s.log # "stalled" /\ alive THEN "running"
                    ELSE IF s.log # "stalled" /\ s.said THEN "completed" ELSE "failed"
<1>1. s.state \in StateFile
  BY DEF Summary
<1>2. QED BY <1>1 DEF DeriveRunState, StateFile

\* What the readers see, with the status worked out.
SeenIsRead == Seen \in LifeRecord /\ Seen = [status |-> Read, work |-> Work, given |-> Given]

LEMMA ShownIsRead ==
    ASSUME IInv
    PROVE  Shown.status = Read
<1>1. summary \in Summary /\ file \in StateFile /\ message \in BOOLEAN /\ aged \in BOOLEAN /\ Alive \in BOOLEAN
  BY DEF IInv, TypeOK, Alive
<1>2. CASE summary.state.status = "absent"
  <2>1. /\ Detail = RawDetail /\ RawDetail \in Summary
        /\ RawDetail.state = file /\ RawDetail.said = message
        /\ file.status # "failed" => RawDetail.log = "none"
    BY <1>1, <1>2 DEF Detail, RawDetail, Summary
  <2>2. /\ file.status \in {"absent", "queued", "failed", "canceled"}
        /\ file.status = "queued" => ~file.pid
    BY <1>2 DEF IInv, FileFits
  <2>3. CASE UsesCache
    BY <1>2, <2>3 DEF Shown, UsesCache, Read
  <2>4. CASE ~UsesCache
    <3>1. Shown = DeriveRunState(RawDetail, Alive, aged)
      BY <2>1, <2>4 DEF Shown
    <3>2. file.status = "queued" => ~cached
      BY <1>2, <2>4 DEF UsesCache
    <3>3. QED BY <1>1, <1>2, <2>1, <2>2, <3>1, <3>2, DerivedStatus DEF Read
  <2>5. QED BY <2>3, <2>4
<1>3. CASE summary.state.status # "absent"
  <2>1. Shown = DeriveRunState(summary, Alive, aged)
    BY <1>3 DEF Shown, UsesCache, Detail
  <2>2. \/ /\ summary.state.status = "queued" /\ ~summary.state.pid
           /\ ~summary.said /\ summary.log # "stalled"
        \/ summary.state.status = "running" /\ summary.state.pid
        \/ summary.state.status \in EndStatus
    BY <1>3 DEF IInv, SummaryFits, Told
  <2>3. QED BY <1>1, <1>3, <2>1, <2>2, DerivedStatus DEF Read
<1>4. QED BY <1>2, <1>3

LEMMA SeenNow == IInv => SeenIsRead
<1> SUFFICES ASSUME IInv PROVE SeenIsRead
  OBVIOUS
<1>1. Shown.status \in RunStatus
  BY Readings DEF IInv, StateFile, RunStatus
<1>2. Seen = [status |-> Read, work |-> Work, given |-> Given]
  BY ShownIsRead DEF Seen, Work, Given
<1>3. Read \in RunStatus /\ Work \in {"none", "works", "over", "never"} /\ Given \in BOOLEAN
  BY <1>1, ShownIsRead DEF Work, Given
<1>4. QED BY <1>2, <1>3 DEF SeenIsRead, LifeRecord

LEMMA SeenNext == IInv' => SeenIsRead'
BY SeenNow, PTL

-----------------------------------------------------------------------------
(* The moves of a run, by the fields they change *)

LifeStep == [Life!Next]_Seen

\* The run x may become y.
Becomes(x, y) ==
    \/ y \in Moves(x) \/ y = Stopped(x) \/ (x.given /\ y \in Retired(x))
    \/ y = x

LEMMA LifeFields ==
    ASSUME NEW x \in LifeRecord, NEW y \in LifeRecord
    PROVE  x = y <=> x.status = y.status /\ x.work = y.work /\ x.given = y.given
BY DEF LifeRecord

LEMMA MovesParts ==
    ASSUME NEW x, NEW y
    PROVE  /\ x.status = "absent" /\ y \in Appears(x) => y \in Moves(x)
           /\ x.work = "none" /\ (x.status = "queued" \/ x.given) /\ y \in Spawns(x) => y \in Moves(x)
           /\ x.status = "queued" /\ x.work \in {"works", "over"} /\ y \in Runs(x) => y \in Moves(x)
           /\ x.work \in {"none", "works"} /\ y \in Stops(x) => y \in Moves(x)
           /\ x.work = "over" /\ y \in Closes(x) => y \in Moves(x)
           /\ x.status = "queued" /\ x.work # "none" /\ y \in Expires(x) => y \in Moves(x)
           /\ x.work = "works" /\ x.status # "queued" /\ y \in FallsSilent(x) => y \in Moves(x)
           /\ HasEnded(x) /\ x.given /\ x.work \in {"none", "works"} /\ y \in Resurfaces(x) => y \in Moves(x)
BY DEF Moves

\* Each move, by the fields of a run that it changes.
LEMMA MovesByFields ==
    ASSUME NEW x \in LifeRecord, NEW y \in LifeRecord
    PROVE  /\ y.status = x.status /\ y.work = x.work /\ y.given = x.given => Becomes(x, y)
           /\ /\ x.status = "absent" /\ y.status \in {"queued", "failed"} /\ y.work = x.work /\ y.given = x.given
              => Becomes(x, y)
           /\ /\ x.work = "none" /\ (x.status = "queued" \/ x.given)
              /\ y.status = x.status /\ y.work = "works" /\ y.given = x.given
              => Becomes(x, y)
           /\ /\ x.status = "queued" /\ x.work \in {"works", "over"}
              /\ y.status = "running" /\ y.work = x.work /\ y.given = x.given
              => Becomes(x, y)
           /\ /\ x.work \in {"none", "works"} /\ y.work = (IF x.work = "none" THEN "never" ELSE "over")
              /\ y.status = (IF x.status = "running" THEN "failed" ELSE x.status) /\ y.given = x.given
              => Becomes(x, y)
           /\ /\ x.work = "over" /\ y.status \in EndStatus /\ y.work = x.work /\ y.given = x.given
              => Becomes(x, y)
           /\ /\ x.status = "queued" /\ x.work # "none"
              /\ y.status = "failed" /\ y.work = x.work /\ y.given = (x.given \/ x.work = "works")
              => Becomes(x, y)
           /\ /\ x.work = "works" /\ x.status # "queued"
              /\ (y.status = "failed" \/ (y.status = "canceled" /\ x.given)) /\ y.work = x.work /\ y.given
              => Becomes(x, y)
           /\ /\ HasEnded(x) /\ x.given /\ y.work = x.work /\ y.given
              /\ ((x.work = "none" /\ y.status = "queued") \/ (x.work = "works" /\ y.status \in ActiveStatus))
              => Becomes(x, y)
           /\ y.status = x.status /\ y.work = x.work /\ y.given => Becomes(x, y)
           /\ x.given /\ y.status \in {"failed", "canceled"} /\ y.work = x.work /\ y.given => Becomes(x, y)
<1>1. x.given \in BOOLEAN /\ y.given \in BOOLEAN
  BY DEF LifeRecord
<1>2. y.status = x.status /\ y.work = x.work /\ y.given = x.given => Becomes(x, y)
  BY <1>1, LifeFields DEF Becomes
<1>3. ASSUME x.status = "absent" /\ y.status \in {"queued", "failed"} /\ y.work = x.work /\ y.given = x.given
      PROVE  Becomes(x, y)
  <2>1. y \in Appears(x)
    BY <1>1, <1>3, LifeFields DEF Appears, LifeRecord, RunStatus
  <2>2. QED BY <1>3, <2>1, MovesParts DEF Becomes
<1>4. ASSUME x.work = "none" /\ (x.status = "queued" \/ x.given)
             /\ y.status = x.status /\ y.work = "works" /\ y.given = x.given
      PROVE  Becomes(x, y)
  <2>1. y \in Spawns(x)
    BY <1>1, <1>4, LifeFields DEF Spawns, LifeRecord, RunStatus
  <2>2. QED BY <1>4, <2>1, MovesParts DEF Becomes
<1>5. ASSUME x.status = "queued" /\ x.work \in {"works", "over"}
             /\ y.status = "running" /\ y.work = x.work /\ y.given = x.given
      PROVE  Becomes(x, y)
  <2>1. y \in Runs(x)
    BY <1>1, <1>5, LifeFields DEF Runs, LifeRecord, RunStatus
  <2>2. QED BY <1>5, <2>1, MovesParts DEF Becomes
<1>6. ASSUME x.work \in {"none", "works"} /\ y.work = (IF x.work = "none" THEN "never" ELSE "over")
             /\ y.status = (IF x.status = "running" THEN "failed" ELSE x.status) /\ y.given = x.given
      PROVE  Becomes(x, y)
  <2>1. [x EXCEPT !.work = y.work, !.status = y.status] \in Stops(x)
    BY <1>6 DEF Stops
  <2>2. y = [x EXCEPT !.work = y.work, !.status = y.status]
    BY <1>1, <1>6, LifeFields DEF LifeRecord
  <2>3. y \in Stops(x)
    BY <2>1, <2>2
  <2>4. QED BY <1>6, <2>3, MovesParts DEF Becomes
<1>7. ASSUME x.work = "over" /\ y.status \in EndStatus /\ y.work = x.work /\ y.given = x.given
      PROVE  Becomes(x, y)
  <2>1. y \in Closes(x)
    BY <1>1, <1>7, LifeFields DEF Closes, LifeRecord, RunStatus
  <2>2. QED BY <1>7, <2>1, MovesParts DEF Becomes
<1>8. ASSUME x.status = "queued" /\ x.work # "none"
             /\ y.status = "failed" /\ y.work = x.work /\ y.given = (x.given \/ x.work = "works")
      PROVE  Becomes(x, y)
  <2>1. [x EXCEPT !.status = "failed", !.given = y.given] \in Expires(x)
    BY <1>8 DEF Expires
  <2>2. y = [x EXCEPT !.status = "failed", !.given = y.given]
    BY <1>1, <1>8, LifeFields DEF LifeRecord, RunStatus
  <2>3. y \in Expires(x)
    BY <2>1, <2>2
  <2>4. QED BY <1>8, <2>3, MovesParts DEF Becomes
<1>9. ASSUME x.work = "works" /\ x.status # "queued"
             /\ (y.status = "failed" \/ (y.status = "canceled" /\ x.given)) /\ y.work = x.work /\ y.given
      PROVE  Becomes(x, y)
  <2>1. [x EXCEPT !.status = y.status, !.given = TRUE] \in FallsSilent(x)
    BY <1>9 DEF FallsSilent
  <2>2. y = [x EXCEPT !.status = y.status, !.given = TRUE]
    BY <1>1, <1>9, LifeFields DEF LifeRecord
  <2>3. y \in FallsSilent(x)
    BY <2>1, <2>2
  <2>4. QED BY <1>9, <2>3, MovesParts DEF Becomes
<1>10. ASSUME HasEnded(x) /\ x.given /\ y.work = x.work /\ y.given
             /\ ((x.work = "none" /\ y.status = "queued") \/ (x.work = "works" /\ y.status \in ActiveStatus))
      PROVE  Becomes(x, y)
  <2>1. y \in Resurfaces(x)
    BY <1>1, <1>10, LifeFields DEF Resurfaces, LifeRecord, RunStatus
  <2>2. QED BY <1>10, <2>1, MovesParts DEF Becomes
<1>11. ASSUME y.status = x.status, y.work = x.work, y.given
      PROVE  Becomes(x, y)
  <2>1. y = Stopped(x)
    BY <1>1, <1>11, LifeFields DEF Stopped, LifeRecord
  <2>2. QED BY <2>1 DEF Becomes
<1>12. ASSUME x.given, y.status \in {"failed", "canceled"}, y.work = x.work, y.given
      PROVE  Becomes(x, y)
  <2>1. y \in Retired(x)
    BY <1>1, <1>12, LifeFields DEF Retired, LifeRecord, RunStatus
  <2>2. QED BY <1>12, <2>1 DEF Becomes
<1>13. QED BY <1>2, <1>3, <1>4, <1>5, <1>6, <1>7, <1>8, <1>9, <1>10, <1>11, <1>12


\* The moves of RunLife are those of ThreadRecords.
LEMMA SameMoves ==
    ASSUME NEW x
    PROVE  /\ Life!Moves(x) = Moves(x) /\ Life!Stopped(x) = Stopped(x) /\ Life!Retired(x) = Retired(x)
<1>1. /\ Life!Appears(x) = Appears(x) /\ Life!Spawns(x) = Spawns(x) /\ Life!Runs(x) = Runs(x)
      /\ Life!Stops(x) = Stops(x) /\ Life!Expires(x) = Expires(x)
      /\ Life!FallsSilent(x) = FallsSilent(x)
  BY DEF Life!Appears, Appears, Life!Spawns, Spawns, Life!Runs, Runs, Life!Stops, Stops,
         Life!Expires, Expires, Life!FallsSilent, FallsSilent
<1>2. /\ Life!Closes(x) = Closes(x) /\ Life!Resurfaces(x) = Resurfaces(x)
      /\ (Life!HasEnded(x) <=> HasEnded(x))
  BY DEF Life!Closes, Closes, Life!Resurfaces, Resurfaces, Life!HasEnded, HasEnded,
         Life!EndStatus, Life!ActiveStatus
<1>3. Life!Moves(x) = Moves(x)
  BY <1>1, <1>2 DEF Life!Moves, Moves
<1>4. Life!Stopped(x) = Stopped(x) /\ Life!Retired(x) = Retired(x)
  BY DEF Life!Stopped, Stopped, Life!Retired, Retired
<1>5. QED BY <1>3, <1>4

LEMMA BecomesSteps ==
    ASSUME Becomes(Seen, Seen')
    PROVE  LifeStep
<1>1. CASE Seen' \in Moves(Seen)
  BY <1>1, SameMoves DEF LifeStep, Life!Next
<1>2. CASE Seen' = Stopped(Seen) \/ (Seen.given /\ Seen' \in Retired(Seen)) \/ Seen' = Seen
  BY <1>2, SameMoves DEF LifeStep, Life!Next
<1>3. QED BY <1>1, <1>2 DEF Becomes

\* The moves of the run of the readers.
LEMMA RunMoves ==
    ASSUME IInv, IInv'
    PROVE  /\ Read' = Read /\ Work' = Work /\ (Given' <=> Given) => LifeStep
           /\ /\ Read = "absent" /\ Read' \in {"queued", "failed"} /\ Work' = Work /\ (Given' <=> Given)
              => LifeStep
           /\ /\ Work = "none" /\ (Read = "queued" \/ Given)
              /\ Read' = Read /\ Work' = "works" /\ (Given' <=> Given)
              => LifeStep
           /\ /\ Read = "queued" /\ Work \in {"works", "over"}
              /\ Read' = "running" /\ Work' = Work /\ (Given' <=> Given)
              => LifeStep
           /\ /\ Work \in {"none", "works"} /\ Work' = (IF Work = "none" THEN "never" ELSE "over")
              /\ Read' = (IF Read = "running" THEN "failed" ELSE Read) /\ (Given' <=> Given)
              => LifeStep
           /\ Work = "over" /\ Read' \in EndStatus /\ Work' = Work /\ (Given' <=> Given) => LifeStep
           /\ /\ Read = "queued" /\ Work # "none"
              /\ Read' = "failed" /\ Work' = Work /\ (Given' <=> (Given \/ Work = "works"))
              => LifeStep
           /\ /\ Work = "works" /\ Read # "queued"
              /\ Read' = "failed" /\ Work' = Work /\ Given'
              => LifeStep
           /\ /\ Read \in EndStatus /\ Given /\ Work' = Work /\ Given'
              /\ ((Work = "none" /\ Read' = "queued") \/ (Work = "works" /\ Read' \in ActiveStatus))
              => LifeStep
           /\ Read' = Read /\ Work' = Work /\ Given' => LifeStep
           /\ Given /\ Read' \in {"failed", "canceled"} /\ Work' = Work /\ Given' => LifeStep
<1>1. Seen \in LifeRecord /\ Seen' \in LifeRecord
  BY SeenNow, SeenNext DEF SeenIsRead
<1>2. /\ Seen.status = Read /\ Seen.work = Work /\ (Seen.given <=> Given)
      /\ Seen'.status = Read' /\ Seen'.work = Work' /\ (Seen'.given <=> Given')
  BY SeenNow, SeenNext DEF SeenIsRead
<1>3. Given \in BOOLEAN /\ Given' \in BOOLEAN /\ (HasEnded(Seen) <=> Read \in EndStatus)
  BY <1>2 DEF Given, HasEnded
<1> DEFINE x == Seen
           y == Seen'
<1>4. x \in LifeRecord /\ y \in LifeRecord
  BY <1>1
<1>5. Becomes(x, y) => LifeStep
  BY BecomesSteps
<1>6. /\ (Given' <=> Given) => y.given = x.given
      /\ (Given' <=> (Given \/ Work = "works")) => y.given = (x.given \/ x.work = "works")
  BY <1>2, <1>3, <1>4 DEF LifeRecord
<1>7. /\ x.status = Read /\ x.work = Work /\ (x.given <=> Given)
      /\ y.status = Read' /\ y.work = Work' /\ (y.given <=> Given')
      /\ HasEnded(x) <=> Read \in EndStatus
  BY <1>2, <1>3
<1> HIDE DEF x, y
<1>8. QED BY <1>4, <1>5, <1>6, <1>7, MovesByFields

-----------------------------------------------------------------------------
(* Each step of the run is a move of the run of its readers, or none *)

\* Steps that no reader sees.
LEMMA QuietSimulates ==
    ASSUME IInv, IInv',
           Look \/ FindThreadId \/ ReadForId \/ ReadForClose \/ ExitRunner
             \/ \E p \in Operator, op \in {"cancel", "recover"} : BeginStop(p, op)
    PROVE  LifeStep
<1>1. /\ file' = file /\ summary' = summary /\ message' = message /\ child' = child /\ aged' = aged
      /\ Given' <=> Given
  BY DEF Look, FindThreadId, ReadForId, ReadForClose, ExitRunner, BeginStop, Given
<1>2. runner'.at = "gone" <=> runner.at = "gone"
  BY EndedRunner DEF IInv, TypeOK, Runner, Look, FindThreadId, ReadForId, ReadForClose, ExitRunner, BeginStop
<1>3. cached' = cached \/ Read = "queued"
  BY ShownIsRead DEF Look, FindThreadId, ReadForId, ReadForClose, ExitRunner, BeginStop
<1>4. cached' = cached \/ cached'
  BY DEF Look, FindThreadId, ReadForId, ReadForClose, ExitRunner, BeginStop
<1>5. Read' = Read
  BY <1>1, <1>3, <1>4 DEF Read, Alive
<1>6. Work' = Work
  BY <1>1, <1>2 DEF Work, Alive
<1>7. QED BY <1>1, <1>5, <1>6, RunMoves

\* state.json does not count while there is a summary.
LEMMA StateFileSimulates ==
    ASSUME IInv, IInv', MarkRunning \/ WriteId \/ WriteClose
    PROVE  LifeStep
<1>1. /\ summary' = summary /\ child' = child /\ aged' = aged
      /\ Given' <=> Given
  BY DEF MarkRunning, WriteId, WriteClose, Given
<1>2. runner.at \notin {"off", "boot", "queued", "gone"}
  BY DEF IInv, RunnerFits, MarkRunning, WriteId, WriteClose
<1>3. runner'.at # "gone"
  BY <1>2 DEF IInv, TypeOK, Runner, MarkRunning, WriteId, WriteClose
<1>4. summary.state.status # "absent"
  BY <1>2 DEF IInv, FileFits
<1>5. Read' = Read /\ Work' = Work
  BY <1>1, <1>2, <1>3, <1>4 DEF Read, Work, Alive
<1>6. QED BY <1>1, <1>5, RunMoves

\* The spawn of the runner may fail: then the child will never start.
LEMMA LaunchSimulates ==
    ASSUME IInv, IInv', Launch
    PROVE  LifeStep
<1>1. /\ file' = file /\ summary' = summary /\ message' = message /\ child' = child /\ aged' = aged
      /\ cached' = cached /\ hist' = hist /\ runner.at = "off"
  BY DEF Launch
<1>2. file.status = "absent" /\ summary.state.status = "absent" /\ child.life = "none"
  BY <1>1, Shapes DEF IInv, FileFits, ChildFits
<1>3. Read = "absent" /\ Read' = "absent" /\ (Given' <=> Given)
  BY <1>1, <1>2 DEF Read, Given
<1>4. Work = "none" /\ Work' \in {"none", "never"}
  BY <1>1, <1>2 DEF Work
<1>5. QED BY <1>3, <1>4, RunMoves

LEMMA NoticeExitSimulates ==
    ASSUME IInv, IInv', NoticeExit
    PROVE  LifeStep
<1>1. /\ summary' = summary /\ message' = message /\ child' = child /\ aged' = aged
      /\ cached' = cached /\ hist' = hist /\ runner' = runner /\ runner.at = "gone"
      /\ file.status \in {"absent", "queued"}
  BY DEF NoticeExit
<1>2. file'.status = "failed"
  BY DEF IInv, TypeOK, NoticeExit, StateFile
<1>3. Work' = Work /\ (Given' <=> Given)
  BY <1>1 DEF Work, Given, Alive
<1>4. CASE summary.state.status # "absent"
  <2>1. Read' = Read
    BY <1>1, <1>4 DEF Read, Alive
  <2>2. QED BY <1>3, <2>1, RunMoves
<1>5. CASE summary.state.status = "absent"
  <2>1. Work = "never"
    BY <1>1, <1>5 DEF IInv, FileFits, Work
  <2>2. Read \in {"absent", "queued", "failed"} /\ Read' = "failed"
    BY <1>1, <1>2, <1>5 DEF Read
  <2>3. QED BY <1>3, <2>1, <2>2, RunMoves
<1>6. QED BY <1>4, <1>5

\* Without its cache the server finds that a queued run has aged.
LEMMA RestartServerSimulates ==
    ASSUME IInv, IInv', RestartServer
    PROVE  LifeStep
<1>1. /\ file' = file /\ summary' = summary /\ message' = message /\ child' = child /\ aged' = aged
      /\ hist' = hist /\ runner' = runner
  BY DEF RestartServer
<1>2. Work' = Work /\ (Given' <=> Given)
  BY <1>1 DEF Work, Given, Alive
<1>3. CASE Read' = Read
  BY <1>2, <1>3, RunMoves
<1>4. CASE Read' # Read
  <2>1. summary.state.status = "absent" /\ aged /\ Read = "queued" /\ Read' = "failed"
    BY <1>1, <1>4 DEF RestartServer, Read, Alive
  <2>2. Work = "never"
    BY <2>1 DEF IInv, ChildFits, FileFits, Work
  <2>3. QED BY <1>2, <2>1, <2>2, RunMoves
<1>5. QED BY <1>3, <1>4

LEMMA KillSimulates ==
    ASSUME IInv, IInv', NEW p \in Operator, Kill(p)
    PROVE  LifeStep
<1>1. /\ file' = file /\ summary' = summary /\ message' = message /\ aged' = aged
      /\ cached' = cached /\ runner' = runner /\ child'.life = child.life
  BY DEF IInv, TypeOK, Child, Kill
<1>2. Read' = Read /\ Work' = Work
  BY <1>1 DEF Read, Work, Alive
<1>3. hist' = hist \/ Given'
  BY DEF Kill, Given
<1>4. (Given' <=> Given) \/ Given'
  BY <1>3 DEF Given
<1>5. QED BY <1>2, <1>4, RunMoves

\* An operator writes the state he has read, ended, over what is there.
LEMMA WriteOverSimulates ==
    ASSUME IInv, IInv', NEW p \in Operator, WriteState(p) \/ WriteSummary(p)
    PROVE  LifeStep
<1>1. /\ message' = message /\ child' = child /\ aged' = aged /\ cached' = cached
      /\ hist' = hist /\ runner' = runner
      /\ req[p] \in Pending /\ Touched
  BY DEF IInv, TypeOK, RequestsFit, WriteState, WriteSummary
<1>2. Work' = Work /\ Given /\ Given'
  BY <1>1 DEF Work, Given, Alive
<1>3. CASE WriteState(p)
  <2>1. summary' = summary /\ file'.status \in {"failed", "canceled"}
    BY <1>1, <1>3, EndedStateFields DEF WriteState
  <2>2. Read' = Read \/ Read' \in {"failed", "canceled"}
    BY <1>1, <2>1 DEF Read, Alive
  <2>3. QED BY <1>2, <2>2, RunMoves
<1>4. CASE WriteSummary(p)
  <2>1. summary'.state.status \in {"failed", "canceled"}
    BY <1>1, <1>4, EndedStateFields DEF WriteSummary
  <2>2. Read' \in {"failed", "canceled"}
    BY <2>1 DEF Read
  <2>3. QED BY <1>2, <2>2, RunMoves
<1>5. QED BY <1>3, <1>4

LEMMA WriteQueuedSimulates ==
    ASSUME IInv, IInv', WriteQueued
    PROVE  LifeStep
<1>1. /\ summary' = summary /\ child' = child /\ aged' = aged /\ hist' = hist
      /\ runner.at = "boot" /\ runner'.at = "queued" /\ file'.status = "queued"
  BY DEF IInv, TypeOK, Runner, WriteQueued
<1>2. /\ file.status = "absent" /\ summary.state.status = "absent" /\ child.life = "none" /\ ~aged
  BY <1>1, Shapes DEF IInv, FileFits, ChildFits
<1>3. Read = "absent" /\ Read' = "queued" /\ Work' = Work /\ (Given' <=> Given)
  BY <1>1, <1>2 DEF Read, Work, Given
<1>4. QED BY <1>3, RunMoves

\* The runner writes on over what an operator wrote.
LEMMA WriteFirstSummarySimulates ==
    ASSUME IInv, IInv', WriteFirstSummary
    PROVE  LifeStep
<1>1. /\ summary' = runner.mem /\ child' = child /\ aged' = aged /\ hist' = hist
      /\ runner.at = "queued" /\ runner'.at = "ready"
  BY DEF IInv, TypeOK, Runner, WriteFirstSummary
<1>2. runner.mem.state.status = "queued" /\ child.life = "none" /\ ~aged
  BY <1>1 DEF IInv, RunnerFits, ChildFits
<1>3. Read' = "queued" /\ Work = "none" /\ Work' = "none" /\ (Given' <=> Given)
  BY <1>1, <1>2 DEF Read, Work, Given
<1>4. Read = "queued" \/ (Read \in {"failed", "canceled"} /\ Given)
  BY <1>1, <1>2 DEF IInv, FileFits, SummaryFits, Told, Read, Given
<1>5. QED BY <1>3, <1>4, RunMoves

LEMMA SpawnSimulates ==
    ASSUME IInv, IInv', SpawnChild \/ FailSpawn
    PROVE  LifeStep
<1>1. /\ summary' = summary /\ aged' = aged /\ hist' = hist /\ runner.at = "ready"
  BY DEF SpawnChild, FailSpawn
<1>2. summary.state.status # "absent" /\ child.life = "none" /\ ~aged
  BY <1>1 DEF IInv, FileFits, ChildFits
<1>3. /\ Read = "queued" \/ (Read \in {"failed", "canceled"} /\ Given)
      /\ Read' = Read /\ (Given' <=> Given) /\ Work = "none"
  BY <1>1, <1>2 DEF IInv, SummaryFits, Told, Read, Given, Work
<1>4. Work' \in {"works", "never"}
  <2>1. CASE SpawnChild
    BY <2>1 DEF IInv, TypeOK, Child, SpawnChild, Work, Alive
  <2>2. CASE FailSpawn
    BY <1>2, <2>2, EndedRunner DEF IInv, FailSpawn, Work
  <2>3. QED BY <2>1, <2>2
<1>5. QED BY <1>3, <1>4, RunMoves

LEMMA CrashRunnerSimulates ==
    ASSUME IInv, IInv', CrashRunner
    PROVE  LifeStep
<1>1. /\ file' = file /\ summary' = summary /\ message' = message /\ child' = child /\ aged' = aged
      /\ cached' = cached /\ hist' = hist /\ runner.at # "gone" /\ runner'.at = "gone"
  BY EndedRunner DEF IInv, CrashRunner
<1>2. Read' = Read /\ (Given' <=> Given)
  BY <1>1 DEF Read, Given, Alive
<1>3. CASE child.life # "none"
  <2>1. Work' = Work
    BY <1>1, <1>3 DEF Work, Alive
  <2>2. QED BY <1>2, <2>1, RunMoves
<1>4. CASE child.life = "none"
  <2>1. Work = "none" /\ Work' = "never"
    BY <1>1, <1>4 DEF Work
  <2>2. Read # "running"
    BY <1>4 DEF IInv, FileFits, SummaryFits, Told, Read
  <2>3. QED BY <1>2, <2>1, <2>2, RunMoves
<1>5. QED BY <1>3, <1>4

\* A summary written when the child has started: the run starts to be shown as
\* running, resurfaces, falls silent, or closes.
LEMMA SummaryWritten ==
    ASSUME IInv, IInv', child' = child, child.life # "none", ~aged,
           summary.state.status # "absent",
           summary'.state.status \notin {"absent", "queued"},
           \/ hist' = hist
           \/ hist' = hist \union {"silent"} /\ Alive /\ summary'.log = "stalled" /\ summary.state.status # "queued"
    PROVE  LifeStep
<1>1. Told(summary.state) \/ summary.state.status = "queued"
  BY DEF IInv, SummaryFits
<1>2. /\ \/ summary'.state.status = "running" /\ summary'.state.pid
         \/ summary'.state.status \in EndStatus /\ child.life \in Exit
         \/ summary'.state.status \in {"failed", "canceled"} /\ "touched" \in hist'
      /\ IsActive(summary'.state) /\ Alive /\ summary'.log = "stalled" => "silent" \in hist'
  BY DEF IInv, SummaryFits, Told, Alive
<1>3. Work' = Work /\ (Given => Given')
  BY DEF Work, Given, Alive
<1>4. CASE ~Alive
  <2>1. Work = "over" /\ (Given' <=> Given)
    BY <1>4 DEF Work, Given
  <2>2. Read' \in EndStatus
    BY <1>2, <1>4 DEF Read, Alive
  <2>3. QED BY <1>3, <2>1, <2>2, RunMoves
<1>5. CASE Alive
  <2>1. Work = "works" /\ child.life \notin Exit
    BY <1>5 DEF Work, Alive
  <2>2. CASE summary'.state.status = "running" /\ summary'.log # "stalled"
    <3>1. Read' = "running" /\ (Given' <=> Given)
      BY <1>5, <2>2 DEF Read, Given, Alive
    <3>2. Read \in ActiveStatus \/ (Read \in {"failed", "canceled"} /\ Given)
      BY <1>1, <1>5, <2>1 DEF IInv, SummaryFits, Told, IsActive, Read, Given
    <3>3. QED BY <1>3, <2>1, <3>1, <3>2, RunMoves
  <2>3. CASE summary'.state.status = "running" /\ summary'.log = "stalled"
    <3>1. Read' = "failed" /\ Given'
      BY <1>2, <1>5, <2>3 DEF Read, Given, IsActive
    <3>2. Given \/ Read # "queued"
      BY <1>1, <1>2, <2>3, <3>1 DEF Given, Told, Read
    <3>3. QED BY <1>3, <2>1, <3>1, <3>2, RunMoves
  <2>4. CASE summary'.state.status # "running"
    <3>1. summary'.state.status \in {"failed", "canceled"} /\ "touched" \in hist'
      BY <1>2, <2>1, <2>4
    <3>2. Read' \in {"failed", "canceled"} /\ Given'
      BY <3>1 DEF Read, Given
    <3>3. Given
      BY <3>1 DEF Given
    <3>4. QED BY <1>3, <3>2, <3>3, RunMoves
  <2>5. QED BY <2>2, <2>3, <2>4
<1>6. QED BY <1>4, <1>5

LEMMA LateSummarySimulates ==
    ASSUME IInv, IInv', Listen \/ WriteIdSummary \/ WriteLastSummary
    PROVE  LifeStep
<1>1. child' = child /\ aged' = aged /\ hist' = hist
  BY DEF Listen, WriteIdSummary, WriteLastSummary
<1>2. runner.at \in After
  BY DEF IInv, RunnerFits, Listen, WriteIdSummary, WriteLastSummary
<1>3. child.life # "none" /\ ~aged /\ summary.state.status # "absent"
  BY <1>2 DEF IInv, ChildFits, FileFits
<1>4. summary'.state.status = runner.mem.state.status
  BY DEF IInv, TypeOK, Runner, Summary, Listen, WriteIdSummary, WriteLastSummary
<1>5. summary'.state.status \notin {"absent", "queued"}
  BY <1>2, <1>4 DEF IInv, RunnerFits, Told
<1>6. QED BY <1>1, <1>3, <1>5, SummaryWritten

LEMMA WriteLineSimulates ==
    ASSUME IInv, IInv', NEW log \in Lines, WriteLine(log)
    PROVE  LifeStep
<1>1. child' = child /\ runner.at = "listening"
  BY DEF WriteLine
<1>2. child.life # "none" /\ ~aged /\ summary.state.status \notin {"absent", "queued"}
  BY <1>1 DEF IInv, ChildFits, FileFits, SummaryFits, Told
<1>3. runner.mem \in Summary /\ log \in LogTail
  BY RunAssumption DEF IInv, TypeOK, Runner
<1>4. summary'.state = runner.mem.state /\ summary'.log = log
  BY <1>3 DEF WriteLine, Summary
<1>5. summary'.state.status \notin {"absent", "queued"}
  BY <1>1, <1>4 DEF IInv, RunnerFits, Told
<1>6. hist' = hist \/ (hist' = hist \union {"silent"} /\ Alive /\ summary'.log = "stalled")
  BY <1>4 DEF WriteLine
<1>7. QED BY <1>1, <1>2, <1>5, <1>6, SummaryWritten

LEMMA MissCloseSimulates ==
    ASSUME IInv, IInv', MissClose
    PROVE  LifeStep
<1>1. child' = child /\ hist' = hist /\ child.life \in Exit /\ runner.at \in {"spawned", "marked"}
  BY DEF MissClose
<1>2. ~aged /\ summary.state.status # "absent"
  BY <1>1 DEF IInv, ChildFits, FileFits
<1>3. summary'.state.status = "running"
  <2>1. runner.mem \in Summary /\ file \in StateFile
    BY DEF IInv, TypeOK, Runner
  <2>2. RunningState.status = "running" /\ summary'.state = RunningState
    BY <2>1 DEF MissClose, RunningState, StateFile, Summary
  <2>3. QED BY <2>2
<1>4. QED BY <1>1, <1>2, <1>3, SummaryWritten

LEMMA EndChildSimulates ==
    ASSUME IInv, IInv', NEW how \in Exit, NEW said \in BOOLEAN, EndChild(how, said)
    PROVE  LifeStep
<1>1. /\ summary' = summary /\ aged' = aged /\ hist' = hist
      /\ child.life = "alive" /\ child'.life = how
  BY DEF IInv, TypeOK, EndChild, Child, Alive
<1>2. summary.state.status # "absent"
  BY <1>1 DEF IInv, FileFits
<1>3. summary.state.status = "running" => ~summary.said
  BY <1>1, <1>2 DEF IInv, SummaryFits, IsActive, Alive
<1>4. Read' = (IF Read = "running" THEN "failed" ELSE Read)
  <2>1. Alive /\ ~Alive'
    BY <1>1 DEF Alive
  <2>2. summary.state.status \in RunStatus
    BY DEF IInv, TypeOK, Summary, StateFile, RunStatus
  <2>3. QED BY <1>1, <1>2, <1>3, <2>1, <2>2 DEF Read, RunStatus
<1>5. Work = "works" /\ Work' = "over" /\ (Given' <=> Given)
  BY <1>1 DEF Work, Given, Alive
<1>6. QED BY <1>4, <1>5, RunMoves

LEMMA PassGraceSimulates ==
    ASSUME IInv, IInv', PassGrace
    PROVE  LifeStep
<1>1. /\ file' = file /\ summary' = summary /\ message' = message /\ child' = child
      /\ cached' = cached /\ runner' = runner /\ runner.at = "gone"
      /\ hist' = IF Alive /\ ~Active' THEN hist \union {"silent"} ELSE hist
  BY DEF PassGrace
<1>2. Work' = Work /\ Work # "none" /\ (Alive <=> Work = "works")
  BY <1>1 DEF IInv, TypeOK, Child, Work, Alive
<1>3. Active' <=> Read' \in ActiveStatus
  BY SeenNow, SeenNext DEF Active, SeenIsRead, Seen
<1>4. Read \in ActiveStatus
  BY ShownIsRead DEF PassGrace, Active
<1>5. CASE Read' = Read
  <2>1. hist' = hist
    BY <1>1, <1>3, <1>4, <1>5
  <2>2. Given' <=> Given
    BY <2>1 DEF Given
  <2>3. QED BY <1>2, <1>5, <2>2, RunMoves
<1>6. CASE Read' # Read
  <2>1. Read = "queued" /\ Read' = "failed"
    BY <1>1, <1>4, <1>6 DEF Read, Alive
  <2>2. Given' <=> (Given \/ Work = "works")
    BY <1>1, <1>2, <1>3, <2>1 DEF Given
  <2>3. QED BY <1>2, <2>1, <2>2, RunMoves
<1>7. QED BY <1>5, <1>6

LEMMA StutterSimulates ==
    ASSUME IInv, IInv', UNCHANGED vars
    PROVE  LifeStep
<1>1. Read' = Read /\ Work' = Work /\ (Given' <=> Given)
  BY DEF vars, Read, Work, Given, Alive
<1>2. QED BY <1>1, RunMoves

\* Every step of the run is a move of the run of its readers, or none.
LEMMA StepSimulates ==
    ASSUME IInv, IInv', [Next]_vars
    PROVE  LifeStep
<1>1. CASE UNCHANGED vars
  BY <1>1, StutterSimulates
<1>2. CASE Launch \/ NoticeExit \/ Look \/ RestartServer
  BY <1>2, LaunchSimulates, NoticeExitSimulates, QuietSimulates, RestartServerSimulates
<1>3. CASE \E p \in Operator : Stop(p) \/ \E op \in {"cancel", "recover"} : BeginStop(p, op)
  BY <1>3, KillSimulates, WriteOverSimulates, QuietSimulates DEF Stop
<1>4. CASE RunnerWrites
  BY <1>4, WriteQueuedSimulates, WriteFirstSummarySimulates, SpawnSimulates, StateFileSimulates,
     LateSummarySimulates, MissCloseSimulates, QuietSimulates DEF RunnerWrites
<1>5. CASE MergeId \/ FindThreadId
  BY <1>5, QuietSimulates, StateFileSimulates, LateSummarySimulates DEF MergeId
<1>6. CASE \E log \in Lines : WriteLine(log)
  BY <1>6, WriteLineSimulates
<1>7. CASE ChildEnds
  BY <1>7, EndChildSimulates DEF ChildEnds
<1>8. CASE PassGrace \/ CrashRunner
  BY <1>8, PassGraceSimulates, CrashRunnerSimulates
<1>9. QED BY <1>1, <1>2, <1>3, <1>4, <1>5, <1>6, <1>7, <1>8 DEF Next

\* Whatever the runner, the child and the operators do with the files of a run,
\* its readers see it live the life that the tasks are reconciled with.
THEOREM RunsImplementLife == Spec => ImplementsRunLife
<1>1. Init => Life!Init
  <2> SUFFICES ASSUME Init PROVE Life!Init
    OBVIOUS
  <2>1. Seen = [status |-> Read, work |-> Work, given |-> Given]
    BY InitFits, SeenNow DEF SeenIsRead
  <2>2. Read = "absent" /\ Work = "none" /\ ~Given
    BY Shapes DEF Init, Read, Work, Given, Off
  <2>3. Given = FALSE
    BY <2>2 DEF Given
  <2>4. Seen = NoLife
    BY <2>1, <2>2, <2>3 DEF NoLife
  <2>5. QED BY <2>4 DEF Life!Init, Life!NoLife, NoLife
<1>2. IInv /\ IInv' /\ [Next]_vars => [Life!Next]_Seen
  BY StepSimulates DEF LifeStep
<1>3. QED BY RunInvariant, <1>1, <1>2, PTL DEF Spec, ImplementsRunLife, Life!Spec
=============================================================================
