------------------------------- MODULE RunFiles -------------------------------
(***************************************************************************)
(* One run of a work thread: the detached runner                           *)
(* scripts/agent-thread-runner.mjs, the Codex child it starts, and what    *)
(* agent-threads.ts in the server does with the files of the run: it       *)
(* launches the runner, marks a failed launch, reads, and stops the run    *)
(* for an operator.  They share state.json and summary.json and no lock:   *)
(* the server learns of the end of a run by reading them and by probing    *)
(* the pid of the child.                                                   *)
(*                                                                         *)
(* A write of one file is atomic, and a process issues its writes in order *)
(* except for those the runner does not await when a line holds the        *)
(* thread id.  A handler that stops the run is a sequence of steps between *)
(* its awaits, with the detail it has read in req.                         *)
(***************************************************************************)
EXTENDS Naturals, ThreadRecords

CONSTANTS
    Operator,   \* requests that may stop the run, at the same time
    Lines,      \* what a line of the child may tell: "line", "stalled"
    MaxFaults   \* bound on crashes of the runner and restarts of the server

ASSUME RunAssumption == Lines \subseteq {"line", "stalled"} /\ MaxFaults \in Nat

VARIABLES
    resumes,  \* the run is configured with a thread id to resume
    file,     \* state.json
    summary,  \* summary.json
    message,  \* Codex wrote a last message
    runner,   \* the runner: where it is, its summary in memory, its pending merges
    child,    \* the Codex child: its life, and whether it was sent SIGTERM
    aged,     \* nothing has changed for STALE_RUN_GRACE_MS
    req,      \* operator -> its request and the detail it has read
    cached,   \* the server cached the detail of the queued run
    watched,  \* the server listens for the exit of the runner
    faults,   \* crashes and restarts so far
    hist      \* what happened to the run: "touched" by an operator, "silent",
              \* or an "overlap" of a pending merge with the last writes

files  == <<file, summary, message>>
server == <<req, cached, watched>>
vars   == <<resumes, file, summary, message, runner, child, aged, req, cached, watched, faults, hist>>

RunnerStep == {"off", "boot", "queued", "ready", "spawned", "marked", "listening",
               "merging", "closed", "exiting", "exited", "gone"}
Running == RunnerStep \ {"off", "exited", "gone"}
\* Progress of the write that adds the thread id found in a line.
IdStep == {"none", "due", "read", "written", "done"}
Runner == [at : RunnerStep, mem : Summary, copy : StateFile, id : IdStep, idCopy : StateFile]
Off    == [at |-> "off", mem |-> NoSummary, copy |-> NoState, id |-> "none", idCopy |-> NoState]

\* A runner that has exited after its last write, or is gone without it.
Ended(how) == [Off EXCEPT !.at = how, !.id = runner.id]

Exit  == {"ok", "bad", "term"}
Child == [life : {"none", "alive"} \union Exit, signalled : BOOLEAN]

Idle    == [at |-> "idle", op |-> "cancel", seen |-> NoSummary, verdict |-> "failed"]
Pending == [at : {"idle", "kill", "state", "summary"}, op : {"cancel", "recover"},
            seen : Summary, verdict : {"failed", "canceled"}]

TypeOK ==
    /\ resumes \in BOOLEAN
    /\ file \in StateFile /\ summary \in Summary /\ message \in BOOLEAN
    /\ runner \in Runner /\ child \in Child /\ aged \in BOOLEAN
    /\ req \in [Operator -> Pending]
    /\ cached \in BOOLEAN /\ watched \in BOOLEAN
    /\ faults \in 0..MaxFaults
    /\ hist \in SUBSET {"touched", "silent", "overlap"}

Init ==
    /\ resumes \in BOOLEAN
    /\ file = NoState /\ summary = NoSummary /\ message = FALSE
    /\ runner = Off /\ child = [life |-> "none", signalled |-> FALSE] /\ aged = FALSE
    /\ req = [p \in Operator |-> Idle]
    /\ cached = FALSE /\ watched = FALSE /\ faults = 0 /\ hist = {}

-----------------------------------------------------------------------------
(* Reading the run *)

Alive == child.life = "alive"

\* buildRunDetail reads the log file, which holds a line that counts only
\* after a failed launch.
RawDetail == [state |-> file, said |-> message,
              log |-> IF file.status = "failed" THEN "line" ELSE "none"]

\* buildStoredRunDetail: from the summary if there is one.
Detail == IF summary.state.status # "absent" THEN summary ELSE RawDetail

\* The detail of a run without a summary is cached until its files change.
UsesCache == summary.state.status = "absent" /\ cached /\ file.status = "queued"

\* The state of the run a reader is told.
Shown == IF UsesCache THEN file ELSE DeriveRunState(Detail, Alive, aged)

Active == Shown.status \in ActiveStatus

\* A reader leaves a detail in the cache that can go stale; without a summary,
\* any other state is final.
Look ==
    /\ summary.state.status = "absent" /\ Shown.status = "queued"
    /\ cached' = TRUE
    /\ UNCHANGED <<resumes, files, runner, child, aged, req, watched, faults, hist>>

-----------------------------------------------------------------------------
(* The server *)

ServerOnly == UNCHANGED <<resumes, message, runner, aged, cached, faults>>

\* launchRunner; spawning the runner may fail.
Launch ==
    /\ runner.at = "off"
    /\ \E at \in {"boot", "gone"} : runner' = [runner EXCEPT !.at = at]
    /\ watched' = TRUE
    /\ UNCHANGED <<resumes, files, child, aged, req, cached, faults, hist>>

\* markRunnerLaunchFailed: the runner ended before its second write.  The
\* listener skips the exits with code 0, which come after that write, and by
\* SIGTERM, which nothing sends to a runner.
NoticeExit ==
    /\ watched /\ runner.at = "gone"
    /\ file.status \in {"absent", "queued"}
    /\ file' = [file EXCEPT !.status = "failed", !.pid = FALSE]
    /\ watched' = FALSE
    /\ UNCHANGED <<summary, child, req, hist>> /\ ServerOnly

\* cancelAgentThread and recoverAgentThread read the run and find it active;
\* a cancellation needs a pid.
BeginStop(p, op) ==
    /\ req[p] = Idle
    /\ Active
    /\ op = "cancel" => Shown.pid
    /\ req' = [req EXCEPT ![p] = [at |-> "kill", op |-> op, verdict |-> "failed",
                                  seen |-> [Detail EXCEPT !.state = Shown]]]
    /\ UNCHANGED <<file, summary, child, watched, hist>> /\ ServerOnly

\* They signal the child; a recovery goes on without one, or when it has gone.
Kill(p) ==
    LET signals == req[p].seen.state.pid /\ Alive IN
    /\ req[p].at = "kill"
    /\ child' = IF signals THEN [child EXCEPT !.signalled = TRUE] ELSE child
    /\ IF signals \/ req[p].op = "recover"
       THEN /\ req' = [req EXCEPT ![p].at = "state",
                                  ![p].verdict = IF signals THEN "canceled" ELSE "failed"]
            /\ hist' = hist \union {"touched"}
       ELSE req' = [req EXCEPT ![p] = Idle] /\ UNCHANGED hist
    /\ UNCHANGED <<file, summary, watched>> /\ ServerOnly

\* Both write the state they have read, ended: first state.json, ...  (A recovery
\* may add the thread id of the thread, which tells nothing new of this run.)
EndedState(r) ==
    [r.seen.state EXCEPT !.status = r.verdict, !.pid = (r.op = "cancel")]

WriteState(p) ==
    /\ req[p].at = "state"
    /\ file' = EndedState(req[p])
    /\ req' = [req EXCEPT ![p].at = "summary"]
    /\ UNCHANGED <<summary, child, watched, hist>> /\ ServerOnly

\* ... then summary.json.
WriteSummary(p) ==
    /\ req[p].at = "summary"
    /\ summary' = [req[p].seen EXCEPT !.state = EndedState(req[p])]
    /\ req' = [req EXCEPT ![p] = Idle]
    /\ UNCHANGED <<file, child, watched, hist>> /\ ServerOnly

\* Requests in flight, the cache and the listener are lost; the runner, which
\* is detached, lives on.
RestartServer ==
    /\ faults < MaxFaults
    /\ req' = [p \in Operator |-> Idle]
    /\ cached' = FALSE /\ watched' = FALSE
    /\ faults' = faults + 1
    /\ UNCHANGED <<resumes, files, runner, child, aged, hist>>

-----------------------------------------------------------------------------
(* The runner *)

RunnerOnly == UNCHANGED <<resumes, message, aged, server, faults>>

\* writeState merges a patch into what the file holds.  The first patch names
\* every field, so that whatever was there is replaced.
WriteQueued ==
    LET s == [status |-> "queued", pid |-> FALSE, codex |-> resumes] IN
    /\ runner.at = "boot"
    /\ file' = s
    /\ runner' = [runner EXCEPT !.at = "queued", !.mem.state = s]
    /\ UNCHANGED <<summary, child, hist>> /\ RunnerOnly

WriteFirstSummary ==
    /\ runner.at = "queued"
    /\ summary' = runner.mem
    /\ runner' = [runner EXCEPT !.at = "ready"]
    /\ UNCHANGED <<file, child, hist>> /\ RunnerOnly

SpawnChild ==
    /\ runner.at = "ready"
    /\ child' = [child EXCEPT !.life = "alive"]
    /\ runner' = [runner EXCEPT !.at = "spawned"]
    /\ UNCHANGED <<file, summary, hist>> /\ RunnerOnly

\* The error of a failed spawn comes before its listener is attached: the
\* runner ends with it.
FailSpawn ==
    /\ runner.at = "ready"
    /\ runner' = Ended("gone")
    /\ UNCHANGED <<file, summary, child, hist>> /\ RunnerOnly

RunningState == [file EXCEPT !.status = "running", !.pid = TRUE]

MarkRunning ==
    /\ runner.at = "spawned"
    /\ file' = RunningState
    /\ runner' = [runner EXCEPT !.at = "marked", !.mem.state = RunningState]
    /\ UNCHANGED <<summary, child, hist>> /\ RunnerOnly

\* The listeners are attached after the summary is written.
Listen ==
    /\ runner.at = "marked"
    /\ summary' = runner.mem
    /\ runner' = [runner EXCEPT !.at = "listening"]
    /\ UNCHANGED <<file, child, hist>> /\ RunnerOnly

\* The child closed before that: nobody hears it, and the runner ends after
\* these two writes.
MissClose ==
    /\ runner.at \in {"spawned", "marked"}
    /\ child.life \in Exit
    /\ file' = RunningState
    /\ summary' = [runner.mem EXCEPT !.state = RunningState]
    /\ runner' = Ended("gone")
    /\ UNCHANGED <<child, hist>> /\ RunnerOnly

\* consumeBuffer: an ordinary line, or one after which nothing comes for long.
WriteLine(log) ==
    /\ runner.at = "listening"
    /\ log = "stalled" => Alive
    /\ runner' = [runner EXCEPT !.mem.log = log]
    /\ summary' = [runner.mem EXCEPT !.log = log]
    /\ hist' = IF log = "stalled" THEN hist \union {"silent"} ELSE hist
    /\ UNCHANGED <<file, child>> /\ RunnerOnly

\* The line with the thread id starts a merge the runner does not wait for: ...
FindThreadId ==
    /\ runner.at = "listening" /\ runner.id = "none"
    /\ runner' = [runner EXCEPT !.id = "due", !.mem.log = "line"]
    /\ UNCHANGED <<file, summary, child, hist>> /\ RunnerOnly

ReadForId ==
    /\ runner.at \in Running /\ runner.id = "due"
    /\ runner' = [runner EXCEPT !.id = "read", !.idCopy = file]
    /\ UNCHANGED <<file, summary, child, hist>> /\ RunnerOnly

WriteId ==
    LET s == [runner.idCopy EXCEPT !.codex = TRUE] IN
    /\ runner.at \in Running /\ runner.id = "read"
    /\ file' = s
    /\ runner' = [runner EXCEPT !.id = "written", !.mem.state = s, !.idCopy = NoState]
    /\ UNCHANGED <<summary, child, hist>> /\ RunnerOnly

\* ... it ends with the summary in memory as it is then.
WriteIdSummary ==
    /\ runner.at \in Running /\ runner.id = "written"
    /\ summary' = runner.mem
    /\ runner' = [runner EXCEPT !.id = "done"]
    /\ UNCHANGED <<file, child, hist>> /\ RunnerOnly

\* The close listener reads the state file, merges the end into it, and writes
\* the summary of what it then holds in memory.
ReadForClose ==
    /\ runner.at = "listening"
    /\ child.life \in Exit
    /\ runner' = [runner EXCEPT !.at = "merging", !.copy = file]
    /\ hist' = IF runner.id \in {"due", "read", "written"} THEN hist \union {"overlap"} ELSE hist
    /\ UNCHANGED <<file, summary, child>> /\ RunnerOnly

\* Mutant: the exit is stored as it is.
EndOfRaw(life) == IF life = "ok" THEN "completed" ELSE life

EndOf(life) == CASE life = "term" -> "canceled" [] life = "ok" -> "completed" [] OTHER -> "failed"

\* Mutant: the state in memory misses the end.
WriteCloseForgets ==
    /\ runner.at = "merging"
    /\ file' = [runner.copy EXCEPT !.status = EndOf(child.life)]
    /\ runner' = [runner EXCEPT !.at = "closed", !.copy = NoState]
    /\ UNCHANGED <<summary, child, hist>> /\ RunnerOnly

WriteClose ==
    LET s == [runner.copy EXCEPT !.status = EndOf(child.life)] IN
    /\ runner.at = "merging"
    /\ file' = s
    /\ runner' = [runner EXCEPT !.at = "closed", !.mem.state = s, !.copy = NoState]
    /\ UNCHANGED <<summary, child, hist>> /\ RunnerOnly

WriteLastSummary ==
    LET last == [runner.mem EXCEPT !.said = message] IN
    /\ runner.at = "closed"
    /\ summary' = last
    /\ runner' = [runner EXCEPT !.at = "exiting", !.mem = last]
    /\ UNCHANGED <<file, child, hist>> /\ RunnerOnly

ExitRunner ==
    /\ runner.at = "exiting"
    /\ runner' = Ended("exited")
    /\ UNCHANGED <<file, summary, child, hist>> /\ RunnerOnly

-----------------------------------------------------------------------------
(* The surroundings *)

\* The child ends, with or without a last message, by itself or terminated.
EndChild(how, said) ==
    /\ Alive
    /\ how = "term" => child.signalled
    /\ child' = [child EXCEPT !.life = how]
    /\ message' = said
    /\ UNCHANGED <<resumes, file, summary, runner, aged, server, faults, hist>>

\* The grace period is much longer than the start of a runner takes.
PassGrace ==
    /\ ~aged /\ Active
    /\ runner.at = "gone"
    /\ aged' = TRUE
    /\ UNCHANGED <<resumes, files, runner, child, server, faults>>
    /\ hist' = IF Alive /\ ~Active' THEN hist \union {"silent"} ELSE hist

\* The runner is killed, though not by SIGTERM, or fails.
CrashRunner ==
    /\ faults < MaxFaults
    /\ runner.at \in Running
    /\ runner' = Ended("gone")
    /\ faults' = faults + 1
    /\ UNCHANGED <<resumes, files, child, aged, server, hist>>

-----------------------------------------------------------------------------
Stop(p) == Kill(p) \/ WriteState(p) \/ WriteSummary(p)

\* The steps a runner takes unless it is killed.
RunnerWrites ==
    \/ WriteQueued \/ WriteFirstSummary \/ SpawnChild \/ FailSpawn \/ MarkRunning
    \/ Listen \/ MissClose \/ ReadForClose \/ WriteClose \/ WriteLastSummary \/ ExitRunner

MergeId == ReadForId \/ WriteId \/ WriteIdSummary

ChildEnds == \E how \in Exit, said \in BOOLEAN : EndChild(how, said)

Next ==
    \/ Launch \/ NoticeExit \/ Look \/ RestartServer
    \/ \E p \in Operator : Stop(p) \/ \E op \in {"cancel", "recover"} : BeginStop(p, op)
    \/ RunnerWrites \/ MergeId \/ FindThreadId \/ \E log \in Lines : WriteLine(log)
    \/ ChildEnds \/ PassGrace \/ CrashRunner

Spec == Init /\ [][Next]_vars

\* A runner that is not killed goes on with its writes, the server with its
\* requests and its listener; the child ends and time passes.
Fairness ==
    /\ WF_vars(RunnerWrites) /\ WF_vars(MergeId)
    /\ \A p \in Operator : WF_vars(Stop(p))
    /\ WF_vars(NoticeExit) /\ WF_vars(ChildEnds) /\ WF_vars(PassGrace)

FairSpec == Spec /\ Fairness

-----------------------------------------------------------------------------
(* Properties *)

\* When its runner has exited, a run is shown with the outcome of its child
\* and the thread id it printed, whatever the listeners wrote meanwhile,
\* unless an operator wrote over it or the id was being merged at the close.
OutcomeFollowsExit ==
    runner.at = "exited" /\ hist \intersect {"touched", "overlap"} = {} =>
        /\ Shown.status = EndOf(child.life)
        /\ runner.id = "done" => Shown.codex

\* What the readers of the run see is a run of RunLife.
Seen == [status |-> Shown.status,
         work   |-> IF child.life = "none" THEN IF runner.at = "gone" THEN "never" ELSE "none"
                    ELSE IF Alive THEN "works" ELSE "over",
         given  |-> hist \intersect {"touched", "silent"} # {}]

Life == INSTANCE RunLife WITH life <- Seen

ImplementsRunLife == Life!Spec

\* The run is not shown as active for ever (deriveRunState over dead processes,
\* markRunnerLaunchFailed), unless a start-up marker suspends the probe.
RunEnds == Active ~> ~Active
=============================================================================
