-------------------------- MODULE MCRevisionedStore --------------------------
(* Small instances of RevisionedStore: two processes, p1 and p2.            *)
EXTENDS RevisionedStore, TLC

CONSTANTS p1, p2, tasks, runs, a, b, d, r

MCProc == {p1, p2}
MCCollection == {tasks, runs}

\* Three updates, the one of p1 overlapping both of p2, and a plain read.
UpdateCalls == {a, b, d, r}
UpdateProcOf == (a :> p1 @@ b :> p2 @@ d :> p2 @@ r :> p1)
UpdateKind == (a :> "update" @@ b :> "update" @@ d :> "update" @@ r :> "read")
UpdateSaves == (a :> {tasks} @@ b :> {tasks, runs} @@ d :> {runs} @@ r :> {})

\* An update and a bulk archive of the agent-thread store in one process.
ArchiveCalls == {a, b, d}
ArchiveProcOf == (a :> p1 @@ b :> p1 @@ d :> p2)
ArchiveKind == (a :> "update" @@ b :> "direct" @@ d :> "update")
ArchiveSaves == (a :> {tasks, runs} @@ b :> {tasks} @@ d :> {tasks, runs})
=============================================================================
