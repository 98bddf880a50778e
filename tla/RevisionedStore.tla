--------------------------- MODULE RevisionedStore ---------------------------
(***************************************************************************)
(* The persistence protocol of the server: db/store-revisions.ts,          *)
(* db/control-plane-store.ts, the queued updates of control-plane.ts       *)
(* (runQueuedControlPlaneUpdate) and the same protocol in agent-threads.ts *)
(* (updateAgentThreadsDb, setAgentThreadsArchived).                        *)
(*                                                                         *)
(* Several server processes share one SQLite file.  An "update" call waits *)
(* its turn in its process's promise queue, loads a snapshot with the      *)
(* store's revision, runs its updater (which may await) and saves with the *)
(* revision it loaded; a save that finds another revision conflicts and    *)
(* the call starts over, at most MaxAttempts times.  A "read" call only    *)
(* loads.  A "direct" call loads, awaits and saves the whole store without *)
(* the queue and without an expected revision.  Whoever finds the store    *)
(* empty first seeds it from the JSON file, also without a revision; if    *)
(* there is no file the store stays empty until a call saves a record.     *)
(***************************************************************************)
EXTENDS Naturals, Sequences, FiniteSets

CONSTANTS
    Proc,         \* server processes (module instances) sharing the database
    Call,         \* the calls made during a run
    Collection,   \* the collections of the store
    ProcOf,       \* the process a call is made in
    Kind,         \* "update", "read" or "direct"
    Saves,        \* the collections an update writes (changedCollections)
    MaxAttempts,  \* maxAttempts of runUpdate
    MaxCrashes,   \* bound on process crashes
    StartsSeeded  \* whether the database already holds records

ASSUME StoreAssumption ==
    /\ ProcOf \in [Call -> Proc]
    /\ Kind \in [Call -> {"update", "read", "direct"}]
    /\ Saves \in [Call -> SUBSET Collection]
    /\ MaxAttempts \in Nat \ {0}
    /\ MaxCrashes \in Nat
    /\ StartsSeeded \in BOOLEAN

VARIABLES
    seeded,    \* the records table is not empty
    revision,  \* store_revisions.revision
    rows,      \* collection -> the calls whose changes its rows contain
    queue,     \* process -> calls in its update queue, head running
    pc,        \* call -> where it is
    snap,      \* call -> the snapshot it loaded last
    attempt,   \* call -> attempts that ended in a conflict
    crashes    \* crashes so far

vars == <<seeded, revision, rows, queue, pc, snap, attempt, crashes>>

Waiting   == {"idle", "queued"}
InFlight  == {"loading", "seeding", "reading", "loaded"}
Terminal  == {"saved", "refused", "unchanged", "conflicted", "read", "lost"}

Rows     == [Collection -> SUBSET Call]
Snapshot == [rev : Nat, rows : Rows]
NoRows   == [k \in Collection |-> {}]

TypeOK ==
    /\ seeded \in BOOLEAN
    /\ revision \in Nat
    /\ rows \in Rows
    /\ queue \in [Proc -> Seq(Call)]
    /\ pc \in [Call -> Waiting \union InFlight \union Terminal]
    /\ snap \in [Call -> Snapshot]
    /\ attempt \in [Call -> Nat]
    /\ crashes \in Nat

Init ==
    /\ seeded = StartsSeeded
    /\ revision = 0
    /\ rows = NoRows
    /\ queue = [p \in Proc |-> <<>>]
    /\ pc = [c \in Call |-> "idle"]
    /\ snap = [c \in Call |-> [rev |-> 0, rows |-> NoRows]]
    /\ attempt = [c \in Call |-> 0]
    /\ crashes = 0

-----------------------------------------------------------------------------
Goto(c, label) == pc' = [pc EXCEPT ![c] = label]

\* Mutant: a failed update leaves the queue's promise rejected.
SettleOnSuccessOnly(c) ==
    queue' = IF Kind[c] = "update" /\ pc'[c] = "saved"
             THEN [queue EXCEPT ![ProcOf[c]] = Tail(@)]
             ELSE queue

\* An update's promise settles: the next queued update of its process runs.
Settle(c) ==
    queue' = IF Kind[c] = "update"
             THEN [queue EXCEPT ![ProcOf[c]] = Tail(@)]
             ELSE queue

\* Rows after call c writes contents r of the collections K it saves.
Written(K, r) == [k \in Collection |-> IF k \in K THEN r[k] ELSE rows[k]]

\* updateControlPlaneCollections / updateAgentThreadsDb: join the queue.
Enqueue(c) ==
    /\ Kind[c] = "update"
    /\ pc[c] = "idle"
    /\ queue' = [queue EXCEPT ![ProcOf[c]] = Append(@, c)]
    /\ Goto(c, "queued")
    /\ UNCHANGED <<seeded, revision, rows, snap, attempt, crashes>>

\* Mutant: an update does not wait for the queue of its process.
BeginUnqueued(c) ==
    /\ pc[c] = (IF Kind[c] = "update" THEN "queued" ELSE "idle")
    /\ Goto(c, "loading")
    /\ UNCHANGED <<seeded, revision, rows, queue, snap, attempt, crashes>>

\* runUpdate starts when every earlier update of its process has settled; a
\* read or a direct writer does not wait for them.
Begin(c) ==
    /\ \/ /\ Kind[c] = "update" /\ pc[c] = "queued"
          /\ queue[ProcOf[c]] # <<>> /\ Head(queue[ProcOf[c]]) = c
       \/ Kind[c] # "update" /\ pc[c] = "idle"
    /\ Goto(c, "loading")
    /\ UNCHANGED <<seeded, revision, rows, queue, snap, attempt, crashes>>

\* ensure...SqliteSeeded looks once whether the records table is empty, and awaits
\* the file if it is.
EnsureSeeded(c) ==
    /\ pc[c] = "loading"
    /\ Goto(c, IF seeded THEN "reading" ELSE "seeding")
    /\ UNCHANGED <<seeded, revision, rows, queue, snap, attempt, crashes>>

\* Mutant: the seed writes the rows and forgets the revision.
SeedWithoutBump(c) ==
    /\ pc[c] = "seeding"
    /\ \E full \in BOOLEAN : seeded' = full
    /\ rows' = NoRows
    /\ Goto(c, "reading")
    /\ UNCHANGED <<revision, queue, snap, attempt, crashes>>

\* The seed, which has records or (without a file) none, replaces every collection,
\* whatever the revision is by now.
Seed(c) ==
    /\ pc[c] = "seeding"
    /\ \E full \in BOOLEAN : seeded' = full
    /\ rows' = NoRows
    /\ revision' = revision + 1
    /\ Goto(c, "reading")
    /\ UNCHANGED <<queue, snap, attempt, crashes>>

\* One read transaction returns the rows and the revision together.
Load(c) ==
    /\ pc[c] = "reading"
    /\ snap' = [snap EXCEPT ![c] = [rev |-> revision, rows |-> rows]]
    /\ Goto(c, IF Kind[c] = "read" THEN "read" ELSE "loaded")
    /\ UNCHANGED <<seeded, revision, rows, queue, attempt, crashes>>

\* The updater or the integrity check throws, or there is nothing to save.
Decline(c, label) ==
    /\ pc[c] = "loaded"
    /\ Kind[c] = "update" \/ label = "unchanged"
    /\ Goto(c, label)
    /\ Settle(c)
    /\ UNCHANGED <<seeded, revision, rows, snap, attempt, crashes>>

\* Mutants: the expected revision is not compared; the revision is not bumped;
\* the collections are written outside the transaction.
SaveBlindly(c) ==
    /\ Kind[c] = "update"
    /\ pc[c] = "loaded"
    /\ revision' = revision + 1
    /\ rows' = Written(Saves[c], [k \in Collection |-> snap[c].rows[k] \union {c}])
    /\ seeded' = TRUE
    /\ Goto(c, "saved")
    /\ Settle(c)
    /\ UNCHANGED <<snap, attempt, crashes>>

SaveWithoutBump(c) ==
    /\ Kind[c] = "update"
    /\ pc[c] = "loaded"
    /\ revision = snap[c].rev
    /\ rows' = Written(Saves[c], [k \in Collection |-> snap[c].rows[k] \union {c}])
    /\ seeded' = TRUE
    /\ Goto(c, "saved")
    /\ Settle(c)
    /\ UNCHANGED <<revision, snap, attempt, crashes>>

SaveInParts(c) ==
    /\ Kind[c] = "update"
    /\ pc[c] = "loaded"
    /\ revision = snap[c].rev
    /\ revision' = revision + 1
    /\ \E K \in SUBSET Saves[c] :
          rows' = Written(K, [k \in Collection |-> snap[c].rows[k] \union {c}])
    /\ seeded' = TRUE
    /\ Goto(c, "saved")
    /\ Settle(c)
    /\ UNCHANGED <<snap, attempt, crashes>>

\* bumpStoreRevision with an expected revision, then the changed collections,
\* in one transaction.  (Calls add or change records: none empties the store.)
Save(c) ==
    /\ Kind[c] = "update"
    /\ pc[c] = "loaded"
    /\ revision = snap[c].rev
    /\ revision' = revision + 1
    /\ rows' = Written(Saves[c], [k \in Collection |-> snap[c].rows[k] \union {c}])
    /\ seeded' = TRUE
    /\ Goto(c, "saved")
    /\ Settle(c)
    /\ UNCHANGED <<snap, attempt, crashes>>

\* Mutants: the retry takes the new revision but keeps the data it has; the
\* retry parks the call where nothing picks it up.
ConflictKeepsData(c) ==
    /\ Kind[c] = "update"
    /\ pc[c] = "loaded"
    /\ revision # snap[c].rev
    /\ attempt[c] < MaxAttempts - 1
    /\ attempt' = [attempt EXCEPT ![c] = @ + 1]
    /\ snap' = [snap EXCEPT ![c].rev = revision]
    /\ UNCHANGED <<seeded, revision, rows, queue, pc, crashes>>

ConflictParks(c) ==
    /\ Kind[c] = "update"
    /\ pc[c] = "loaded"
    /\ revision # snap[c].rev
    /\ attempt' = [attempt EXCEPT ![c] = @ + 1]
    /\ Goto(c, "retry")
    /\ UNCHANGED <<seeded, revision, rows, queue, snap, crashes>>

\* StoreRevisionConflictError: start over, or give up after the last attempt.
Conflict(c) ==
    /\ Kind[c] = "update"
    /\ pc[c] = "loaded"
    /\ revision # snap[c].rev
    /\ attempt' = [attempt EXCEPT ![c] = @ + 1]
    /\ IF attempt[c] < MaxAttempts - 1
       THEN Goto(c, "loading") /\ UNCHANGED queue
       ELSE Goto(c, "conflicted") /\ Settle(c)
    /\ UNCHANGED <<seeded, revision, rows, snap, crashes>>

\* Mutant: only the collection with the archived threads is written back.
SaveDirectPartly(c) ==
    /\ Kind[c] = "direct"
    /\ pc[c] = "loaded"
    /\ revision' = revision + 1
    /\ rows' = Written(Saves[c], [k \in Collection |-> snap[c].rows[k] \union {c}])
    /\ seeded' = TRUE
    /\ Goto(c, "saved")
    /\ UNCHANGED <<queue, snap, attempt, crashes>>

\* setAgentThreadsArchived writes back the whole store it loaded before the
\* await, with no expected revision.
SaveDirect(c) ==
    /\ Kind[c] = "direct"
    /\ pc[c] = "loaded"
    /\ revision' = revision + 1
    /\ rows' = Written(Collection, [k \in Collection |->
                  IF k \in Saves[c] THEN snap[c].rows[k] \union {c} ELSE snap[c].rows[k]])
    /\ seeded' = TRUE
    /\ Goto(c, "saved")
    /\ UNCHANGED <<queue, snap, attempt, crashes>>

\* A process dies and restarts: its calls are gone, what they committed stays.
Crash(p) ==
    /\ crashes < MaxCrashes
    /\ crashes' = crashes + 1
    /\ queue' = [queue EXCEPT ![p] = <<>>]
    /\ pc' = [c \in Call |->
                IF ProcOf[c] = p /\ pc[c] \in InFlight \union {"queued"}
                THEN "lost" ELSE pc[c]]
    /\ UNCHANGED <<seeded, revision, rows, snap, attempt>>

\* What the event loop of a process does for a call once it is made.
Step(c) ==
    \/ Begin(c) \/ EnsureSeeded(c) \/ Seed(c) \/ Load(c)
    \/ Decline(c, "refused") \/ Decline(c, "unchanged")
    \/ Save(c) \/ Conflict(c) \/ SaveDirect(c)

Next ==
    \/ \E c \in Call : Enqueue(c)
    \/ \E c \in Call : Step(c)
    \/ \E p \in Proc : Crash(p)

Spec == Init /\ [][Next]_vars

\* A running process keeps running the promise jobs it has.
FairSpec == Spec /\ \A c \in Call : WF_vars(Step(c))

-----------------------------------------------------------------------------
(* Properties *)

\* No committed update is ever lost: once a call has saved, every collection
\* it saved keeps reflecting it, whatever other processes save afterwards
\* (compare-and-bump of bumpStoreRevision).
NoLostUpdate ==
    \A c \in Call : pc[c] = "saved" => \A k \in Saves[c] : c \in rows[k]

\* An update reaches all the collections it saves or none of them, and only
\* calls that reported success left a trace (one transaction per save).
NoTornUpdate ==
    \A c \in Call : \A k, l \in Collection :
        c \in rows[k] => /\ pc[c] = "saved"
                         /\ l \in Saves[c] => c \in rows[l]

\* A call gives up with a conflict only after MaxAttempts other writers have
\* overtaken it; in particular updates of one process never make each other
\* give up (the promise queue).
Rivals(c) ==
    {d \in Call \ {c} : pc[d] = "saved" /\ (Kind[d] = "direct" \/ ProcOf[d] # ProcOf[c])}

ConflictNeedsRivals ==
    \A c \in Call : attempt[c] <= Cardinality(Rivals(c))
                    /\ (pc[c] = "conflicted" => attempt[c] = MaxAttempts)

\* A snapshot still at the store's revision is the store's contents: the fact
\* that makes comparing revisions enough.
SnapshotIsCurrent ==
    \A c \in Call : /\ snap[c].rev <= revision
                    /\ (pc[c] = "loaded" /\ snap[c].rev = revision => snap[c].rows = rows)

\* No process runs two queued updates at once (runQueuedControlPlaneUpdate).
OneRunningUpdate ==
    \A c, d \in Call :
        /\ Kind[c] = "update" /\ pc[c] \in InFlight
        /\ Kind[d] = "update" /\ pc[d] \in InFlight
        /\ ProcOf[c] = ProcOf[d]
        => c = d

\* A save never replaces a store that changed since the call loaded it
\* (StoreRevisionConflictError: "changed while the update was in progress").
StaleSaveRefused ==
    [][\A c \in Call : pc[c] # "saved" /\ pc'[c] = "saved" => snap[c].rev = revision]_vars

\* Every update that joins the queue is answered, whatever the calls before it
\* in the queue came to.
EveryUpdateAnswered ==
    \A c \in Call : pc[c] = "queued" ~> pc[c] \in Terminal

\* The abstract store this protocol implements.
Outcome == [c \in Call |-> CASE pc[c] = "saved" -> "saved"
                             [] pc[c] \in Terminal \ {"saved"} -> "dropped"
                             [] OTHER -> "open"]

Abstract == INSTANCE AtomicStore WITH outcome <- Outcome

ImplementsAtomicStore == Abstract!Spec
=============================================================================
