------------------------ MODULE RevisionedStoreProofs ------------------------
(***************************************************************************)
(* Proofs about the persistence protocol, for any processes, calls,        *)
(* collections and bounds.  The argument: the update running in a process  *)
(* is the head of its queue (HeadRuns), a snapshot that is still at the    *)
(* store's revision is the store's contents (SnapshotIsCurrent), so a save *)
(* that passes the comparison adds to what is there.                       *)
(***************************************************************************)
EXTENDS RevisionedStore, SequenceTheorems, FiniteSetTheorems, TLAPS

USE StoreAssumption

\* Updates in flight head the queue of their process.
HeadRuns ==
    \A c \in Call : Kind[c] = "update" /\ pc[c] \in InFlight
                    => /\ queue[ProcOf[c]] # <<>>
                       /\ Head(queue[ProcOf[c]]) = c

\* The inductive invariant of the protocol, blind writers included.
StoreInv == TypeOK /\ HeadRuns /\ SnapshotIsCurrent

\* The store already holds records and every writer goes through the queue:
\* the control-plane store once it has been seeded.
NoBlindWriters == StartsSeeded /\ \A c \in Call : Kind[c] # "direct"

\* A written store keeps its shape.
LEMMA WrittenType ==
    ASSUME rows \in Rows, NEW K \in SUBSET Collection, NEW r \in Rows
    PROVE  Written(K, r) \in Rows
BY DEF Written, Rows

\* Appending to a queue that is not empty leaves its head.
LEMMA AppendKeepsHead ==
    ASSUME NEW s \in Seq(Call), s # <<>>, NEW c \in Call
    PROVE  Append(s, c) # <<>> /\ Head(Append(s, c)) = Head(s)
BY AppendProperties, HeadTailAppend

\* Types are preserved by every step, given that a settling update heads its
\* queue.
LEMMA TypeStep ==
    ASSUME StoreInv, [Next]_vars
    PROVE  TypeOK'
<1> USE DEF StoreInv, TypeOK, Waiting, InFlight, Terminal, Goto, Snapshot
<1>1. ASSUME NEW c \in Call, Enqueue(c) PROVE TypeOK'
  BY <1>1 DEF Enqueue
<1>2. ASSUME NEW c \in Call, Begin(c) PROVE TypeOK'
  BY <1>2 DEF Begin
<1>3. ASSUME NEW c \in Call, EnsureSeeded(c) PROVE TypeOK'
  BY <1>3 DEF EnsureSeeded
<1>4. ASSUME NEW c \in Call, Seed(c) PROVE TypeOK'
  BY <1>4 DEF Seed, Rows, NoRows
<1>5. ASSUME NEW c \in Call, Load(c) PROVE TypeOK'
  BY <1>5 DEF Load
<1>settle. ASSUME NEW c \in Call, pc[c] = "loaded", Settle(c)
           PROVE  queue' \in [Proc -> Seq(Call)]
  <2>1. CASE Kind[c] = "update"
    <3>1. queue[ProcOf[c]] \in Seq(Call) /\ queue[ProcOf[c]] # <<>>
      BY <1>settle, <2>1 DEF HeadRuns
    <3>2. Tail(queue[ProcOf[c]]) \in Seq(Call)
      BY <3>1
    <3>3. QED BY <1>settle, <2>1, <3>2 DEF Settle
  <2>2. CASE Kind[c] # "update"
    BY <1>settle, <2>2 DEF Settle
  <2>3. QED BY <2>1, <2>2
<1>6. ASSUME NEW c \in Call, NEW label \in {"refused", "unchanged"}, Decline(c, label)
      PROVE TypeOK'
  BY <1>6, <1>settle DEF Decline
<1>added. ASSUME NEW c \in Call
          PROVE  [k \in Collection |-> snap[c].rows[k] \union {c}] \in Rows
  BY DEF Rows
<1>7. ASSUME NEW c \in Call, Save(c) PROVE TypeOK'
  <2>1. rows' \in Rows
    BY <1>7, <1>added, WrittenType DEF Save
  <2>2. QED BY <1>7, <2>1, <1>settle DEF Save
<1>8. ASSUME NEW c \in Call, Conflict(c) PROVE TypeOK'
  <2>1. pc[c] = "loaded" /\ (queue' = queue \/ Settle(c))
    BY <1>8 DEF Conflict
  <2>2. queue' \in [Proc -> Seq(Call)]
    <3>1. CASE queue' = queue BY <3>1
    <3>2. CASE Settle(c) BY <3>2, <2>1, <1>settle
    <3>3. QED BY <2>1, <3>1, <3>2
  <2>3. Goto(c, "loading") \/ Goto(c, "conflicted")
    BY <1>8 DEF Conflict
  <2>4. pc' \in [Call -> Waiting \union InFlight \union Terminal]
    BY <2>3
  <2>5. attempt' \in [Call -> Nat]
    BY <1>8 DEF Conflict
  <2>6. QED BY <1>8, <2>2, <2>4, <2>5 DEF Conflict
<1>9. ASSUME NEW c \in Call, SaveDirect(c) PROVE TypeOK'
  <2>1. [k \in Collection |-> IF k \in Saves[c] THEN snap[c].rows[k] \union {c}
                                                ELSE snap[c].rows[k]] \in Rows
    BY DEF Rows
  <2>2. rows' \in Rows
    BY <1>9, <2>1, WrittenType DEF SaveDirect
  <2>3. QED BY <1>9, <2>2 DEF SaveDirect
<1>10. ASSUME NEW p \in Proc, Crash(p) PROVE TypeOK'
  BY <1>10 DEF Crash
<1>11. CASE UNCHANGED vars
  BY <1>11 DEF vars
<1>12. QED
  BY <1>1, <1>2, <1>3, <1>4, <1>5, <1>6, <1>7, <1>8, <1>9, <1>10, <1>11 DEF Next, Step

\* At most one update is in flight per process, and it stays the head until it
\* settles.
LEMMA HeadStep ==
    ASSUME StoreInv, [Next]_vars, TypeOK'
    PROVE  HeadRuns'
<1> USE DEF StoreInv, TypeOK, HeadRuns, InFlight, Goto
<1>1. ASSUME NEW c \in Call, Enqueue(c) PROVE HeadRuns'
  <2>1. ASSUME NEW d \in Call, Kind[d] = "update", pc'[d] \in InFlight
        PROVE  queue'[ProcOf[d]] # <<>> /\ Head(queue'[ProcOf[d]]) = d
    <3>1. d # c /\ pc[d] \in InFlight
      BY <1>1, <2>1 DEF Enqueue
    <3>2. queue[ProcOf[d]] # <<>> /\ Head(queue[ProcOf[d]]) = d
      BY <2>1, <3>1
    <3>3. queue[ProcOf[d]] \in Seq(Call)
      OBVIOUS
    <3>4. /\ Append(queue[ProcOf[d]], c) # <<>>
          /\ Head(Append(queue[ProcOf[d]], c)) = Head(queue[ProcOf[d]])
      BY <3>2, <3>3, AppendKeepsHead
    <3>5. \/ queue'[ProcOf[d]] = queue[ProcOf[d]]
          \/ queue'[ProcOf[d]] = Append(queue[ProcOf[d]], c)
      BY <1>1 DEF Enqueue
    <3>6. QED BY <3>2, <3>4, <3>5
  <2>2. QED BY <2>1
<1>2. ASSUME NEW c \in Call, Begin(c) PROVE HeadRuns'
  BY <1>2 DEF Begin
<1>3. ASSUME NEW c \in Call, EnsureSeeded(c) \/ Seed(c) \/ Load(c) PROVE HeadRuns'
  BY <1>3 DEF EnsureSeeded, Seed, Load
<1>settle. ASSUME NEW c \in Call, pc[c] = "loaded", Settle(c),
                  NEW label \in Terminal, Goto(c, label)
           PROVE  HeadRuns'
  <2>1. ASSUME NEW d \in Call, Kind[d] = "update", pc'[d] \in InFlight
        PROVE  queue'[ProcOf[d]] # <<>> /\ Head(queue'[ProcOf[d]]) = d
    <3>1. d # c /\ pc[d] \in InFlight
      BY <1>settle, <2>1 DEF Terminal
    <3>2. queue[ProcOf[d]] # <<>> /\ Head(queue[ProcOf[d]]) = d
      BY <2>1, <3>1
    <3>3. Kind[c] = "update" => ProcOf[c] # ProcOf[d]
      BY <1>settle, <3>1, <3>2
    <3>4. queue'[ProcOf[d]] = queue[ProcOf[d]]
      BY <1>settle, <3>3 DEF Settle
    <3>5. QED BY <3>2, <3>4
  <2>2. QED BY <2>1
<1>4. ASSUME NEW c \in Call, NEW label \in {"refused", "unchanged"}, Decline(c, label)
      PROVE HeadRuns'
  BY <1>4, <1>settle DEF Decline, Terminal
<1>5. ASSUME NEW c \in Call, Save(c) PROVE HeadRuns'
  BY <1>5, <1>settle DEF Save, Terminal
<1>6. ASSUME NEW c \in Call, Conflict(c) PROVE HeadRuns'
  <2>1. CASE attempt[c] < MaxAttempts - 1
    BY <1>6, <2>1 DEF Conflict
  <2>2. CASE ~(attempt[c] < MaxAttempts - 1)
    BY <1>6, <2>2, <1>settle DEF Conflict, Terminal
  <2>3. QED BY <2>1, <2>2
<1>7. ASSUME NEW c \in Call, SaveDirect(c) PROVE HeadRuns'
  BY <1>7 DEF SaveDirect
<1>8. ASSUME NEW p \in Proc, Crash(p) PROVE HeadRuns'
  BY <1>8 DEF Crash
<1>9. CASE UNCHANGED vars
  BY <1>9 DEF vars
<1>10. QED
  BY <1>1, <1>2, <1>3, <1>4, <1>5, <1>6, <1>7, <1>8, <1>9 DEF Next, Step

\* Every writer moves the revision, so no older snapshot can pass for current.
LEMMA SnapshotStep ==
    ASSUME StoreInv, [Next]_vars
    PROVE  SnapshotIsCurrent'
<1> USE DEF StoreInv, TypeOK, SnapshotIsCurrent, Snapshot, Goto
<1>1. ASSUME NEW c \in Call, Enqueue(c) \/ Begin(c) \/ EnsureSeeded(c) PROVE SnapshotIsCurrent'
  BY <1>1 DEF Enqueue, Begin, EnsureSeeded
<1>2. ASSUME NEW c \in Call, Load(c) PROVE SnapshotIsCurrent'
  BY <1>2 DEF Load
<1>bump. ASSUME revision' = revision + 1, UNCHANGED snap PROVE SnapshotIsCurrent'
  <2>1. ASSUME NEW d \in Call PROVE snap'[d].rev <= revision /\ snap'[d].rev \in Nat
    BY <1>bump
  <2>2. QED BY <1>bump, <2>1
<1>3. ASSUME NEW c \in Call, Seed(c) \/ Save(c) \/ SaveDirect(c) PROVE SnapshotIsCurrent'
  BY <1>3, <1>bump DEF Seed, Save, SaveDirect
<1>4. ASSUME NEW c \in Call, NEW label \in {"refused", "unchanged"}, Decline(c, label)
      PROVE SnapshotIsCurrent'
  BY <1>4 DEF Decline
<1>5. ASSUME NEW c \in Call, Conflict(c) PROVE SnapshotIsCurrent'
  BY <1>5 DEF Conflict
<1>6. ASSUME NEW p \in Proc, Crash(p) PROVE SnapshotIsCurrent'
  BY <1>6 DEF Crash
<1>7. CASE UNCHANGED vars
  BY <1>7 DEF vars
<1>8. QED
  BY <1>1, <1>2, <1>3, <1>4, <1>5, <1>6, <1>7 DEF Next, Step

\* A save that passes the revision check adds itself to the current rows.
LEMMA SaveAdds ==
    ASSUME StoreInv, NEW c \in Call, Save(c)
    PROVE  rows' = [k \in Collection |->
                      IF k \in Saves[c] THEN rows[k] \union {c} ELSE rows[k]]
<1>1. snap[c].rows = rows
  BY DEF StoreInv, SnapshotIsCurrent, Save
<1>2. rows' = Written(Saves[c], [k \in Collection |-> rows[k] \union {c}])
  BY <1>1 DEF Save
<1>3. QED BY <1>2 DEF Written

\* The protocol keeps its types and its two working invariants, whoever writes.
THEOREM StoreInvariant == Spec => []StoreInv
<1>1. Init => StoreInv
  BY DEF Init, StoreInv, TypeOK, HeadRuns, SnapshotIsCurrent, Snapshot, Rows, NoRows,
         Waiting, InFlight, Terminal
<1>2. StoreInv /\ [Next]_vars => StoreInv'
  BY TypeStep, HeadStep, SnapshotStep DEF StoreInv
<1>3. QED BY <1>1, <1>2, PTL DEF Spec

\* Type correctness of the stores, their queues and their calls.
THEOREM TypeCorrect == Spec => []TypeOK
BY StoreInvariant, PTL DEF StoreInv

\* No process ever runs two queued updates at once (runQueuedControlPlaneUpdate).
THEOREM OneRunningUpdateHolds == Spec => []OneRunningUpdate
<1>1. StoreInv => OneRunningUpdate
  BY DEF StoreInv, HeadRuns, OneRunningUpdate
<1>2. QED BY <1>1, StoreInvariant, PTL

\* Whoever writes, a snapshot that is still at the revision of the store is its
\* contents, and none is ahead of it (every save calls bumpStoreRevision).
THEOREM SnapshotIsCurrentHolds == Spec => []SnapshotIsCurrent
<1>1. StoreInv => SnapshotIsCurrent
  BY DEF StoreInv
<1>2. QED BY <1>1, StoreInvariant, PTL

-----------------------------------------------------------------------------
(* No update is torn: a snapshot was the store when it was taken, so that    *)
(* what any writer makes of it is whole, even if it comes late.              *)

Saved == {c \in Call : pc[c] = "saved"}

\* R holds calls of C only, each in all the collections it saves.
Whole(R, C) ==
    \A c \in Call : \A k, l \in Collection :
        c \in R[k] => c \in C /\ (l \in Saves[c] => c \in R[l])

WholeInv == StoreInv /\ Whole(rows, Saved) /\ \A c \in Call : Whole(snap[c].rows, Saved)

\* A call that has saved stays so; only the four writers touch the rows, and
\* only a load the snapshots.
LEMMA WhoWrites ==
    ASSUME StoreInv, [Next]_vars
    PROVE  /\ Saved \subseteq Saved'
           /\ \/ UNCHANGED rows
              \/ rows' = NoRows
              \/ \E c \in Call : Save(c) \/ SaveDirect(c)
           /\ UNCHANGED snap \/ \E c \in Call : Load(c)
<1> USE DEF StoreInv, TypeOK, Goto, Saved
<1>1. ASSUME NEW c \in Call, Enqueue(c) \/ Begin(c) \/ EnsureSeeded(c) \/ Conflict(c)
      PROVE  Saved \subseteq Saved' /\ UNCHANGED <<rows, snap>>
  BY <1>1 DEF Enqueue, Begin, EnsureSeeded, Conflict
<1>2. ASSUME NEW c \in Call, NEW label \in {"refused", "unchanged"}, Decline(c, label)
      PROVE  Saved \subseteq Saved' /\ UNCHANGED <<rows, snap>>
  BY <1>2 DEF Decline
<1>3. ASSUME NEW c \in Call, Seed(c)
      PROVE  Saved \subseteq Saved' /\ rows' = NoRows /\ UNCHANGED snap
  BY <1>3 DEF Seed
<1>4. ASSUME NEW c \in Call, Load(c)
      PROVE  Saved \subseteq Saved' /\ UNCHANGED rows
  BY <1>4 DEF Load
<1>5. ASSUME NEW c \in Call, Save(c) \/ SaveDirect(c)
      PROVE  Saved \subseteq Saved' /\ UNCHANGED snap
  BY <1>5 DEF Save, SaveDirect
<1>6. ASSUME NEW p \in Proc, Crash(p)
      PROVE  Saved \subseteq Saved' /\ UNCHANGED <<rows, snap>>
  BY <1>6 DEF Crash, InFlight
<1>7. CASE UNCHANGED vars
  BY <1>7 DEF vars
<1>8. QED BY <1>1, <1>2, <1>3, <1>4, <1>5, <1>6, <1>7 DEF Next, Step

\* Contents stay whole when a call adds itself to what it saves.
LEMMA AddingKeepsWhole ==
    ASSUME NEW C, NEW D, C \subseteq D, NEW c \in Call, c \in D, NEW R, NEW S, Whole(R, C),
           \A k \in Collection : S[k] = IF k \in Saves[c] THEN R[k] \union {c} ELSE R[k]
    PROVE  Whole(S, D)
<1>1. ASSUME NEW d \in Call, NEW k \in Collection, NEW l \in Collection, d \in S[k]
      PROVE  d \in D /\ (l \in Saves[d] => d \in S[l])
  <2>1. CASE d = c BY <2>1, <1>1
  <2>2. CASE d # c
    <3>1. d \in R[k] BY <2>2, <1>1
    <3>2. d \in C /\ (l \in Saves[d] => d \in R[l]) BY <3>1 DEF Whole
    <3>3. QED BY <3>2
  <2>3. QED BY <2>1, <2>2
<1>2. QED BY <1>1 DEF Whole

\* What a save or an archive writes is whole.
LEMMA SavesWhole ==
    ASSUME WholeInv, NEW c \in Call, Save(c) \/ SaveDirect(c)
    PROVE  Whole(rows', Saved')
<1> USE DEF WholeInv, StoreInv, TypeOK
<1>1. c \in Saved' /\ Saved \subseteq Saved'
  BY DEF Save, SaveDirect, Goto, Saved
<1>2. CASE Save(c)
  <2>1. \A k \in Collection : rows'[k] = IF k \in Saves[c] THEN rows[k] \union {c} ELSE rows[k]
    BY <1>2, SaveAdds
  <2>2. QED BY <1>1, <2>1, AddingKeepsWhole
<1>3. CASE SaveDirect(c)
  <2>1. \A k \in Collection : rows'[k] = IF k \in Saves[c] THEN snap[c].rows[k] \union {c}
                                         ELSE snap[c].rows[k]
    BY <1>3 DEF SaveDirect, Written
  <2>2. QED BY <1>1, <2>1, AddingKeepsWhole
<1>4. QED BY <1>2, <1>3

LEMMA WholeStep ==
    ASSUME WholeInv, [Next]_vars
    PROVE  Whole(rows', Saved') /\ \A c \in Call : Whole(snap'[c].rows, Saved')
<1>1. StoreInv /\ Whole(rows, Saved) /\ \A c \in Call : Whole(snap[c].rows, Saved)
  BY DEF WholeInv
<1>2. \A R : Whole(R, Saved) => Whole(R, Saved')
  BY <1>1, WhoWrites DEF Whole
<1>3. Whole(NoRows, Saved')
  BY DEF Whole, NoRows
<1>4. Whole(rows', Saved')
  <2>1. CASE UNCHANGED rows BY <2>1, <1>1, <1>2
  <2>2. CASE rows' = NoRows BY <2>2, <1>3
  <2>3. ASSUME NEW c \in Call, Save(c) \/ SaveDirect(c) PROVE Whole(rows', Saved')
    BY <2>3, SavesWhole
  <2>4. QED BY <1>1, <2>1, <2>2, <2>3, WhoWrites
<1>5. ASSUME NEW d \in Call PROVE Whole(snap'[d].rows, Saved')
  <2>1. snap'[d] = snap[d] \/ snap'[d].rows = rows
    <3>1. ASSUME NEW c \in Call, Load(c) PROVE snap'[d] = snap[d] \/ snap'[d].rows = rows
      BY <3>1, <1>1 DEF Load, StoreInv, TypeOK
    <3>2. QED BY <1>1, <3>1, WhoWrites
  <2>2. QED BY <2>1, <1>1, <1>2
<1>6. QED BY <1>4, <1>5

\* No update is ever seen in part, with blind writers, seeds, crashes and late
\* saves: the collections of one save are written in one transaction.
THEOREM NoTornUpdateHolds == Spec => []NoTornUpdate
<1>1. Init => WholeInv
  <2>1. Init => StoreInv
    BY DEF Init, StoreInv, TypeOK, HeadRuns, SnapshotIsCurrent, Snapshot, Rows, NoRows,
           Waiting, InFlight, Terminal
  <2>2. Init => Whole(rows, Saved) /\ \A c \in Call : Whole(snap[c].rows, Saved)
    BY DEF Init, Whole, NoRows
  <2>3. QED BY <2>1, <2>2 DEF WholeInv
<1>2. WholeInv /\ [Next]_vars => WholeInv'
  BY TypeStep, HeadStep, SnapshotStep, WholeStep DEF WholeInv, StoreInv
<1>3. WholeInv => NoTornUpdate
  BY DEF WholeInv, Whole, NoTornUpdate, Saved
<1>4. QED BY <1>1, <1>2, <1>3, PTL DEF Spec

-----------------------------------------------------------------------------
(* The seeded store without blind writers. *)

\* Nobody seeds a store that already holds records.
SeededInv == seeded = TRUE /\ \A c \in Call : pc[c] # "seeding"

LEMMA SeededStep ==
    ASSUME SeededInv, [Next]_vars, StoreInv
    PROVE  SeededInv'
<1> USE DEF SeededInv, StoreInv, TypeOK, Goto
<1>1. ASSUME NEW c \in Call, Enqueue(c) \/ Begin(c) \/ EnsureSeeded(c) PROVE SeededInv'
  BY <1>1 DEF Enqueue, Begin, EnsureSeeded
<1>2. ASSUME NEW c \in Call, Seed(c) \/ Load(c) PROVE SeededInv'
  BY <1>2 DEF Seed, Load
<1>3. ASSUME NEW c \in Call, NEW label \in {"refused", "unchanged"}, Decline(c, label)
      PROVE SeededInv'
  BY <1>3 DEF Decline
<1>4. ASSUME NEW c \in Call, Save(c) \/ Conflict(c) \/ SaveDirect(c) PROVE SeededInv'
  BY <1>4 DEF Save, Conflict, SaveDirect
<1>5. ASSUME NEW p \in Proc, Crash(p) PROVE SeededInv'
  BY <1>5 DEF Crash, InFlight
<1>6. CASE UNCHANGED vars
  BY <1>6 DEF vars
<1>7. QED BY <1>1, <1>2, <1>3, <1>4, <1>5, <1>6 DEF Next, Step

\* Without blind writers only a save changes the rows or reports success.
LEMMA OnlySaveWrites ==
    ASSUME NoBlindWriters, SeededInv, StoreInv, [Next]_vars
    PROVE  \/ \E c \in Call : Save(c)
           \/ /\ rows' = rows
              /\ \A c \in Call : pc'[c] = "saved" <=> pc[c] = "saved"
<1> USE DEF StoreInv, TypeOK, Goto
<1>1. ASSUME NEW c \in Call, Enqueue(c) \/ Begin(c) \/ EnsureSeeded(c) \/ Load(c) \/ Conflict(c)
      PROVE  rows' = rows /\ \A d \in Call : pc'[d] = "saved" <=> pc[d] = "saved"
  BY <1>1 DEF Enqueue, Begin, EnsureSeeded, Load, Conflict
<1>2. ASSUME NEW c \in Call, NEW label \in {"refused", "unchanged"}, Decline(c, label)
      PROVE  rows' = rows /\ \A d \in Call : pc'[d] = "saved" <=> pc[d] = "saved"
  BY <1>2 DEF Decline
<1>3. ASSUME NEW c \in Call, Seed(c) \/ SaveDirect(c) PROVE FALSE
  BY <1>3 DEF Seed, SaveDirect, SeededInv, NoBlindWriters
<1>4. ASSUME NEW p \in Proc, Crash(p)
      PROVE  rows' = rows /\ \A d \in Call : pc'[d] = "saved" <=> pc[d] = "saved"
  BY <1>4 DEF Crash, InFlight
<1>5. ASSUME UNCHANGED vars
      PROVE  rows' = rows /\ \A d \in Call : pc'[d] = "saved" <=> pc[d] = "saved"
  BY <1>5 DEF vars
<1>6. QED BY <1>1, <1>2, <1>3, <1>4, <1>5 DEF Next, Step

\* What a seeded store without blind writers keeps on top of StoreInv.
SafeInv == StoreInv /\ SeededInv /\ NoLostUpdate

LEMMA NoLostUpdateStep ==
    ASSUME NoBlindWriters, SafeInv, [Next]_vars
    PROVE  NoLostUpdate'
<1>1. ASSUME NEW c \in Call, Save(c), NEW d \in Call, pc'[d] = "saved", NEW k \in Saves[d]
      PROVE  d \in rows'[k]
  <2>1. k \in Collection
    OBVIOUS
  <2>2. rows'[k] = IF k \in Saves[c] THEN rows[k] \union {c} ELSE rows[k]
    BY <1>1, <2>1, SaveAdds DEF SafeInv
  <2>3. CASE d = c
    BY <1>1, <2>2, <2>3
  <2>4. CASE d # c
    <3>1. pc[d] = "saved"
      BY <1>1, <2>4 DEF Save, Goto, SafeInv, StoreInv, TypeOK
    <3>2. d \in rows[k]
      BY <3>1 DEF SafeInv, NoLostUpdate
    <3>3. QED BY <2>2, <3>2
  <2>5. QED BY <2>3, <2>4
<1>2. ASSUME rows' = rows, \A c \in Call : pc'[c] = "saved" <=> pc[c] = "saved"
      PROVE  NoLostUpdate'
  BY <1>2 DEF SafeInv, NoLostUpdate
<1>3. ASSUME NEW c \in Call, Save(c) PROVE NoLostUpdate'
  BY <1>1, <1>3 DEF NoLostUpdate
<1>4. QED BY <1>2, <1>3, OnlySaveWrites DEF SafeInv

\* Once the store is seeded and every writer uses the queue, no committed
\* update is ever lost, for any number of processes, calls, conflicts, crashes.
THEOREM NoUpdateIsLost == ASSUME NoBlindWriters PROVE Spec => []SafeInv
<1>1. Init => SafeInv
  <2>1. Init => StoreInv
    BY DEF Init, StoreInv, TypeOK, HeadRuns, SnapshotIsCurrent, Snapshot, Rows, NoRows,
           Waiting, InFlight, Terminal
  <2>2. Init => SeededInv /\ NoLostUpdate
    BY DEF Init, SeededInv, NoLostUpdate, NoBlindWriters
  <2>3. QED BY <2>1, <2>2 DEF SafeInv
<1>2. SafeInv /\ [Next]_vars => SafeInv'
  BY TypeStep, HeadStep, SnapshotStep, SeededStep, NoLostUpdateStep DEF SafeInv, StoreInv
<1>3. QED BY <1>1, <1>2, PTL DEF Spec

\* The property the runs check, from the invariant.
THEOREM NoLostUpdateHolds == ASSUME NoBlindWriters PROVE Spec => []NoLostUpdate
<1>1. SafeInv => NoLostUpdate
  BY DEF SafeInv
<1>2. QED BY <1>1, NoUpdateIsLost, PTL

\* No save of a store without blind writers is stale (bumpStoreRevision).
THEOREM StaleSavesAreRefused == ASSUME NoBlindWriters PROVE Spec => StaleSaveRefused
<1>1. ASSUME NoBlindWriters, SafeInv, [Next]_vars
      PROVE  \A c \in Call : pc[c] # "saved" /\ pc'[c] = "saved" => snap[c].rev = revision
  <2>1. ASSUME NEW d \in Call, Save(d), NEW c \in Call, pc[c] # "saved", pc'[c] = "saved"
        PROVE  snap[c].rev = revision
    BY <2>1 DEF Save, Goto, SafeInv, StoreInv, TypeOK
  <2>2. QED BY <1>1, <2>1, OnlySaveWrites DEF SafeInv
<1>2. QED BY <1>1, NoUpdateIsLost, PTL DEF Spec, StaleSaveRefused

-----------------------------------------------------------------------------
(* Who makes an update give up: while it is in flight only its rivals save,  *)
(* and each conflict comes after at least one save since its last load.      *)

RivalInv ==
    \A c \in Call :
        /\ attempt[c] + (IF Kind[c] = "update" /\ pc[c] = "loaded" THEN revision - snap[c].rev ELSE 0)
              <= Cardinality(Rivals(c))
        /\ pc[c] \in Waiting \union InFlight => attempt[c] < MaxAttempts
        /\ pc[c] = "conflicted" => attempt[c] = MaxAttempts

\* The rivals of a call are a finite set that only grows.
LEMMA RivalsGrow ==
    ASSUME IsFiniteSet(Call), StoreInv, [Next]_vars, NEW c \in Call
    PROVE  /\ Cardinality(Rivals(c)) \in Nat /\ Cardinality(Rivals(c)') \in Nat
           /\ Cardinality(Rivals(c)) <= Cardinality(Rivals(c)')
<1>1. Rivals(c) \subseteq Rivals(c)' /\ Rivals(c)' \subseteq Call
  BY WhoWrites DEF Rivals, Saved
<1>2. IsFiniteSet(Rivals(c)')
  BY <1>1, FS_Subset
<1>3. QED BY <1>1, <1>2, FS_Subset, FS_CardinalityType

\* A save of one call makes a new rival of every update in flight elsewhere.
LEMMA SaveMakesRival ==
    ASSUME IsFiniteSet(Call), StoreInv, [Next]_vars, NEW d \in Call, Save(d),
           NEW c \in Call, c # d, Kind[c] = "update", pc[c] = "loaded"
    PROVE  Cardinality(Rivals(c)) + 1 <= Cardinality(Rivals(c)')
<1>1. ProcOf[c] # ProcOf[d]
  BY DEF StoreInv, HeadRuns, Save, InFlight
<1>2. d \notin Rivals(c) /\ Rivals(c) \union {d} = Rivals(c)'
  BY <1>1 DEF Rivals, Save, Goto, StoreInv, TypeOK
<1>3. IsFiniteSet(Rivals(c))
  BY FS_Subset DEF Rivals
<1>4. Cardinality(Rivals(c) \union {d}) = Cardinality(Rivals(c)) + 1
  BY <1>2, <1>3, FS_AddElement
<1>5. Cardinality(Rivals(c)) \in Nat
  BY <1>3, FS_CardinalityType
<1>6. QED BY <1>2, <1>4, <1>5

\* A call that neither conflicts nor loads keeps its place or leaves the race.
LEMMA RivalStep ==
    ASSUME NoBlindWriters, IsFiniteSet(Call), SafeInv, RivalInv, [Next]_vars
    PROVE  RivalInv'
<1> USE DEF Goto
<1>typ. StoreInv /\ TypeOK /\ SeededInv
  BY DEF SafeInv, StoreInv
<1> SUFFICES ASSUME NEW c \in Call
             PROVE  /\ attempt'[c] + (IF Kind[c] = "update" /\ pc'[c] = "loaded"
                                      THEN revision' - snap'[c].rev ELSE 0)
                          <= Cardinality(Rivals(c)')
                    /\ pc'[c] \in Waiting \union InFlight => attempt'[c] < MaxAttempts
                    /\ pc'[c] = "conflicted" => attempt'[c] = MaxAttempts
  BY DEF RivalInv
<1> DEFINE Lag == IF Kind[c] = "update" /\ pc[c] = "loaded" THEN revision - snap[c].rev ELSE 0
<1>now. /\ attempt[c] + Lag <= Cardinality(Rivals(c))
        /\ pc[c] \in Waiting \union InFlight => attempt[c] < MaxAttempts
        /\ pc[c] = "conflicted" => attempt[c] = MaxAttempts
  BY DEF RivalInv
<1>num. /\ attempt[c] \in Nat /\ revision \in Nat /\ snap[c].rev \in Nat
        /\ snap[c].rev <= revision /\ MaxAttempts \in Nat
  BY <1>typ DEF TypeOK, StoreInv, SnapshotIsCurrent, Snapshot
<1>grow. /\ Cardinality(Rivals(c)) \in Nat /\ Cardinality(Rivals(c)') \in Nat
         /\ Cardinality(Rivals(c)) <= Cardinality(Rivals(c)')
  BY <1>typ, RivalsGrow
<1> HIDE DEF Rivals
<1> DEFINE Goal == /\ attempt'[c] + (IF Kind[c] = "update" /\ pc'[c] = "loaded"
                                       THEN revision' - snap'[c].rev ELSE 0)
                      <= Cardinality(Rivals(c)')
                   /\ pc'[c] \in Waiting \union InFlight => attempt'[c] < MaxAttempts
                   /\ pc'[c] = "conflicted" => attempt'[c] = MaxAttempts
<1>rest. ASSUME attempt'[c] = attempt[c], revision' = revision, snap'[c] = snap[c],
                \/ pc'[c] = pc[c]
                \/ /\ pc'[c] \notin {"loaded", "conflicted"}
                   /\ pc[c] \in Waiting \union InFlight
         PROVE  Goal
  BY <1>rest, <1>now, <1>num, <1>grow DEF Waiting, InFlight
<1>1. ASSUME NEW d \in Call, Enqueue(d) \/ Begin(d) \/ EnsureSeeded(d) PROVE Goal
  <2>1. attempt'[c] = attempt[c] /\ revision' = revision /\ snap'[c] = snap[c]
    BY <1>1 DEF Enqueue, Begin, EnsureSeeded
  <2>2. \/ pc'[c] = pc[c]
        \/ /\ pc'[c] \notin {"loaded", "conflicted"}
           /\ pc[c] \in Waiting \union InFlight
    BY <1>1, <1>typ DEF Enqueue, Begin, EnsureSeeded, TypeOK, Waiting, InFlight
  <2>3. QED BY <1>rest, <2>1, <2>2
<1>2. ASSUME NEW d \in Call, Load(d) PROVE Goal
  <2>1. CASE d = c
    <3>1. /\ attempt'[c] = attempt[c] /\ revision' = revision /\ snap'[c].rev = revision
          /\ pc[c] = "reading" /\ pc'[c] \in {"read", "loaded"}
      BY <1>2, <2>1, <1>typ DEF Load, TypeOK
    <3>2. QED BY <3>1, <1>now, <1>num, <1>grow DEF Waiting, InFlight
  <2>2. CASE d # c
    BY <1>2, <2>2, <1>typ, <1>rest DEF Load, TypeOK
  <2>3. QED BY <2>1, <2>2
<1>3. ASSUME NEW d \in Call, NEW label \in {"refused", "unchanged"}, Decline(d, label) PROVE Goal
  <2>1. attempt'[c] = attempt[c] /\ revision' = revision /\ snap'[c] = snap[c]
    BY <1>3 DEF Decline
  <2>2. \/ pc'[c] = pc[c]
        \/ /\ pc'[c] \notin {"loaded", "conflicted"}
           /\ pc[c] \in Waiting \union InFlight
    BY <1>3, <1>typ DEF Decline, TypeOK, InFlight
  <2>3. QED BY <1>rest, <2>1, <2>2
<1>4. ASSUME NEW d \in Call, Seed(d) \/ SaveDirect(d) PROVE Goal
  BY <1>4, <1>typ DEF Seed, SaveDirect, SeededInv, NoBlindWriters
<1>5. ASSUME NEW d \in Call, Save(d) PROVE Goal
  <2>0. attempt' = attempt /\ revision' = revision + 1 /\ snap' = snap
    BY <1>5 DEF Save
  <2>1. CASE d = c
    <3>1. pc'[c] = "saved"
      BY <1>5, <2>1, <1>typ DEF Save, TypeOK
    <3>2. QED BY <2>0, <3>1, <1>now, <1>num, <1>grow DEF Waiting, InFlight
  <2>2. CASE d # c
    <3>1. pc'[c] = pc[c]
      BY <1>5, <2>2, <1>typ DEF Save, TypeOK
    <3>2. CASE Kind[c] = "update" /\ pc[c] = "loaded"
      <4>1. Cardinality(Rivals(c)) + 1 <= Cardinality(Rivals(c)')
        BY <1>5, <2>2, <3>2, <1>typ, SaveMakesRival
      <4>2. QED BY <2>0, <3>1, <3>2, <4>1, <1>now, <1>num, <1>grow
    <3>3. CASE ~(Kind[c] = "update" /\ pc[c] = "loaded")
      BY <2>0, <3>1, <3>3, <1>now, <1>num, <1>grow
    <3>4. QED BY <3>2, <3>3
  <2>3. QED BY <2>1, <2>2
<1>6. ASSUME NEW d \in Call, Conflict(d) PROVE Goal
  <2>0. revision' = revision /\ snap' = snap
    BY <1>6 DEF Conflict
  <2>1. CASE d = c
    <3>1. /\ Kind[c] = "update" /\ pc[c] = "loaded" /\ revision # snap[c].rev
          /\ attempt'[c] = attempt[c] + 1
      BY <1>6, <2>1, <1>typ DEF Conflict, TypeOK
    <3>2. IF attempt[c] < MaxAttempts - 1 THEN pc'[c] = "loading" ELSE pc'[c] = "conflicted"
      BY <1>6, <2>1, <1>typ DEF Conflict, TypeOK
    <3>3. Lag >= 1
      BY <3>1, <1>num
    <3>4. attempt'[c] <= Cardinality(Rivals(c)')
      BY <3>1, <3>3, <1>now, <1>num, <1>grow
    <3>5. QED BY <3>1, <3>2, <3>4, <1>now, <1>num, <1>grow DEF Waiting, InFlight
  <2>2. CASE d # c
    <3>1. attempt'[c] = attempt[c] /\ pc'[c] = pc[c]
      BY <1>6, <2>2, <1>typ DEF Conflict, TypeOK
    <3>2. QED BY <2>0, <3>1, <1>rest
  <2>3. QED BY <2>1, <2>2
<1>7. ASSUME NEW p \in Proc, Crash(p) PROVE Goal
  <2>1. attempt'[c] = attempt[c] /\ revision' = revision /\ snap'[c] = snap[c]
    BY <1>7 DEF Crash
  <2>2. \/ pc'[c] = pc[c]
        \/ /\ pc'[c] \notin {"loaded", "conflicted"}
           /\ pc[c] \in Waiting \union InFlight
    BY <1>7, <1>typ DEF Crash, TypeOK, Waiting, InFlight
  <2>3. QED BY <1>rest, <2>1, <2>2
<1>8. CASE UNCHANGED vars
  BY <1>8, <1>rest DEF vars
<1>9. QED
  BY <1>1, <1>2, <1>3, <1>4, <1>5, <1>6, <1>7, <1>8 DEF Next, Step

\* In a seeded store without blind writers an update gives up only after as many
\* other updates of other processes were saved as it had attempts
\* (runQueuedControlPlaneUpdate).
THEOREM ConflictNeedsRivalsHolds ==
    ASSUME NoBlindWriters, IsFiniteSet(Call) PROVE Spec => []ConflictNeedsRivals
<1>1. ASSUME NoBlindWriters, IsFiniteSet(Call) PROVE Init => RivalInv
  <2>1. ASSUME Init, NEW c \in Call
        PROVE  attempt[c] = 0 /\ pc[c] = "idle" /\ Cardinality(Rivals(c)) = 0
    <3>1. Rivals(c) = {} BY <2>1 DEF Init, Rivals
    <3>2. QED BY <2>1, <3>1, FS_EmptySet DEF Init
  <2>2. QED BY <2>1 DEF RivalInv
<1>2. ASSUME NoBlindWriters, IsFiniteSet(Call)
      PROVE  RivalInv /\ SafeInv /\ [Next]_vars => RivalInv'
  BY <1>2, RivalStep
<1>3. ASSUME NoBlindWriters, IsFiniteSet(Call)
      PROVE  RivalInv /\ SafeInv => ConflictNeedsRivals
  <2>1. ASSUME RivalInv, SafeInv, NEW c \in Call PROVE attempt[c] <= Cardinality(Rivals(c))
    <3>1. /\ attempt[c] \in Nat /\ revision \in Nat /\ snap[c].rev \in Nat
          /\ snap[c].rev <= revision
      BY <2>1 DEF SafeInv, StoreInv, TypeOK, Snapshot, SnapshotIsCurrent
    <3>2. Cardinality(Rivals(c)) \in Nat
      BY <1>3, FS_Subset, FS_CardinalityType DEF Rivals
    <3>3. QED BY <2>1, <3>1, <3>2 DEF RivalInv
  <2>2. QED BY <2>1 DEF RivalInv, ConflictNeedsRivals
<1>4. QED BY <1>1, <1>2, <1>3, NoUpdateIsLost, PTL DEF Spec

-----------------------------------------------------------------------------
(* The protocol implements the atomic store. *)

\* A step that leaves the rows and turns open calls into dropped ones is a drop
\* or a stutter of the atomic store.
LEMMA DropOrStutter ==
    ASSUME TypeOK, rows' = rows,
           \A c \in Call : Outcome'[c] = Outcome[c]
                           \/ (Outcome[c] = "open" /\ Outcome'[c] = "dropped")
    PROVE  [Abstract!Next]_(Abstract!vars)
<1> DEFINE D == {c \in Call : Outcome[c] = "open" /\ Outcome'[c] = "dropped"}
<1>1. Outcome' = [c \in Call |-> IF c \in D THEN "dropped" ELSE Outcome[c]]
  <2>1. \A c \in Call : Outcome'[c] = (IF c \in D THEN "dropped" ELSE Outcome[c])
    OBVIOUS
  <2>2. Outcome' = [c \in Call |-> Outcome'[c]]
    BY DEF Outcome
  <2>3. QED BY <2>1, <2>2
<1>2. CASE D = {}
  <2>1. Outcome' = [c \in Call |-> Outcome[c]]
    BY <1>1, <1>2
  <2>2. Outcome = [c \in Call |-> Outcome[c]]
    BY DEF Outcome
  <2>3. QED BY <2>1, <2>2 DEF Abstract!vars
<1>3. CASE D # {}
  <2>1. Abstract!Drop(D)
    BY <1>1, <1>3 DEF Abstract!Drop
  <2>2. D \in SUBSET Call
    OBVIOUS
  <2>3. QED BY <2>1, <2>2 DEF Abstract!Next
<1>4. QED BY <1>2, <1>3

\* Every step of the protocol is a step of the atomic store or invisible to it.
LEMMA StepImplements ==
    ASSUME NoBlindWriters, SafeInv, [Next]_vars
    PROVE  [Abstract!Next]_(Abstract!vars)
<1>1. ASSUME NEW c \in Call, Save(c) PROVE Abstract!Commit(c)
  <2>1. Outcome[c] = "open"
    BY <1>1 DEF Save, Outcome, Terminal
  <2>2. Outcome' = [Outcome EXCEPT ![c] = "saved"]
    BY <1>1 DEF Save, Goto, Outcome, SafeInv, StoreInv, TypeOK
  <2>3. QED BY <1>1, <2>1, <2>2, SaveAdds DEF Abstract!Commit, SafeInv
<1>2. ASSUME rows' = rows, \A c \in Call : pc'[c] = "saved" <=> pc[c] = "saved"
      PROVE  [Abstract!Next]_(Abstract!vars)
  <2>1. \A c \in Call : pc[c] \in Terminal => pc'[c] = pc[c]
    <3> USE DEF SafeInv, StoreInv, TypeOK, Goto, Terminal
    <3>1. ASSUME NEW d \in Call, Enqueue(d) \/ Begin(d) \/ EnsureSeeded(d) \/ Seed(d) \/ Load(d)
          PROVE  \A c \in Call : pc[c] \in Terminal => pc'[c] = pc[c]
      BY <3>1 DEF Enqueue, Begin, EnsureSeeded, Seed, Load
    <3>2. ASSUME NEW d \in Call, NEW label \in {"refused", "unchanged"}, Decline(d, label)
          PROVE  \A c \in Call : pc[c] \in Terminal => pc'[c] = pc[c]
      BY <3>2 DEF Decline
    <3>3. ASSUME NEW d \in Call, Save(d) \/ Conflict(d) \/ SaveDirect(d)
          PROVE  \A c \in Call : pc[c] \in Terminal => pc'[c] = pc[c]
      BY <3>3 DEF Save, Conflict, SaveDirect
    <3>4. ASSUME NEW p \in Proc, Crash(p)
          PROVE  \A c \in Call : pc[c] \in Terminal => pc'[c] = pc[c]
      BY <3>4 DEF Crash, InFlight
    <3>5. CASE UNCHANGED vars
      BY <3>5 DEF vars
    <3>6. QED BY <3>1, <3>2, <3>3, <3>4, <3>5 DEF Next, Step
  <2>2. \A c \in Call : Outcome'[c] = Outcome[c]
                         \/ (Outcome[c] = "open" /\ Outcome'[c] = "dropped")
    BY <1>2, <2>1 DEF Outcome, Terminal
  <2>3. QED BY <1>2, <2>2, DropOrStutter DEF SafeInv, StoreInv
<1>3. ASSUME NEW c \in Call, Save(c) PROVE [Abstract!Next]_(Abstract!vars)
  BY <1>1, <1>3 DEF Abstract!Next
<1>4. QED BY <1>2, <1>3, OnlySaveWrites DEF SafeInv

\* A seeded store whose writers all use the queue is an atomic store: updates
\* take effect one at a time, whole, each on top of the ones before.
THEOREM StoreImplementsAtomicStore ==
    ASSUME NoBlindWriters PROVE Spec => ImplementsAtomicStore
<1>1. Init => Abstract!Init
  BY DEF Init, Abstract!Init, NoRows, Outcome, Terminal
<1>2. ASSUME NoBlindWriters
      PROVE  SafeInv /\ [Next]_vars => [Abstract!Next]_(Abstract!vars)
  BY <1>2, StepImplements
<1>3. QED BY <1>1, <1>2, NoUpdateIsLost, PTL DEF Spec, ImplementsAtomicStore, Abstract!Spec
=============================================================================
