--------------------------- MODULE MCTaskLifecycle ---------------------------
(* Small instances of TaskLifecycle.                                         *)
EXTENDS TaskLifecycle, TLC

CONSTANTS t1, t2, t3, s1, s2, w1, w2, e1, l1, l2, nobody

OneTask == {t1}
Family == {t1, t2, t3}
OneSurface == {s1}
TwoSurfaces == {s1, s2}

NoChildren == [t \in Task |-> {}]
\* t1 is the workflow parent of t2 and t3.
FamilyChildren == [t \in Task |-> IF t = t1 THEN {t2, t3} ELSE {}]
Kids == {t2, t3}
Everything == [s \in Surface |-> Task]
\* Only the children are worked on.
Leaves == [s \in Surface |-> Kids]

Row(status, mode, review, deps) ==
    [status |-> status, assignee |-> nobody, mode |-> mode, requiresReview |-> review, deps |-> deps]

\* A new task of every approval mode, with and without a required review.
GovernedRows == {Row("ready", m, b, {}) : m \in Mode, b \in BOOLEAN}
UngovernedRows == {Row("ready", "none", FALSE, {})}
\* With or without a dependency on the other child.
KidRows == {Row("ready", "none", FALSE, D) : D \in {{}} \union {{t} : t \in Kids}}
CompletionRows == {Row("ready", "before_complete", TRUE, {})}

WorkerReports == {"ready", "in_progress", "review", "blocked", "done"}
AllStatuses == TaskStatus
Forms == {"ready", "canceled"}
Modes == {"before_run", "before_complete"}
Completion == {"before_complete"}
NoStatuses == {}
NoTasks == {}
NoModes == {}
NoSurfaces == {}
Interchangeable == Permutations(Kids) \union Permutations(Surface) \union Permutations(Worker)
=============================================================================
