------------------------------ MODULE MCGoalWork ------------------------------
(* A small instance of GoalWork.                                             *)
EXTENDS GoalWork, FiniteSets, TLC

CONSTANTS g1, g2, w1, w2, p1, p2, m1, m2, e1, none

\* w1 is a part of w2.
PartOf == [t \in {w1, w2, 1, 2} |-> IF t = w1 THEN w2 ELSE none]

\* A task in no goal or in one, or from a template.
New(g, m) == [status |-> "open", goal |-> g, project |-> p1, template |-> m]
NewWork == {New(none, none), New(g1, none), New(g2, none), New(none, m1)}

\* m1 belongs to the project p2, m2 was derived from it in the project p1.
Templates ==
    {<<m1, [project |-> p2, goal |-> g, source |-> none]>> : g \in {none, g1, g2}}
        \union {<<m2, [project |-> p1, goal |-> none, source |-> m1]>>}

\* Active without tasks, active with the task, paused with a continuation task.
Sent ==
    {[byAgent |-> TRUE, active |-> TRUE, projects |-> {p1}, tasks |-> {}],
     [byAgent |-> TRUE, active |-> TRUE, projects |-> {}, tasks |-> {w1}],
     [byAgent |-> FALSE, active |-> FALSE, projects |-> {}, tasks |-> {1}]}

\* The subjects are explored apart: templates with one goal and no plans and no
\* overlapping update, overlapping updates without plans, two plans with one goal,
\* a second task with one plan, active goals without parents and the lists in order,
\* and nothing after the project with the tasks is deleted, or after the other one
\* where there is no template.
Apart ==
    LET editing == \E e \in Editor : form[e] # Idle
        planning == DOMAIN db.tasks \intersect Plan # {}
    IN  /\ p1 \in db.projects
        /\ p2 \in db.projects \/ DOMAIN db.templates # {}
        /\ DOMAIN db.templates # {} => Cardinality(DOMAIN db.goals) <= 1 /\ ~ editing /\ ~ planning
        /\ editing => ~ planning
        /\ Plan \subseteq DOMAIN db.tasks => Cardinality(DOMAIN db.goals) <= 1
        /\ w2 \in DOMAIN db.tasks =>
              /\ DOMAIN db.templates = {} /\ ~ editing /\ ~ (Plan \subseteq DOMAIN db.tasks)
              /\ Astray(db) = {}
              /\ \A g \in DOMAIN db.goals : db.goals[g].parent = None /\ db.goals[g].active

Alike == Permutations({g1, g2})
=============================================================================
