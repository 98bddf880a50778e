----------------------------- MODULE GoalRecords -----------------------------
(***************************************************************************)
(* The records that refer to each other by id - projects, goals, tasks and *)
(* task templates - and what the code derives from them: the integrity     *)
(* issues that refuse a save, the repair done on every load, the links     *)
(* between goals and tasks, and the continuation of goals without work.    *)
(*                                                                         *)
(* A collection is a function of the ids present.  goalId, parentGoalId,   *)
(* taskTemplateId and sourceTaskTemplateId are None where the code has no  *)
(* id; a successor template is treated like a source.  Statuses are kept   *)
(* as far as goals are concerned: a goal is active (ready or running) or   *)
(* not, a task is open, done (or accepted) or canceled.  newer holds the   *)
(* time stamps: <<p, t>> says that t was updated after planning task p.    *)
(***************************************************************************)
EXTENDS Naturals

CONSTANTS
    Goal, Work, Project, Template, None,
    MaxPlans,        \* the number of continuation tasks
    Parent           \* the task that a task is a part of, or None (parentTaskId)

ASSUME RecordsAssumption ==
    /\ MaxPlans \in Nat
    /\ None \notin Goal \union Template
    /\ Work \intersect Nat = {}

\* Tasks: those that people create, and the numbered continuation tasks (the
\* number of one that is deleted may be taken again).
Plan == 1 .. MaxPlans
Task == Work \union Plan

ASSUME ParentAssumption ==
    /\ Parent \in [Task -> Task \union {None}]
    /\ \A t \in Task : Parent[t] # t

TaskStatus == {"open", "done", "canceled"}
GoalRow == [active: BOOLEAN, parent: Goal \union {None}, tasks: SUBSET Task, projects: SUBSET Project]
TaskRow == [status: TaskStatus, goal: Goal \union {None}, project: Project,
            template: Template \union {None}]
TemplateRow == [project: Project, goal: Goal \union {None}, source: Template \union {None}]

\* A row for an id that is new or not, and no row for an id.
With(rows, id, row) == [i \in DOMAIN rows \union {id} |-> IF i = id THEN row ELSE rows[i]]
Without(rows, id) == [i \in DOMAIN rows \ {id} |-> rows[i]]

(***************************************************************************)
(* Integrity                                                               *)
(***************************************************************************)
Known(id, S) == IF id \in S THEN id ELSE None

\* Templates of projects that are gone are dropped, whatever refers to them.
KeptTemplates(d) == {m \in DOMAIN d.templates : d.templates[m].project \in d.projects}

RepairedGoal(d, row) ==
    [row EXCEPT !.parent = Known(@, DOMAIN d.goals),
                !.tasks = @ \intersect DOMAIN d.tasks,
                !.projects = @ \intersect d.projects]

\* Mutant: tasks keep their template.
KeepTemplate(d, row) == [row EXCEPT !.goal = Known(@, DOMAIN d.goals)]

RepairedTask(d, row) ==
    [row EXCEPT !.goal = Known(@, DOMAIN d.goals), !.template = Known(@, KeptTemplates(d))]

\* The source is looked up among all templates, the dropped ones included.
RepairedTemplate(d, row) ==
    [row EXCEPT !.goal = Known(@, DOMAIN d.goals), !.source = Known(@, DOMAIN d.templates)]

Dangling(id, S) == id # None /\ id \notin S

GoalIssues(d) ==
    {g \in DOMAIN d.goals : \/ Dangling(d.goals[g].parent, DOMAIN d.goals)
                            \/ ~ (d.goals[g].tasks \subseteq DOMAIN d.tasks)}
TaskIssues(d) ==
    {t \in DOMAIN d.tasks : \/ Dangling(d.tasks[t].goal, DOMAIN d.goals)
                            \/ Dangling(d.tasks[t].template, DOMAIN d.templates)}
TemplateIssues(d) ==
    {m \in DOMAIN d.templates : \/ Dangling(d.templates[m].goal, DOMAIN d.goals)
                                \/ Dangling(d.templates[m].source, DOMAIN d.templates)}

\* An update whose data has an issue anywhere is refused as a whole.
Sound(d) == GoalIssues(d) = {} /\ TaskIssues(d) = {} /\ TemplateIssues(d) = {}

\* The repair changes nothing where nothing dangles.
Repaired(d) ==
    IF /\ Sound(d)
       /\ KeptTemplates(d) = DOMAIN d.templates
       /\ \A g \in DOMAIN d.goals : d.goals[g].projects \subseteq d.projects
    THEN d
    ELSE [d EXCEPT !.goals = [g \in DOMAIN d.goals |-> RepairedGoal(d, d.goals[g])],
                   !.tasks = [t \in DOMAIN d.tasks |-> RepairedTask(d, d.tasks[t])],
                   !.templates = [m \in KeptTemplates(d) |-> RepairedTemplate(d, d.templates[m])]]

(***************************************************************************)
(* The goal hierarchy                                                      *)
(***************************************************************************)
ParentsIn(d, S) == {d.goals[g].parent : g \in S \intersect DOMAIN d.goals} \ {None}

\* The way up from g, by parents and no further than the first goal in stop,
\* comes to h: no set without h has g's parent and, with a goal not in stop, its
\* parent.
Reaches(d, g, h, stop) ==
    \A S \in SUBSET (Goal \ {h}) : ~ (ParentsIn(d, (S \ stop) \union {g}) \subseteq S)
Above(d, g) == {h \in Goal : Reaches(d, g, h, {})}
Below(d, g) == {h \in DOMAIN d.goals : Reaches(d, h, g, {})}

\* Mutant: only a goal that is its own parent is a cycle.
OwnParent(d, g, h) == h = g

\* wouldCreateGoalCycle walks up from h until it meets g or the top; it does
\* not come back if the way up runs into a cycle that g is not on.
WouldCycle(d, g, h) == h = g \/ (h # None /\ Reaches(d, h, g, {}))
WalkEnds(d, h) == h = None \/ \A k \in {h} \union Above(d, h) : ~ Reaches(d, k, k, {})

(***************************************************************************)
(* Goals and their tasks                                                   *)
(***************************************************************************)
\* A task belongs to a goal that lists it or that it names.
Linked(d, g) ==
    d.goals[g].tasks \union {t \in DOMAIN d.tasks : d.tasks[t].goal = g}
LinkedProjects(d, g) ==
    d.goals[g].projects \union {d.tasks[t].project : t \in Linked(d, g) \intersect DOMAIN d.tasks}

Scope(d, g) ==
    DOMAIN d.tasks \intersect UNION {Linked(d, h) : h \in {g} \union Below(d, g)}

\* The goal's row without the tasks of T, or without a project.
Unlisted(row, T) == [row EXCEPT !.tasks = @ \ T]
OutOf(row, p) == [row EXCEPT !.projects = @ \ {p}]

\* Mutant: an update of a continuation task counts as work.
AnyTouched(d, T) ==
    {pr \in d.newer : pr[1] \notin T} \union (((Plan \intersect DOMAIN d.tasks) \ T) \X T)

\* The tasks of T were updated now.
Touched(d, T) ==
    {pr \in d.newer : pr[1] \notin T}
        \union (((Plan \intersect DOMAIN d.tasks) \ T) \X (T \intersect Work))

\* The workflow parent of t, if there, gets the status r that its children give it
\* (which depends on more of them than is kept here).
Synced(d, t, r) ==
    LET u == Parent[t]
    IN  IF u \in DOMAIN d.tasks /\ d.tasks[u].status # r
        THEN [d EXCEPT !.tasks[u].status = r, !.newer = Touched(d, {u})]
        ELSE d

\* Mutant: the other goals keep listing the tasks of T.
ShareTasks(d, g, parent, P, T) ==
    [d EXCEPT !.goals[g] = [@ EXCEPT !.parent = parent, !.tasks = T, !.projects = P],
              !.tasks = [t \in DOMAIN @ |-> IF t \in T THEN [@[t] EXCEPT !.goal = g] ELSE @[t]]]

\* Mutant: the tasks of T that name another goal keep it.
KeepGoals(d, g, parent, P, T) ==
    [d EXCEPT !.goals = [h \in DOMAIN @ |->
                 IF h = g THEN [@[h] EXCEPT !.parent = parent, !.tasks = T, !.projects = P]
                 ELSE Unlisted(@[h], T)]]

\* applyGoalRelationships: g lists exactly the tasks T, no other goal does,
\* and the tasks name g or, taken out, no goal.
Related(d, g, parent, P, T) ==
    LET moved == {t \in DOMAIN d.tasks : (t \in T) # (d.tasks[t].goal = g)}
        homes == {d.tasks[t].project : t \in T \intersect DOMAIN d.tasks}
    IN  [d EXCEPT
           !.goals = [h \in DOMAIN @ |->
                        IF h = g
                        THEN [@[h] EXCEPT !.parent = parent, !.tasks = T, !.projects = P \union homes]
                        ELSE Unlisted(@[h], T)],
           !.tasks = [t \in DOMAIN @ |->
                        IF t \in moved
                        THEN [@[t] EXCEPT !.goal = IF t \in T THEN g ELSE None]
                        ELSE @[t]],
           !.newer = Touched(d, moved)]

(***************************************************************************)
(* Continuation                                                            *)
(***************************************************************************)
\* The projects a continuation task of g may be put in.
Homes(d, g) ==
    IF d.goals[g].projects \intersect d.projects # {}
    THEN d.goals[g].projects \intersect d.projects
    ELSE {d.tasks[t].project : t \in Scope(d, g)} \intersect d.projects

\* Mutant: the work of the goals below is not looked at.
OwnGap(d, g) ==
    /\ g \in DOMAIN d.goals
    /\ d.goals[g].active
    /\ \A t \in Linked(d, g) \intersect DOMAIN d.tasks : d.tasks[t].status # "open"
    /\ Homes(d, g) # {}

\* g is active and has no open work, and work was closed since a continuation
\* task of its scope was last updated, if there has been one.
InGap(d, g) ==
    /\ g \in DOMAIN d.goals
    /\ d.goals[g].active
    /\ \A t \in Scope(d, g) : d.tasks[t].status # "open"
    /\ \/ Scope(d, g) \intersect Plan = {}
       \/ \E t \in Scope(d, g) \ Plan :
             /\ d.tasks[t].status = "done"
             /\ \A p \in Scope(d, g) \intersect Plan : <<p, t>> \in d.newer
    /\ Homes(d, g) # {}

\* g gets a continuation task.
NewPlan(d) == CHOOSE p \in 1 .. (MaxPlans + 3) : p \notin DOMAIN d.tasks
Planned(d, g) ==
    LET p == NewPlan(d)
        home == CHOOSE h \in Homes(d, g) : TRUE
    IN  [d EXCEPT
           !.tasks = With(@, p, [status |-> "open", goal |-> g, project |-> home, template |-> None]),
           !.goals[g].tasks = @ \union {p},
           !.goals[g].projects = @ \union {home}]

\* Mutant: only the goal itself is continued.
OwnContinued(d, g) == IF InGap(d, g) THEN Planned(d, g) ELSE d

\* The goal g and then its ancestors, upwards: the first one in a gap gets a
\* task, which is open work of all those above it.
Continued(d, g) ==
    LET gaps == {h \in {g} \union Above(d, g) : InGap(d, h)}
        first == IF g \in gaps THEN g ELSE CHOOSE h \in gaps : Reaches(d, g, h, gaps)
    IN  IF gaps = {} THEN d ELSE Planned(d, first)

\* The goals a task change affects are continued: those the task named before
\* and names now, and the one that lists it.
Lister(d, t) ==
    IF \E g \in DOMAIN d.goals : t \in d.goals[g].tasks
    THEN CHOOSE g \in DOMAIN d.goals : t \in d.goals[g].tasks
    ELSE None
FollowedUp(d, t, before, now) ==
    IF t \in Plan THEN d
    ELSE Continued(Continued(Continued(d, before), now), Lister(d, t))
=============================================================================
