---------------------------- MODULE GoalWorkProofs ----------------------------
(***************************************************************************)
(* Proofs about goals and their tasks, for any numbers of them and any     *)
(* requests.  Four thoughts carry them.  What a load repairs does not      *)
(* matter to lists and hierarchy, because there the saved references       *)
(* resolve already.  A hierarchy is free of cycles at a goal if a set of   *)
(* goals without it contains the parents of it and of the set's members.   *)
(* What follows a task change up only adds tasks, where none is open.  And *)
(* the way up from a goal to its gaps is one way, so that the task made at *)
(* the first of them is below all the others.                              *)
(***************************************************************************)
EXTENDS GoalWork, TLAPS

-----------------------------------------------------------------------------
(* Data as handlers compute it: a continuation task may have a number beyond *)
(* the bound, with which it is not saved.                                    *)

AnyTask == Work \union Nat
Fields == {"projects", "goals", "tasks", "templates", "newer"}

GoalRowOf(I) ==
    [active: BOOLEAN, parent: Goal \union {None}, tasks: SUBSET I, projects: SUBSET Project]
GoalsTyped(f, I) == DOMAIN f \subseteq Goal /\ \A g \in DOMAIN f : f[g] \in GoalRowOf(I)
TasksTyped(f, I) == DOMAIN f \subseteq I /\ \A t \in DOMAIN f : f[t] \in TaskRow
TemplatesTyped(f) == DOMAIN f \subseteq Template /\ \A m \in DOMAIN f : f[m] \in TemplateRow
Typed(d, I) ==
    /\ DOMAIN d = Fields
    /\ d.projects \subseteq Project
    /\ GoalsTyped(d.goals, I)
    /\ TasksTyped(d.tasks, I)
    /\ TemplatesTyped(d.templates)
    /\ d.newer \subseteq Plan \X Work

\* The references between goals and tasks resolve.
ListsResolve(d) == \A g \in DOMAIN d.goals : d.goals[g].tasks \subseteq DOMAIN d.tasks
Resolved(d) ==
    /\ ListsResolve(d)
    /\ \A g \in DOMAIN d.goals : d.goals[g].parent \in DOMAIN d.goals \union {None}
    /\ \A t \in DOMAIN d.tasks : d.tasks[t].goal \in DOMAIN d.goals \union {None}

Disjoint(d) ==
    \A g, h \in DOMAIN d.goals : g # h => d.goals[g].tasks \intersect d.goals[h].tasks = {}

\* The same goals, and tasks, as far as hierarchy, lists and status go.
GoalsAlike(f, e) ==
    /\ DOMAIN e = DOMAIN f
    /\ \A g \in DOMAIN f : e[g].parent = f[g].parent /\ e[g].tasks = f[g].tasks
TasksAlike(f, e) ==
    /\ DOMAIN e = DOMAIN f
    /\ \A t \in DOMAIN f : e[t].goal = f[t].goal /\ e[t].status = f[t].status
Alike(c, d) == GoalsAlike(c.goals, d.goals) /\ TasksAlike(c.tasks, d.tasks)

-----------------------------------------------------------------------------
(* Loads *)

LEMMA RepairedRows ==
    ASSUME NEW d, NEW I, Typed(d, I)
    PROVE  /\ \A row \in GoalRowOf(I) :
                 /\ RepairedGoal(d, row) \in GoalRowOf(I)
                 /\ RepairedGoal(d, row).parent = Known(row.parent, DOMAIN d.goals)
                 /\ RepairedGoal(d, row).tasks = row.tasks \intersect DOMAIN d.tasks
           /\ \A row \in TaskRow :
                 /\ RepairedTask(d, row) \in TaskRow
                 /\ RepairedTask(d, row).status = row.status
                 /\ RepairedTask(d, row).goal = Known(row.goal, DOMAIN d.goals)
                 /\ RepairedTask(d, row).template = Known(row.template, KeptTemplates(d))
           /\ \A row \in TemplateRow :
                 /\ RepairedTemplate(d, row) \in TemplateRow
                 /\ RepairedTemplate(d, row).goal = Known(row.goal, DOMAIN d.goals)
                 /\ RepairedTemplate(d, row).source = Known(row.source, DOMAIN d.templates)
<1>1. /\ DOMAIN d.goals \subseteq Goal /\ DOMAIN d.templates \subseteq Template
      /\ KeptTemplates(d) \subseteq Template
  BY DEF Typed, GoalsTyped, TemplatesTyped, KeptTemplates
<1>2. ASSUME NEW row \in GoalRowOf(I)
      PROVE  /\ RepairedGoal(d, row) \in GoalRowOf(I)
             /\ RepairedGoal(d, row).parent = Known(row.parent, DOMAIN d.goals)
             /\ RepairedGoal(d, row).tasks = row.tasks \intersect DOMAIN d.tasks
  <2>1. Known(row.parent, DOMAIN d.goals) \in Goal \union {None}
    BY <1>1 DEF Known
  <2>2. QED BY <2>1 DEF RepairedGoal, GoalRowOf
<1>3. ASSUME NEW row \in TaskRow
      PROVE  /\ RepairedTask(d, row) \in TaskRow
             /\ RepairedTask(d, row).status = row.status
             /\ RepairedTask(d, row).goal = Known(row.goal, DOMAIN d.goals)
             /\ RepairedTask(d, row).template = Known(row.template, KeptTemplates(d))
  <2>1. /\ Known(row.goal, DOMAIN d.goals) \in Goal \union {None}
        /\ Known(row.template, KeptTemplates(d)) \in Template \union {None}
    BY <1>1 DEF Known
  <2>2. QED BY <2>1 DEF RepairedTask, TaskRow
<1>4. ASSUME NEW row \in TemplateRow
      PROVE  /\ RepairedTemplate(d, row) \in TemplateRow
             /\ RepairedTemplate(d, row).goal = Known(row.goal, DOMAIN d.goals)
             /\ RepairedTemplate(d, row).source = Known(row.source, DOMAIN d.templates)
  <2>1. /\ Known(row.goal, DOMAIN d.goals) \in Goal \union {None}
        /\ Known(row.source, DOMAIN d.templates) \in Template \union {None}
    BY <1>1 DEF Known
  <2>2. QED BY <2>1 DEF RepairedTemplate, TemplateRow
<1>5. QED BY <1>2, <1>3, <1>4

LEMMA RepairIsTyped ==
    ASSUME NEW d, NEW I, Typed(d, I)
    PROVE  Typed(Repaired(d), I)
<1> DEFINE r == [d EXCEPT
       !.goals = [g \in DOMAIN d.goals |-> RepairedGoal(d, d.goals[g])],
       !.tasks = [t \in DOMAIN d.tasks |-> RepairedTask(d, d.tasks[t])],
       !.templates = [m \in KeptTemplates(d) |-> RepairedTemplate(d, d.templates[m])]]
<1>1. /\ DOMAIN r = Fields
      /\ r.projects = d.projects /\ r.newer = d.newer
      /\ r.goals = [g \in DOMAIN d.goals |-> RepairedGoal(d, d.goals[g])]
      /\ r.tasks = [t \in DOMAIN d.tasks |-> RepairedTask(d, d.tasks[t])]
      /\ r.templates = [m \in KeptTemplates(d) |-> RepairedTemplate(d, d.templates[m])]
  BY DEF Typed, Fields
<1>0. Repaired(d) = d \/ Repaired(d) = r
  BY DEF Repaired
<1> HIDE DEF r
<1>2. GoalsTyped(r.goals, I)
  <2>1. \A g \in DOMAIN d.goals : RepairedGoal(d, d.goals[g]) \in GoalRowOf(I)
    BY RepairedRows DEF Typed, GoalsTyped
  <2>2. QED BY <1>1, <2>1 DEF Typed, GoalsTyped
<1>3. TasksTyped(r.tasks, I)
  <2>1. \A t \in DOMAIN d.tasks : RepairedTask(d, d.tasks[t]) \in TaskRow
    BY RepairedRows DEF Typed, TasksTyped
  <2>2. QED BY <1>1, <2>1 DEF Typed, TasksTyped
<1>4. TemplatesTyped(r.templates)
  <2>1. KeptTemplates(d) \subseteq DOMAIN d.templates
    BY DEF KeptTemplates
  <2>2. QED BY <1>1, <2>1, RepairedRows DEF Typed, TemplatesTyped
<1>5. Typed(r, I)
  BY <1>1, <1>2, <1>3, <1>4 DEF Typed
<1>6. QED BY <1>0, <1>5

LEMMA RepairIsAlike ==
    ASSUME NEW d, NEW I, Typed(d, I), Resolved(d)
    PROVE  Alike(d, Repaired(d))
<1> DEFINE r == [d EXCEPT
       !.goals = [g \in DOMAIN d.goals |-> RepairedGoal(d, d.goals[g])],
       !.tasks = [t \in DOMAIN d.tasks |-> RepairedTask(d, d.tasks[t])],
       !.templates = [m \in KeptTemplates(d) |-> RepairedTemplate(d, d.templates[m])]]
<1>1. /\ r.goals = [g \in DOMAIN d.goals |-> RepairedGoal(d, d.goals[g])]
      /\ r.tasks = [t \in DOMAIN d.tasks |-> RepairedTask(d, d.tasks[t])]
  BY DEF Typed, Fields
<1>2. GoalsAlike(d.goals, r.goals)
  <2>1. SUFFICES ASSUME NEW g \in DOMAIN d.goals
                 PROVE  /\ RepairedGoal(d, d.goals[g]).parent = d.goals[g].parent
                        /\ RepairedGoal(d, d.goals[g]).tasks = d.goals[g].tasks
    BY <1>1 DEF GoalsAlike
  <2>2. /\ RepairedGoal(d, d.goals[g]).parent = Known(d.goals[g].parent, DOMAIN d.goals)
        /\ RepairedGoal(d, d.goals[g]).tasks = d.goals[g].tasks \intersect DOMAIN d.tasks
    BY RepairedRows DEF Typed, GoalsTyped
  <2>3. QED BY <2>2 DEF Resolved, ListsResolve, Known
<1>3. TasksAlike(d.tasks, r.tasks)
  <2>1. SUFFICES ASSUME NEW t \in DOMAIN d.tasks
                 PROVE  /\ RepairedTask(d, d.tasks[t]).goal = d.tasks[t].goal
                        /\ RepairedTask(d, d.tasks[t]).status = d.tasks[t].status
    BY <1>1 DEF TasksAlike
  <2>2. /\ RepairedTask(d, d.tasks[t]).goal = Known(d.tasks[t].goal, DOMAIN d.goals)
        /\ RepairedTask(d, d.tasks[t]).status = d.tasks[t].status
    BY RepairedRows DEF Typed, TasksTyped
  <2>3. QED BY <2>2 DEF Resolved, Known
<1>4. Repaired(d) = d \/ Repaired(d) = r
  BY DEF Repaired
<1>5. QED BY <1>2, <1>3, <1>4 DEF Alike, GoalsAlike, TasksAlike

LEMMA RepairIsSound ==
    ASSUME NEW d, NEW I, Typed(d, I)
    PROVE  \/ Sound(Repaired(d))
           \/ \E m \in DOMAIN Repaired(d).templates :
                 /\ Repaired(d).templates[m].source \in DOMAIN d.templates
                 /\ d.templates[Repaired(d).templates[m].source].project \notin d.projects
<1> DEFINE r == Repaired(d)
<1> SUFFICES ASSUME ~ Sound(r)
             PROVE  \E m \in DOMAIN r.templates :
                       /\ r.templates[m].source \in DOMAIN d.templates
                       /\ d.templates[r.templates[m].source].project \notin d.projects
  OBVIOUS
<1>1. r = [d EXCEPT
       !.goals = [g \in DOMAIN d.goals |-> RepairedGoal(d, d.goals[g])],
       !.tasks = [t \in DOMAIN d.tasks |-> RepairedTask(d, d.tasks[t])],
       !.templates = [m \in KeptTemplates(d) |-> RepairedTemplate(d, d.templates[m])]]
  BY DEF Repaired
<1>2. /\ r.goals = [g \in DOMAIN d.goals |-> RepairedGoal(d, d.goals[g])]
      /\ r.tasks = [t \in DOMAIN d.tasks |-> RepairedTask(d, d.tasks[t])]
      /\ r.templates = [m \in KeptTemplates(d) |-> RepairedTemplate(d, d.templates[m])]
  BY <1>1 DEF Typed, Fields
<1> HIDE DEF r
<1>3. ASSUME NEW g \in DOMAIN d.goals
      PROVE  /\ r.goals[g].parent = Known(d.goals[g].parent, DOMAIN d.goals)
             /\ r.goals[g].tasks = d.goals[g].tasks \intersect DOMAIN d.tasks
  <2>1. d.goals[g] \in GoalRowOf(I) /\ r.goals[g] = RepairedGoal(d, d.goals[g])
    BY <1>2 DEF Typed, GoalsTyped
  <2>2. QED BY <2>1, RepairedRows
<1>4. ASSUME NEW t \in DOMAIN d.tasks
      PROVE  /\ r.tasks[t].goal = Known(d.tasks[t].goal, DOMAIN d.goals)
             /\ r.tasks[t].template = Known(d.tasks[t].template, KeptTemplates(d))
  <2>1. d.tasks[t] \in TaskRow /\ r.tasks[t] = RepairedTask(d, d.tasks[t])
    BY <1>2 DEF Typed, TasksTyped
  <2>2. QED BY <2>1, RepairedRows
<1>5. ASSUME NEW m \in KeptTemplates(d)
      PROVE  /\ r.templates[m].goal = Known(d.templates[m].goal, DOMAIN d.goals)
             /\ r.templates[m].source = Known(d.templates[m].source, DOMAIN d.templates)
  <2>1. m \in DOMAIN d.templates
    BY DEF KeptTemplates
  <2>2. QED BY <1>2, <2>1, RepairedRows DEF Typed, TemplatesTyped
<1>6. DOMAIN r.goals = DOMAIN d.goals /\ DOMAIN r.tasks = DOMAIN d.tasks
      /\ DOMAIN r.templates = KeptTemplates(d)
  BY <1>2
<1>7. GoalIssues(r) = {}
  BY <1>3, <1>6 DEF GoalIssues, Dangling, Known
<1>8. TaskIssues(r) = {}
  BY <1>4, <1>6 DEF TaskIssues, Dangling, Known
<1>9. PICK m \in KeptTemplates(d) : r.templates[m].source # None
                                 /\ r.templates[m].source \notin KeptTemplates(d)
  BY <1>5, <1>6, <1>7, <1>8 DEF Sound, TemplateIssues, Dangling, Known
<1>10. r.templates[m].source \in DOMAIN d.templates
  BY <1>5, <1>9 DEF Known
<1>11. QED BY <1>6, <1>9, <1>10 DEF KeptTemplates

-----------------------------------------------------------------------------
(* The hierarchy *)

SameHierarchy(c, d) ==
    /\ DOMAIN d.goals = DOMAIN c.goals
    /\ \A g \in DOMAIN c.goals : d.goals[g].parent = c.goals[g].parent

\* S has all parents that g and the goals in S have.
Closed(d, g, S) ==
    \A y \in (S \union {g}) \intersect DOMAIN d.goals : d.goals[y].parent \in S \union {None}

LEMMA ClosedSets ==
    ASSUME NEW d, NEW g, NEW h
    PROVE  Reaches(d, g, h, {}) <=> ~ \E S \in SUBSET (Goal \ {h}) : Closed(d, g, S)
<1>1. ASSUME NEW S \in SUBSET (Goal \ {h})
      PROVE  ParentsIn(d, (S \ {}) \union {g}) \subseteq S <=> Closed(d, g, S)
  <2>1. (S \ {}) \union {g} = S \union {g}
    OBVIOUS
  <2>2. \A T : ParentsIn(d, T) \subseteq S
                <=> \A y \in T \intersect DOMAIN d.goals : d.goals[y].parent \in S \union {None}
    BY DEF ParentsIn
  <2>3. QED BY <2>1, <2>2 DEF Closed
<1>2. QED BY <1>1 DEF Reaches

LEMMA SameWays ==
    ASSUME NEW c, NEW d, SameHierarchy(c, d), NEW g, NEW h
    PROVE  Reaches(d, g, h, {}) <=> Reaches(c, g, h, {})
<1>1. \A S : Closed(d, g, S) <=> Closed(c, g, S)
  BY DEF Closed, SameHierarchy
<1>2. QED BY <1>1, ClosedSets

LEMMA SameCircles ==
    ASSUME NEW c, NEW d, SameHierarchy(c, d)
    PROVE  Circular(d) = Circular(c)
BY SameWays DEF Circular, SameHierarchy

LEMMA SameBelow ==
    ASSUME NEW c, NEW d, SameHierarchy(c, d), NEW g
    PROVE  Below(d, g) = Below(c, g)
BY SameWays DEF Below, SameHierarchy

LEMMA SameChecks ==
    ASSUME NEW c, NEW d, SameHierarchy(c, d), NEW g, NEW h
    PROVE  WouldCycle(d, g, h) <=> WouldCycle(c, g, h)
BY SameWays DEF WouldCycle

LEMMA NotCircular ==
    ASSUME NEW d, NEW x \in DOMAIN d.goals
    PROVE  x \notin Circular(d) <=> \E S \in SUBSET (Goal \ {x}) : Closed(d, x, S)
BY ClosedSets DEF Circular

\* A new goal is above none.
LEMMA NewGoalMakesNoCycle ==
    ASSUME NEW c, NEW d, NEW g \in Goal,
           DOMAIN c.goals \subseteq Goal, None \notin Goal,
           g \notin DOMAIN c.goals, DOMAIN d.goals = DOMAIN c.goals \union {g},
           \A y \in DOMAIN c.goals : /\ d.goals[y].parent = c.goals[y].parent
                                     /\ c.goals[y].parent \in (Goal \ {g}) \union {None},
           d.goals[g].parent # g, d.goals[g].parent \in DOMAIN d.goals \union {None},
           \A y \in DOMAIN c.goals : c.goals[y].parent \in DOMAIN c.goals \union {None}
    PROVE  Circular(d) \subseteq Circular(c)
<1> SUFFICES ASSUME NEW x \in DOMAIN d.goals, x \notin Circular(c)
             PROVE  x \notin Circular(d)
  BY DEF Circular
<1>1. CASE x = g
  <2>1. Closed(d, x, DOMAIN c.goals)
    BY <1>1 DEF Closed
  <2>2. DOMAIN c.goals \in SUBSET (Goal \ {x})
    BY <1>1
  <2>3. QED BY <2>1, <2>2, NotCircular
<1>2. CASE x # g
  <2>1. x \in DOMAIN c.goals
    BY <1>2
  <2>2. PICK S \in SUBSET (Goal \ {x}) : Closed(c, x, S)
    BY <2>1, NotCircular
  <2>3. Closed(d, x, S \ {g})
    <3>1. SUFFICES ASSUME NEW y \in ((S \ {g}) \union {x}) \intersect DOMAIN d.goals
                   PROVE  d.goals[y].parent \in (S \ {g}) \union {None}
      BY DEF Closed
    <3>2. y \in DOMAIN c.goals
      BY <1>2
    <3>3. c.goals[y].parent \in S \union {None}
      BY <2>2, <3>2 DEF Closed
    <3>4. QED BY <3>2, <3>3
  <2>4. QED BY <2>3, NotCircular
<1>3. QED BY <1>1, <1>2

\* Nor is the one moved below h, if the check was made on this hierarchy.
LEMMA MoveMakesNoCycle ==
    ASSUME NEW c, NEW d, NEW g \in DOMAIN c.goals, NEW h \in Goal \union {None},
           DOMAIN c.goals \subseteq Goal, None \notin Goal,
           DOMAIN d.goals = DOMAIN c.goals,
           \A y \in DOMAIN c.goals \ {g} : d.goals[y].parent = c.goals[y].parent,
           d.goals[g].parent = h, ~ WouldCycle(c, g, h)
    PROVE  Circular(d) \subseteq Circular(c)
<1> SUFFICES ASSUME NEW x \in DOMAIN c.goals, x \notin Circular(c)
             PROVE  x \notin Circular(d)
  BY DEF Circular
<1>1. PICK S \in SUBSET (Goal \ {x}) : Closed(c, x, S)
  BY NotCircular
<1>2. CASE h = None
  <2>1. Closed(d, x, S)
    BY <1>1, <1>2 DEF Closed
  <2>2. QED BY <2>1, NotCircular
<1>3. CASE h # None
  <2>1. h # g /\ ~ Reaches(c, h, g, {})
    BY <1>3 DEF WouldCycle
  <2>2. PICK U \in SUBSET (Goal \ {g}) : Closed(c, h, U)
    BY <2>1, ClosedSets
  <2> DEFINE V == U \union {h}
  <2>3. V \in SUBSET Goal /\ g \notin V /\ h \in V
    BY <1>3, <2>1
  <2>4. \A y \in V \intersect DOMAIN c.goals :
           c.goals[y].parent \in V \union {None} /\ d.goals[y].parent \in V \union {None}
    BY <2>2, <2>3 DEF Closed
  <2> HIDE DEF V
  <2>5. CASE x = g
    <3>1. Closed(d, x, V)
      BY <2>3, <2>4, <2>5 DEF Closed
    <3>2. V \in SUBSET (Goal \ {x})
      BY <2>3, <2>5
    <3>3. QED BY <3>1, <3>2, NotCircular
  <2>6. CASE x # g /\ x \in V
    <3>1. Closed(d, x, S \intersect V)
      <4>1. SUFFICES ASSUME NEW y \in ((S \intersect V) \union {x}) \intersect DOMAIN c.goals
                     PROVE  d.goals[y].parent \in (S \intersect V) \union {None}
        BY DEF Closed
      <4>2. y \in V /\ y # g
        BY <2>3, <2>6
      <4>3. d.goals[y].parent = c.goals[y].parent /\ c.goals[y].parent \in S \union {None}
        BY <1>1, <4>2 DEF Closed
      <4>4. QED BY <2>4, <4>2, <4>3
    <3>2. QED BY <3>1, NotCircular
  <2>7. CASE x # g /\ x \notin V
    <3>1. Closed(d, x, S \union V)
      <4>1. SUFFICES ASSUME NEW y \in (S \union V \union {x}) \intersect DOMAIN c.goals
                     PROVE  d.goals[y].parent \in S \union V \union {None}
        BY DEF Closed
      <4>2. CASE y \in V BY <2>4, <4>2
      <4>3. CASE y = g BY <2>3, <4>3
      <4>4. CASE y # g /\ y \notin V
        <5>1. c.goals[y].parent \in S \union {None}
          BY <1>1, <4>4 DEF Closed
        <5>2. QED BY <4>4, <5>1
      <4>5. QED BY <4>2, <4>3, <4>4
    <3>2. S \union V \in SUBSET (Goal \ {x})
      BY <2>3, <2>7
    <3>3. QED BY <3>1, <3>2, NotCircular
  <2>8. QED BY <2>5, <2>6, <2>7
<1>4. QED BY <1>2, <1>3

\* The children of a goal that is deleted go to its parent.
LEMMA DeletionMakesNoCycle ==
    ASSUME NEW c, NEW d, NEW g \in DOMAIN c.goals,
           DOMAIN c.goals \subseteq Goal,
           DOMAIN d.goals = DOMAIN c.goals \ {g},
           \A y \in DOMAIN d.goals :
              d.goals[y].parent = IF c.goals[y].parent = g THEN c.goals[g].parent
                                  ELSE c.goals[y].parent
    PROVE  Circular(d) \subseteq Circular(c)
<1> SUFFICES ASSUME NEW x \in DOMAIN d.goals, x \notin Circular(c)
             PROVE  x \notin Circular(d)
  BY DEF Circular
<1>1. PICK S \in SUBSET (Goal \ {x}) : Closed(c, x, S)
  BY NotCircular
<1>2. Closed(d, x, S)
  <2>1. SUFFICES ASSUME NEW y \in (S \union {x}) \intersect DOMAIN d.goals
                 PROVE  d.goals[y].parent \in S \union {None}
    BY DEF Closed
  <2>2. c.goals[y].parent \in S \union {None}
    BY <1>1 DEF Closed
  <2>3. CASE c.goals[y].parent = g
    <3>1. g \in S \union {None}
      BY <2>2, <2>3
    <3>2. CASE g \in S
      BY <1>1, <2>3, <3>2 DEF Closed
    <3>3. CASE g = None
      BY <2>3, <3>3, RecordsAssumption
    <3>4. QED BY <3>1, <3>2, <3>3
  <2>4. CASE c.goals[y].parent # g
    BY <2>2, <2>4
  <2>5. QED BY <2>3, <2>4
<1>3. QED BY <1>2, NotCircular

-----------------------------------------------------------------------------
(* Continuation *)

\* d is c with more tasks, continuation tasks each on the list of its goal only,
\* which has no open one among the tasks of c.
Extended(c, d) ==
    /\ SameHierarchy(c, d)
    /\ d.projects = c.projects /\ d.templates = c.templates
    /\ DOMAIN c.tasks \subseteq DOMAIN d.tasks
    /\ \A t \in DOMAIN c.tasks : d.tasks[t] = c.tasks[t]
    /\ \A g \in DOMAIN c.goals :
          d.goals[g].tasks \intersect DOMAIN c.tasks = c.goals[g].tasks \intersect DOMAIN c.tasks
    /\ \A p \in DOMAIN d.tasks \ DOMAIN c.tasks :
          /\ p \in Nat /\ d.tasks[p].goal \in DOMAIN d.goals
          /\ \A g \in DOMAIN d.goals : p \in d.goals[g].tasks => d.tasks[p].goal = g
          /\ \A t \in Scope(d, d.tasks[p].goal) \intersect DOMAIN c.tasks :
                d.tasks[t].status # "open"

LEMMA ScopeMembers ==
    ASSUME NEW d, NEW g, NEW t
    PROVE  t \in Scope(d, g) <=>
              /\ t \in DOMAIN d.tasks
              /\ \E h \in {g} \union Below(d, g) : t \in d.goals[h].tasks \/ d.tasks[t].goal = h
BY DEF Scope, Linked

LEMMA ExtendedItself ==
    ASSUME NEW d
    PROVE  Extended(d, d)
BY DEF Extended, SameHierarchy

LEMMA ExtendedTwice ==
    ASSUME NEW b, NEW c, NEW d, Extended(b, c), Extended(c, d)
    PROVE  Extended(b, d)
<1>1. SameHierarchy(b, d) /\ SameHierarchy(c, d)
  BY DEF Extended, SameHierarchy
<1>2. /\ d.projects = b.projects /\ d.templates = b.templates
      /\ DOMAIN b.tasks \subseteq DOMAIN d.tasks
      /\ \A t \in DOMAIN b.tasks : d.tasks[t] = b.tasks[t]
  BY DEF Extended
<1>3. \A g \in DOMAIN b.goals :
         d.goals[g].tasks \intersect DOMAIN b.tasks = b.goals[g].tasks \intersect DOMAIN b.tasks
  <2>1. SUFFICES ASSUME NEW g \in DOMAIN b.goals, NEW t \in DOMAIN b.tasks
                 PROVE  t \in d.goals[g].tasks <=> t \in b.goals[g].tasks
    OBVIOUS
  <2>2. t \in DOMAIN c.tasks /\ g \in DOMAIN c.goals
    BY DEF Extended, SameHierarchy
  <2>3. t \in c.goals[g].tasks <=> t \in b.goals[g].tasks
    BY DEF Extended
  <2>4. t \in d.goals[g].tasks <=> t \in c.goals[g].tasks
    BY <2>2 DEF Extended
  <2>5. QED BY <2>3, <2>4
<1>4. ASSUME NEW p \in DOMAIN d.tasks \ DOMAIN b.tasks
      PROVE  /\ p \in Nat /\ d.tasks[p].goal \in DOMAIN d.goals
             /\ \A g \in DOMAIN d.goals : p \in d.goals[g].tasks => d.tasks[p].goal = g
             /\ \A t \in Scope(d, d.tasks[p].goal) \intersect DOMAIN b.tasks :
                   d.tasks[t].status # "open"
  <2>1. CASE p \in DOMAIN c.tasks
    <3>1. d.tasks[p] = c.tasks[p] /\ c.tasks[p].goal \in DOMAIN c.goals
      BY <2>1 DEF Extended
    <3>2. ASSUME NEW g \in DOMAIN d.goals, p \in d.goals[g].tasks
          PROVE  d.tasks[p].goal = g
      <4>1. g \in DOMAIN c.goals /\ p \in c.goals[g].tasks
        BY <2>1, <3>2 DEF Extended, SameHierarchy
      <4>2. QED BY <2>1, <3>1, <4>1 DEF Extended
    <3>3. ASSUME NEW t \in Scope(d, d.tasks[p].goal) \intersect DOMAIN b.tasks
          PROVE  d.tasks[t].status # "open"
      <4>1. t \in DOMAIN c.tasks /\ d.tasks[t] = c.tasks[t]
        BY DEF Extended
      <4>2. PICK h \in {c.tasks[p].goal} \union Below(c, c.tasks[p].goal) :
                    t \in d.goals[h].tasks \/ d.tasks[t].goal = h
        BY <1>1, <3>1, ScopeMembers, SameBelow
      <4>3. h \in DOMAIN c.goals
        BY <3>1, <4>2 DEF Below
      <4>4. t \in c.goals[h].tasks \/ c.tasks[t].goal = h
        BY <4>1, <4>2, <4>3 DEF Extended
      <4>5. t \in Scope(c, c.tasks[p].goal)
        BY <4>1, <4>2, <4>4, ScopeMembers
      <4>6. QED BY <2>1, <4>1, <4>5 DEF Extended
    <3>4. p \in Nat /\ d.tasks[p].goal \in DOMAIN d.goals
      BY <1>1, <2>1, <3>1 DEF Extended, SameHierarchy
    <3>5. QED BY <3>2, <3>3, <3>4
  <2>2. CASE p \notin DOMAIN c.tasks
    BY <2>2 DEF Extended
  <2>3. QED BY <2>1, <2>2
<1>5. QED BY <1>1, <1>2, <1>3, <1>4 DEF Extended

\* Three numbers are free for the continuation tasks of one update.
Room(d, S) == S \subseteq 1 .. (MaxPlans + 3) /\ S \intersect DOMAIN d.tasks = {}

LEMMA PlannedExtends ==
    ASSUME NEW d, NEW g, Typed(d, AnyTask), InGap(d, g),
           NEW S, S # {}, Room(d, S),
           \A h \in DOMAIN d.goals \ {g} : d.goals[h].tasks \subseteq DOMAIN d.tasks
    PROVE  /\ Typed(Planned(d, g), AnyTask)
           /\ Extended(d, Planned(d, g))
           /\ \E p \in 1 .. (MaxPlans + 3) : Room(Planned(d, g), S \ {p})
           /\ ListsResolve(d) => ListsResolve(Planned(d, g))
           /\ DOMAIN Planned(d, g).tasks # DOMAIN d.tasks
<1> DEFINE p == NewPlan(d)
           home == CHOOSE h \in Homes(d, g) : TRUE
           row == [status |-> "open", goal |-> g, project |-> home, template |-> None]
           N == Planned(d, g)
<1>1. p \in 1 .. (MaxPlans + 3) /\ p \notin DOMAIN d.tasks
  BY DEF NewPlan, Room
<1>2. p \in Nat /\ p \in AnyTask
  BY <1>1, RecordsAssumption DEF AnyTask
<1>3. g \in DOMAIN d.goals /\ g \in Goal
  BY DEF InGap, Typed, GoalsTyped
<1>4. home \in Homes(d, g)
  BY DEF InGap
<1>5. home \in Project
  BY <1>4 DEF Homes, Typed
<1>6. row \in TaskRow /\ row.goal = g
  BY <1>3, <1>5 DEF TaskRow, TaskStatus
<1>7. /\ DOMAIN N = Fields
      /\ N.projects = d.projects /\ N.templates = d.templates /\ N.newer = d.newer
      /\ N.tasks = With(d.tasks, p, row)
      /\ N.goals = [d.goals EXCEPT ![g].tasks = @ \union {p}, ![g].projects = @ \union {home}]
  BY DEF Planned, Typed, Fields
<1> HIDE DEF p, home, row, N
<1>8. /\ DOMAIN N.tasks = DOMAIN d.tasks \union {p}
      /\ N.tasks[p] = row
      /\ \A t \in DOMAIN d.tasks : N.tasks[t] = d.tasks[t]
  BY <1>1, <1>7 DEF With
<1>9. /\ DOMAIN N.goals = DOMAIN d.goals
      /\ \A h \in DOMAIN d.goals \ {g} : N.goals[h] = d.goals[h]
  BY <1>7
<1>10. /\ N.goals[g] \in GoalRowOf(AnyTask)
       /\ N.goals[g].parent = d.goals[g].parent
       /\ N.goals[g].tasks = d.goals[g].tasks \union {p}
  <2>1. d.goals[g] \in GoalRowOf(AnyTask)
    BY <1>3 DEF Typed, GoalsTyped
  <2>2. N.goals[g] = [d.goals[g] EXCEPT !.tasks = @ \union {p}, !.projects = @ \union {home}]
    BY <1>3, <1>7, <2>1 DEF GoalRowOf
  <2>3. d.goals[g].tasks \union {p} \subseteq AnyTask /\ d.goals[g].projects \union {home} \subseteq Project
    BY <1>2, <1>5, <2>1 DEF GoalRowOf
  <2>4. QED BY <2>1, <2>2, <2>3 DEF GoalRowOf
<1>11. Typed(N, AnyTask)
  <2>1. GoalsTyped(N.goals, AnyTask)
    BY <1>9, <1>10 DEF Typed, GoalsTyped
  <2>2. TasksTyped(N.tasks, AnyTask)
    BY <1>2, <1>6, <1>8 DEF Typed, TasksTyped
  <2>3. QED BY <1>7, <2>1, <2>2 DEF Typed
<1>12. SameHierarchy(d, N)
  BY <1>9, <1>10 DEF SameHierarchy
<1>13. \A h \in DOMAIN d.goals : p \in N.goals[h].tasks => h = g
  BY <1>1, <1>9
<1>14. \A h \in DOMAIN d.goals, t \in DOMAIN d.tasks : t \in N.goals[h].tasks <=> t \in d.goals[h].tasks
  BY <1>1, <1>9, <1>10
<1>15. ASSUME NEW t \in Scope(N, g) \intersect DOMAIN d.tasks
       PROVE  N.tasks[t].status # "open"
  <2>1. PICK h \in {g} \union Below(d, g) : t \in N.goals[h].tasks \/ N.tasks[t].goal = h
    BY <1>12, ScopeMembers, SameBelow
  <2>2. h \in DOMAIN d.goals
    BY <1>3, <2>1 DEF Below
  <2>3. t \in d.goals[h].tasks \/ d.tasks[t].goal = h
    BY <1>8, <1>14, <2>1, <2>2
  <2>4. t \in Scope(d, g)
    BY <2>1, <2>3, ScopeMembers
  <2>5. QED BY <1>8, <2>4 DEF InGap
<1>16. Extended(d, N)
  <2>1. DOMAIN N.tasks \ DOMAIN d.tasks = {p}
    BY <1>1, <1>8
  <2>2. \A h \in DOMAIN d.goals :
           N.goals[h].tasks \intersect DOMAIN d.tasks = d.goals[h].tasks \intersect DOMAIN d.tasks
    BY <1>14
  <2>3. N.tasks[p].goal = g
    BY <1>6, <1>8
  <2>4. /\ N.projects = d.projects /\ N.templates = d.templates
        /\ DOMAIN d.tasks \subseteq DOMAIN N.tasks
        /\ \A t \in DOMAIN d.tasks : N.tasks[t] = d.tasks[t]
    BY <1>7, <1>8
  <2>5. /\ p \in Nat /\ N.tasks[p].goal \in DOMAIN N.goals
        /\ \A h \in DOMAIN N.goals : p \in N.goals[h].tasks => N.tasks[p].goal = h
        /\ \A t \in Scope(N, N.tasks[p].goal) \intersect DOMAIN d.tasks : N.tasks[t].status # "open"
    BY <1>2, <1>3, <1>9, <1>13, <1>15, <2>3
  <2>6. QED BY <1>12, <2>1, <2>2, <2>4, <2>5 DEF Extended
<1>17. Room(N, S \ {p})
  BY <1>8 DEF Room
<1>18. ListsResolve(d) => ListsResolve(N)
  BY <1>8, <1>9, <1>10 DEF ListsResolve
<1>19. QED BY <1>1, <1>8, <1>11, <1>16, <1>17, <1>18 DEF N

\* One of the goals in a gap is the first on the way up.
LEMMA FirstGap ==
    ASSUME NEW d, NEW g, NEW gaps, gaps \subseteq Goal, gaps # {}, g \notin gaps,
           \A h \in gaps : Reaches(d, g, h, {})
    PROVE  \E h \in gaps : Reaches(d, g, h, gaps)
<1> SUFFICES ASSUME \A h \in gaps : ~ Reaches(d, g, h, gaps)
             PROVE  FALSE
  OBVIOUS
<1> DEFINE Full(T) == ParentsIn(d, (T \ gaps) \union {g}) \subseteq T
           R == {x \in Goal : \A T \in SUBSET Goal : Full(T) => x \in T}
<1>1. \A h \in gaps : \E T \in SUBSET (Goal \ {h}) : Full(T)
  BY DEF Reaches
<1>2. R \intersect gaps = {}
  BY <1>1
<1>3. ASSUME NEW T \in SUBSET Goal, Full(T)
      PROVE  ParentsIn(d, (R \ gaps) \union {g}) \subseteq T
  <2>1. R \subseteq T
    BY <1>3
  <2>2. ParentsIn(d, (R \ gaps) \union {g}) \subseteq ParentsIn(d, (T \ gaps) \union {g})
    BY <2>1 DEF ParentsIn
  <2>3. QED BY <1>3, <2>2
<1>4. PICK h \in gaps : TRUE
  OBVIOUS
<1>5. ParentsIn(d, (R \ gaps) \union {g}) \subseteq Goal
  <2>1. PICK T \in SUBSET (Goal \ {h}) : Full(T)
    BY <1>1, <1>4
  <2>2. T \in SUBSET Goal
    OBVIOUS
  <2>3. ParentsIn(d, (R \ gaps) \union {g}) \subseteq T
    BY <1>3, <2>1, <2>2
  <2>4. QED BY <2>2, <2>3
<1>6. ParentsIn(d, (R \ gaps) \union {g}) \subseteq R
  BY <1>3, <1>5
<1>7. (R \ gaps) \union {g} = (R \ {}) \union {g}
  BY <1>2
<1>8. R \in SUBSET (Goal \ {h})
  BY <1>2
<1> HIDE DEF R
<1>9. ~ Reaches(d, g, h, {})
  BY <1>6, <1>7, <1>8 DEF Reaches
<1>10. QED BY <1>4, <1>9

LEMMA ContinuedExtends ==
    ASSUME NEW d, NEW g, Typed(d, AnyTask), ListsResolve(d), NEW S, S # {}, Room(d, S)
    PROVE  /\ Typed(Continued(d, g), AnyTask)
           /\ ListsResolve(Continued(d, g))
           /\ Extended(d, Continued(d, g))
           /\ \E p \in 1 .. (MaxPlans + 3) : Room(Continued(d, g), S \ {p})
<1> DEFINE gaps == {h \in {g} \union Above(d, g) : InGap(d, h)}
           first == IF g \in gaps THEN g ELSE CHOOSE h \in gaps : Reaches(d, g, h, gaps)
<1>1. CASE gaps = {}
  <2>1. Continued(d, g) = d
    BY <1>1 DEF Continued
  <2>2. PICK p \in S : TRUE
    OBVIOUS
  <2>3. p \in 1 .. (MaxPlans + 3) /\ Room(d, S \ {p})
    BY DEF Room
  <2>4. QED BY <2>1, <2>3, ExtendedItself
<1>2. CASE gaps # {}
  <2>1. first \in gaps
    <3>1. CASE g \in gaps BY <3>1
    <3>2. CASE g \notin gaps
      <4>1. gaps \subseteq Goal
        BY <3>2 DEF Above
      <4>2. \A h \in gaps : Reaches(d, g, h, {})
        BY <3>2 DEF Above
      <4> HIDE DEF gaps
      <4>3. \E h \in gaps : Reaches(d, g, h, gaps)
        BY <1>2, <3>2, <4>1, <4>2, FirstGap
      <4>4. QED BY <3>2, <4>3
    <3>3. QED BY <3>1, <3>2
  <2>2. InGap(d, first)
    BY <2>1
  <2>3. Continued(d, g) = Planned(d, first)
    BY <1>2 DEF Continued
  <2> HIDE DEF gaps, first
  <2>4. \A h \in DOMAIN d.goals \ {first} : d.goals[h].tasks \subseteq DOMAIN d.tasks
    BY DEF ListsResolve
  <2>5. QED BY <2>2, <2>3, <2>4, PlannedExtends
<1>3. QED BY <1>1, <1>2

LEMMA RoomEnough ==
    ASSUME NEW d, DOMAIN d.tasks \subseteq Task
    PROVE  Room(d, {MaxPlans + 1, MaxPlans + 2, MaxPlans + 3})
<1> DEFINE S == {MaxPlans + 1, MaxPlans + 2, MaxPlans + 3}
<1>1. S \subseteq 1 .. (MaxPlans + 3)
  BY RecordsAssumption
<1>2. \A n \in S : n \in Nat /\ n \notin Plan
  BY RecordsAssumption DEF Plan
<1>3. S \intersect Task = {}
  BY <1>2, RecordsAssumption DEF Task
<1>4. QED BY <1>1, <1>3 DEF Room

LEMMA FollowUpExtends ==
    ASSUME NEW d, Typed(d, AnyTask), ListsResolve(d), DOMAIN d.tasks \subseteq Task,
           NEW t, NEW before, NEW now
    PROVE  /\ Typed(FollowedUp(d, t, before, now), AnyTask)
           /\ ListsResolve(FollowedUp(d, t, before, now))
           /\ Extended(d, FollowedUp(d, t, before, now))
           /\ t \in Plan => FollowedUp(d, t, before, now) = d
<1> DEFINE S == {MaxPlans + 1, MaxPlans + 2, MaxPlans + 3}
           d1 == Continued(d, before)
           d2 == Continued(d1, now)
           d3 == Continued(d2, Lister(d, t))
<1>1. Room(d, S)
  BY RoomEnough
<1>2. \A p, q : S \ {p} # {} /\ (S \ {p}) \ {q} # {}
  <2>1. MaxPlans + 1 # MaxPlans + 2 /\ MaxPlans + 1 # MaxPlans + 3 /\ MaxPlans + 2 # MaxPlans + 3
    BY RecordsAssumption
  <2>2. QED BY <2>1
<1>3. S # {}
  OBVIOUS
<1> HIDE DEF S
<1>4. PICK p : Typed(d1, AnyTask) /\ ListsResolve(d1) /\ Extended(d, d1) /\ Room(d1, S \ {p})
  BY <1>1, <1>3, ContinuedExtends
<1> HIDE DEF d1
<1>5. PICK q : /\ Typed(d2, AnyTask) /\ ListsResolve(d2) /\ Extended(d1, d2)
               /\ Room(d2, (S \ {p}) \ {q})
  BY <1>2, <1>4, ContinuedExtends
<1> HIDE DEF d2
<1>6. Typed(d3, AnyTask) /\ ListsResolve(d3) /\ Extended(d2, d3)
  BY <1>2, <1>5, ContinuedExtends
<1> HIDE DEF d3
<1>7. Extended(d, d3)
  BY <1>4, <1>5, <1>6, ExtendedTwice
<1>8. FollowedUp(d, t, before, now) = IF t \in Plan THEN d ELSE d3
  BY DEF FollowedUp, d1, d2, d3
<1>9. QED BY <1>6, <1>7, <1>8, ExtendedItself

LEMMA ExtensionsStayDisjoint ==
    ASSUME NEW c, NEW d, Extended(c, d), ListsResolve(d), Disjoint(c)
    PROVE  Disjoint(d)
<1> SUFFICES ASSUME NEW g \in DOMAIN d.goals, NEW h \in DOMAIN d.goals, g # h,
                    NEW t \in d.goals[g].tasks, t \in d.goals[h].tasks
             PROVE  FALSE
  BY DEF Disjoint
<1>1. g \in DOMAIN c.goals /\ h \in DOMAIN c.goals /\ t \in DOMAIN d.tasks
  BY DEF Extended, SameHierarchy, ListsResolve
<1>2. CASE t \in DOMAIN c.tasks
  <2>1. t \in c.goals[g].tasks /\ t \in c.goals[h].tasks
    BY <1>1, <1>2 DEF Extended
  <2>2. QED BY <1>1, <2>1 DEF Disjoint
<1>3. CASE t \notin DOMAIN c.tasks
  BY <1>1, <1>3 DEF Extended
<1>4. QED BY <1>2, <1>3

LEMMA ExtensionsMisplaceNone ==
    ASSUME NEW c, NEW d, Extended(c, d)
    PROVE  Astray(d) \subseteq Astray(c)
<1> SUFFICES ASSUME NEW t \in DOMAIN d.tasks, NEW g \in DOMAIN d.goals,
                    t \in d.goals[g].tasks, d.tasks[t].goal # g
             PROVE  t \in Astray(c)
  BY DEF Astray
<1>1. t \in DOMAIN c.tasks /\ g \in DOMAIN c.goals
  BY DEF Extended, SameHierarchy
<1>2. t \in c.goals[g].tasks /\ c.tasks[t].goal # g
  BY <1>1 DEF Extended
<1>3. QED BY <1>1, <1>2 DEF Astray

-----------------------------------------------------------------------------
(* What a step keeps *)

\* Loads and saves keep what lists and hierarchy say.
LEMMA AlikeData ==
    ASSUME NEW c, NEW d, Alike(c, d)
    PROVE  /\ SameHierarchy(c, d)
           /\ Resolved(c) <=> Resolved(d)
           /\ Disjoint(c) <=> Disjoint(d)
           /\ Astray(d) = Astray(c)
           /\ Circular(d) = Circular(c)
           /\ \A g \in DOMAIN c.goals : Scope(d, g) = Scope(c, g)
<1>1. SameHierarchy(c, d)
  BY DEF Alike, GoalsAlike, SameHierarchy
<1>2. Resolved(c) <=> Resolved(d)
  BY DEF Resolved, ListsResolve, Alike, GoalsAlike, TasksAlike
<1>3. Disjoint(c) <=> Disjoint(d)
  BY DEF Disjoint, Alike, GoalsAlike
<1>4. Astray(d) = Astray(c)
  BY DEF Astray, Alike, GoalsAlike, TasksAlike
<1>5. ASSUME NEW g \in DOMAIN c.goals, NEW t
      PROVE  t \in Scope(d, g) <=> t \in Scope(c, g)
  <2>1. \A h \in {g} \union Below(c, g) : h \in DOMAIN c.goals
    BY DEF Below
  <2>2. Below(d, g) = Below(c, g)
    BY <1>1, SameBelow
  <2>3. QED BY <2>1, <2>2, ScopeMembers DEF Alike, GoalsAlike, TasksAlike
<1>6. QED BY <1>1, <1>2, <1>3, <1>4, <1>5, SameCircles

\* The data between two requests.
Orderly(d) == Typed(d, Task) /\ Resolved(d) /\ Disjoint(d)

LEMMA TypedMore ==
    ASSUME NEW d, Typed(d, Task)
    PROVE  Typed(d, AnyTask) /\ DOMAIN d.tasks \subseteq Task
<1>1. Task \subseteq AnyTask
  BY RecordsAssumption DEF Task, Plan, AnyTask
<1>2. GoalRowOf(Task) \subseteq GoalRowOf(AnyTask)
  BY <1>1 DEF GoalRowOf
<1>3. QED BY <1>1, <1>2 DEF Typed, GoalsTyped, TasksTyped

LEMMA Loads ==
    ASSUME Orderly(db)
    PROVE  /\ Typed(Loaded, AnyTask) /\ Typed(Loaded, Task)
           /\ Alike(db, Loaded) /\ Resolved(Loaded) /\ Disjoint(Loaded)
           /\ Astray(Loaded) = Astray(db) /\ Circular(Loaded) = Circular(db)
           /\ SameHierarchy(db, Loaded)
           /\ DOMAIN Loaded.goals = DOMAIN db.goals /\ DOMAIN Loaded.tasks = DOMAIN db.tasks
<1>1. Typed(db, Task) /\ Resolved(db) /\ Disjoint(db)
  BY DEF Orderly
<1>2. Typed(Loaded, Task) /\ Typed(Loaded, AnyTask)
  BY <1>1, RepairIsTyped, TypedMore DEF Loaded
<1>3. Alike(db, Loaded)
  BY <1>1, RepairIsAlike DEF Loaded
<1>4. DOMAIN Loaded.goals = DOMAIN db.goals /\ DOMAIN Loaded.tasks = DOMAIN db.tasks
  BY <1>3 DEF Alike, GoalsAlike, TasksAlike
<1>5. QED BY <1>1, <1>2, <1>3, <1>4, AlikeData

\* The plans of d that c has not are made where, of the tasks of c, none is open.
Fills(c, d) ==
    \A p \in Plan \intersect (DOMAIN d.tasks \ DOMAIN c.tasks) :
       /\ d.tasks[p].goal \in DOMAIN d.goals
       /\ \A t \in Scope(d, d.tasks[p].goal) \intersect DOMAIN c.tasks : d.tasks[t].status # "open"

LEMMA Saves ==
    ASSUME Orderly(db), NEW next, Typed(next, AnyTask), Disjoint(next),
           NEW names, Commit(next, names),
           "goals" \in names \/ GoalsAlike(next.goals, db.goals),
           "tasks" \in names \/ TasksAlike(next.tasks, db.tasks)
    PROVE  /\ Orderly(db')
           /\ Alike(next, db')
           /\ Astray(db') = Astray(next) /\ Circular(db') = Circular(next)
           /\ Fills(db, next) => Fills(db, db')
<1>1. Sound(next) /\ DOMAIN next.tasks \subseteq Task
  BY DEF Commit
<1>2. /\ DOMAIN db' = Fields
      /\ db'.projects = next.projects \/ db'.projects = db.projects
      /\ db'.goals = IF "goals" \in names THEN next.goals ELSE db.goals
      /\ db'.tasks = IF "tasks" \in names THEN next.tasks ELSE db.tasks
      /\ db'.templates = next.templates \/ db'.templates = db.templates
      /\ db'.newer = next.newer
  BY DEF Commit, Typed, Fields
<1>3. Resolved(next)
  <2>1. \A g \in DOMAIN next.goals : /\ next.goals[g].tasks \subseteq DOMAIN next.tasks
                                     /\ next.goals[g].parent \in DOMAIN next.goals \union {None}
    BY <1>1 DEF Sound, GoalIssues, Dangling
  <2>2. \A t \in DOMAIN next.tasks : next.tasks[t].goal \in DOMAIN next.goals \union {None}
    BY <1>1 DEF Sound, TaskIssues, Dangling
  <2>3. QED BY <2>1, <2>2 DEF Resolved, ListsResolve
<1>4. GoalsTyped(next.goals, Task)
  <2>1. ASSUME NEW g \in DOMAIN next.goals
        PROVE  next.goals[g] \in GoalRowOf(Task)
    <3>1. next.goals[g] \in GoalRowOf(AnyTask)
      BY DEF Typed, GoalsTyped
    <3>2. next.goals[g].tasks \subseteq Task
      BY <1>1, <1>3 DEF Resolved, ListsResolve
    <3>3. QED BY <3>1, <3>2 DEF GoalRowOf
  <2>2. QED BY <2>1 DEF Typed, GoalsTyped
<1>5. TasksTyped(next.tasks, Task)
  BY <1>1 DEF Typed, TasksTyped
<1>6. Typed(db', Task)
  BY <1>2, <1>4, <1>5 DEF Typed, Orderly
<1>7. Alike(next, db')
  BY <1>2 DEF Alike, GoalsAlike, TasksAlike
<1>8. Orderly(db')
  BY <1>3, <1>6, <1>7, AlikeData DEF Orderly
<1>9. ASSUME Fills(db, next)
      PROVE  Fills(db, db')
  <2>1. DOMAIN db'.goals = DOMAIN next.goals /\ DOMAIN db'.tasks = DOMAIN next.tasks
    BY <1>7 DEF Alike, GoalsAlike, TasksAlike
  <2>2. \A t \in DOMAIN next.tasks : /\ db'.tasks[t].goal = next.tasks[t].goal
                                     /\ db'.tasks[t].status = next.tasks[t].status
    BY <1>7 DEF Alike, TasksAlike
  <2>3. \A g \in DOMAIN next.goals : Scope(db', g) = Scope(next, g)
    BY <1>7, AlikeData
  <2>4. \A g, t : t \in Scope(next, g) => t \in DOMAIN next.tasks
    BY ScopeMembers
  <2>5. QED BY <1>9, <2>1, <2>2, <2>3, <2>4 DEF Fills
<1>10. QED BY <1>7, <1>8, <1>9, AlikeData

\* Each step but the task form and a goal update that was overtaken is kind.
Kind ==
    /\ Orderly(db')
    /\ Astray(db') \subseteq Astray(db)
    /\ Circular(db') \subseteq Circular(db)
    /\ Fills(db, db')

-----------------------------------------------------------------------------
(* Relating a goal to its tasks *)

Relates(d, g, parent, P, T, N) ==
    /\ Typed(d, AnyTask)
    /\ g \in DOMAIN d.goals /\ parent \in Goal \union {None}
    /\ P \subseteq Project /\ T \subseteq AnyTask
    /\ N = Related(d, g, parent, P, T)

LEMMA RelatedRows ==
    ASSUME NEW d, NEW g, NEW parent, NEW P, NEW T, NEW N, Relates(d, g, parent, P, T, N)
    PROVE  /\ Typed(N, AnyTask)
           /\ N.projects = d.projects /\ N.templates = d.templates
           /\ DOMAIN N.goals = DOMAIN d.goals /\ DOMAIN N.tasks = DOMAIN d.tasks
           /\ N.goals[g].parent = parent /\ N.goals[g].tasks = T
           /\ \A h \in DOMAIN d.goals \ {g} : /\ N.goals[h].parent = d.goals[h].parent
                                              /\ N.goals[h].tasks = d.goals[h].tasks \ T
           /\ \A t \in DOMAIN d.tasks :
                 /\ N.tasks[t].status = d.tasks[t].status
                 /\ N.tasks[t].goal = IF t \in T THEN g
                                      ELSE IF d.tasks[t].goal = g THEN None
                                      ELSE d.tasks[t].goal
<1> DEFINE moved == {t \in DOMAIN d.tasks : (t \in T) # (d.tasks[t].goal = g)}
           homes == {d.tasks[t].project : t \in T \intersect DOMAIN d.tasks}
<1>0. /\ Typed(d, AnyTask)
      /\ g \in DOMAIN d.goals /\ parent \in Goal \union {None}
      /\ P \subseteq Project /\ T \subseteq AnyTask
      /\ N = Related(d, g, parent, P, T)
  BY DEF Relates
<1>1. /\ DOMAIN N = Fields
      /\ N.projects = d.projects /\ N.templates = d.templates
      /\ N.newer = Touched(d, moved)
      /\ N.goals = [h \in DOMAIN d.goals |->
                      IF h = g
                      THEN [d.goals[h] EXCEPT !.parent = parent, !.tasks = T, !.projects = P \union homes]
                      ELSE Unlisted(d.goals[h], T)]
      /\ N.tasks = [t \in DOMAIN d.tasks |->
                      IF t \in moved
                      THEN [d.tasks[t] EXCEPT !.goal = IF t \in T THEN g ELSE None]
                      ELSE d.tasks[t]]
  BY <1>0 DEF Related, Typed, Fields
<1>2. \A h \in DOMAIN d.goals : d.goals[h] \in GoalRowOf(AnyTask)
  BY <1>0 DEF Typed, GoalsTyped
<1>3. \A t \in DOMAIN d.tasks : d.tasks[t] \in TaskRow
  BY <1>0 DEF Typed, TasksTyped
<1>4. homes \subseteq Project
  BY <1>3 DEF TaskRow
<1>5. Touched(d, moved) \subseteq Plan \X Work
  BY <1>0 DEF Touched, Typed
<1>6. \A t \in DOMAIN d.tasks : t \in moved <=> (t \in T) # (d.tasks[t].goal = g)
  OBVIOUS
<1>7. g \in Goal
  BY <1>0 DEF Typed, GoalsTyped
<1> HIDE DEF moved, homes
<1>8. /\ N.goals[g] \in GoalRowOf(AnyTask)
      /\ N.goals[g].parent = parent /\ N.goals[g].tasks = T
  <2>1. N.goals[g] = [d.goals[g] EXCEPT !.parent = parent, !.tasks = T, !.projects = P \union homes]
    BY <1>0, <1>1
  <2>2. QED BY <1>0, <1>2, <1>4, <2>1 DEF GoalRowOf
<1>9. ASSUME NEW h \in DOMAIN d.goals \ {g}
      PROVE  /\ N.goals[h] \in GoalRowOf(AnyTask)
             /\ N.goals[h].parent = d.goals[h].parent
             /\ N.goals[h].tasks = d.goals[h].tasks \ T
  <2>1. N.goals[h] = Unlisted(d.goals[h], T)
    BY <1>1
  <2>2. QED BY <1>2, <2>1 DEF GoalRowOf, Unlisted
<1>10. ASSUME NEW t \in DOMAIN d.tasks
       PROVE  /\ N.tasks[t] \in TaskRow
              /\ N.tasks[t].status = d.tasks[t].status
              /\ N.tasks[t].goal = IF t \in T THEN g
                                   ELSE IF d.tasks[t].goal = g THEN None
                                   ELSE d.tasks[t].goal
  <2>1. CASE t \in moved
    <3>1. N.tasks[t] = [d.tasks[t] EXCEPT !.goal = IF t \in T THEN g ELSE None]
      BY <1>1, <2>1
    <3>2. QED BY <1>0, <1>3, <1>6, <1>7, <2>1, <3>1 DEF TaskRow
  <2>2. CASE t \notin moved
    <3>1. N.tasks[t] = d.tasks[t]
      BY <1>1, <2>2
    <3>2. QED BY <1>3, <1>6, <2>2, <3>1
  <2>3. QED BY <2>1, <2>2
<1>11. DOMAIN N.goals = DOMAIN d.goals /\ DOMAIN N.tasks = DOMAIN d.tasks
  BY <1>1
<1>12. GoalsTyped(N.goals, AnyTask)
  BY <1>0, <1>8, <1>9, <1>11 DEF Typed, GoalsTyped
<1>13. TasksTyped(N.tasks, AnyTask)
  BY <1>0, <1>10, <1>11 DEF Typed, TasksTyped
<1>14. Typed(N, AnyTask)
  BY <1>0, <1>1, <1>5, <1>12, <1>13 DEF Typed
<1>15. QED BY <1>1, <1>8, <1>9, <1>10, <1>11, <1>14

\* It leaves every task on one list at most and misplaces none.
LEMMA RelatedKeepsLists ==
    ASSUME NEW d, NEW g, NEW parent, NEW P, NEW T, NEW N, Relates(d, g, parent, P, T, N)
    PROVE  /\ Disjoint(d) => Disjoint(N)
           /\ Astray(N) \subseteq Astray(d)
<1>1. /\ DOMAIN N.goals = DOMAIN d.goals /\ DOMAIN N.tasks = DOMAIN d.tasks
      /\ N.goals[g].tasks = T
      /\ \A h \in DOMAIN d.goals \ {g} : N.goals[h].tasks = d.goals[h].tasks \ T
      /\ \A t \in DOMAIN d.tasks : N.tasks[t].goal = IF t \in T THEN g
                                                     ELSE IF d.tasks[t].goal = g THEN None
                                                     ELSE d.tasks[t].goal
  BY RelatedRows
<1>2. ASSUME Disjoint(d)
      PROVE  Disjoint(N)
  BY <1>1, <1>2 DEF Disjoint
<1>3. ASSUME NEW t \in DOMAIN N.tasks, NEW h \in DOMAIN N.goals,
             t \in N.goals[h].tasks, N.tasks[t].goal # h
      PROVE  t \in Astray(d)
  <2>1. h # g
    BY <1>1, <1>3
  <2>2. t \notin T /\ t \in d.goals[h].tasks
    BY <1>1, <1>3, <2>1
  <2>3. d.tasks[t].goal # h
    BY <1>1, <1>3, <2>1, <2>2
  <2>4. QED BY <1>1, <2>2, <2>3 DEF Astray
<1>4. Astray(N) \subseteq Astray(d)
  BY <1>3 DEF Astray
<1>5. QED BY <1>2, <1>4

-----------------------------------------------------------------------------
(* The steps *)

LEMMA NotMentioned ==
    ASSUME NEW id, id \notin Mentioned
    PROVE  /\ id \notin DOMAIN db.goals /\ id \notin DOMAIN db.tasks
           /\ \A g \in DOMAIN db.goals : id # db.goals[g].parent /\ id \notin db.goals[g].tasks
<1>1. id \notin DOMAIN db.goals /\ id \notin DOMAIN db.tasks
  BY DEF Mentioned
<1>2. ASSUME NEW g \in DOMAIN db.goals
      PROVE  id # db.goals[g].parent /\ id \notin db.goals[g].tasks
  <2>1. id \notin UNION {{db.goals[h].parent} \union db.goals[h].tasks : h \in DOMAIN db.goals}
    BY DEF Mentioned
  <2>2. QED BY <2>1
<1>3. QED BY <1>1, <1>2

\* The sync of a workflow parent changes the status of this task, or nothing.
Follows(d, t, r, e) ==
    /\ Typed(e, AnyTask)
    /\ e.projects = d.projects /\ e.goals = d.goals /\ e.templates = d.templates
    /\ DOMAIN e.tasks = DOMAIN d.tasks
    /\ \A v \in DOMAIN d.tasks : e.tasks[v].goal = d.tasks[v].goal
                                /\ e.tasks[v].project = d.tasks[v].project
    /\ \A v \in DOMAIN d.tasks \ {Parent[t]} : e.tasks[v] = d.tasks[v]
    /\ \/ e = d
       \/ /\ e.tasks[Parent[t]].status # d.tasks[Parent[t]].status
          /\ \A p, v : <<p, v>> \in e.newer /\ v # Parent[t] => <<p, v>> \in d.newer

LEMMA SyncFollows ==
    ASSUME NEW d, Typed(d, AnyTask), NEW t \in Task, NEW r,
           Parent[t] \in DOMAIN d.tasks => r \in TaskStatus
    PROVE  Follows(d, t, r, Synced(d, t, r))
<1> DEFINE u == Parent[t]
           e == [d EXCEPT !.tasks[u].status = r, !.newer = Touched(d, {u})]
<1>1. CASE ~ (u \in DOMAIN d.tasks /\ d.tasks[u].status # r)
  <2>1. Synced(d, t, r) = d
    BY <1>1 DEF Synced
  <2>2. QED BY <2>1 DEF Follows
<1>2. CASE u \in DOMAIN d.tasks /\ d.tasks[u].status # r
  <2>1. Synced(d, t, r) = e
    BY <1>2 DEF Synced
  <2>2. /\ DOMAIN e = Fields
        /\ e.projects = d.projects /\ e.goals = d.goals /\ e.templates = d.templates
        /\ e.newer = Touched(d, {u})
        /\ e.tasks = [d.tasks EXCEPT ![u].status = r]
    BY DEF Typed, Fields
  <2>3. d.tasks[u] \in TaskRow /\ r \in TaskStatus
    BY <1>2 DEF Typed, TasksTyped
  <2> HIDE DEF e, u
  <2>4. e.tasks[u] = [d.tasks[u] EXCEPT !.status = r]
    BY <1>2, <2>2
  <2>5. /\ e.tasks[u] \in TaskRow
        /\ e.tasks[u].status = r
        /\ e.tasks[u].goal = d.tasks[u].goal /\ e.tasks[u].project = d.tasks[u].project
    BY <2>3, <2>4 DEF TaskRow
  <2>6. /\ DOMAIN e.tasks = DOMAIN d.tasks
        /\ \A v \in DOMAIN d.tasks \ {u} : e.tasks[v] = d.tasks[v]
    BY <2>2
  <2>7. TasksTyped(e.tasks, AnyTask)
    BY <2>5, <2>6 DEF Typed, TasksTyped
  <2>8. Touched(d, {u}) \subseteq Plan \X Work
    BY DEF Touched, Typed
  <2>9. Typed(e, AnyTask)
    BY <2>2, <2>7, <2>8 DEF Typed
  <2>10. \A p, v : <<p, v>> \in e.newer /\ v # u => <<p, v>> \in d.newer
    BY <2>2 DEF Touched
  <2>11. QED BY <1>2, <2>1, <2>2, <2>5, <2>6, <2>9, <2>10 DEF Follows, u
<1>3. QED BY <1>1, <1>2

\* The parent's status is one that may be reported.
LEMMA DerivedStatus ==
    ASSUME NEW t \in Task, NEW r \in Derived(t), NEW d,
           \A v \in DOMAIN d.tasks : v \in DOMAIN db.tasks \/ v = t
    PROVE  Parent[t] \in DOMAIN d.tasks => r \in TaskStatus
BY WorkAssumption, ParentAssumption DEF Derived

LEMMA CreateTaskIsKind ==
    ASSUME Orderly(db), NEW t \in Work, NEW row \in WorkRows, NEW r \in Derived(t),
           CreateTask(t, row, r)
    PROVE  Kind
<1> DEFINE with == [Loaded EXCEPT !.tasks = With(@, t, row)]
           made == [with EXCEPT !.newer = Touched(with, {t})]
           d == Synced(made, t, r)
           g == row.goal
           related == Related(d, g, d.goals[g].parent, LinkedProjects(d, g), Linked(d, g))
<1>1. /\ Typed(Loaded, AnyTask) /\ Alike(db, Loaded) /\ Resolved(Loaded) /\ Disjoint(Loaded)
      /\ Astray(Loaded) = Astray(db) /\ Circular(Loaded) = Circular(db)
      /\ DOMAIN Loaded.goals = DOMAIN db.goals /\ DOMAIN Loaded.tasks = DOMAIN db.tasks
  BY Loads
<1>2. row \in TaskRow /\ t \notin Plan /\ t \in AnyTask
  BY WorkAssumption, RecordsAssumption DEF Plan, AnyTask
<1>3. t \notin DOMAIN Loaded.tasks /\ \A h \in DOMAIN Loaded.goals : t \notin Loaded.goals[h].tasks
  <2>1. t \notin Mentioned
    BY DEF CreateTask
  <2>2. QED BY <1>1, <2>1, NotMentioned DEF Alike, GoalsAlike
<1>4. /\ DOMAIN made = Fields
      /\ made.projects = Loaded.projects /\ made.goals = Loaded.goals
      /\ made.templates = Loaded.templates
      /\ made.tasks = With(Loaded.tasks, t, row)
      /\ made.newer = Touched(with, {t})
  BY <1>1 DEF Typed, Fields
<1>7. CreateTask(t, row, r) => IF g \in DOMAIN d.goals THEN Commit(related, {"tasks", "goals"})
                               ELSE Commit(d, {"tasks"})
  BY DEF CreateTask
<1> HIDE DEF made
<1>5. /\ Typed(d, AnyTask)
      /\ d.goals = Loaded.goals
      /\ DOMAIN d.tasks = DOMAIN Loaded.tasks \union {t}
      /\ d.tasks[t].goal = row.goal
      /\ \A u \in DOMAIN Loaded.tasks : d.tasks[u].goal = Loaded.tasks[u].goal
  <2>1. /\ DOMAIN made.tasks = DOMAIN Loaded.tasks \union {t}
        /\ made.tasks[t] = row
        /\ \A u \in DOMAIN Loaded.tasks : made.tasks[u] = Loaded.tasks[u]
    BY <1>3, <1>4 DEF With
  <2>2. TasksTyped(made.tasks, AnyTask)
    BY <1>1, <1>2, <2>1 DEF Typed, TasksTyped
  <2>3. Touched(with, {t}) \subseteq Plan \X Work
    BY <1>1 DEF Touched, Typed, Fields
  <2>4. Typed(made, AnyTask)
    BY <1>1, <1>4, <2>2, <2>3 DEF Typed
  <2>5. t \in Task
    BY DEF Task
  <2>6. Follows(made, t, r, d)
    BY <1>1, <2>1, <2>4, <2>5, DerivedStatus, SyncFollows
  <2>7. QED BY <1>4, <2>1, <2>6 DEF Follows
<1>6. Typed(d, AnyTask)
  BY <1>5
<1> HIDE DEF with, d, g, related
<1>8. Disjoint(d)
  BY <1>1, <1>5 DEF Disjoint
<1>9. Astray(d) \subseteq Astray(Loaded)
  BY <1>3, <1>5 DEF Astray
<1>10. SameHierarchy(Loaded, d)
  BY <1>5 DEF SameHierarchy
<1>11. CASE g \notin DOMAIN d.goals
  <2>1. Commit(d, {"tasks"})
    BY <1>7, <1>11
  <2>2. GoalsAlike(d.goals, db.goals)
    BY <1>1, <1>5 DEF Alike, GoalsAlike
  <2>3. Fills(db, d)
    BY <1>1, <1>2, <1>5 DEF Fills
  <2>4. QED BY <1>1, <1>6, <1>8, <1>9, <1>10, <2>1, <2>2, <2>3, Saves, SameCircles DEF Kind
<1>12. CASE g \in DOMAIN d.goals
  <2>1. Commit(related, {"tasks", "goals"})
    BY <1>7, <1>12
  <2>2. d.goals[g].parent \in Goal \union {None}
    BY <1>6, <1>12 DEF Typed, GoalsTyped, GoalRowOf
  <2>3. Linked(d, g) \in SUBSET AnyTask
    BY <1>6, <1>12 DEF Typed, GoalsTyped, TasksTyped, GoalRowOf, Linked
  <2>4. LinkedProjects(d, g) \in SUBSET Project
    BY <1>6, <1>12 DEF Typed, GoalsTyped, TasksTyped, GoalRowOf, TaskRow, LinkedProjects
  <2>5. Relates(d, g, d.goals[g].parent, LinkedProjects(d, g), Linked(d, g), related)
    BY <1>6, <1>12, <2>2, <2>3, <2>4 DEF Relates, related
  <2>6. /\ Typed(related, AnyTask)
        /\ DOMAIN related.goals = DOMAIN d.goals /\ DOMAIN related.tasks = DOMAIN d.tasks
        /\ related.goals[g].parent = d.goals[g].parent
        /\ \A h \in DOMAIN d.goals \ {g} : related.goals[h].parent = d.goals[h].parent
    BY <2>5, RelatedRows
  <2>7. Disjoint(related) /\ Astray(related) \subseteq Astray(d)
    BY <1>8, <2>5, RelatedKeepsLists
  <2>8. SameHierarchy(Loaded, related)
    BY <1>5, <1>10, <2>6 DEF SameHierarchy
  <2>9. Fills(db, related)
    BY <1>1, <1>2, <1>5, <2>6 DEF Fills
  <2>10. QED BY <1>1, <1>9, <2>1, <2>6, <2>7, <2>8, <2>9, Saves, SameCircles DEF Kind
<1>13. QED BY <1>11, <1>12

\* Of the tasks, t alone may name another goal.
OneTask(c, d, t) ==
    /\ Typed(c, AnyTask)
    /\ DOMAIN d = Fields
    /\ d.projects = c.projects /\ d.goals = c.goals /\ d.templates = c.templates
    /\ d.newer \subseteq Plan \X Work
    /\ DOMAIN d.tasks = DOMAIN c.tasks
    /\ \A u \in DOMAIN c.tasks : d.tasks[u] \in TaskRow
    /\ \A u \in DOMAIN c.tasks \ {t} : d.tasks[u].goal = c.tasks[u].goal

LEMMA OneTaskChanged ==
    ASSUME NEW c, NEW d, NEW t, OneTask(c, d, t), Disjoint(c), Resolved(c)
    PROVE  /\ Typed(d, AnyTask) /\ Disjoint(d) /\ ListsResolve(d)
           /\ SameHierarchy(c, d)
           /\ DOMAIN d.tasks = DOMAIN c.tasks
           /\ Astray(d) \subseteq Astray(c) \union {t}
<1>1. Typed(d, AnyTask)
  <2>1. TasksTyped(d.tasks, AnyTask)
    BY DEF OneTask, Typed, TasksTyped
  <2>2. QED BY <2>1 DEF OneTask, Typed
<1>2. Disjoint(d) /\ ListsResolve(d)
  BY DEF OneTask, Disjoint, Resolved, ListsResolve
<1>3. SameHierarchy(c, d)
  BY DEF OneTask, SameHierarchy
<1>4. Astray(d) \subseteq Astray(c) \union {t}
  BY DEF OneTask, Astray
<1>5. QED BY <1>1, <1>2, <1>3, <1>4 DEF OneTask

LEMMA OneTaskFollowed ==
    ASSUME NEW c, NEW d, NEW t, OneTask(c, d, t), NEW r, NEW e, Follows(d, t, r, e)
    PROVE  OneTask(c, e, t)
<1>1. \A u \in DOMAIN e.tasks : e.tasks[u] \in TaskRow
  BY DEF Follows, Typed, TasksTyped
<1>2. e.newer \subseteq Plan \X Work /\ DOMAIN e = Fields
  BY DEF Follows, Typed
<1>3. QED BY <1>1, <1>2 DEF OneTask, Follows

\* What a task form saves, before the sync.
Saved(t, goal, status) ==
    [Loaded EXCEPT !.tasks[t].goal = goal, !.tasks[t].status = status,
                   !.newer = Touched(Loaded, {t})]

SavedAs(c, t, goal) ==
    /\ Typed(c, AnyTask) /\ OneTask(Loaded, c, t)
    /\ c.newer = Touched(Loaded, {t})
    /\ c.tasks[t].goal = goal
    /\ \A u \in DOMAIN Loaded.tasks \ {t} : c.tasks[u] = Loaded.tasks[u]

LEMMA SavedRow ==
    ASSUME Orderly(db), NEW t \in DOMAIN db.tasks,
           NEW goal \in Goal \union {None}, NEW status \in TaskStatus,
           NEW c, c = Saved(t, goal, status)
    PROVE  SavedAs(c, t, goal)
<1>1. Typed(Loaded, AnyTask) /\ Resolved(Loaded) /\ Disjoint(Loaded)
      /\ DOMAIN Loaded.tasks = DOMAIN db.tasks
  BY Loads
<1>2. Loaded.tasks[t] \in TaskRow
  BY <1>1 DEF Typed, TasksTyped
<1>3. /\ DOMAIN c = Fields
      /\ c.projects = Loaded.projects /\ c.goals = Loaded.goals
      /\ c.templates = Loaded.templates
      /\ c.newer = Touched(Loaded, {t})
      /\ c.tasks = [Loaded.tasks EXCEPT ![t].goal = goal, ![t].status = status]
  BY <1>1 DEF Saved, Typed, Fields
<1>4. c.tasks[t] = [Loaded.tasks[t] EXCEPT !.goal = goal, !.status = status]
  BY <1>1, <1>2, <1>3 DEF TaskRow
<1>5. c.tasks[t] \in TaskRow /\ c.tasks[t].goal = goal
  BY <1>2, <1>4 DEF TaskRow
<1>6. /\ DOMAIN c.tasks = DOMAIN Loaded.tasks
      /\ \A u \in DOMAIN Loaded.tasks \ {t} : c.tasks[u] = Loaded.tasks[u]
  BY <1>3
<1>7. Touched(Loaded, {t}) \subseteq Plan \X Work
  BY <1>1 DEF Touched, Typed
<1>8. \A u \in DOMAIN Loaded.tasks : c.tasks[u] \in TaskRow
  BY <1>1, <1>5, <1>6 DEF Typed, TasksTyped
<1>9. OneTask(Loaded, c, t)
  BY <1>1, <1>3, <1>6, <1>7, <1>8 DEF OneTask
<1>10. QED BY <1>1, <1>3, <1>5, <1>6, <1>9, OneTaskChanged DEF SavedAs

LEMMA ExtensionsFill ==
    ASSUME NEW b, NEW c, NEW d, Extended(c, d), DOMAIN c.tasks = DOMAIN b.tasks
    PROVE  Fills(b, d)
BY DEF Extended, Fills

LEMMA SavedTask ==
    ASSUME Orderly(db), NEW t \in DOMAIN db.tasks,
           NEW goal \in Goal \union {None}, NEW status \in Reports, NEW r \in Derived(t),
           SaveTask(t, goal, status, r)
    PROVE  /\ Orderly(db')
           /\ Astray(db') \subseteq Astray(db) \union {t}
           /\ Circular(db') \subseteq Circular(db)
           /\ Fills(db, db')
<1> DEFINE c == Saved(t, goal, status)
           moved == Synced(c, t, r)
           next == FollowedUp(moved, t, Loaded.tasks[t].goal, goal)
           names == IF next # moved THEN {"tasks", "goals"} ELSE {"tasks"}
<1>1. /\ Typed(Loaded, AnyTask) /\ Typed(Loaded, Task) /\ Alike(db, Loaded)
      /\ Resolved(Loaded) /\ Disjoint(Loaded)
      /\ Astray(Loaded) = Astray(db) /\ Circular(Loaded) = Circular(db)
      /\ DOMAIN Loaded.tasks = DOMAIN db.tasks
  BY Loads
<1>2. t \in Task
  BY DEF Orderly, Typed, TasksTyped
<1>3. Typed(c, AnyTask) /\ OneTask(Loaded, c, t)
  BY WorkAssumption, SavedRow DEF SavedAs
<1>4. Commit(next, names)
  BY DEF SaveTask, Saved
<1> HIDE DEF c, moved
<1>5. OneTask(Loaded, moved, t) /\ moved.goals = Loaded.goals
  <2>1. Parent[t] \in DOMAIN c.tasks => r \in TaskStatus
    BY <1>1, <1>2, <1>3, DerivedStatus DEF OneTask
  <2>2. Follows(c, t, r, moved)
    BY <1>2, <1>3, <2>1, SyncFollows DEF moved
  <2>3. OneTask(Loaded, moved, t)
    BY <1>3, <2>2, OneTaskFollowed
  <2>4. QED BY <2>3 DEF OneTask
<1>6. /\ Typed(moved, AnyTask) /\ Disjoint(moved) /\ ListsResolve(moved)
      /\ SameHierarchy(Loaded, moved)
      /\ DOMAIN moved.tasks = DOMAIN db.tasks
      /\ Astray(moved) \subseteq Astray(db) \union {t}
  BY <1>1, <1>5, OneTaskChanged
<1>7. DOMAIN moved.tasks \subseteq Task
  BY <1>6, TypedMore DEF Orderly
<1>8. Typed(next, AnyTask) /\ ListsResolve(next) /\ Extended(moved, next)
  BY <1>6, <1>7, FollowUpExtends
<1>9. "goals" \in names \/ GoalsAlike(next.goals, db.goals)
  BY <1>1, <1>5 DEF Alike, GoalsAlike
<1>10. "tasks" \in names
  OBVIOUS
<1> HIDE DEF next, names
<1>11. Disjoint(next) /\ Astray(next) \subseteq Astray(moved)
  BY <1>6, <1>8, ExtensionsStayDisjoint, ExtensionsMisplaceNone
<1>12. Circular(next) = Circular(db)
  <2>1. SameHierarchy(moved, next)
    BY <1>8 DEF Extended
  <2>2. QED BY <1>1, <1>6, <2>1, SameCircles
<1>13. Fills(db, next)
  BY <1>6, <1>8, ExtensionsFill
<1>14. /\ Orderly(db')
       /\ Astray(db') = Astray(next) /\ Circular(db') = Circular(next)
       /\ Fills(db, db')
  BY <1>4, <1>8, <1>9, <1>10, <1>11, <1>13, Saves
<1>15. QED BY <1>6, <1>11, <1>12, <1>14

LEMMA ReportTaskIsKind ==
    ASSUME Orderly(db), NEW t \in Task, NEW status \in Reports, NEW r \in Derived(t),
           ReportTask(t, status, r)
    PROVE  Kind
<1> DEFINE c == [Loaded EXCEPT !.tasks[t].status = status, !.newer = Touched(Loaded, {t})]
           next == Synced(c, t, r)
<1>1. /\ Typed(Loaded, AnyTask) /\ Alike(db, Loaded) /\ Resolved(Loaded) /\ Disjoint(Loaded)
      /\ Astray(Loaded) = Astray(db) /\ Circular(Loaded) = Circular(db)
      /\ DOMAIN Loaded.tasks = DOMAIN db.tasks
  BY Loads
<1>2. t \in DOMAIN Loaded.tasks /\ Loaded.tasks[t] \in TaskRow
  BY <1>1 DEF ReportTask, Typed, TasksTyped
<1>3. /\ DOMAIN c = Fields
      /\ c.projects = Loaded.projects /\ c.goals = Loaded.goals
      /\ c.templates = Loaded.templates
      /\ c.newer = Touched(Loaded, {t})
      /\ c.tasks = [Loaded.tasks EXCEPT ![t].status = status]
  BY <1>1 DEF Typed, Fields
<1>4. Commit(next, {"tasks"})
  BY DEF ReportTask
<1> HIDE DEF c, next
<1>5. /\ OneTask(Loaded, c, t)
      /\ \A v \in DOMAIN Loaded.tasks : c.tasks[v].goal = Loaded.tasks[v].goal
  <2>1. c.tasks[t] = [Loaded.tasks[t] EXCEPT !.status = status]
    BY <1>2, <1>3 DEF TaskRow
  <2>2. c.tasks[t] \in TaskRow /\ c.tasks[t].goal = Loaded.tasks[t].goal
    BY <1>2, <2>1, WorkAssumption DEF TaskRow
  <2>3. \A v \in DOMAIN Loaded.tasks \ {t} : c.tasks[v] = Loaded.tasks[v]
    BY <1>3
  <2>4. \A v \in DOMAIN Loaded.tasks : c.tasks[v] \in TaskRow
    BY <1>1, <2>2, <2>3 DEF Typed, TasksTyped
  <2>5. Touched(Loaded, {t}) \subseteq Plan \X Work
    BY <1>1 DEF Touched, Typed
  <2>6. QED BY <1>1, <1>3, <2>2, <2>3, <2>4, <2>5 DEF OneTask
<1>6. /\ OneTask(Loaded, next, t) /\ next.goals = Loaded.goals
      /\ \A v \in DOMAIN Loaded.tasks : next.tasks[v].goal = Loaded.tasks[v].goal
  <2>1. Typed(c, AnyTask)
    BY <1>1, <1>5, OneTaskChanged
  <2>2. Parent[t] \in DOMAIN c.tasks => r \in TaskStatus
    BY <1>1, <1>5, DerivedStatus DEF OneTask
  <2>3. Follows(c, t, r, next)
    BY <2>1, <2>2, SyncFollows DEF next
  <2>4. OneTask(Loaded, next, t)
    BY <1>5, <2>3, OneTaskFollowed
  <2>5. QED BY <1>5, <2>3, <2>4 DEF OneTask, Follows
<1>7. /\ Typed(next, AnyTask) /\ Disjoint(next)
      /\ SameHierarchy(Loaded, next)
      /\ DOMAIN next.tasks = DOMAIN db.tasks
  BY <1>1, <1>6, OneTaskChanged
<1>8. Astray(next) = Astray(Loaded)
  BY <1>6, <1>7 DEF Astray, OneTask
<1>9. GoalsAlike(next.goals, db.goals) /\ Fills(db, next)
  BY <1>1, <1>6, <1>7 DEF Alike, GoalsAlike, Fills
<1>10. QED BY <1>1, <1>4, <1>7, <1>8, <1>9, Saves, SameCircles DEF Kind

\* Away from the tasks of X, c and d have the same links.
SameLinks(c, d, X) ==
    \A t : t \notin X =>
       /\ t \in DOMAIN d.tasks <=> t \in DOMAIN c.tasks
       /\ t \in DOMAIN c.tasks => d.tasks[t].goal = c.tasks[t].goal
       /\ \A h \in DOMAIN c.goals : t \in d.goals[h].tasks <=> t \in c.goals[h].tasks

\* What a deletion takes out, before the sync.
Removed(t, U) ==
    [Loaded EXCEPT
       !.tasks = Without(@, t),
       !.goals = [g \in DOMAIN @ |-> Unlisted(@[g], {t})],
       !.newer = {pr \in Touched(Loaded, U) : t \notin {pr[1], pr[2]}}]

LEMMA RemovedRow ==
    ASSUME Orderly(db), NEW t \in DOMAIN db.tasks, NEW U, NEW c, c = Removed(t, U)
    PROVE  /\ Typed(c, AnyTask)
           /\ c.projects = Loaded.projects
           /\ \A p, v : <<p, v>> \in c.newer /\ v \notin U => <<p, v>> \in Loaded.newer
           /\ DOMAIN c.tasks = DOMAIN db.tasks \ {t}
           /\ \A v \in DOMAIN c.tasks : c.tasks[v] = Loaded.tasks[v]
           /\ DOMAIN c.goals = DOMAIN Loaded.goals
           /\ \A g \in DOMAIN Loaded.goals :
                 /\ c.goals[g].parent = Loaded.goals[g].parent
                 /\ c.goals[g].active = Loaded.goals[g].active
                 /\ c.goals[g].projects = Loaded.goals[g].projects
                 /\ c.goals[g].tasks = Loaded.goals[g].tasks \ {t}
<1>1. Typed(Loaded, AnyTask) /\ DOMAIN Loaded.tasks = DOMAIN db.tasks
  BY Loads
<1>2. /\ DOMAIN c = Fields
      /\ c.projects = Loaded.projects /\ c.templates = Loaded.templates
      /\ c.tasks = Without(Loaded.tasks, t)
      /\ c.goals = [g \in DOMAIN Loaded.goals |-> Unlisted(Loaded.goals[g], {t})]
      /\ c.newer = {pr \in Touched(Loaded, U) : t \notin {pr[1], pr[2]}}
  BY <1>1 DEF Removed, Typed, Fields
<1>3. /\ DOMAIN c.tasks = DOMAIN db.tasks \ {t}
      /\ \A v \in DOMAIN c.tasks : c.tasks[v] = Loaded.tasks[v]
  BY <1>1, <1>2 DEF Without
<1>4. DOMAIN c.goals = DOMAIN Loaded.goals
  BY <1>2
<1>5. ASSUME NEW g \in DOMAIN Loaded.goals
      PROVE  /\ c.goals[g] \in GoalRowOf(AnyTask)
             /\ c.goals[g].parent = Loaded.goals[g].parent
             /\ c.goals[g].active = Loaded.goals[g].active
             /\ c.goals[g].projects = Loaded.goals[g].projects
             /\ c.goals[g].tasks = Loaded.goals[g].tasks \ {t}
  <2>1. c.goals[g] = Unlisted(Loaded.goals[g], {t})
    BY <1>2
  <2>2. Loaded.goals[g] \in GoalRowOf(AnyTask)
    BY <1>1 DEF Typed, GoalsTyped
  <2>3. QED BY <2>1, <2>2 DEF Unlisted, GoalRowOf
<1>6. \A p, v : <<p, v>> \in c.newer /\ v \notin U => <<p, v>> \in Loaded.newer
  BY <1>2 DEF Touched
<1>7. Typed(c, AnyTask)
  <2>1. GoalsTyped(c.goals, AnyTask)
    BY <1>1, <1>4, <1>5 DEF Typed, GoalsTyped
  <2>2. TasksTyped(c.tasks, AnyTask)
    BY <1>1, <1>3 DEF Typed, TasksTyped
  <2>3. Touched(Loaded, U) \subseteq Plan \X Work
    <3>1. ((Plan \intersect DOMAIN Loaded.tasks) \ U) \X (U \intersect Work) \subseteq Plan \X Work
      OBVIOUS
    <3>2. {pr \in Loaded.newer : pr[1] \notin U} \subseteq Plan \X Work
      BY <1>1 DEF Typed
    <3>3. QED BY <3>1, <3>2 DEF Touched
  <2>4. QED BY <1>1, <1>2, <2>1, <2>2, <2>3 DEF Typed
<1>8. QED BY <1>2, <1>3, <1>4, <1>5, <1>6, <1>7

\* The lists and the hierarchy after a deletion and the sync.
LEMMA DeletedRow ==
    ASSUME Orderly(db), NEW t \in DOMAIN db.tasks, NEW U, NEW r \in Derived(t),
           NEW c, c = Removed(t, U), NEW d, d = Synced(c, t, r)
    PROVE  /\ Follows(c, t, r, d)
           /\ Typed(d, AnyTask) /\ ListsResolve(d) /\ Disjoint(d)
           /\ SameHierarchy(Loaded, d) /\ Astray(d) \subseteq Astray(Loaded)
           /\ DOMAIN d.tasks = DOMAIN db.tasks \ {t} /\ DOMAIN d.tasks \subseteq Task
           /\ SameLinks(Loaded, d, {t})
<1>1. /\ Typed(Loaded, AnyTask) /\ Resolved(Loaded) /\ Disjoint(Loaded)
      /\ DOMAIN Loaded.tasks = DOMAIN db.tasks
  BY Loads
<1>2. t \in Task
  BY DEF Orderly, Typed, TasksTyped
<1>3. /\ Typed(c, AnyTask)
      /\ DOMAIN c.tasks = DOMAIN db.tasks \ {t}
      /\ \A v \in DOMAIN c.tasks : c.tasks[v] = Loaded.tasks[v]
      /\ DOMAIN c.goals = DOMAIN Loaded.goals
      /\ \A g \in DOMAIN Loaded.goals : /\ c.goals[g].parent = Loaded.goals[g].parent
                                        /\ c.goals[g].tasks = Loaded.goals[g].tasks \ {t}
  BY RemovedRow
<1>4. Follows(c, t, r, d)
  BY <1>2, <1>3, DerivedStatus, SyncFollows
<1>5. /\ Typed(d, AnyTask) /\ d.goals = c.goals
      /\ DOMAIN d.tasks = DOMAIN db.tasks \ {t}
      /\ \A v \in DOMAIN d.tasks : d.tasks[v].goal = Loaded.tasks[v].goal
  BY <1>3, <1>4 DEF Follows
<1>6. SameHierarchy(Loaded, d)
  BY <1>3, <1>5 DEF SameHierarchy
<1>7. ListsResolve(d)
  BY <1>1, <1>3, <1>5 DEF Resolved, ListsResolve
<1>8. Disjoint(d)
  BY <1>1, <1>3, <1>5 DEF Disjoint
<1>9. Astray(d) \subseteq Astray(Loaded)
  BY <1>1, <1>3, <1>5 DEF Astray
<1>10. SameLinks(Loaded, d, {t})
  BY <1>1, <1>3, <1>5 DEF SameLinks
<1>11. DOMAIN d.tasks \subseteq Task
  BY <1>5, TypedMore DEF Orderly
<1>12. QED BY <1>4, <1>5, <1>6, <1>7, <1>8, <1>9, <1>10, <1>11

LEMMA DeleteTaskIsKind ==
    ASSUME Orderly(db), NEW t \in Task, NEW U \in SUBSET DOMAIN db.tasks, NEW r \in Derived(t),
           DeleteTask(t, U, r)
    PROVE  Kind
<1> DEFINE without == Synced(Removed(t, U), t, r)
           next == FollowedUp(without, t, Loaded.tasks[t].goal, None)
<1>1. Astray(Loaded) = Astray(db) /\ Circular(Loaded) = Circular(db)
  BY Loads
<1>3. t \in DOMAIN db.tasks /\ Commit(next, {"tasks", "goals"})
  BY DEF DeleteTask, Removed
<1> HIDE DEF without
<1>4. /\ Typed(without, AnyTask) /\ ListsResolve(without) /\ Disjoint(without)
      /\ SameHierarchy(Loaded, without) /\ Astray(without) \subseteq Astray(Loaded)
      /\ DOMAIN without.tasks = DOMAIN db.tasks \ {t} /\ DOMAIN without.tasks \subseteq Task
  BY <1>3, DeletedRow DEF without
<1>11. /\ Typed(next, AnyTask) /\ ListsResolve(next) /\ Extended(without, next)
       /\ t \in Plan => next = without
  BY <1>4, FollowUpExtends
<1> HIDE DEF next
<1>12. Disjoint(next) /\ Astray(next) \subseteq Astray(db)
  BY <1>1, <1>4, <1>11, ExtensionsStayDisjoint, ExtensionsMisplaceNone
<1>13. Circular(next) = Circular(db)
  <2>1. SameHierarchy(without, next)
    BY <1>11 DEF Extended
  <2>2. QED BY <1>1, <1>4, <2>1, SameCircles
<1>14. Fills(db, next)
  <2>1. Fills(without, next)
    BY <1>11, ExtensionsFill
  <2>2. CASE t \in Plan
    BY <1>4, <1>11, <2>2 DEF Fills
  <2>3. CASE t \in Work
    <3>1. t \notin DOMAIN next.tasks
      <4>1. t \notin DOMAIN without.tasks /\ t \notin Nat
        BY <1>4, <2>3, RecordsAssumption
      <4>2. QED BY <1>11, <4>1 DEF Extended
    <3>2. \A g : t \notin Scope(next, g)
      BY <3>1, ScopeMembers
    <3>3. QED BY <1>4, <2>1, <3>2 DEF Fills
  <2>4. QED BY <2>2, <2>3 DEF Task
<1>15. QED BY <1>3, <1>11, <1>12, <1>13, <1>14, Saves DEF Kind

LEMMA SavedGoal ==
    ASSUME Orderly(db), NEW g, NEW h \in Goal \union {None}, NEW sent \in GoalForms,
           GoalSaved(g, h, sent)
    PROVE  /\ Orderly(db')
           /\ Astray(db') \subseteq Astray(db)
           /\ ~ WouldCycle(db, g, h) => Circular(db') \subseteq Circular(db)
           /\ Fills(db, db')
<1> DEFINE d == [Loaded EXCEPT !.goals[g].active = sent.active]
           related == Related(d, g, h, sent.projects, sent.tasks)
           next == IF sent.byAgent /\ InGap(related, g) THEN Planned(related, g) ELSE related
<1>1. /\ Typed(Loaded, AnyTask) /\ Resolved(Loaded) /\ Disjoint(Loaded)
      /\ Astray(Loaded) = Astray(db)
      /\ SameHierarchy(db, Loaded)
      /\ DOMAIN Loaded.goals = DOMAIN db.goals /\ DOMAIN Loaded.tasks = DOMAIN db.tasks
  BY Loads
<1>2. sent.active \in BOOLEAN /\ sent.tasks \subseteq AnyTask /\ sent.projects \subseteq Project
  BY WorkAssumption, RecordsAssumption DEF Task, Plan, AnyTask
<1>3. g \in DOMAIN Loaded.goals /\ Commit(next, {"goals", "tasks"})
  BY <1>1 DEF GoalSaved
<1>4. /\ DOMAIN d = Fields
      /\ d.projects = Loaded.projects /\ d.tasks = Loaded.tasks /\ d.templates = Loaded.templates
      /\ d.newer = Loaded.newer
      /\ d.goals = [Loaded.goals EXCEPT ![g].active = sent.active]
  BY <1>1 DEF Typed, Fields
<1> HIDE DEF d
<1>5. /\ DOMAIN d.goals = DOMAIN Loaded.goals
      /\ \A k \in DOMAIN Loaded.goals : /\ d.goals[k] \in GoalRowOf(AnyTask)
                                        /\ d.goals[k].parent = Loaded.goals[k].parent
                                        /\ d.goals[k].tasks = Loaded.goals[k].tasks
  <2>1. \A k \in DOMAIN Loaded.goals : Loaded.goals[k] \in GoalRowOf(AnyTask)
    BY <1>1 DEF Typed, GoalsTyped
  <2>2. d.goals[g] = [Loaded.goals[g] EXCEPT !.active = sent.active]
    BY <1>3, <1>4, <2>1 DEF GoalRowOf
  <2>3. /\ d.goals[g] \in GoalRowOf(AnyTask)
        /\ d.goals[g].parent = Loaded.goals[g].parent
        /\ d.goals[g].tasks = Loaded.goals[g].tasks
    BY <1>2, <1>3, <2>1, <2>2 DEF GoalRowOf
  <2>4. DOMAIN d.goals = DOMAIN Loaded.goals
        /\ \A k \in DOMAIN Loaded.goals \ {g} : d.goals[k] = Loaded.goals[k]
    BY <1>4
  <2>5. QED BY <2>1, <2>3, <2>4
<1>6. Typed(d, AnyTask) /\ Disjoint(d) /\ Astray(d) = Astray(db)
  <2>1. GoalsTyped(d.goals, AnyTask)
    BY <1>1, <1>5 DEF Typed, GoalsTyped
  <2>2. Typed(d, AnyTask)
    BY <1>1, <1>4, <2>1 DEF Typed
  <2>3. Disjoint(d) /\ Astray(d) = Astray(Loaded)
    BY <1>1, <1>4, <1>5 DEF Disjoint, Astray
  <2>4. QED BY <1>1, <2>2, <2>3
<1>7. Relates(d, g, h, sent.projects, sent.tasks, related)
  BY <1>2, <1>3, <1>5, <1>6 DEF Relates
<1> HIDE DEF related
<1>8. /\ Typed(related, AnyTask)
      /\ DOMAIN related.goals = DOMAIN db.goals /\ DOMAIN related.tasks = DOMAIN db.tasks
      /\ related.goals[g].parent = h
      /\ \A k \in DOMAIN db.goals \ {g} : /\ related.goals[k].parent = db.goals[k].parent
                                          /\ related.goals[k].tasks \subseteq DOMAIN related.tasks
  <2>1. /\ Typed(related, AnyTask)
        /\ DOMAIN related.goals = DOMAIN d.goals /\ DOMAIN related.tasks = DOMAIN d.tasks
        /\ related.goals[g].parent = h
        /\ \A k \in DOMAIN d.goals \ {g} : /\ related.goals[k].parent = d.goals[k].parent
                                           /\ related.goals[k].tasks = d.goals[k].tasks \ sent.tasks
    BY <1>7, RelatedRows
  <2>2. \A k \in DOMAIN Loaded.goals : Loaded.goals[k].tasks \subseteq DOMAIN Loaded.tasks
    BY <1>1 DEF Resolved, ListsResolve
  <2>3. QED BY <1>1, <1>4, <1>5, <2>1, <2>2 DEF SameHierarchy
<1>9. Disjoint(related) /\ Astray(related) \subseteq Astray(db)
  BY <1>6, <1>7, RelatedKeepsLists
<1>10. Typed(next, AnyTask) /\ Extended(related, next)
  <2>1. CASE next = related
    BY <1>8, <2>1, ExtendedItself
  <2>2. CASE InGap(related, g) /\ next = Planned(related, g)
    <3> DEFINE S == {MaxPlans + 1, MaxPlans + 2, MaxPlans + 3}
    <3>1. Room(related, S)
      BY <1>8, TypedMore, RoomEnough DEF Orderly
    <3>2. S # {}
      OBVIOUS
    <3>3. \A k \in DOMAIN related.goals \ {g} : related.goals[k].tasks \subseteq DOMAIN related.tasks
      BY <1>8
    <3> HIDE DEF S, next
    <3>4. QED BY <1>8, <2>2, <3>1, <3>2, <3>3, PlannedExtends
  <2>3. QED BY <2>1, <2>2
<1> HIDE DEF next
<1>11. Disjoint(next) /\ Astray(next) \subseteq Astray(db)
  <2>1. ListsResolve(next)
    BY <1>3 DEF Commit, Sound, GoalIssues, ListsResolve
  <2>2. QED BY <1>9, <1>10, <2>1, ExtensionsStayDisjoint, ExtensionsMisplaceNone
<1>12. ASSUME ~ WouldCycle(db, g, h)
       PROVE  Circular(next) \subseteq Circular(db)
  <2>1. Circular(related) \subseteq Circular(db)
    <3>1. DOMAIN db.goals \subseteq Goal /\ None \notin Goal /\ g \in DOMAIN db.goals
      BY <1>1, <1>3, RecordsAssumption DEF Orderly, Typed, GoalsTyped
    <3>2. QED BY <1>8, <1>12, <3>1, MoveMakesNoCycle
  <2>2. SameHierarchy(related, next)
    BY <1>10 DEF Extended
  <2>3. QED BY <2>1, <2>2, SameCircles
<1>13. Fills(db, next)
  BY <1>8, <1>10, ExtensionsFill
<1>14. QED BY <1>3, <1>10, <1>11, <1>12, <1>13, Saves

LEMMA CreateGoalIsKind ==
    ASSUME Orderly(db), NEW g \in Goal, NEW h \in Goal \union {None}, NEW sent \in GoalForms,
           CreateGoal(g, h, sent)
    PROVE  Kind
<1> DEFINE new == [active |-> sent.active, parent |-> h, tasks |-> {}, projects |-> {}]
           d == [Loaded EXCEPT !.goals = With(@, g, new)]
           next == Related(d, g, h, sent.projects, sent.tasks)
<1>1. /\ Typed(Loaded, AnyTask) /\ Disjoint(Loaded)
      /\ Astray(Loaded) = Astray(db)
      /\ SameHierarchy(db, Loaded)
      /\ DOMAIN Loaded.goals = DOMAIN db.goals /\ DOMAIN Loaded.tasks = DOMAIN db.tasks
  BY Loads
<1>2. sent.active \in BOOLEAN /\ sent.tasks \subseteq AnyTask /\ sent.projects \subseteq Project
  BY WorkAssumption, RecordsAssumption DEF Task, Plan, AnyTask
<1>3. g \notin DOMAIN db.goals /\ h # g /\ Commit(next, {"goals", "tasks"})
  BY NotMentioned DEF CreateGoal
<1>4. /\ DOMAIN d = Fields
      /\ d.projects = Loaded.projects /\ d.tasks = Loaded.tasks /\ d.templates = Loaded.templates
      /\ d.newer = Loaded.newer
      /\ d.goals = With(Loaded.goals, g, new)
  BY <1>1 DEF Typed, Fields
<1>5. new \in GoalRowOf(AnyTask) /\ new.tasks = {}
  BY <1>2 DEF GoalRowOf
<1> HIDE DEF d, new
<1>6. /\ DOMAIN d.goals = DOMAIN db.goals \union {g}
      /\ d.goals[g] = new
      /\ \A k \in DOMAIN db.goals : d.goals[k] = Loaded.goals[k]
  BY <1>1, <1>3, <1>4 DEF With
<1>7. Typed(d, AnyTask) /\ Disjoint(d) /\ Astray(d) \subseteq Astray(db)
  <2>1. GoalsTyped(d.goals, AnyTask)
    BY <1>1, <1>5, <1>6 DEF Typed, GoalsTyped
  <2>2. Typed(d, AnyTask)
    BY <1>1, <1>4, <2>1 DEF Typed
  <2>3. Disjoint(d)
    BY <1>1, <1>5, <1>6 DEF Disjoint
  <2>4. Astray(d) \subseteq Astray(Loaded)
    BY <1>1, <1>4, <1>5, <1>6 DEF Astray
  <2>5. QED BY <1>1, <2>2, <2>3, <2>4
<1>8. Relates(d, g, h, sent.projects, sent.tasks, next)
  BY <1>2, <1>6, <1>7 DEF Relates
<1> HIDE DEF next
<1>9. /\ Typed(next, AnyTask)
      /\ DOMAIN next.goals = DOMAIN db.goals \union {g} /\ DOMAIN next.tasks = DOMAIN db.tasks
      /\ next.goals[g].parent = h
      /\ \A k \in DOMAIN db.goals : next.goals[k].parent = db.goals[k].parent
  <2>1. /\ Typed(next, AnyTask)
        /\ DOMAIN next.goals = DOMAIN d.goals /\ DOMAIN next.tasks = DOMAIN d.tasks
        /\ next.goals[g].parent = h
        /\ \A k \in DOMAIN d.goals \ {g} : next.goals[k].parent = d.goals[k].parent
    BY <1>8, RelatedRows
  <2>2. QED BY <1>1, <1>3, <1>4, <1>6, <2>1 DEF SameHierarchy
<1>10. Disjoint(next) /\ Astray(next) \subseteq Astray(db)
  BY <1>7, <1>8, RelatedKeepsLists
<1>11. Circular(next) \subseteq Circular(db)
  <2>1. DOMAIN db.goals \subseteq Goal /\ None \notin Goal
    BY RecordsAssumption DEF Orderly, Typed, GoalsTyped
  <2>2. \A k \in DOMAIN db.goals : db.goals[k].parent \in DOMAIN db.goals \union {None}
    BY DEF Orderly, Resolved
  <2>3. \A k \in DOMAIN db.goals : db.goals[k].parent \in (Goal \ {g}) \union {None}
    BY <1>3, <2>1, <2>2
  <2>4. next.goals[g].parent \in DOMAIN next.goals \union {None}
    BY <1>3, <1>9 DEF Commit, Sound, GoalIssues, Dangling
  <2>5. QED BY <1>3, <1>9, <2>1, <2>2, <2>3, <2>4, NewGoalMakesNoCycle
<1>12. Fills(db, next)
  BY <1>9 DEF Fills
<1>13. QED BY <1>3, <1>9, <1>10, <1>11, <1>12, Saves DEF Kind

LEMMA DeleteGoalIsKind ==
    ASSUME Orderly(db), NEW g \in Goal, DeleteGoal(g)
    PROVE  Kind
<1> DEFINE freed == {t \in DOMAIN Loaded.tasks : Loaded.tasks[t].goal = g}
           next == [Loaded EXCEPT
              !.goals = [h \in DOMAIN @ \ {g} |->
                           IF @[h].parent = g THEN [@[h] EXCEPT !.parent = Loaded.goals[g].parent]
                           ELSE @[h]],
              !.tasks = [t \in DOMAIN @ |-> IF t \in freed THEN [@[t] EXCEPT !.goal = None] ELSE @[t]],
              !.newer = Touched(Loaded, freed)]
<1>1. /\ Typed(Loaded, AnyTask) /\ Disjoint(Loaded)
      /\ Astray(Loaded) = Astray(db) /\ Circular(Loaded) = Circular(db)
      /\ DOMAIN Loaded.goals = DOMAIN db.goals /\ DOMAIN Loaded.tasks = DOMAIN db.tasks
  BY Loads
<1>2. g \in DOMAIN Loaded.goals /\ Commit(next, {"goals", "tasks"})
  BY <1>1 DEF DeleteGoal
<1>3. /\ DOMAIN next = Fields
      /\ next.projects = Loaded.projects /\ next.templates = Loaded.templates
      /\ next.newer = Touched(Loaded, freed)
      /\ next.goals = [h \in DOMAIN Loaded.goals \ {g} |->
                         IF Loaded.goals[h].parent = g
                         THEN [Loaded.goals[h] EXCEPT !.parent = Loaded.goals[g].parent]
                         ELSE Loaded.goals[h]]
      /\ next.tasks = [t \in DOMAIN Loaded.tasks |->
                         IF t \in freed THEN [Loaded.tasks[t] EXCEPT !.goal = None]
                         ELSE Loaded.tasks[t]]
  BY <1>1 DEF Typed, Fields
<1> HIDE DEF next
<1>4. /\ \A h \in DOMAIN Loaded.goals : Loaded.goals[h] \in GoalRowOf(AnyTask)
      /\ \A t \in DOMAIN Loaded.tasks : Loaded.tasks[t] \in TaskRow
  BY <1>1 DEF Typed, GoalsTyped, TasksTyped
<1>5. ASSUME NEW h \in DOMAIN next.goals
      PROVE  /\ next.goals[h] \in GoalRowOf(AnyTask)
             /\ next.goals[h].tasks = Loaded.goals[h].tasks
             /\ next.goals[h].parent = IF Loaded.goals[h].parent = g THEN Loaded.goals[g].parent
                                       ELSE Loaded.goals[h].parent
  <2>1. h \in DOMAIN Loaded.goals
    BY <1>3
  <2>2. Loaded.goals[g].parent \in Goal \union {None}
    BY <1>2, <1>4 DEF GoalRowOf
  <2>3. CASE Loaded.goals[h].parent = g
    <3>1. next.goals[h] = [Loaded.goals[h] EXCEPT !.parent = Loaded.goals[g].parent]
      BY <1>3, <2>3
    <3>2. QED BY <1>4, <2>1, <2>2, <2>3, <3>1 DEF GoalRowOf
  <2>4. CASE Loaded.goals[h].parent # g
    BY <1>3, <1>4, <2>1, <2>4
  <2>5. QED BY <2>3, <2>4
<1>6. ASSUME NEW t \in DOMAIN next.tasks
      PROVE  /\ next.tasks[t] \in TaskRow
             /\ next.tasks[t].goal = IF Loaded.tasks[t].goal = g THEN None ELSE Loaded.tasks[t].goal
  <2>1. t \in DOMAIN Loaded.tasks
    BY <1>3
  <2>2. CASE t \in freed
    <3>1. next.tasks[t] = [Loaded.tasks[t] EXCEPT !.goal = None]
      BY <1>3, <2>2
    <3>2. QED BY <1>4, <2>1, <2>2, <3>1 DEF TaskRow
  <2>3. CASE t \notin freed
    BY <1>3, <1>4, <2>1, <2>3
  <2>4. QED BY <2>2, <2>3
<1>7. DOMAIN next.goals = DOMAIN db.goals \ {g} /\ DOMAIN next.tasks = DOMAIN db.tasks
  BY <1>1, <1>3
<1>8. Typed(next, AnyTask)
  <2>1. Touched(Loaded, freed) \subseteq Plan \X Work
    BY <1>1 DEF Touched, Typed
  <2>2. GoalsTyped(next.goals, AnyTask)
    BY <1>1, <1>5, <1>7 DEF Typed, GoalsTyped
  <2>3. TasksTyped(next.tasks, AnyTask)
    BY <1>1, <1>6, <1>7 DEF Typed, TasksTyped
  <2>4. QED BY <1>1, <1>3, <2>1, <2>2, <2>3 DEF Typed
<1>9. Disjoint(next)
  BY <1>1, <1>5, <1>7 DEF Disjoint
<1>10. Astray(next) \subseteq Astray(Loaded)
  <2>1. SUFFICES ASSUME NEW t \in DOMAIN next.tasks, NEW h \in DOMAIN next.goals,
                        t \in next.goals[h].tasks, next.tasks[t].goal # h
                 PROVE  t \in Astray(Loaded)
    BY DEF Astray
  <2>2. t \in DOMAIN Loaded.tasks /\ h \in DOMAIN Loaded.goals /\ h # g
    BY <1>1, <1>7
  <2>3. t \in Loaded.goals[h].tasks /\ Loaded.tasks[t].goal # h
    BY <1>5, <1>6, <2>1, <2>2
  <2>4. QED BY <2>2, <2>3 DEF Astray
<1>11. Circular(next) \subseteq Circular(Loaded)
  <2>1. DOMAIN Loaded.goals \subseteq Goal
    BY <1>1 DEF Typed, GoalsTyped
  <2>2. DOMAIN next.goals = DOMAIN Loaded.goals \ {g}
    BY <1>3
  <2>3. \A h \in DOMAIN next.goals :
           next.goals[h].parent = IF Loaded.goals[h].parent = g THEN Loaded.goals[g].parent
                                  ELSE Loaded.goals[h].parent
    BY <1>5
  <2>4. QED BY <1>2, <2>1, <2>2, <2>3, DeletionMakesNoCycle
<1>12. Fills(db, next)
  BY <1>7 DEF Fills
<1>13. QED BY <1>1, <1>2, <1>8, <1>9, <1>10, <1>11, <1>12, Saves DEF Kind

LEMMA DeleteProjectIsKind ==
    ASSUME Orderly(db), NEW p \in Project, DeleteProject(p)
    PROVE  Kind
<1> DEFINE next == [Loaded EXCEPT
                      !.projects = @ \ {p},
                      !.goals = [g \in DOMAIN @ |-> OutOf(@[g], p)]]
<1>1. /\ Typed(Loaded, AnyTask) /\ Alike(db, Loaded) /\ Disjoint(Loaded)
      /\ Astray(Loaded) = Astray(db) /\ Circular(Loaded) = Circular(db)
      /\ DOMAIN Loaded.tasks = DOMAIN db.tasks
  BY Loads
<1>2. /\ DOMAIN next = Fields
      /\ next.projects = Loaded.projects \ {p} /\ next.templates = Loaded.templates
      /\ next.tasks = Loaded.tasks /\ next.newer = Loaded.newer
      /\ next.goals = [g \in DOMAIN Loaded.goals |-> OutOf(Loaded.goals[g], p)]
  BY <1>1 DEF Typed, Fields
<1>3. Commit(next, {"projects", "goals"})
  BY DEF DeleteProject
<1> HIDE DEF next
<1>4. ASSUME NEW g \in DOMAIN Loaded.goals
      PROVE  /\ next.goals[g] \in GoalRowOf(AnyTask)
             /\ next.goals[g].parent = Loaded.goals[g].parent
             /\ next.goals[g].tasks = Loaded.goals[g].tasks
  <2>1. Loaded.goals[g] \in GoalRowOf(AnyTask)
    BY <1>1 DEF Typed, GoalsTyped
  <2>2. next.goals[g] = OutOf(Loaded.goals[g], p)
    BY <1>2
  <2>3. QED BY <2>1, <2>2 DEF OutOf, GoalRowOf
<1>5. Typed(next, AnyTask)
  <2>1. GoalsTyped(next.goals, AnyTask)
    BY <1>1, <1>2, <1>4 DEF Typed, GoalsTyped
  <2>2. QED BY <1>1, <1>2, <2>1 DEF Typed
<1>6. Alike(Loaded, next)
  BY <1>2, <1>4 DEF Alike, GoalsAlike, TasksAlike
<1>7. Disjoint(next) /\ Astray(next) = Astray(db) /\ Circular(next) = Circular(db)
  BY <1>1, <1>6, AlikeData
<1>8. TasksAlike(next.tasks, db.tasks) /\ Fills(db, next)
  BY <1>1, <1>2 DEF Alike, TasksAlike, Fills
<1>9. QED BY <1>3, <1>5, <1>7, <1>8, Saves DEF Kind

LEMMA TemplateStepIsKind ==
    ASSUME Orderly(db), NEW rows, TemplatesTyped(rows),
           Commit([Loaded EXCEPT !.templates = rows], {"templates"})
    PROVE  Kind
<1> DEFINE next == [Loaded EXCEPT !.templates = rows]
<1>1. /\ Typed(Loaded, AnyTask) /\ Alike(db, Loaded) /\ Disjoint(Loaded)
      /\ Astray(Loaded) = Astray(db) /\ Circular(Loaded) = Circular(db)
      /\ DOMAIN Loaded.tasks = DOMAIN db.tasks
  BY Loads
<1>2. /\ DOMAIN next = Fields
      /\ next.projects = Loaded.projects /\ next.goals = Loaded.goals
      /\ next.tasks = Loaded.tasks /\ next.newer = Loaded.newer
      /\ next.templates = rows
  BY <1>1 DEF Typed, Fields
<1>3. Commit(next, {"templates"})
  OBVIOUS
<1> HIDE DEF next
<1>4. Typed(next, AnyTask)
  BY <1>1, <1>2 DEF Typed
<1>5. Alike(Loaded, next) /\ GoalsAlike(next.goals, db.goals) /\ TasksAlike(next.tasks, db.tasks)
  BY <1>1, <1>2 DEF Alike, GoalsAlike, TasksAlike
<1>6. Disjoint(next) /\ Astray(next) = Astray(db) /\ Circular(next) = Circular(db)
  BY <1>1, <1>5, AlikeData
<1>7. Fills(db, next)
  BY <1>1, <1>2 DEF Fills
<1>8. QED BY <1>3, <1>4, <1>5, <1>6, <1>7, Saves DEF Kind

LEMMA SaveTemplateIsKind ==
    ASSUME Orderly(db), NEW f \in TemplateForms, SaveTemplate(f[1], f[2])
    PROVE  Kind
<1>1. f[1] \in Template /\ f[2] \in TemplateRow
  BY WorkAssumption
<1>2. TemplatesTyped(With(Loaded.templates, f[1], f[2]))
  <2>1. TemplatesTyped(Loaded.templates)
    BY Loads DEF Typed
  <2>2. QED BY <1>1, <2>1 DEF TemplatesTyped, With
<1>3. Commit([Loaded EXCEPT !.templates = With(Loaded.templates, f[1], f[2])], {"templates"})
  BY DEF SaveTemplate
<1>4. QED BY <1>2, <1>3, TemplateStepIsKind

LEMMA DeleteTemplateIsKind ==
    ASSUME Orderly(db), NEW m \in Template, DeleteTemplate(m)
    PROVE  Kind
<1>1. TemplatesTyped(Without(Loaded.templates, m))
  <2>1. TemplatesTyped(Loaded.templates)
    BY Loads DEF Typed
  <2>2. QED BY <2>1 DEF TemplatesTyped, Without
<1>2. Commit([Loaded EXCEPT !.templates = Without(Loaded.templates, m)], {"templates"})
  BY DEF DeleteTemplate
<1>3. QED BY <1>1, <1>2, TemplateStepIsKind

(* The invariant *)

\* What was checked for a form still holds if no change overtook it.
FormSound ==
    \A e \in Editor : form[e].fresh =>
       /\ form[e].goal \in DOMAIN db.goals
       /\ form[e].parent \in DOMAIN db.goals \union {None}
       /\ ~ WouldCycle(db, form[e].goal, form[e].parent)
FormType == [goal: Goal \union {None}, parent: Goal \union {None}, fresh: BOOLEAN]
FormsTyped == form \in [Editor -> FormType]
IInv == Orderly(db) /\ FormsTyped /\ FormSound

\* New goals and goals that keep their parents put none below another.
LEMMA FormsStaySound ==
    ASSUME Orderly(db), NEW e, form[e].fresh, FormSound, e \in Editor, HierarchyKept
    PROVE  /\ form[e].goal \in DOMAIN db'.goals
           /\ form[e].parent \in DOMAIN db'.goals \union {None}
           /\ ~ WouldCycle(db', form[e].goal, form[e].parent)
<1> DEFINE g == form[e].goal
           h == form[e].parent
<1>1. /\ g \in DOMAIN db.goals /\ h \in DOMAIN db.goals \union {None}
      /\ ~ WouldCycle(db, g, h)
  BY DEF FormSound
<1>2. \A k \in DOMAIN db.goals : k \in DOMAIN db'.goals /\ db'.goals[k].parent = db.goals[k].parent
  BY DEF HierarchyKept
<1>3. \A k \in DOMAIN db.goals : k \in Goal /\ db.goals[k].parent \in DOMAIN db.goals \union {None}
  BY DEF Orderly, Resolved, Typed, GoalsTyped
<1> HIDE DEF g, h
<1>4. ~ WouldCycle(db', g, h)
  <2>1. CASE h = None
    BY <1>1, <2>1 DEF WouldCycle
  <2>2. CASE h # None
    <3>1. h # g /\ ~ Reaches(db, h, g, {})
      BY <1>1, <2>2 DEF WouldCycle
    <3>2. PICK S \in SUBSET (Goal \ {g}) : Closed(db, h, S)
      BY <3>1, ClosedSets
    <3>3. Closed(db', h, S \intersect DOMAIN db.goals)
      <4>1. SUFFICES ASSUME NEW y \in ((S \intersect DOMAIN db.goals) \union {h}) \intersect DOMAIN db'.goals
                     PROVE  db'.goals[y].parent \in (S \intersect DOMAIN db.goals) \union {None}
        BY DEF Closed
      <4>2. y \in DOMAIN db.goals
        BY <1>1, <2>2
      <4>3. db.goals[y].parent \in S \union {None}
        BY <3>2, <4>2 DEF Closed
      <4>4. QED BY <1>2, <1>3, <4>2, <4>3
    <3>4. ~ Reaches(db', h, g, {})
      <4>1. S \intersect DOMAIN db.goals \in SUBSET (Goal \ {g})
        OBVIOUS
      <4>2. QED BY <3>3, <4>1, ClosedSets
    <3>5. QED BY <3>1, <3>4 DEF WouldCycle
  <2>3. QED BY <2>1, <2>2
<1>5. QED BY <1>1, <1>2, <1>4 DEF g, h

\* A step that reaches the database ends with Overtake: of the forms or of the
\* forms without the one that was saved.
LEMMA OvertakenForms ==
    ASSUME IInv, NEW f, Overtake(f), f = form \/ \E e \in Editor : f = [form EXCEPT ![e] = Idle]
    PROVE  FormsTyped' /\ FormSound'
<1>0. Idle \in FormType /\ ~ Idle.fresh
  BY DEF Idle, FormType
<1>1. f \in [Editor -> FormType]
  BY <1>0 DEF IInv, FormsTyped
<1>2. \A e \in Editor : f[e].fresh => f[e] = form[e]
  BY <1>0 DEF IInv, FormsTyped
<1>3. CASE HierarchyKept
  <2>1. form' = f
    BY <1>3 DEF Overtake
  <2>2. \A e \in Editor : f[e].fresh => /\ f[e].goal \in DOMAIN db'.goals
                                        /\ f[e].parent \in DOMAIN db'.goals \union {None}
                                        /\ ~ WouldCycle(db', f[e].goal, f[e].parent)
    BY <1>2, <1>3, FormsStaySound DEF IInv
  <2>3. QED BY <1>1, <2>1, <2>2 DEF FormsTyped, FormSound
<1>4. CASE ~ HierarchyKept
  <2>1. form' = [e \in Editor |-> [f[e] EXCEPT !.fresh = FALSE]]
    BY <1>4 DEF Overtake
  <2>2. \A e \in Editor : /\ form'[e] \in FormType
                          /\ form'[e].fresh = FALSE
    BY <1>1, <2>1 DEF FormType
  <2>3. QED BY <2>1, <2>2 DEF FormsTyped, FormSound
<1>5. QED BY <1>3, <1>4

LEMMA InitiallyInvariant == Init => IInv
<1> SUFFICES ASSUME Init PROVE IInv
  OBVIOUS
<1>1. /\ DOMAIN db = Fields
      /\ db.projects = Project /\ db.newer = {}
      /\ db.goals = NoRows /\ db.tasks = NoRows /\ db.templates = NoRows
  BY DEF Init, Fields
<1>2. DOMAIN NoRows = {}
  BY DEF NoRows
<1>3. Typed(db, Task)
  BY <1>1, <1>2 DEF Typed, GoalsTyped, TasksTyped, TemplatesTyped
<1>4. Resolved(db) /\ Disjoint(db)
  BY <1>1, <1>2 DEF Resolved, ListsResolve, Disjoint
<1>5. FormsTyped /\ FormSound
  <2>1. Idle \in FormType /\ ~ Idle.fresh
    BY DEF Idle, FormType
  <2>2. QED BY <2>1 DEF Init, FormsTyped, FormSound
<1>6. QED BY <1>3, <1>4, <1>5 DEF IInv, Orderly

\* What each step keeps: the invariant, and the lists, the hierarchy and the gaps
\* as far as OnlyFormsMisplace, CyclesAreOvertaken and PlansFillGaps say.
Misplaces ==
    \A t \in Astray(db') \ Astray(db) :
       \E g \in Goal \union {None}, s \in Reports :
          \E r \in Derived(t) : SaveTask(t, g, s, r)
Overtaken ==
    Circular(db') \ Circular(db) # {} =>
       \E e \in Editor : form[e] # Idle /\ ~ form[e].fresh /\ form'[e] = Idle
StepKeeps == IInv' /\ Misplaces /\ Overtaken /\ Fills(db, db')

LEMMA KindStepsKeep ==
    ASSUME IInv, Kind, Overtake(form)
    PROVE  StepKeeps
BY OvertakenForms DEF Kind, StepKeeps, IInv, Misplaces, Overtaken

LEMMA SaveTaskKeeps ==
    ASSUME IInv, NEW t \in Task, NEW g \in Goal \union {None}, NEW s \in Reports,
           NEW r \in Derived(t), SaveTask(t, g, s, r)
    PROVE  StepKeeps
<1>1. t \in DOMAIN db.tasks /\ Overtake(form)
  BY DEF SaveTask
<1>2. /\ Orderly(db') /\ Fills(db, db')
      /\ Astray(db') \subseteq Astray(db) \union {t} /\ Circular(db') \subseteq Circular(db)
  BY <1>1, SavedTask DEF IInv
<1>3. Misplaces
  BY <1>2 DEF Misplaces
<1>4. QED BY <1>1, <1>2, <1>3, OvertakenForms DEF StepKeeps, IInv, Overtaken

LEMMA EditGoalKeeps ==
    ASSUME IInv, NEW g \in Goal, NEW h \in Goal \union {None}, NEW f \in GoalForms, EditGoal(g, h, f)
    PROVE  StepKeeps
<1>1. ~ WouldCycle(Loaded, g, h) /\ GoalSaved(g, h, f) /\ Overtake(form)
  BY DEF EditGoal, Admitted
<1>2. ~ WouldCycle(db, g, h)
  BY <1>1, Loads, SameChecks DEF IInv
<1>3. Kind
  BY <1>1, <1>2, SavedGoal DEF Kind, IInv
<1>4. QED BY <1>1, <1>3, KindStepsKeep

LEMMA SaveGoalEditKeeps ==
    ASSUME IInv, NEW e \in Editor, NEW f \in GoalForms, SaveGoalEdit(e, f)
    PROVE  StepKeeps
<1> DEFINE g == form[e].goal
           h == form[e].parent
<1>1. form[e] # Idle /\ GoalSaved(g, h, f) /\ Overtake([form EXCEPT ![e] = Idle])
  BY DEF SaveGoalEdit
<1>2. form[e] \in FormType
  BY DEF IInv, FormsTyped
<1>3. /\ Orderly(db') /\ Fills(db, db')
      /\ Astray(db') \subseteq Astray(db)
      /\ ~ WouldCycle(db, g, h) => Circular(db') \subseteq Circular(db)
  <2>1. h \in Goal \union {None}
    BY <1>2 DEF FormType
  <2>2. QED BY <1>1, <2>1, SavedGoal DEF IInv
<1>4. FormsTyped' /\ FormSound'
  BY <1>1, OvertakenForms
<1>5. Overtaken
  <2>1. CASE form[e].fresh
    BY <1>3, <2>1 DEF Overtaken, IInv, FormSound
  <2>2. CASE ~ form[e].fresh
    <3>1. form'[e] = Idle
      <4>1. [form EXCEPT ![e] = Idle][e] = Idle
        BY DEF IInv, FormsTyped
      <4>2. [Idle EXCEPT !.fresh = FALSE] = Idle
        <5>1. Idle \in FormType /\ Idle.fresh = FALSE
          BY DEF Idle, FormType
        <5>2. QED BY <5>1 DEF FormType
      <4>3. QED BY <1>1, <4>1, <4>2 DEF Overtake
    <3>2. QED BY <1>1, <2>2, <3>1 DEF Overtaken
  <2>3. QED BY <2>1, <2>2
<1>6. QED BY <1>3, <1>4, <1>5 DEF StepKeeps, IInv, Misplaces

LEMMA FormStepsKeep ==
    ASSUME IInv, UNCHANGED db, FormsTyped', FormSound'
    PROVE  StepKeeps
<1>1. IInv'
  BY DEF IInv
<1>2. Misplaces /\ Overtaken /\ Fills(db, db')
  BY DEF Misplaces, Overtaken, Fills
<1>3. QED BY <1>1, <1>2 DEF StepKeeps

LEMMA BeginGoalEditKeeps ==
    ASSUME IInv, NEW e \in Editor, NEW g \in Goal, NEW h \in Goal \union {None}, BeginGoalEdit(e, g, h)
    PROVE  StepKeeps
<1> DEFINE opened == [goal |-> g, parent |-> h, fresh |-> TRUE]
<1>1. UNCHANGED db /\ form' = [form EXCEPT ![e] = opened]
  BY DEF BeginGoalEdit
<1>2. /\ g \in DOMAIN db.goals /\ h \in DOMAIN db.goals \union {None}
      /\ ~ WouldCycle(Loaded, g, h)
  BY DEF BeginGoalEdit, Admitted
<1>3. ~ WouldCycle(db, g, h)
  BY <1>2, Loads, SameChecks DEF IInv
<1>4. opened \in FormType /\ opened.goal = g /\ opened.parent = h
  BY DEF FormType
<1> HIDE DEF opened
<1>5. FormsTyped'
  BY <1>1, <1>4 DEF IInv, FormsTyped
<1>6. FormSound'
  <2>1. SUFFICES ASSUME NEW k \in Editor, form'[k].fresh
                 PROVE  /\ form'[k].goal \in DOMAIN db.goals
                        /\ form'[k].parent \in DOMAIN db.goals \union {None}
                        /\ ~ WouldCycle(db, form'[k].goal, form'[k].parent)
    BY <1>1 DEF FormSound
  <2>2. CASE k = e
    BY <1>1, <1>2, <1>3, <1>4, <2>2 DEF IInv, FormsTyped
  <2>3. CASE k # e
    BY <1>1, <2>1, <2>3 DEF IInv, FormsTyped, FormSound
  <2>4. QED BY <2>2, <2>3
<1>7. QED BY <1>1, <1>5, <1>6, FormStepsKeep

LEMMA RefuseKeeps ==
    ASSUME IInv, NEW e \in Editor, Refuse(e)
    PROVE  StepKeeps
<1>1. UNCHANGED db /\ form' = [form EXCEPT ![e] = Idle]
  BY DEF Refuse
<1>2. Idle \in FormType /\ ~ Idle.fresh
  BY DEF Idle, FormType
<1>3. FormsTyped' /\ FormSound'
  BY <1>1, <1>2 DEF IInv, FormsTyped, FormSound
<1>4. QED BY <1>1, <1>3, FormStepsKeep

LEMMA StepsKeep == IInv /\ [Next]_vars => StepKeeps
<1> SUFFICES ASSUME IInv, [Next]_vars PROVE StepKeeps
  OBVIOUS
<1>0. Orderly(db)
  BY DEF IInv
<1>1. ASSUME NEW t \in Work, NEW row \in WorkRows, NEW r \in Derived(t), CreateTask(t, row, r)
      PROVE  StepKeeps
  BY <1>0, <1>1, CreateTaskIsKind, KindStepsKeep DEF CreateTask
<1>2. ASSUME NEW t \in Task, NEW g \in Goal \union {None}, NEW s \in Reports,
             NEW r \in Derived(t), SaveTask(t, g, s, r)
      PROVE  StepKeeps
  BY <1>2, SaveTaskKeeps
<1>3. ASSUME NEW t \in Task, NEW s \in Reports, NEW r \in Derived(t), ReportTask(t, s, r)
      PROVE  StepKeeps
  BY <1>0, <1>3, ReportTaskIsKind, KindStepsKeep DEF ReportTask
<1>4. ASSUME NEW t \in Task, NEW U \in SUBSET DOMAIN db.tasks, NEW r \in Derived(t),
             DeleteTask(t, U, r)
      PROVE  StepKeeps
  BY <1>0, <1>4, DeleteTaskIsKind, KindStepsKeep DEF DeleteTask
<1>5. ASSUME NEW g \in Goal, NEW h \in Goal \union {None}, NEW f \in GoalForms, CreateGoal(g, h, f)
      PROVE  StepKeeps
  BY <1>0, <1>5, CreateGoalIsKind, KindStepsKeep DEF CreateGoal
<1>6. ASSUME NEW g \in Goal, NEW h \in Goal \union {None}, NEW f \in GoalForms, EditGoal(g, h, f)
      PROVE  StepKeeps
  BY <1>6, EditGoalKeeps
<1>7. ASSUME NEW e \in Editor, NEW g \in Goal, NEW h \in Goal \union {None}, BeginGoalEdit(e, g, h)
      PROVE  StepKeeps
  BY <1>7, BeginGoalEditKeeps
<1>8. ASSUME NEW e \in Editor, NEW f \in GoalForms, SaveGoalEdit(e, f)
      PROVE  StepKeeps
  BY <1>8, SaveGoalEditKeeps
<1>9. ASSUME NEW e \in Editor, Refuse(e)
      PROVE  StepKeeps
  BY <1>9, RefuseKeeps
<1>10. ASSUME NEW g \in Goal, DeleteGoal(g)
       PROVE  StepKeeps
  BY <1>0, <1>10, DeleteGoalIsKind, KindStepsKeep DEF DeleteGoal
<1>11. ASSUME NEW p \in Project, DeleteProject(p)
       PROVE  StepKeeps
  BY <1>0, <1>11, DeleteProjectIsKind, KindStepsKeep DEF DeleteProject
<1>12. ASSUME NEW f \in TemplateForms, SaveTemplate(f[1], f[2])
       PROVE  StepKeeps
  BY <1>0, <1>12, SaveTemplateIsKind, KindStepsKeep DEF SaveTemplate
<1>13. ASSUME NEW m \in Template, DeleteTemplate(m)
       PROVE  StepKeeps
  BY <1>0, <1>13, DeleteTemplateIsKind, KindStepsKeep DEF DeleteTemplate
<1>14. CASE UNCHANGED vars
  <2>1. FormsTyped' /\ FormSound'
    BY <1>14 DEF IInv, FormsTyped, FormSound, vars
  <2>2. QED BY <1>14, <2>1, FormStepsKeep DEF vars
<1>15. QED
  BY <1>1, <1>2, <1>3, <1>4, <1>5, <1>6, <1>7, <1>8, <1>9, <1>10, <1>11, <1>12, <1>13, <1>14
     DEF Next

-----------------------------------------------------------------------------
(* What follows a task change up *)

\* What InGap looks at is the same for g in c and d, but that fewer tasks may be
\* newer than a continuation task in d.
LooksAlike(c, d, g) ==
    /\ g \in DOMAIN c.goals /\ g \in DOMAIN d.goals
    /\ d.goals[g].active = c.goals[g].active
    /\ d.projects = c.projects
    /\ d.goals[g].projects \intersect d.projects = c.goals[g].projects \intersect c.projects
    /\ Scope(d, g) = Scope(c, g)
    /\ \A t \in Scope(c, g) : /\ d.tasks[t].status = c.tasks[t].status
                              /\ d.tasks[t].project = c.tasks[t].project
    /\ \A p \in Scope(c, g) \intersect Plan, t \in Scope(c, g) \ Plan :
          d.tasks[t].status = "done" /\ <<p, t>> \in d.newer => <<p, t>> \in c.newer

LEMMA SameGap ==
    ASSUME NEW c, NEW d, NEW g, LooksAlike(c, d, g), InGap(d, g)
    PROVE  InGap(c, g)
<1>1. Homes(d, g) = Homes(c, g)
  <2>1. {d.tasks[t].project : t \in Scope(d, g)} = {c.tasks[t].project : t \in Scope(c, g)}
    BY DEF LooksAlike
  <2>2. QED BY <2>1 DEF LooksAlike, Homes
<1>2. QED BY <1>1 DEF LooksAlike, InGap

LEMMA SameScope ==
    ASSUME NEW c, NEW d, NEW X, SameHierarchy(c, d), SameLinks(c, d, X),
           NEW g \in DOMAIN c.goals,
           \A t \in X : t \notin Scope(c, g) /\ t \notin Scope(d, g)
    PROVE  Scope(d, g) = Scope(c, g)
<1>1. \A h \in {g} \union Below(c, g) : h \in DOMAIN c.goals
  BY DEF Below
<1>2. Below(d, g) = Below(c, g)
  BY SameBelow
<1>3. ASSUME NEW t, t \notin X
      PROVE  t \in Scope(d, g) <=> t \in Scope(c, g)
  BY <1>1, <1>2, <1>3, ScopeMembers DEF SameLinks
<1>4. QED BY <1>3

\* A continuation task closes the gaps of its goal and of those above, and opens
\* none.
LEMMA PlannedClosesGaps ==
    ASSUME NEW d, NEW g, Typed(d, AnyTask), InGap(d, g),
           NEW S, S # {}, Room(d, S), NEW k, InGap(Planned(d, g), k)
    PROVE  InGap(d, k) /\ k # g /\ g \notin Below(d, k)
<1> DEFINE p == NewPlan(d)
           home == CHOOSE h \in Homes(d, g) : TRUE
           row == [status |-> "open", goal |-> g, project |-> home, template |-> None]
           N == Planned(d, g)
<1>1. p \in 1 .. (MaxPlans + 3) /\ p \notin DOMAIN d.tasks
  BY DEF NewPlan, Room
<1>2. g \in DOMAIN d.goals /\ d.goals[g] \in GoalRowOf(AnyTask)
  BY DEF InGap, Typed, GoalsTyped
<1>3. row.status = "open" /\ row.goal = g
  OBVIOUS
<1>4. /\ N.projects = d.projects /\ N.newer = d.newer
      /\ N.tasks = With(d.tasks, p, row)
      /\ N.goals = [d.goals EXCEPT ![g].tasks = @ \union {p}, ![g].projects = @ \union {home}]
  BY DEF Planned, Typed, Fields
<1>5. InGap(N, k)
  OBVIOUS
<1> HIDE DEF p, home, row, N
<1>6. /\ DOMAIN N.tasks = DOMAIN d.tasks \union {p}
      /\ N.tasks[p] = row
      /\ \A t \in DOMAIN d.tasks : N.tasks[t] = d.tasks[t]
  BY <1>1, <1>4 DEF With
<1>7. /\ DOMAIN N.goals = DOMAIN d.goals
      /\ \A h \in DOMAIN d.goals \ {g} : N.goals[h] = d.goals[h]
      /\ N.goals[g].parent = d.goals[g].parent
      /\ N.goals[g].tasks = d.goals[g].tasks \union {p}
  <2>1. N.goals[g] = [d.goals[g] EXCEPT !.tasks = @ \union {p}, !.projects = @ \union {home}]
    BY <1>2, <1>4 DEF GoalRowOf
  <2>2. QED BY <1>2, <1>4, <2>1 DEF GoalRowOf
<1>8. SameHierarchy(d, N)
  BY <1>7 DEF SameHierarchy
<1>9. k \in DOMAIN d.goals
  BY <1>5, <1>7 DEF InGap
<1>10. p \notin Scope(N, k)
  BY <1>3, <1>5, <1>6 DEF InGap
<1>11. k # g /\ g \notin Below(d, k)
  BY <1>3, <1>6, <1>8, <1>10, ScopeMembers, SameBelow
<1>12. SameLinks(d, N, {p})
  BY <1>6, <1>7 DEF SameLinks
<1>13. p \notin Scope(d, k)
  BY <1>1, ScopeMembers
<1>14. Scope(N, k) = Scope(d, k)
  BY <1>8, <1>9, <1>10, <1>12, <1>13, SameScope
<1>15. \A t \in Scope(d, k) : N.tasks[t] = d.tasks[t]
  BY <1>6, ScopeMembers
<1>16. LooksAlike(d, N, k)
  BY <1>4, <1>7, <1>9, <1>11, <1>14, <1>15 DEF LooksAlike
<1>17. QED BY <1>5, <1>11, <1>16, SameGap

\* The way up from g to another gap goes on from the first one.
LEMMA LaterGaps ==
    ASSUME NEW d, GoalsTyped(d.goals, AnyTask), NEW g, NEW gaps,
           NEW first \in gaps, first \in Goal, g \notin gaps, Reaches(d, g, first, gaps),
           NEW h \in gaps, h # first, Reaches(d, g, h, {})
    PROVE  Reaches(d, first, h, {})
<1> SUFFICES ASSUME NEW S \in SUBSET (Goal \ {h}), Closed(d, first, S)
             PROVE  FALSE
  BY ClosedSets
<1> DEFINE V == {k \in Goal \ gaps : Reaches(d, k, first, gaps)} \union {first}
<1>1. ASSUME NEW y \in DOMAIN d.goals, y \notin gaps, Reaches(d, y, first, gaps)
      PROVE  d.goals[y].parent \in V \union {None}
  <2> DEFINE q == d.goals[y].parent
  <2>1. SUFFICES ASSUME q # None, q # first
                 PROVE  q \notin gaps /\ Reaches(d, q, first, gaps)
    BY <1>1 DEF GoalsTyped, GoalRowOf
  <2>2. q \in Goal
    BY <1>1, <2>1 DEF GoalsTyped, GoalRowOf
  <2>3. q \notin gaps
    <3>1. SUFFICES ASSUME q \in gaps PROVE FALSE
      OBVIOUS
    <3>2. ParentsIn(d, ({q} \ gaps) \union {y}) \subseteq {q}
      BY <3>1 DEF ParentsIn
    <3>3. {q} \in SUBSET (Goal \ {first})
      BY <2>1, <2>2
    <3>4. QED BY <1>1, <3>2, <3>3 DEF Reaches
  <2>4. ASSUME NEW T \in SUBSET (Goal \ {first}), ParentsIn(d, (T \ gaps) \union {q}) \subseteq T
        PROVE  FALSE
    <3>1. T \union {q} \in SUBSET (Goal \ {first})
      BY <2>1, <2>2
    <3>2. ParentsIn(d, ((T \union {q}) \ gaps) \union {y})
            \subseteq ParentsIn(d, (T \ gaps) \union {q}) \union {q}
      BY DEF ParentsIn
    <3>3. ParentsIn(d, ((T \union {q}) \ gaps) \union {y}) \subseteq T \union {q}
      BY <2>4, <3>2
    <3>4. QED BY <1>1, <3>1, <3>3 DEF Reaches
  <2>5. QED BY <2>3, <2>4 DEF Reaches
<1>2. V \union S \in SUBSET (Goal \ {h})
  OBVIOUS
<1>3. Closed(d, g, V \union S)
  <2>1. SUFFICES ASSUME NEW y \in (V \union S \union {g}) \intersect DOMAIN d.goals
                 PROVE  d.goals[y].parent \in V \union S \union {None}
    BY DEF Closed
  <2>2. CASE y \in S \union {first}
    BY <2>2 DEF Closed
  <2>3. CASE y \notin S \union {first}
    <3>1. y \notin gaps /\ Reaches(d, y, first, gaps)
      BY <2>1, <2>3
    <3> HIDE DEF V
    <3>2. QED BY <1>1, <3>1
  <2>4. QED BY <2>2, <2>3
<1> HIDE DEF V
<1>4. QED BY <1>2, <1>3, ClosedSets

\* After the continuation of g, neither g nor a goal above it is in a gap; and
\* no gap is opened.
LEMMA ContinuedClosesGaps ==
    ASSUME NEW d, NEW g, Typed(d, AnyTask), NEW S, S # {}, Room(d, S),
           NEW k, InGap(Continued(d, g), k)
    PROVE  InGap(d, k) /\ k \notin {g} \union Above(d, g)
<1> DEFINE gaps == {h \in {g} \union Above(d, g) : InGap(d, h)}
           first == IF g \in gaps THEN g ELSE CHOOSE h \in gaps : Reaches(d, g, h, gaps)
<1>1. CASE gaps = {}
  BY <1>1 DEF Continued
<1>2. CASE gaps # {}
  <2>1. /\ \A h : h \in gaps <=> h \in {g} \union Above(d, g) /\ InGap(d, h)
        /\ \A h \in gaps : h \in Goal /\ h \in DOMAIN d.goals
    BY DEF InGap, Typed, GoalsTyped
  <2>2. Continued(d, g) = Planned(d, first)
    BY <1>2 DEF Continued
  <2> HIDE DEF gaps
  <2>3. first \in gaps /\ (g \notin gaps => Reaches(d, g, first, gaps))
    <3>1. CASE g \in gaps BY <3>1
    <3>2. CASE g \notin gaps
      <4>1. \A h \in gaps : Reaches(d, g, h, {})
        BY <2>1, <3>2 DEF Above
      <4>2. gaps \subseteq Goal
        BY <2>1
      <4>3. \E h \in gaps : Reaches(d, g, h, gaps)
        BY <1>2, <3>2, <4>1, <4>2, FirstGap
      <4>4. QED BY <3>2, <4>3
    <3>3. QED BY <3>1, <3>2
  <2>4. g \in gaps => first = g
    OBVIOUS
  <2> HIDE DEF first
  <2>5. InGap(d, first) /\ first \in Goal /\ first \in DOMAIN d.goals
    BY <2>1, <2>3
  <2>6. InGap(d, k) /\ k # first /\ first \notin Below(d, k)
    BY <2>2, <2>5, PlannedClosesGaps
  <2>7. ASSUME k \in {g} \union Above(d, g)
        PROVE  FALSE
    <3>1. k \in gaps
      BY <2>1, <2>6, <2>7
    <3>2. CASE g \in gaps
      <4>1. Reaches(d, first, k, {})
        BY <2>4, <2>6, <2>7, <3>2 DEF Above
      <4>2. QED BY <2>5, <2>6, <4>1 DEF Below
    <3>3. CASE g \notin gaps
      <4>1. Reaches(d, g, k, {})
        BY <2>7, <3>1, <3>3 DEF Above
      <4>2. GoalsTyped(d.goals, AnyTask)
        BY DEF Typed
      <4>3. Reaches(d, first, k, {})
        BY <2>3, <2>5, <2>6, <3>1, <3>3, <4>1, <4>2, LaterGaps
      <4>4. QED BY <2>5, <2>6, <4>3 DEF Below
    <3>4. QED BY <3>2, <3>3
  <2>8. QED BY <2>6, <2>7
<1>3. QED BY <1>1, <1>2

LEMMA FollowUpClosesGaps ==
    ASSUME NEW d, Typed(d, AnyTask), ListsResolve(d), DOMAIN d.tasks \subseteq Task,
           NEW t, t \notin Plan, NEW before, NEW now,
           NEW k, InGap(FollowedUp(d, t, before, now), k)
    PROVE  /\ InGap(d, k)
           /\ \A g \in {before, now, Lister(d, t)} : k \notin {g} \union Above(d, g)
<1> DEFINE S == {MaxPlans + 1, MaxPlans + 2, MaxPlans + 3}
           d1 == Continued(d, before)
           d2 == Continued(d1, now)
           d3 == Continued(d2, Lister(d, t))
<1>1. Room(d, S)
  BY RoomEnough
<1>2. \A p, q : S \ {p} # {} /\ (S \ {p}) \ {q} # {}
  <2>1. MaxPlans + 1 # MaxPlans + 2 /\ MaxPlans + 1 # MaxPlans + 3 /\ MaxPlans + 2 # MaxPlans + 3
    BY RecordsAssumption
  <2>2. QED BY <2>1
<1>3. S # {}
  OBVIOUS
<1>4. InGap(d3, k)
  BY DEF FollowedUp
<1> HIDE DEF S
<1>5. PICK p : Typed(d1, AnyTask) /\ ListsResolve(d1) /\ Extended(d, d1) /\ Room(d1, S \ {p})
  BY <1>1, <1>3, ContinuedExtends
<1>6. InGap(d1, k) => InGap(d, k) /\ k \notin {before} \union Above(d, before)
  BY <1>1, <1>3, ContinuedClosesGaps
<1> HIDE DEF d1
<1>7. PICK q : Typed(d2, AnyTask) /\ Extended(d1, d2) /\ Room(d2, (S \ {p}) \ {q})
  BY <1>2, <1>5, ContinuedExtends
<1>8. InGap(d2, k) => InGap(d1, k) /\ k \notin {now} \union Above(d1, now)
  BY <1>2, <1>5, ContinuedClosesGaps
<1> HIDE DEF d2
<1>9. InGap(d2, k) /\ k \notin {Lister(d, t)} \union Above(d2, Lister(d, t))
  BY <1>2, <1>4, <1>7, ContinuedClosesGaps
<1>10. \A g : Above(d1, g) = Above(d, g) /\ Above(d2, g) = Above(d, g)
  <2>1. SameHierarchy(d, d1) /\ SameHierarchy(d1, d2)
    BY <1>5, <1>7 DEF Extended
  <2>2. QED BY <2>1, SameWays DEF Above
<1>11. QED BY <1>6, <1>8, <1>9, <1>10

\* A load and a save leave the gaps as they are.
LEMMA LoadedFields ==
    ASSUME Orderly(db)
    PROVE  /\ Loaded.projects = db.projects /\ Loaded.newer = db.newer
           /\ \A k \in DOMAIN db.goals :
                 /\ Loaded.goals[k].active = db.goals[k].active
                 /\ Loaded.goals[k].projects \intersect db.projects
                       = db.goals[k].projects \intersect db.projects
           /\ \A t \in DOMAIN db.tasks :
                 /\ Loaded.tasks[t].status = db.tasks[t].status
                 /\ Loaded.tasks[t].project = db.tasks[t].project
<1> DEFINE r == [db EXCEPT
       !.goals = [g \in DOMAIN db.goals |-> RepairedGoal(db, db.goals[g])],
       !.tasks = [t \in DOMAIN db.tasks |-> RepairedTask(db, db.tasks[t])],
       !.templates = [m \in KeptTemplates(db) |-> RepairedTemplate(db, db.templates[m])]]
<1>1. Loaded = db \/ Loaded = r
  BY DEF Loaded, Repaired
<1>2. /\ r.projects = db.projects /\ r.newer = db.newer
      /\ r.goals = [g \in DOMAIN db.goals |-> RepairedGoal(db, db.goals[g])]
      /\ r.tasks = [t \in DOMAIN db.tasks |-> RepairedTask(db, db.tasks[t])]
  BY DEF Orderly, Typed, Fields
<1> HIDE DEF r
<1>3. ASSUME NEW k \in DOMAIN db.goals
      PROVE  /\ r.goals[k].active = db.goals[k].active
             /\ r.goals[k].projects = db.goals[k].projects \intersect db.projects
  <2>1. r.goals[k] = RepairedGoal(db, db.goals[k])
    BY <1>2
  <2>2. db.goals[k] \in GoalRowOf(Task)
    BY DEF Orderly, Typed, GoalsTyped
  <2>3. QED BY <2>1, <2>2 DEF RepairedGoal, GoalRowOf
<1>4. ASSUME NEW t \in DOMAIN db.tasks
      PROVE  r.tasks[t].status = db.tasks[t].status /\ r.tasks[t].project = db.tasks[t].project
  <2>1. r.tasks[t] = RepairedTask(db, db.tasks[t])
    BY <1>2
  <2>2. db.tasks[t] \in TaskRow
    BY DEF Orderly, Typed, TasksTyped
  <2>3. QED BY <2>1, <2>2 DEF RepairedTask, TaskRow
<1>5. QED BY <1>1, <1>2, <1>3, <1>4

LEMMA LoadedGaps ==
    ASSUME Orderly(db), NEW k, InGap(Loaded, k)
    PROVE  InGap(db, k)
<1>1. Alike(db, Loaded) /\ DOMAIN Loaded.goals = DOMAIN db.goals
  BY Loads
<1>2. k \in DOMAIN db.goals
  BY <1>1 DEF InGap
<1>3. Scope(Loaded, k) = Scope(db, k)
  BY <1>1, <1>2, AlikeData
<1>4. \A t \in Scope(db, k) : t \in DOMAIN db.tasks
  BY ScopeMembers
<1>5. LooksAlike(db, Loaded, k)
  BY <1>1, <1>2, <1>3, <1>4, LoadedFields DEF LooksAlike
<1>6. QED BY <1>5, SameGap

LEMMA SavedGaps ==
    ASSUME Orderly(db), NEW next, Typed(next, AnyTask), next.projects = db.projects,
           NEW names, Commit(next, names), "tasks" \in names,
           "goals" \in names \/ next.goals = Loaded.goals, NEW k, InGap(db', k)
    PROVE  /\ InGap(next, k)
           /\ db'.tasks = next.tasks /\ Scope(db', k) = Scope(next, k)
<1>1. /\ db'.projects = next.projects /\ db'.tasks = next.tasks /\ db'.newer = next.newer
      /\ db'.goals = next.goals \/ (db'.goals = db.goals /\ next.goals = Loaded.goals)
  <2>1. /\ db'.projects = IF "projects" \in names THEN next.projects ELSE db.projects
        /\ db'.goals = IF "goals" \in names THEN next.goals ELSE db.goals
        /\ db'.tasks = IF "tasks" \in names THEN next.tasks ELSE db.tasks
        /\ db'.newer = next.newer
    BY DEF Commit, Typed, Fields
  <2>2. QED BY <2>1
<1>2. CASE db'.goals = next.goals
  <2>1. Alike(next, db')
    BY <1>1, <1>2 DEF Alike, GoalsAlike, TasksAlike
  <2>2. k \in DOMAIN next.goals
    BY <1>2 DEF InGap
  <2>3. Scope(db', k) = Scope(next, k)
    BY <2>1, <2>2, AlikeData
  <2>4. LooksAlike(next, db', k)
    BY <1>1, <1>2, <2>2, <2>3 DEF LooksAlike
  <2>5. QED BY <1>1, <2>3, <2>4, SameGap
<1>3. CASE db'.goals = db.goals /\ next.goals = Loaded.goals
  <2>1. Alike(next, db')
    BY <1>1, <1>3, Loads DEF Alike, GoalsAlike, TasksAlike
  <2>2. k \in DOMAIN db.goals
    BY <1>3 DEF InGap
  <2>3. k \in DOMAIN next.goals
    BY <1>3, <2>2, Loads
  <2>4. Scope(db', k) = Scope(next, k)
    BY <2>1, <2>3, AlikeData
  <2>5. /\ next.goals[k].active = db.goals[k].active
        /\ next.goals[k].projects \intersect db.projects = db.goals[k].projects \intersect db.projects
    BY <1>3, <2>2, LoadedFields
  <2>6. LooksAlike(next, db', k)
    BY <1>1, <1>3, <2>2, <2>3, <2>4, <2>5 DEF LooksAlike
  <2>7. QED BY <1>1, <2>4, <2>6, SameGap
<1>4. QED BY <1>1, <1>2, <1>3

\* A task on the list of a goal has that goal as its lister.
LEMMA ListersAreSingle ==
    ASSUME NEW d, Disjoint(d), NEW g \in DOMAIN d.goals, NEW t \in d.goals[g].tasks
    PROVE  Lister(d, t) = g
BY DEF Lister, Disjoint

\* The goals whose scope a task is in are those it names or is listed by, and
\* those above.
LEMMA ScopesOfTask ==
    ASSUME NEW d, Disjoint(d), NEW t, NEW k \in Goal \intersect DOMAIN d.goals, t \in Scope(d, k)
    PROVE  \E g \in {d.tasks[t].goal, Lister(d, t)} : k \in {g} \union Above(d, g)
<1>1. PICK h \in {k} \union Below(d, k) : t \in d.goals[h].tasks \/ d.tasks[t].goal = h
  BY ScopeMembers
<1>2. h \in DOMAIN d.goals /\ k \in {h} \union Above(d, h)
  BY <1>1 DEF Below, Above
<1>3. h \in {d.tasks[t].goal, Lister(d, t)}
  BY <1>1, <1>2, ListersAreSingle
<1>4. QED BY <1>2, <1>3

\* A change of t and the sync, which leave t out of the scope of k, open a gap there
\* only by what they drag along.
LEMMA OnlyDragged ==
    ASSUME Orderly(db), NEW t \in Task, NEW U, NEW r, NEW c, NEW d, NEW k \in DOMAIN Loaded.goals,
           Follows(c, t, r, d), c.projects = Loaded.projects, k \in DOMAIN c.goals,
           c.goals[k].active = Loaded.goals[k].active,
           c.goals[k].projects = Loaded.goals[k].projects,
           \A v \in DOMAIN Loaded.tasks \ {t} :
              v \in DOMAIN c.tasks /\ c.tasks[v] = Loaded.tasks[v],
           \A p, v : <<p, v>> \in c.newer /\ v \notin U \union {t} => <<p, v>> \in Loaded.newer,
           Scope(d, k) = Scope(Loaded, k), t \notin Scope(Loaded, k), InGap(d, k),
           \A v \in Scope(d, k) : v \in Scope(db', k) /\ db'.tasks[v] = d.tasks[v]
    PROVE  InGap(db, k) \/ Dragged(U, k)
<1> DEFINE S == Scope(Loaded, k)
<1>1. SUFFICES ASSUME ~ Dragged(U, k) PROVE InGap(db, k)
  OBVIOUS
<1>2. DOMAIN Loaded.tasks = DOMAIN db.tasks
  BY Loads
<1>3. ASSUME NEW v \in S
      PROVE  /\ v \in DOMAIN Loaded.tasks /\ v # t /\ v \in DOMAIN c.tasks
             /\ c.tasks[v] = Loaded.tasks[v]
             /\ d.tasks[v].project = Loaded.tasks[v].project
             /\ d.tasks[v].status = Loaded.tasks[v].status
             /\ v \in U \ Plan => d.tasks[v].status # "done"
  <2>1. v \in DOMAIN Loaded.tasks /\ v # t
    BY ScopeMembers
  <2>2. v \in DOMAIN c.tasks /\ c.tasks[v] = Loaded.tasks[v]
    BY <2>1
  <2>3. d.tasks[v].project = Loaded.tasks[v].project
    BY <2>2 DEF Follows
  <2>4. v \in Scope(db', k) \intersect DOMAIN db.tasks /\ db'.tasks[v] = d.tasks[v]
    BY <1>2, <2>1
  <2>5. /\ db'.tasks[v].status = db.tasks[v].status
        /\ v \in U \ Plan => db'.tasks[v].status # "done"
    BY <1>1, <2>4 DEF Dragged
  <2>6. Loaded.tasks[v].status = db.tasks[v].status
    BY <2>4, LoadedFields
  <2>7. QED BY <2>1, <2>2, <2>3, <2>4, <2>5, <2>6
<1>4. ASSUME NEW p, NEW v \in S \ Plan, d.tasks[v].status = "done", <<p, v>> \in d.newer
      PROVE  <<p, v>> \in Loaded.newer
  <2>1. v \notin U \union {t}
    BY <1>3, <1>4
  <2>2. <<p, v>> \in c.newer
    <3>1. d.tasks[v].status = c.tasks[v].status
      BY <1>3
    <3>2. QED BY <1>4, <3>1 DEF Follows
  <2>3. QED BY <2>1, <2>2
<1>5. /\ k \in DOMAIN d.goals /\ d.projects = Loaded.projects
      /\ d.goals[k].active = Loaded.goals[k].active
      /\ d.goals[k].projects = Loaded.goals[k].projects
  BY DEF Follows
<1>6. LooksAlike(Loaded, d, k)
  BY <1>3, <1>4, <1>5 DEF LooksAlike
<1>7. QED BY <1>6, SameGap, LoadedGaps

\* The tasks there were before the follow-up are in the same scopes after it.
LEMMA SameOldScope ==
    ASSUME NEW c, NEW d, Extended(c, d), NEW k \in DOMAIN c.goals, NEW t \in DOMAIN c.tasks
    PROVE  t \in Scope(d, k) <=> t \in Scope(c, k)
<1>1. Below(d, k) = Below(c, k)
  BY SameBelow DEF Extended
<1>2. \A h \in {k} \union Below(c, k) : h \in DOMAIN c.goals
  BY DEF Below
<1>3. t \in DOMAIN d.tasks /\ d.tasks[t] = c.tasks[t]
  BY DEF Extended
<1>4. \A h \in DOMAIN c.goals : t \in d.goals[h].tasks <=> t \in c.goals[h].tasks
  BY DEF Extended
<1>5. QED BY <1>1, <1>2, <1>3, <1>4, ScopeMembers

LEMMA SavedTaskIsFollowedUp ==
    ASSUME Orderly(db), NEW t \in Work, NEW goal \in Goal \union {None}, NEW status \in TaskStatus,
           NEW r \in Derived(t), SaveTask(t, goal, status, r), NEW k \in DOMAIN db.goals, InGap(db', k)
    PROVE  Answered(t, {}, k)
<1> DEFINE c == Saved(t, goal, status)
           moved == Synced(c, t, r)
           before == Loaded.tasks[t].goal
           next == FollowedUp(moved, t, before, goal)
           names == IF next # moved THEN {"tasks", "goals"} ELSE {"tasks"}
<1>1. /\ Typed(Loaded, AnyTask) /\ Resolved(Loaded) /\ Disjoint(Loaded) /\ Alike(db, Loaded)
      /\ DOMAIN Loaded.tasks = DOMAIN db.tasks /\ DOMAIN Loaded.goals = DOMAIN db.goals
  BY Loads
<1>2. t \in DOMAIN db.tasks /\ t \in Task /\ t \notin Plan
  <2>1. t \notin Plan
    BY RecordsAssumption DEF Plan
  <2>2. QED BY <2>1 DEF SaveTask, Task
<1>3. /\ Typed(c, AnyTask) /\ OneTask(Loaded, c, t)
      /\ c.newer = Touched(Loaded, {t}) /\ c.tasks[t].goal = goal
      /\ \A u \in DOMAIN Loaded.tasks \ {t} : c.tasks[u] = Loaded.tasks[u]
  <2>1. SavedAs(c, t, goal)
    BY <1>2, SavedRow
  <2>2. QED BY <2>1 DEF SavedAs
<1>4. Commit(next, names) /\ "tasks" \in names /\ (next # moved => "goals" \in names)
  BY DEF SaveTask, Saved
<1> HIDE DEF c, moved, names
<1>5. Follows(c, t, r, moved)
  <2>1. Parent[t] \in DOMAIN c.tasks => r \in TaskStatus
    BY <1>1, <1>2, <1>3, DerivedStatus DEF OneTask
  <2>2. QED BY <1>2, <1>3, <2>1, SyncFollows DEF moved
<1>6. /\ OneTask(Loaded, moved, t) /\ moved.tasks[t].goal = goal
      /\ moved.goals = Loaded.goals /\ moved.projects = Loaded.projects
  <2>1. OneTask(Loaded, moved, t)
    BY <1>3, <1>5, OneTaskFollowed
  <2>2. moved.tasks[t].goal = c.tasks[t].goal
    BY <1>1, <1>2, <1>3, <1>5 DEF Follows, OneTask
  <2>3. QED BY <1>3, <2>1, <2>2 DEF OneTask
<1>7. /\ Typed(moved, AnyTask) /\ Disjoint(moved) /\ ListsResolve(moved)
      /\ SameHierarchy(Loaded, moved)
      /\ DOMAIN moved.tasks = DOMAIN db.tasks /\ DOMAIN moved.tasks \subseteq Task
  <2>1. DOMAIN db.tasks \subseteq Task
    BY TypedMore DEF Orderly
  <2>2. QED BY <1>1, <1>6, <2>1, OneTaskChanged
<1>8. Typed(next, AnyTask) /\ next.projects = db.projects /\ Extended(moved, next)
  <2>1. Typed(next, AnyTask) /\ Extended(moved, next)
    BY <1>7, FollowUpExtends
  <2> HIDE DEF next
  <2>2. QED BY <1>6, <2>1, LoadedFields DEF Extended
<1>9. InGap(next, k) /\ db'.tasks = next.tasks /\ Scope(db', k) = Scope(next, k)
  <2>1. "goals" \in names \/ next.goals = Loaded.goals
    BY <1>4, <1>6
  <2> HIDE DEF next
  <2>2. QED BY <1>4, <1>8, <2>1, SavedGaps
<1>10. /\ InGap(moved, k)
       /\ \A g \in {before, goal, Lister(moved, t)} : k \notin {g} \union Above(moved, g)
  <2> HIDE DEF before
  <2>1. QED BY <1>2, <1>7, <1>9, FollowUpClosesGaps
<1>11. k \in DOMAIN moved.goals /\ k \in DOMAIN Loaded.goals /\ k \in Goal
  BY <1>1, <1>6 DEF Typed, GoalsTyped
<1>12. t \notin Scope(moved, k)
  BY <1>6, <1>7, <1>10, <1>11, ScopesOfTask
<1>13. t \notin Scope(Loaded, k)
  <2>1. Lister(Loaded, t) = Lister(moved, t) /\ \A g : Above(Loaded, g) = Above(moved, g)
    BY <1>6, <1>7, SameWays DEF Lister, Above
  <2>2. QED BY <1>1, <1>10, <1>11, <2>1, ScopesOfTask
<1>14. Scope(moved, k) = Scope(Loaded, k)
  <2>1. SameLinks(Loaded, moved, {t})
    BY <1>1, <1>6, <1>7 DEF SameLinks, OneTask
  <2>2. QED BY <1>7, <1>11, <1>12, <1>13, <2>1, SameScope
<1>15. /\ \A v \in Scope(moved, k) : v \in Scope(db', k) /\ db'.tasks[v] = moved.tasks[v]
       /\ t \notin Scope(db', k)
  <2> HIDE DEF next
  <2>1. \A v \in DOMAIN moved.tasks : v \in Scope(next, k) <=> v \in Scope(moved, k)
    BY <1>8, <1>11, SameOldScope
  <2>2. \A v \in DOMAIN moved.tasks : next.tasks[v] = moved.tasks[v]
    BY <1>8 DEF Extended
  <2>3. \A v \in Scope(moved, k) : v \in DOMAIN moved.tasks
    BY ScopeMembers
  <2>4. QED BY <1>2, <1>7, <1>9, <1>12, <2>1, <2>2, <2>3
<1>16. t \notin Scope(db, k)
  BY <1>1, <1>13, AlikeData
<1>17. InGap(db, k) \/ Dragged({}, k)
  <2>1. \A p, v : <<p, v>> \in c.newer /\ v \notin {} \union {t} => <<p, v>> \in Loaded.newer
    BY <1>3 DEF Touched
  <2>2. /\ c.projects = Loaded.projects /\ c.goals = Loaded.goals
        /\ \A v \in DOMAIN Loaded.tasks \ {t} : v \in DOMAIN c.tasks /\ c.tasks[v] = Loaded.tasks[v]
    BY <1>3 DEF OneTask
  <2>3. QED BY <1>2, <1>5, <1>10, <1>11, <1>13, <1>14, <1>15, <2>1, <2>2, OnlyDragged
<1>18. QED BY <1>15, <1>16, <1>17 DEF Answered

LEMMA DeletionIsFollowedUp ==
    ASSUME Orderly(db), NEW t \in Work, NEW U \in SUBSET DOMAIN db.tasks, NEW r \in Derived(t),
           DeleteTask(t, U, r), NEW k \in DOMAIN db.goals, InGap(db', k)
    PROVE  Answered(t, U, k) \/ Lost(t, k)
<1> DEFINE c == Removed(t, U)
           without == Synced(c, t, r)
           before == Loaded.tasks[t].goal
           next == FollowedUp(without, t, before, None)
<1>0. SUFFICES ASSUME ~ Lost(t, k) PROVE Answered(t, U, k)
  OBVIOUS
<1>1. /\ Typed(Loaded, AnyTask) /\ Resolved(Loaded) /\ Disjoint(Loaded) /\ Alike(db, Loaded)
      /\ DOMAIN Loaded.tasks = DOMAIN db.tasks /\ DOMAIN Loaded.goals = DOMAIN db.goals
  BY Loads
<1>2. t \in DOMAIN db.tasks /\ t \in Task /\ t \notin Plan /\ t \notin Nat
  BY RecordsAssumption DEF DeleteTask, Task, Plan
<1>3. Commit(next, {"tasks", "goals"})
  BY DEF DeleteTask, Removed
<1> HIDE DEF c, without
<1>4. /\ Typed(c, AnyTask) /\ c.projects = Loaded.projects
      /\ \A p, v : <<p, v>> \in c.newer /\ v \notin U => <<p, v>> \in Loaded.newer
      /\ DOMAIN c.tasks = DOMAIN db.tasks \ {t}
      /\ \A v \in DOMAIN c.tasks : c.tasks[v] = Loaded.tasks[v]
      /\ DOMAIN c.goals = DOMAIN Loaded.goals
      /\ \A g \in DOMAIN Loaded.goals : /\ c.goals[g].active = Loaded.goals[g].active
                                        /\ c.goals[g].projects = Loaded.goals[g].projects
  BY <1>2, RemovedRow DEF c
<1>5. /\ Follows(c, t, r, without)
      /\ Typed(without, AnyTask) /\ ListsResolve(without) /\ Disjoint(without)
      /\ SameHierarchy(Loaded, without)
      /\ DOMAIN without.tasks = DOMAIN db.tasks \ {t} /\ DOMAIN without.tasks \subseteq Task
      /\ SameLinks(Loaded, without, {t})
  BY <1>2, DeletedRow DEF c, without
<1>6. /\ Typed(next, AnyTask) /\ Extended(without, next)
      /\ next.projects = db.projects
  <2>1. Typed(next, AnyTask) /\ Extended(without, next)
    BY <1>5, FollowUpExtends
  <2> HIDE DEF next
  <2>2. without.projects = Loaded.projects
    BY <1>4, <1>5 DEF Follows
  <2>3. QED BY <2>1, <2>2, LoadedFields DEF Extended
<1>7. InGap(next, k) /\ db'.tasks = next.tasks /\ Scope(db', k) = Scope(next, k)
  <2> HIDE DEF next
  <2>1. QED BY <1>3, <1>6, SavedGaps
<1>8. InGap(without, k) /\ k \notin {before} \union Above(without, before)
  <2> HIDE DEF before
  <2>1. QED BY <1>2, <1>5, <1>7, FollowUpClosesGaps
<1>9. k \in DOMAIN without.goals /\ k \in DOMAIN Loaded.goals /\ k \in Goal
  BY <1>1, <1>5 DEF SameHierarchy, Typed, GoalsTyped
<1>10. t \notin Scope(Loaded, k)
  <2>1. Above(Loaded, before) = Above(without, before)
    BY <1>5, SameWays DEF Above
  <2>2. SUFFICES ASSUME t \in Scope(Loaded, k) PROVE FALSE
    OBVIOUS
  <2>3. PICK h \in {k} \union Below(Loaded, k) :
            t \in Loaded.goals[h].tasks \/ Loaded.tasks[t].goal = h
    BY <2>2, ScopeMembers
  <2>4. h \in DOMAIN Loaded.goals /\ k \in {h} \union Above(Loaded, h)
    BY <1>9, <2>3 DEF Below, Above
  <2>5. h # before
    BY <1>8, <2>1, <2>4
  <2>6. t \in db.goals[h].tasks /\ db.tasks[t].goal # h
    BY <1>1, <1>2, <2>3, <2>4, <2>5 DEF Alike, GoalsAlike, TasksAlike
  <2>7. h \in {k} \union Below(db, k)
    BY <1>1, <2>3, Loads, SameBelow
  <2>8. QED BY <1>0, <2>6, <2>7 DEF Lost
<1>11. Scope(without, k) = Scope(Loaded, k)
  <2>1. t \notin Scope(without, k)
    BY <1>5, ScopeMembers
  <2>2. QED BY <1>5, <1>9, <1>10, <2>1, SameScope
<1>12. \A v \in Scope(without, k) : v \in Scope(db', k) /\ db'.tasks[v] = without.tasks[v]
  <2> HIDE DEF next
  <2>1. \A v \in DOMAIN without.tasks : v \in Scope(next, k) <=> v \in Scope(without, k)
    BY <1>6, <1>9, SameOldScope
  <2>2. \A v \in DOMAIN without.tasks : next.tasks[v] = without.tasks[v]
    BY <1>6 DEF Extended
  <2>3. QED BY <1>7, <2>1, <2>2, ScopeMembers
<1>13. t \notin Scope(db', k)
  <2>1. t \notin DOMAIN next.tasks
    BY <1>2, <1>5, <1>6 DEF Extended
  <2>2. QED BY <1>7, <2>1, ScopeMembers
<1>14. t \notin Scope(db, k)
  BY <1>1, <1>10, AlikeData
<1>15. InGap(db, k) \/ Dragged(U, k)
  <2>1. /\ k \in DOMAIN c.goals
        /\ \A p, v : <<p, v>> \in c.newer /\ v \notin U \union {t} => <<p, v>> \in Loaded.newer
        /\ \A v \in DOMAIN Loaded.tasks \ {t} : v \in DOMAIN c.tasks /\ c.tasks[v] = Loaded.tasks[v]
    BY <1>1, <1>4, <1>9
  <2>2. QED BY <1>2, <1>4, <1>5, <1>8, <1>9, <1>10, <1>11, <1>12, <2>1, OnlyDragged
<1>16. QED BY <1>13, <1>14, <1>15 DEF Answered

-----------------------------------------------------------------------------
(* The theorems *)

\* IInv holds in every state, whatever is requested.
THEOREM Invariance == Spec => []IInv
<1>1. IInv /\ [Next]_vars => IInv'
  BY StepsKeep DEF StepKeeps
<1>2. QED BY InitiallyInvariant, <1>1, PTL DEF Spec

\* The rows in the database and the forms have the types of their fields.
THEOREM TypeCorrect == Spec => []TypeOK
<1>1. IInv => TypeOK
  BY DEF IInv, Orderly, Typed, GoalsTyped, TasksTyped, TemplatesTyped, GoalRowOf, GoalRow,
         FormsTyped, FormType, TypeOK
<1>2. QED BY Invariance, <1>1, PTL

\* A task is on the list of one goal at most (applyGoalRelationships).
THEOREM ListsDisjoint == Spec => []ListsAreDisjoint
<1>1. IInv => ListsAreDisjoint
  BY DEF IInv, Orderly, Disjoint, ListsAreDisjoint
<1>2. QED BY Invariance, <1>1, PTL

\* What a load repaired can be saved again, but for a template whose source
\* belonged to a deleted project.
THEOREM StuckExplained == Spec => []StuckIsExplained
<1>1. IInv => StuckIsExplained
  BY RepairIsSound DEF IInv, Orderly, Loaded, StuckIsExplained
<1>2. QED BY Invariance, <1>1, PTL

\* Only a task form leaves a task on the list of a goal that it does not name.
THEOREM FormsMisplace == Spec => OnlyFormsMisplace
<1>1. IInv /\ [Next]_vars => Misplaces
  BY StepsKeep DEF StepKeeps
<1>2. QED BY Invariance, <1>1, PTL DEF Spec, OnlyFormsMisplace, Misplaces

\* A goal becomes its own ancestor only by an update whose check was overtaken.
THEOREM CyclesOvertaken == Spec => CyclesAreOvertaken
<1>1. IInv /\ [Next]_vars => Overtaken
  BY StepsKeep DEF StepKeeps
<1>2. QED BY Invariance, <1>1, PTL DEF Spec, CyclesAreOvertaken, Overtaken

\* A continuation task is made where there is no open work.
THEOREM PlansFill == Spec => PlansFillGaps
<1>1. IInv /\ [Next]_vars =>
         \A p \in Plan \intersect (DOMAIN db'.tasks \ DOMAIN db.tasks) :
            \A t \in Scope(db', db'.tasks[p].goal) \intersect DOMAIN db.tasks :
               db'.tasks[t].status # "open"
  BY StepsKeep DEF StepKeeps, Fills
<1>2. QED BY Invariance, <1>1, PTL DEF Spec, PlansFillGaps

\* A followed-up task change leaves no goal in a gap whose scope has the task, but
\* for those that lost it from their list, and opens no other gap, but for those of
\* the tasks it drags along.
THEOREM ChangesAreFollowedUp == Spec => TaskChangesAreFollowedUp
<1> DEFINE Right(g) ==
         /\ \A t \in Work \intersect DOMAIN db'.tasks :
              LET saved == db'.tasks[t]
              IN  \/ Answered(t, {}, g)
                  \/ ~ \E r \in Derived(t) : SaveTask(t, saved.goal, saved.status, r)
         /\ \A t \in Work \ DOMAIN db'.tasks, U \in SUBSET DOMAIN db.tasks :
              \/ Answered(t, U, g) \/ Lost(t, g)
              \/ ~ \E r \in Derived(t) : DeleteTask(t, U, r)
<1>1. ASSUME IInv, [Next]_vars, NEW g \in DOMAIN db.goals, InGap(db', g)
      PROVE  Right(g)
  <2>1. Orderly(db) /\ Orderly(db)'
    BY <1>1, StepsKeep DEF StepKeeps, IInv
  <2>2. ASSUME NEW t \in Work \intersect DOMAIN db'.tasks, NEW r \in Derived(t),
               SaveTask(t, db'.tasks[t].goal, db'.tasks[t].status, r)
        PROVE  Answered(t, {}, g)
    <3>1. db'.tasks[t] \in TaskRow
      BY <2>1 DEF Orderly, Typed, TasksTyped
    <3>2. db'.tasks[t].goal \in Goal \union {None} /\ db'.tasks[t].status \in TaskStatus
      BY <3>1 DEF TaskRow
    <3>3. QED BY <1>1, <2>1, <2>2, <3>2, SavedTaskIsFollowedUp
  <2>3. ASSUME NEW t \in Work, NEW U \in SUBSET DOMAIN db.tasks, NEW r \in Derived(t),
               DeleteTask(t, U, r)
        PROVE  Answered(t, U, g) \/ Lost(t, g)
    BY <1>1, <2>1, <2>3, DeletionIsFollowedUp
  <2>4. QED BY <2>2, <2>3
<1>2. IInv /\ [Next]_vars => \A g \in DOMAIN db.goals : InGap(db', g) => Right(g)
  BY <1>1
<1>3. QED BY Invariance, <1>2, PTL DEF Spec, TaskChangesAreFollowedUp
=============================================================================
