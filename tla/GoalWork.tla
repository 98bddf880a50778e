------------------------------- MODULE GoalWork -------------------------------
(***************************************************************************)
(* Goals, their tasks, projects and task templates under the handlers that *)
(* change them.  A handler validates its input on one load and computes    *)
(* its update on a later one, where it is refused as a whole if anything   *)
(* refers to a record that is gone; so an input is any id there ever was.  *)
(* What survives from the first load is the check that a new parent makes  *)
(* no cycle: only this makes a request two steps.                          *)
(***************************************************************************)
EXTENDS GoalRecords

CONSTANTS
    Editor,          \* overlapping goal updates
    WorkRows,        \* the rows a created task may have
    TemplateForms,   \* the templates that may be created or edited, with their rows
    GoalForms,       \* what the page or the agent API may send besides the parent
    Reports          \* the statuses a task may be given

ASSUME WorkAssumption ==
    /\ WorkRows \subseteq TaskRow
    /\ TemplateForms \subseteq Template \X TemplateRow
    /\ GoalForms \subseteq [byAgent: BOOLEAN, active: BOOLEAN,
                             tasks: SUBSET Task, projects: SUBSET Project]
    /\ Reports \subseteq TaskStatus

VARIABLES
    db,       \* the rows in the database
    form      \* what each editor is about to save

vars == <<db, form>>

NoRows == [i \in {} |-> None]
Idle == [goal |-> None, parent |-> None, fresh |-> FALSE]

TypeOK ==
    /\ db.projects \subseteq Project
    /\ DOMAIN db.goals \subseteq Goal /\ \A g \in DOMAIN db.goals : db.goals[g] \in GoalRow
    /\ DOMAIN db.tasks \subseteq Task /\ \A t \in DOMAIN db.tasks : db.tasks[t] \in TaskRow
    /\ DOMAIN db.templates \subseteq Template
    /\ \A m \in DOMAIN db.templates : db.templates[m] \in TemplateRow
    /\ db.newer \subseteq Plan \X Work
    /\ form \in [Editor -> [goal: Goal \union {None}, parent: Goal \union {None}, fresh: BOOLEAN]]

Init ==
    /\ db = [projects |-> Project, goals |-> NoRows, tasks |-> NoRows, templates |-> NoRows,
             newer |-> {}]
    /\ form = [e \in Editor |-> Idle]

\* What every handler reads.
Loaded == Repaired(db)

-----------------------------------------------------------------------------
(* Saving *)

\* The update is saved if the whole of next is sound: the named collections,
\* the others stay as they are in the database.  (MaxPlans bounds the number
\* of continuation tasks.)
Commit(next, names) ==
    /\ Sound(next)
    /\ DOMAIN next.tasks \subseteq Task
    /\ db' = [next EXCEPT
                !.projects = IF "projects" \in names THEN @ ELSE db.projects,
                !.goals = IF "goals" \in names THEN @ ELSE db.goals,
                !.tasks = IF "tasks" \in names THEN @ ELSE db.tasks,
                !.templates = IF "templates" \in names THEN @ ELSE db.templates]

\* A goal that stays keeps its parent.
HierarchyKept ==
    \A g \in DOMAIN db.goals :
       g \in DOMAIN db'.goals /\ db'.goals[g].parent = db.goals[g].parent
Overtake(f) ==
    form' = IF HierarchyKept THEN f ELSE [e \in Editor |-> [f[e] EXCEPT !.fresh = FALSE]]

\* An id that no row and no form refers to is as good as a new one.
Mentioned ==
    DOMAIN db.goals \union DOMAIN db.tasks \union DOMAIN db.templates
        \union UNION {{db.goals[g].parent} \union db.goals[g].tasks : g \in DOMAIN db.goals}
        \union UNION {{db.tasks[t].goal, db.tasks[t].template} : t \in DOMAIN db.tasks}
        \union UNION {{db.templates[m].goal, db.templates[m].source} : m \in DOMAIN db.templates}
        \union UNION {{form[e].goal, form[e].parent} : e \in Editor}

-----------------------------------------------------------------------------
(* Tasks.  A change of a task brings its workflow parent up to date before it  *)
(* is followed up and saved.                                                   *)

\* The statuses that the parent of t, if there, may come to have.
Derived(t) == IF Parent[t] \in DOMAIN db.tasks THEN Reports ELSE {None}

\* A task is created, from a template or not; its goal, if there, is related
\* to it and to the tasks it has.
CreateTask(t, row, r) ==
    /\ t \in Work \ Mentioned
    /\ LET old == Loaded
           with == [old EXCEPT !.tasks = With(@, t, row)]
           d == Synced([with EXCEPT !.newer = Touched(with, {t})], t, r)
           g == row.goal
       IN  IF g \in DOMAIN d.goals
           THEN Commit(Related(d, g, d.goals[g].parent, LinkedProjects(d, g), Linked(d, g)),
                       {"tasks", "goals"})
           ELSE Commit(d, {"tasks"})
    /\ Overtake(form)

\* The task form writes status and goal; the goals' lists are not brought up
\* to date.  The agent API and the governance decisions keep the goal.
SaveTask(t, goal, status, r) ==
    /\ t \in DOMAIN db.tasks
    /\ LET old == Loaded
           moved == Synced([old EXCEPT !.tasks[t].goal = goal, !.tasks[t].status = status,
                                       !.newer = Touched(old, {t})], t, r)
           next == FollowedUp(moved, t, old.tasks[t].goal, goal)
       IN  Commit(next, IF next # moved THEN {"tasks", "goals"} ELSE {"tasks"})
    /\ Overtake(form)

\* An execution surface or a thread reports: nothing is followed up.
ReportTask(t, status, r) ==
    /\ t \in DOMAIN db.tasks
    /\ Commit(Synced([Loaded EXCEPT !.tasks[t].status = status, !.newer = Touched(Loaded, {t})],
                     t, r), {"tasks"})
    /\ Overtake(form)

\* The tasks U that depended on t, or were its children, are updated.  The
\* affected goals are looked up after t was taken off their lists.
DeleteTask(t, U, r) ==
    /\ t \in DOMAIN db.tasks
    /\ U \subseteq DOMAIN db.tasks \ {t}
    /\ LET old == Loaded
           without == Synced([old EXCEPT
              !.tasks = Without(@, t),
              !.goals = [g \in DOMAIN @ |-> Unlisted(@[g], {t})],
              !.newer = {pr \in Touched(old, U) : t \notin {pr[1], pr[2]}}], t, r)
       IN  Commit(FollowedUp(without, t, old.tasks[t].goal, None), {"tasks", "goals"})
    /\ Overtake(form)

-----------------------------------------------------------------------------
(* Goals *)

\* Goals, by page or agent API, are created and related without follow-up.
CreateGoal(g, h, sent) ==
    /\ g \in Goal \ Mentioned
    /\ h # g
    /\ LET new == [active |-> sent.active, parent |-> h, tasks |-> {}, projects |-> {}]
       IN  Commit(Related([Loaded EXCEPT !.goals = With(@, g, new)], g, h, sent.projects, sent.tasks),
                  {"goals", "tasks"})
    /\ Overtake(form)

\* The checks of a goal update, on the load they are made on.
Admitted(g, h) ==
    /\ g \in DOMAIN db.goals
    /\ h \in DOMAIN db.goals \union {None}
    /\ ~ WouldCycle(Loaded, g, h) /\ WalkEnds(Loaded, h)

\* The update itself, on the goals and tasks as they are by now; if the goal is
\* gone it is refused or changes nothing.  The agent API continues the goal,
\* the page does not.
GoalSaved(g, h, sent) ==
    LET d == [Loaded EXCEPT !.goals[g].active = sent.active]
        related == Related(d, g, h, sent.projects, sent.tasks)
    IN  /\ g \in DOMAIN db.goals
        /\ Commit(IF sent.byAgent /\ InGap(related, g) THEN Planned(related, g) ELSE related,
                  {"goals", "tasks"})

\* No other change comes between the checks and the update.
EditGoal(g, h, sent) ==
    /\ Admitted(g, h)
    /\ GoalSaved(g, h, sent)
    /\ Overtake(form)

\* Other changes may come between them.
BeginGoalEdit(e, g, h) ==
    /\ form[e] = Idle
    /\ Admitted(g, h)
    /\ form' = [form EXCEPT ![e] = [goal |-> g, parent |-> h, fresh |-> TRUE]]
    /\ UNCHANGED db

SaveGoalEdit(e, sent) ==
    /\ form[e] # Idle
    /\ GoalSaved(form[e].goal, form[e].parent, sent)
    /\ Overtake([form EXCEPT ![e] = Idle])

\* An update that is refused, or whose process stops, changes nothing.
Refuse(e) ==
    /\ form[e] # Idle
    /\ form' = [form EXCEPT ![e] = Idle]
    /\ UNCHANGED db

\* The children go to the parent, the tasks name no goal.
DeleteGoal(g) ==
    /\ g \in DOMAIN db.goals
    /\ LET freed == {t \in DOMAIN Loaded.tasks : Loaded.tasks[t].goal = g}
           next == [Loaded EXCEPT
              !.goals = [h \in DOMAIN @ \ {g} |->
                           IF @[h].parent = g THEN [@[h] EXCEPT !.parent = Loaded.goals[g].parent]
                           ELSE @[h]],
              !.tasks = [t \in DOMAIN @ |-> IF t \in freed THEN [@[t] EXCEPT !.goal = None] ELSE @[t]],
              !.newer = Touched(Loaded, freed)]
       IN  Commit(next, {"goals", "tasks"})
    /\ Overtake(form)

-----------------------------------------------------------------------------
(* Projects and templates *)

\* That the project has no task was checked on an earlier load, as early as one
\* likes.  Its templates stay in the database.
DeleteProject(p) ==
    /\ p \in db.projects
    /\ Commit([Loaded EXCEPT
                 !.projects = @ \ {p},
                 !.goals = [g \in DOMAIN @ |-> OutOf(@[g], p)]],
              {"projects", "goals"})
    /\ Overtake(form)

SaveTemplate(m, row) ==
    /\ m \in (Template \ Mentioned) \union DOMAIN Loaded.templates
    /\ row.source # m
    /\ Commit([Loaded EXCEPT !.templates = With(@, m, row)], {"templates"})
    /\ Overtake(form)

DeleteTemplate(m) ==
    /\ m \in DOMAIN Loaded.templates
    /\ Commit([Loaded EXCEPT !.templates = Without(@, m)], {"templates"})
    /\ Overtake(form)

-----------------------------------------------------------------------------

Next ==
    \/ \E t \in Work, row \in WorkRows : \E r \in Derived(t) : CreateTask(t, row, r)
    \/ \E t \in Task, g \in Goal \union {None}, s \in Reports : \E r \in Derived(t) :
          SaveTask(t, g, s, r)
    \/ \E t \in Task, s \in Reports : \E r \in Derived(t) : ReportTask(t, s, r)
    \/ \E t \in Task, U \in SUBSET DOMAIN db.tasks : \E r \in Derived(t) : DeleteTask(t, U, r)
    \/ \E g \in Goal, h \in Goal \union {None}, f \in GoalForms : CreateGoal(g, h, f)
    \/ \E g \in Goal, h \in Goal \union {None}, f \in GoalForms : EditGoal(g, h, f)
    \/ \E e \in Editor, g \in Goal, h \in Goal \union {None} : BeginGoalEdit(e, g, h)
    \/ \E e \in Editor, f \in GoalForms : SaveGoalEdit(e, f)
    \/ \E e \in Editor : Refuse(e)
    \/ \E g \in Goal : DeleteGoal(g)
    \/ \E p \in Project : DeleteProject(p)
    \/ \E f \in TemplateForms : SaveTemplate(f[1], f[2])
    \/ \E m \in Template : DeleteTemplate(m)

Spec == Init /\ [][Next]_vars

-----------------------------------------------------------------------------
(* Properties *)

\* A task is on the list of one goal at most: what relates it to a goal takes it
\* off every other list (applyGoalRelationships).
ListsAreDisjoint ==
    \A g, h \in DOMAIN db.goals :
       g # h => db.goals[g].tasks \intersect db.goals[h].tasks = {}

\* A task that is on the list of a goal and does not name it got there by a task
\* form, which writes the task only.
Astray(d) ==
    {t \in DOMAIN d.tasks :
        \E g \in DOMAIN d.goals : t \in d.goals[g].tasks /\ d.tasks[t].goal # g}
OnlyFormsMisplace ==
    [][\A t \in Astray(db') \ Astray(db) :
          \E g \in Goal \union {None}, s \in Reports :
             \E r \in Derived(t) : SaveTask(t, g, s, r)]_vars

\* What is loaded can be saved again (the repair leaves nothing that the update
\* refuses), unless a template was derived from one whose project was deleted.
StuckIsExplained ==
    LET d == Loaded IN
    Sound(d) \/ \E m \in DOMAIN d.templates :
       /\ d.templates[m].source \in DOMAIN db.templates
       /\ db.templates[d.templates[m].source].project \notin db.projects

\* A goal becomes its own ancestor only by an update whose check for that
\* (wouldCreateGoalCycle) another change of the hierarchy overtook.
Circular(d) == {g \in DOMAIN d.goals : Reaches(d, g, g, {})}
CyclesAreOvertaken ==
    [][Circular(db') \ Circular(db) # {} =>
          \E e \in Editor : form[e] # Idle /\ ~ form[e].fresh /\ form'[e] = Idle]_vars

\* A continuation task is made where there is no open work: of the tasks there
\* were in the scope of its goal, none is open (so there are never two open ones
\* by continuation alone).
PlansFillGaps ==
    [][LET d == db' IN
       \A p \in Plan \intersect (DOMAIN d.tasks \ DOMAIN db.tasks) :
          \A t \in Scope(d, d.tasks[p].goal) \intersect DOMAIN db.tasks :
             d.tasks[t].status # "open"]_vars

\* A task change that is followed up (updateTaskRecord, deleteTaskRecords) leaves
\* no goal in a gap that had the task in its scope, before or after, except those
\* that listed a deleted task which named another goal, and those above them.
\* To other goals it opens no gap, unless tasks that it drags along are in their
\* scope, where nothing looks: tasks of U that depended on the deleted one and are
\* done, or the workflow parent that got another status.
Dragged(U, g) ==
    \E v \in Scope(db', g) \intersect DOMAIN db.tasks :
       \/ v \in U \ Plan /\ db'.tasks[v].status = "done"
       \/ db'.tasks[v].status # db.tasks[v].status
Answered(t, U, g) ==
    /\ t \notin Scope(db, g) \union Scope(db', g)
    /\ InGap(db, g) \/ Dragged(U, g)
Lost(t, g) ==
    \E h \in {g} \union Below(db, g) : t \in db.goals[h].tasks /\ db.tasks[t].goal # h
TaskChangesAreFollowedUp ==
    [][\A g \in DOMAIN db.goals : InGap(db', g) =>
         /\ \A t \in Work \intersect DOMAIN db'.tasks :
              LET saved == db'.tasks[t]
              IN  \/ Answered(t, {}, g)
                  \/ ~ \E r \in Derived(t) : SaveTask(t, saved.goal, saved.status, r)
         /\ \A t \in Work \ DOMAIN db'.tasks, U \in SUBSET DOMAIN db.tasks :
              \/ Answered(t, U, g) \/ Lost(t, g)
              \/ ~ \E r \in Derived(t) : DeleteTask(t, U, r)]_vars
=============================================================================
