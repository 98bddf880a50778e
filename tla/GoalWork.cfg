SPECIFICATION Spec
CONSTANTS
    g1 = g1
    g2 = g2
    w1 = w1
    w2 = w2
    p1 = p1
    p2 = p2
    m1 = m1
    m2 = m2
    e1 = e1
    none = none
    None <- none
    Goal = {g1, g2}
    Work = {w1, w2}
    Project = {p1, p2}
    Template = {m1, m2}
    Editor = {e1}
    MaxPlans = 2
    Parent <- PartOf
    WorkRows <- NewWork
    TemplateForms <- Templates
    GoalForms <- Sent
    Reports = {"open", "done"}
SYMMETRY Alike
CONSTRAINT Apart
CHECK_DEADLOCK FALSE
INVARIANTS
    TypeOK
    ListsAreDisjoint
    StuckIsExplained
PROPERTIES
    OnlyFormsMisplace
    CyclesAreOvertaken
    PlansFillGaps
    TaskChangesAreFollowedUp
