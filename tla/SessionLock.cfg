SPECIFICATION SideSpec
CONSTANTS
    Output = {o1, o2}
    RogueVBlanks = FALSE
    Transitions = FALSE
    t1 = t1
    t2 = t2
    t3 = t3
    f1 = f1
    bar = bar
    dock = dock
    paper = paper
    wall = wall
    note = note
    Nothing = Nothing
    Scenes <- MCScenes
    WorkingArea = {1, 2, 3, 4, 5, 6, 7}
    HotCorner = {0}
    SwitchDuration = 1
    OverviewDuration = 2
    Unit = 24
    MaxTurns = 2
SYMMETRY OutputSymmetry
INVARIANTS NoPanic LockedMeansBlanked InputMatchesVisuals
PROPERTIES KeepsContract LockedNeverReveals ViewIsContinuous
