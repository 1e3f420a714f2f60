CONSTANTS
    eDP = eDP
    HDMI = HDMI
    w1 = w1
    w2 = w2
    chat = chat
    mail = mail
    Nil = Nil
    Output <- MCOutput
    Window <- MCWindow
    Name <- MCNames
    OpenOnOutput <- MCOpenOnOutput
    WorkspaceCount = 2
    EmptyAbove = FALSE
    MaxWorkspaces <- MCAtMostThree
    MaxInUse = 2
SYMMETRY WindowSymmetry
SPECIFICATION LayoutSpec
INVARIANT MonitorsHaveWorkspaces
CHECK_DEADLOCK FALSE
