CONSTANTS
    eDP = eDP
    HDMI = HDMI
    w1 = w1
    w2 = w2
    chat = chat
    mail = mail
    Nil = Nil
    Output <- MCOutput
    Window <- MCWindow
    Name <- MCName
    OpenOnOutput <- MCOpenOnOutput
    WorkspaceCount = 1
    EmptyAbove = FALSE
    MaxWorkspaces <- MCMaxWorkspaces
    MaxInUse = 2
    t1 = t1
    t2 = t2
    t3 = t3
    app = app
    Toplevel = {t1, t2, t3}
    App <- MCApp
    Nobody = Nobody
    Pending = Pending
    OutputWidth = 7
    Strut = 0
    Early = {t1, t2}
    MaxView = 2
    Meanwhile = FALSE
    Whereabouts <- MCWhereabouts
    Widths <- MCWidths
SYMMETRY WindowSymmetry
SPECIFICATION SideSpec
INVARIANTS NothingIsLost SwitcherIsSound
PROPERTIES MonitorsKeepTheirView SwitcherIsSteady
CHECK_DEADLOCK FALSE
