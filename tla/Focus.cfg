SPECIFICATION SideSpec
CONSTANTS
    Window = {w1, w2}
    LayerSurface = {l1}
    Nobody = none
    None = None
    left = left
    right = right
    Screen = {left, right}
    Loc <- MCLoc
    Factor <- MCFactor
    Modes <- MCModes
    ButtonAt <- MCButtonAt
    Finger = {f1}
    Spot = {0, 2, 3}
    Stride = 2
    Grown = 1
    Shots = 1
INVARIANTS
    KeyboardFocusIsTrue
    SelectionIsSound
PROPERTY MovesKeepSize
SYMMETRY WindowSymmetry
