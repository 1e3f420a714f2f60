SPECIFICATION PointerSpec
CONSTANTS
    Window = {w1}
    NoWindow = none
    Slot = {s1, s2}
    MaxContacts = 2
INVARIANTS
    GrabsMatchGestures
    DragsEndWithButtons
SYMMETRY FingerSymmetry
