SPECIFICATION LayersSpec
CONSTANTS
  Window = {w1, w2, w3, w4}
  Area = {a1, a2}
  NudgeStep = 70
  MaxChildren = 2
  None = None
  user = user
  system = system
  part = part
  File = {user, system, part}
  ConfigPath <- MCPath
  Texts <- MCTexts
  Elsewhere = {part}
  DefaultText <- MCDefaultText
  Section = {"xkb", "input"}
  Layouts = {"fr"}
  RECURSION_LIMIT = 2
  MaxEvents = 2
  UnseenEdits = FALSE
SYMMETRY WindowSymmetry
INVARIANT SlotSizesRequested SwapRoundTrip ChildrenAboveParents ConfigIsCurrent
PROPERTY ActiveSurvivesRearrangement ArrivalIsVisible
