SPECIFICATION WsSpec
CONSTANTS
  Window = {w1, w2, w3}
  Area = {a1}
  NudgeStep = 70
  MaxChildren = 0
SYMMETRY WindowSymmetry
INVARIANT SomeWindowActive
PROPERTY ChangingLayersKeepsActive
