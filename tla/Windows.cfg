SPECIFICATION WindowsSpec
CONSTANTS
  Output = {o1, o2}
  Name = {n1}
  None = None
  Nowhere = Nowhere
  Redirects = FALSE
  SlotSize = "slot"
  WorkingSize = "working"
  ViewSize = "view"
  FloatSize = {"small", "large"}
  OwnSize = "own"
  MaxInFlight = 2
  AsksBack = FALSE
SYMMETRY OutputSymmetry
INVARIANT OpensAsAsked ExchangeIsAnswered Settled
