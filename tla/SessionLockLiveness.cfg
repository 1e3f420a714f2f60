SPECIFICATION FairLockSpec
CONSTANTS
  Output = {o1}
  RogueVBlanks = FALSE
  Transitions = TRUE
PROPERTY StaleIsRedrawn MeetsContract LockedIsShown
