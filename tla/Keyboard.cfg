SPECIFICATION KeySpec
CONSTANTS
    Key = {Mod, Esc, Ret, Plain}
    Modifier = {Mod}
    Escape = Esc
    Return = Ret
    MaxUnpaired = 1
INVARIANT KeysBalanced LockedClosesUis
CHECK_DEADLOCK FALSE
