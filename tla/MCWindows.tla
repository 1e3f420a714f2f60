------------------------------ MODULE MCWindows -----------------------------
(***************************************************************************)
(* The two halves of a window's life for TLC, each on its own: a behaviour *)
(* is either that of a toplevel until it is mapped, or that of a mapped    *)
(* window and its configures. They share no state.                         *)
(***************************************************************************)
EXTENDS Opening, Configures, TLC

VARIABLE half   \* the one that this behaviour works on

windowsVars == <<openVars, confVars, half>>

\* The state of the half that is left alone.
ConfIdle ==
    LET state == [mode |-> "Normal", size |-> SlotSize, resizing |-> FALSE]
    IN  /\ mapped = MappedNew(state, state) /\ sent = <<>>
        /\ committed = [config |-> [state |-> state, wfs |-> FALSE, max |-> FALSE], geometry |-> SlotSize]
        /\ floating = FALSE /\ resizing = FALSE /\ dirty = FALSE /\ owed = FALSE
        /\ asked = SlotSize /\ told = SlotSize

OpenIdle ==
    /\ env = [outs |-> {}, active |-> None, home |-> [n \in Name |-> None], shown |-> {}, parent |-> None]
    /\ win = UnmappedNew /\ opened = NotOpened /\ hist = NoHistory

WindowsInit ==
    \/ half = "unmapped" /\ OpenInit /\ ConfIdle
    \/ half = "mapped" /\ ConfInit /\ OpenIdle

WindowsNext ==
    \/ half = "unmapped" /\ OpenNext /\ UNCHANGED <<confVars, half>>
    \/ half = "mapped" /\ ConfNext /\ UNCHANGED <<openVars, half>>

WindowsSpec == WindowsInit /\ [][WindowsNext]_windowsVars

\* Outputs are interchangeable.
OutputSymmetry == Permutations(Output)
=============================================================================
