------------------------------ MODULE Mirrors ------------------------------
(***************************************************************************)
(* The mirrors of the desktop that other programs see, composed: the IPC   *)
(* event stream and the workspace and toplevel protocols, all brought up   *)
(* to date by State::refresh() at the end of a turn of the event loop in   *)
(* which any of the clients and the layout may have taken steps.           *)
(***************************************************************************)
EXTENDS EventStream, Handles

CONSTANT MaxClients    \* bound: clients connected at a time

vars == <<deskVars, ipcVars, handleVars>>

\* State::refresh(), the part that follows refresh_pointer_contents().
Refresh ==
    /\ dirty /\ ~panicked
    /\ dirty' = FALSE
    /\ IpcRefresh
    /\ HandlesRefresh
    /\ UNCHANGED <<desk, gone, changes>>

\* The clients do not meet: what one does another only sees through the desktop.
Clients ==
    (IF replica # Nil THEN 1 ELSE 0) + (IF actions # Nil THEN 1 ELSE 0)
    + (IF managed # "off" THEN 1 ELSE 0)

Connect ==
    /\ Clients < MaxClients
    /\ \/ Subscribe /\ UNCHANGED handleVars
       \/ (BindBar \/ BindPanel) /\ UNCHANGED ipcVars

\* An assignment that waits holds its output weakly, and is left with none.
GlobalRemoved ==
    \E o \in Output :
        /\ ForgetGlobal(o)
        /\ actions' = IF actions = Nil THEN Nil
                      ELSE [i \in DOMAIN actions |->
                               IF actions[i].output = o THEN [actions[i] EXCEPT !.output = Nil]
                               ELSE actions[i]]
        /\ UNCHANGED <<ipcVars, ext, bar, toplevels, panel, managed, panicked>>

MirrorsInit == DeskInit /\ IpcInit /\ HandlesInit

MirrorsNext ==
    \/ DeskStep /\ UNCHANGED <<ipcVars, handleVars>>
    \/ GlobalRemoved
    \/ ConfigLoaded /\ UNCHANGED handleVars
    \/ Connect
    \/ IpcStep /\ UNCHANGED handleVars
    \/ HandlesStep /\ UNCHANGED ipcVars
    \/ ActivateToplevel /\ UNCHANGED ipcVars
    \/ Refresh

MirrorsSpec == MirrorsInit /\ [][MirrorsNext]_vars

=============================================================================
