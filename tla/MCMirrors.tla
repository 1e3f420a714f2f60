----------------------------- MODULE MCMirrors ------------------------------
(***************************************************************************)
(* What other programs know of the compositor, for TLC: a behaviour is     *)
(* that of the mirrors of the desktop (event streams, workspace and window *)
(* handles), of a PipeWire stream, of a screencast session on D-Bus, or of *)
(* the frames of wlr-screencopy.  The four share no state.                 *)
(***************************************************************************)
EXTENDS Mirrors, CastStream, CastSessions, Screencopy

CONSTANTS w1, w2, s1, s2, s3, o1, o2, n1

VARIABLE part   \* the one that this behaviour works on

allVars == <<vars, streamVars, sessionVars, copyVars, part>>

\* One output, two, the other one with its workspaces in another order, and none.
MCArrangements ==
    {[mons |-> (o1 :> <<s1, s2>>), stray |-> <<>>],
     [mons |-> (o1 :> <<s1>>) @@ (o2 :> <<s2, s3>>), stray |-> <<>>],
     [mons |-> (o2 :> <<s2, s1>>), stray |-> <<>>],
     [mons |-> <<>>, stray |-> <<s1, s2>>]}

\* What the others start from while one is at work.
FirstSize == CHOOSE s \in Size : TRUE

AllInit ==
    /\ part \in {"mirrors", "stream", "session", "copy"}
    /\ MirrorsInit /\ StreamInit /\ SessionInit /\ CopyInit
    /\ part # "stream" => output = FirstSize
    /\ part # "mirrors" => o1 \in Connected(desk) /\ Workspaces(desk) = {s1, s2} /\ DOMAIN desk.win = {}

AllNext ==
    \/ part = "mirrors" /\ MirrorsNext /\ UNCHANGED <<streamVars, sessionVars, copyVars, part>>
    \/ part = "stream" /\ StreamNext /\ UNCHANGED <<vars, sessionVars, copyVars, part>>
    \/ part = "session" /\ SessionNext /\ UNCHANGED <<vars, streamVars, copyVars, part>>
    \/ part = "copy" /\ CopyNext /\ UNCHANGED <<vars, streamVars, sessionVars, part>>

AllSpec == AllInit /\ [][AllNext]_allVars
=============================================================================
