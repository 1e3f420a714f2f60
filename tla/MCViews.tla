------------------------------ MODULE MCViews -------------------------------
(***************************************************************************)
(* The layout of two outputs and the window switcher, for TLC: a behaviour *)
(* is that of one of them.  The two share no state.                        *)
(***************************************************************************)
EXTENDS MCLayout, Mru

CONSTANTS t1, t2, t3, app

VARIABLE part   \* the one that this behaviour works on

\* Two windows of one application and one that does not say.
MCApp == (t1 :> app) @@ (t2 :> app) @@ (t3 :> Nobody)
MCWhereabouts ==
    {(t1 :> "here") @@ (t2 :> "output") @@ (t3 :> "here"),
     (t1 :> "away") @@ (t2 :> "here") @@ (t3 :> "output")}
MCWidths == (t1 :> {1, 2}) @@ (t2 :> {2}) @@ (t3 :> {1})

SideInit ==
    /\ part \in {"layout", "switcher"}
    /\ LayoutInit /\ MruInit
    /\ part = "switcher" => orphans = <<>>

SideNext ==
    \/ part = "layout" /\ LayoutNext /\ UNCHANGED <<mruVars, part>>
    \/ part = "switcher" /\ MruNext /\ UNCHANGED <<layoutVars, part>>

SideSpec == SideInit /\ [][SideNext]_<<layoutVars, mruVars, part>>
=============================================================================
