------------------------------ MODULE MCLayers ------------------------------
(***************************************************************************)
(* The two layers of a workspace and the configuration for TLC, each on    *)
(* its own: a behaviour works on the tiling layer, on the floating layer   *)
(* or on the config. They share no state here; Workspace composes the      *)
(* layers.                                                                 *)
(***************************************************************************)
EXTENDS ScrollingSpace, FloatingSpace, Config

CONSTANTS user, system, part

VARIABLE layer   \* the one that this behaviour works on

layersVars == <<scrolling, floating, parent, configVars, layer>>

\* The working area that floating behaviours have.
FirstArea == CHOOSE a \in Area : TRUE

\* A bound: the tiling layer is full in one working area only.
FewOutsideFirst ==
    scrolling'.area = FirstArea \/ Cardinality(SpaceWindows(scrolling')) < Cardinality(Window)

\* The config of the user, or else that of the system, and a file that both include and that
\* may include them.
MCPath == <<user, system>>
Including(f, optional) == [kind |-> "include", file |-> f, optional |-> optional]
Setting(section, value) == [kind |-> "single", name |-> section, value |-> value]
Adding(kind, value) == [kind |-> kind, value |-> value]
MCTexts ==
    (user :> {<<Including(part, FALSE), Setting("xkb", "us")>>,
              <<Including(part, TRUE), Adding("mru", "a"), Adding("output", "o1")>>}) @@
    (system :> {<<Adding("workspace", "w"), Including(part, FALSE), Including(user, TRUE)>>}) @@
    (part :> {<<Setting("xkb", "de"), Adding("mru", "b")>>,
              <<Adding("bad", "?"), Including(user, FALSE)>>,
              <<Including(system, TRUE)>>})
MCDefaultText == <<Setting("xkb", "us")>>

\* A config that a behaviour of the layers leaves alone: the default one.
DefaultDisk == [f \in File |-> IF f = user THEN Saved(DefaultText, 0) ELSE None]

LayersInit ==
    /\ layer \in {"tiling", "floating", "config"}
    /\ IF layer = "tiling" THEN Init ELSE scrolling = NewSpace(FirstArea)
    /\ FloatingInit
    /\ ConfigInit
    /\ layer # "config" => disk = DefaultDisk

LayersNext ==
    \/ layer = "tiling" /\ Next /\ FewOutsideFirst /\ UNCHANGED <<floatingVars, configVars, layer>>
    \/ layer = "floating" /\ FloatingNext /\ UNCHANGED <<vars, configVars, layer>>
    \/ layer = "config" /\ ConfigNext /\ UNCHANGED <<vars, floatingVars, layer>>

LayersSpec == LayersInit /\ [][LayersNext]_layersVars

\* Windows are interchangeable.
WindowSymmetry == Permutations(Window)
=============================================================================
