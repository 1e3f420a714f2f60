------------------------------ MODULE Outputs ------------------------------
(***************************************************************************)
(* Output configuration: which connected outputs are on, in which mode and *)
(* where, and what output management clients (zwlr_output_manager_v1) are  *)
(* told about it and may ask for.                                          *)
(*                                                                         *)
(* Outputs stand in one row: a position is an x coordinate, a mode is a    *)
(* width.  The serial of the protocol is only ever compared for equality   *)
(* with the current one, so a configuration object just remembers whether  *)
(* it is `fresh`.                                                          *)
(***************************************************************************)
EXTENDS Integers, Sequences

CONSTANTS
    Outs,           \* outputs, in the order of their names
    Clients,        \* output management clients
    Native,         \* [output -> the lists of modes its connector may report]
    Picks,          \* bound: [output -> the configurations users and clients pick]
    MaxChanges      \* bound: changes in one turn of the event loop

OutSet == {Outs[i] : i \in DOMAIN Outs}
Nowhere == -1
NoMode == 0

\* What a configuration says of one output.
Section == [off : BOOLEAN, mode : Nat, position : Nat \cup {Nowhere}]

ASSUME OutputsAssumption ==
    /\ Outs \in Seq(OutSet) /\ \A i, j \in DOMAIN Outs : Outs[i] = Outs[j] => i = j
    /\ \A o \in OutSet : /\ Native[o] # {}
                         /\ \A ms \in Native[o] : ms \in Seq(Nat \ {NoMode}) /\ ms # <<>>
                         /\ \A new \in Picks[o] : new \in Section
    /\ MaxChanges \in Nat

VARIABLES
    conn,       \* 0: not connected; otherwise which of two ids the connector has
    native,     \* the modes each connector reports; the preferred one comes first
    cfg,        \* the config's output sections; an output without one has the default
    pos,        \* global_space: where each enabled output is
    dirty,      \* ipc_outputs_changed: how many changes since the clients were last told
    om,         \* OutputManagementManagerState's current_state: [id -> report]
    bound,      \* the clients that the state knows: those with a manager
    heads,      \* what each client was told: [client -> [id -> view]]
    confs,      \* each client's configuration object
    unplaced,   \* history: a mode changed by itself since outputs were last placed
    miscounted  \* history: ids whose mode count changed along with the current mode

outputVars == <<conn, native, cfg, pos, dirty, om, bound, heads, confs, unplaced, miscounted>>

\* Output::default(): on, the preferred mode, placed automatically.
DefaultOutput == [off |-> FALSE, mode |-> NoMode, position |-> Nowhere]

----------------------------------------------------------------------------
(* What is on, in which mode, and where.                                   *)

IsOn(k, c, o) == k[o] # 0 /\ ~c[o].off

\* A mode the connector does not report is taken as a custom one.
pick_mode(n, c, o) == IF c[o].mode = NoMode THEN n[o][1] ELSE c[o].mode

Overlaps(x, w, y, v) == x < y + v /\ y < x + w

FallBackToCorner(placed, width) ==
    LET edges == {placed[o] : o \in DOMAIN placed} IN
    IF edges = {} THEN 0 ELSE CHOOSE e \in edges : \A f \in edges : e >= f

\* Automatic placement: to the right of everything placed so far.
FallBack(placed, width) ==
    LET edges == {placed[o] + width[o] : o \in DOMAIN placed} IN
    IF edges = {} THEN 0 ELSE CHOOSE e \in edges : \A f \in edges : e >= f

\* A configured position that overlaps an output already placed is not honoured.
PlaceAt(placed, width, o, want) ==
    LET clash == \E e \in DOMAIN placed : Overlaps(want, width[o], placed[e], width[e])
        x == IF want = Nowhere \/ clash THEN FallBack(placed, width) ELSE want
    IN  [e \in DOMAIN placed \cup {o} |-> IF e = o THEN x ELSE placed[e]]

\* In name order, twice: first the outputs with a configured position, then the others.
InTurn(i) == Outs[IF i <= Len(Outs) THEN i ELSE i - Len(Outs)]

HasTurn(k, c, i) ==
    /\ IsOn(k, c, InTurn(i))
    /\ c[InTurn(i)].position # Nowhere <=> i <= Len(Outs)

reposition_outputs(k, n, c) ==
    LET width == [o \in OutSet |-> pick_mode(n, c, o)]
        placed[i \in 0 .. 2 * Len(Outs)] ==
            IF i = 0 THEN <<>>
            ELSE IF HasTurn(k, c, i) THEN PlaceAt(placed[i - 1], width, InTurn(i), c[InTurn(i)].position)
            ELSE placed[i - 1]
    IN  placed[2 * Len(Outs)]

\* Every change of outputs or of their configuration ends here.
Arranged(k, n, c) ==
    /\ pos' = reposition_outputs(k, n, c)
    /\ dirty' = dirty + 1
    /\ unplaced' = FALSE

\* A connector is disconnected, connected with an id of its own, or both in one turn.
Hotplug(o, id) ==
    /\ dirty < MaxChanges
    /\ id # conn[o]
    /\ id # 0 => <<o, id>> \notin DOMAIN om
    /\ id = 2 => <<o, 1>> \in DOMAIN om
    /\ conn' = [conn EXCEPT ![o] = id]
    /\ Arranged(conn', native, cfg)
    /\ UNCHANGED <<native, cfg, om, bound, heads, confs, miscounted>>

\* The list of modes of a connected connector changes: on_output_config_changed() picks
\* a mode again and output_resized() follows, but nothing places the outputs anew.
ModesChange(o, ms) ==
    /\ conn[o] # 0
    /\ ms \in Native[o] \ {native[o]}
    /\ native' = [native EXCEPT ![o] = ms]
    /\ dirty < MaxChanges
    /\ dirty' = dirty + 1
    /\ unplaced' = (unplaced \/ (IsOn(conn, cfg, o)
                                 /\ pick_mode(native', cfg, o) # pick_mode(native, cfg, o)))
    /\ UNCHANGED <<conn, cfg, pos, om, bound, heads, confs, miscounted>>

\* The config file or an IPC output action changes the section of one output.
reload_output_config(o, new) ==
    /\ dirty < MaxChanges
    /\ new # cfg[o]
    /\ cfg' = [cfg EXCEPT ![o] = new]
    /\ Arranged(conn, native, cfg')
    /\ UNCHANGED <<conn, native, om, bound, heads, confs, miscounted>>

----------------------------------------------------------------------------
(* Telling the clients.                                                    *)

\* sol_ipc::Output: a custom mode is put in front of the connector's modes.
Report(o) ==
    LET on == IsOn(conn, cfg, o)
        m == pick_mode(native, cfg, o)
        custom == on /\ \A i \in DOMAIN native[o] : native[o][i] # m
        modes == IF custom THEN <<m>> \o native[o] ELSE native[o]
    IN  [modes |-> modes,
         current |-> IF on THEN CHOOSE i \in DOMAIN modes : modes[i] = m ELSE 0,
         logical |-> IF on THEN pos[o] ELSE Nowhere]

IpcOutputs ==
    LET there == {o \in OutSet : conn[o] # 0} IN
    [id \in {<<o, conn[o]>> : o \in there} |-> Report(id[1])]

\* send_new_head(): a view of everything.
NewHead(r) == [modes |-> r.modes, enabled |-> r.current # 0,
               current |-> r.current, position |-> r.logical]

\* The events one head gets when its report goes from `old` to `new`.
UpdatedForgetsEnabled(v, old, new) ==
    [modes |-> new.modes,
     enabled |-> IF new.current = 0 THEN FALSE ELSE v.enabled,
     current |-> IF new.current # 0 /\ Len(old.modes) = Len(new.modes)
                 THEN new.current ELSE v.current,
     position |-> IF new.logical # Nowhere THEN new.logical ELSE v.position]

Updated(v, old, new) ==
    LET sameCount == Len(old.modes) = Len(new.modes) IN
    [modes |-> new.modes,
     enabled |-> CASE old.current # 0 /\ new.current = 0 -> FALSE
                   [] old.current = 0 /\ new.current # 0 /\ sameCount -> TRUE
                   [] OTHER -> v.enabled,
     current |-> IF new.current # 0 /\ sameCount /\ (new.modes # old.modes
                                                     \/ new.current # old.current)
                 THEN new.current ELSE v.current,
     position |-> IF new.logical # Nowhere THEN new.logical ELSE v.position]

\* The serial moves on: every configuration object is outdated and hears `cancelled`.
Outdated(cs) ==
    [c \in Clients |-> [cs[c] EXCEPT !.fresh = FALSE,
                                     !.answered = @ \/ cs[c].state # "none",
                                     !.entries = <<>>]]

\* State::refresh_ipc_outputs() and notify_changes(), at the end of a turn.
notify_changes ==
    LET new == IpcOutputs
        both == DOMAIN new \cap DOMAIN om
        recount == {id \in both : /\ Len(new[id].modes) # Len(om[id].modes)
                                  /\ new[id].current # 0}
    IN  /\ dirty > 0
        /\ dirty' = 0
        /\ om' = new
        /\ IF new = om
           THEN UNCHANGED <<heads, confs, miscounted>>
           ELSE /\ heads' = [c \in Clients |->
                      IF c \notin bound THEN <<>>
                      ELSE [id \in DOMAIN new |->
                               IF id \in both THEN Updated(heads[c][id], om[id], new[id])
                                              ELSE NewHead(new[id])]]
                /\ confs' = Outdated(confs)
                /\ miscounted' = (miscounted \cup recount) \cap DOMAIN new
        /\ UNCHANGED <<conn, native, cfg, pos, bound, unplaced>>

----------------------------------------------------------------------------
(* Clients.                                                                *)

NoConf == [state |-> "none", fresh |-> FALSE, answered |-> FALSE, entries |-> <<>>]

\* A client binds the manager and is told everything the manager last told anyone.  When
\* it has one already, the data of the new one takes the place of the old: its heads from now
\* on are the new ones, and its configuration object is not known any more.  (Bound: the
\* heads of the old one stay, as a head that is released takes its output out of the data.)
bind(c) ==
    /\ bound' = bound \cup {c}
    /\ heads' = [heads EXCEPT ![c] = [id \in DOMAIN om |-> NewHead(om[id])]]
    /\ confs' = [confs EXCEPT ![c] = NoConf]
    /\ UNCHANGED <<conn, native, cfg, pos, dirty, om, unplaced, miscounted>>

\* The client stops a manager, destroys it, or goes away: its data goes, whichever of its
\* managers that was.
Leave(c) ==
    /\ c \in bound
    /\ bound' = bound \ {c}
    /\ heads' = [heads EXCEPT ![c] = <<>>]
    /\ confs' = [confs EXCEPT ![c] = NoConf]
    /\ UNCHANGED <<conn, native, cfg, pos, dirty, om, unplaced, miscounted>>

\* With the current serial or an older one.
CreateConfiguration(c, current) ==
    /\ c \in bound
    /\ confs[c].state = "none"
    /\ confs' = [confs EXCEPT ![c] = [state |-> "ongoing", fresh |-> current,
                                      answered |-> ~current, entries |-> <<>>]]
    /\ UNCHANGED <<conn, native, cfg, pos, dirty, om, bound, heads, unplaced, miscounted>>

Destroy(c) ==
    /\ confs[c].state # "none"
    /\ confs' = [confs EXCEPT ![c] = NoConf]
    /\ UNCHANGED <<conn, native, cfg, pos, dirty, om, bound, heads, unplaced, miscounted>>

\* EnableHead with the requests on the head that follow it, or DisableHead.  The entry
\* starts from the present section of the output.
ConfigureHead(c, id, new) ==
    /\ confs[c].state = "ongoing" /\ confs[c].fresh
    /\ id \in DOMAIN om \cap DOMAIN heads[c]
    /\ id \notin DOMAIN confs[c].entries
    /\ confs' = [confs EXCEPT ![c].entries =
                   [i \in DOMAIN @ \cup {id} |->
                       IF i # id THEN @[i]
                       ELSE IF new.off THEN [cfg[id[1]] EXCEPT !.off = TRUE]
                       ELSE new]]
    /\ UNCHANGED <<conn, native, cfg, pos, dirty, om, bound, heads, unplaced, miscounted>>

AnyEnabled(entries) == \E id \in DOMAIN entries : ~entries[id].off

\* The config's output sections are replaced by those of the configuration.
Apply(c) ==
    /\ dirty < MaxChanges
    /\ confs[c].state = "ongoing"
    /\ confs' = [confs EXCEPT ![c].state = IF confs[c].fresh THEN "finished" ELSE @,
                              ![c].fresh = FALSE, ![c].answered = TRUE, ![c].entries = <<>>]
    /\ IF confs[c].fresh /\ AnyEnabled(confs[c].entries)
       THEN LET new == confs[c].entries IN
            /\ cfg' = [o \in OutSet |->
                          IF \E id \in DOMAIN new : id[1] = o
                          THEN new[CHOOSE id \in DOMAIN new : id[1] = o] ELSE DefaultOutput]
            /\ Arranged(conn, native, cfg')
       ELSE UNCHANGED <<cfg, pos, dirty, unplaced>>
    /\ UNCHANGED <<conn, native, om, bound, heads, miscounted>>

Test(c) ==
    /\ confs[c].state = "ongoing"
    /\ confs' = [confs EXCEPT ![c].state = IF confs[c].fresh THEN "finished" ELSE @,
                              ![c].fresh = FALSE, ![c].answered = TRUE, ![c].entries = <<>>]
    /\ UNCHANGED <<conn, native, cfg, pos, dirty, om, bound, heads, unplaced, miscounted>>

\* org.gnome.Mutter.DisplayConfig: the outputs named get new sections, all the others
\* that IPC knows are turned off.
apply_monitors_config(o, new) ==
    /\ dirty < MaxChanges
    /\ ~new.off
    /\ \E id \in DOMAIN om : id[1] = o
    /\ cfg' = [p \in OutSet |-> IF p = o THEN new
                                ELSE IF \E id \in DOMAIN om : id[1] = p
                                THEN [cfg[p] EXCEPT !.off = TRUE] ELSE cfg[p]]
    /\ Arranged(conn, native, cfg')
    /\ UNCHANGED <<conn, native, om, bound, heads, confs, miscounted>>

----------------------------------------------------------------------------

OutputsInit ==
    /\ conn = [o \in OutSet |-> 0]
    /\ native = [o \in OutSet |-> CHOOSE ms \in Native[o] : \A k \in Native[o] : Len(ms) <= Len(k)]
    /\ cfg = [o \in OutSet |-> DefaultOutput]
    /\ pos = <<>>
    /\ dirty = 0
    /\ om = <<>>
    /\ bound = {}
    /\ heads = [c \in Clients |-> <<>>]
    /\ confs = [c \in Clients |-> NoConf]
    /\ unplaced = FALSE
    /\ miscounted = {}

OutputsNext ==
    \/ \E o \in OutSet : \/ \E id \in 0..2 : Hotplug(o, id)
                         \/ \E ms \in Native[o] : ModesChange(o, ms)
                         \/ \E new \in Picks[o] : \/ reload_output_config(o, new)
                                                    \/ apply_monitors_config(o, new)
    \/ notify_changes
    \/ \E c \in Clients : \/ bind(c)
                          \/ Leave(c)
                          \/ \E current \in BOOLEAN : CreateConfiguration(c, current)
                          \/ Destroy(c)
                          \/ \E id \in DOMAIN om : \E new \in Picks[id[1]] :
                                ConfigureHead(c, id, new)
                          \/ Apply(c)
                          \/ Test(c)

OutputsSpec == OutputsInit /\ [][OutputsNext]_outputVars

----------------------------------------------------------------------------
(* Properties.                                                             *)

\* Enabled outputs never overlap, whatever positions are configured and whatever the
\* order outputs came in; except after a connector changed its list of modes, when
\* nothing places the outputs anew.
OutputsDisjoint ==
    \/ unplaced
    \/ \A o, p \in DOMAIN pos :
          o # p => ~Overlaps(pos[o], pick_mode(native, cfg, o), pos[p], pick_mode(native, cfg, p))

\* Between turns a client's picture, made of the differences it was sent, is what a
\* client binding now would be told; except that `enabled` and `current_mode` are lost
\* when the number of modes changes at the same time.
HeadsTruthful ==
    dirty = 0 => \A c \in bound :
            /\ DOMAIN heads[c] = DOMAIN om
            /\ \A id \in DOMAIN om \ miscounted :
                  LET v == heads[c][id]
                      new == NewHead(Report(id[1]))
                  IN  /\ v.modes = new.modes
                      /\ v.enabled = new.enabled
                      /\ v.enabled => v.current = new.current /\ v.position = new.position
=============================================================================
