-------------------------------- MODULE Config --------------------------------
(***************************************************************************)
(* The configuration: files that include one another and are edited at any *)
(* time (sol-config/src/lib.rs), the thread that polls and parses them     *)
(* (utils/watcher.rs), the compositor that takes what was parsed           *)
(* (niri.rs, main.rs) and the notification that tells of errors            *)
(* (ui/config_error_notification.rs).                                      *)
(*                                                                         *)
(* A text is a sequence of nodes: includes, sections that occur once       *)
(* ("single") or many times ("output", "workspace"), the binds of the      *)
(* window switcher ("mru"), and what does not parse ("bad").               *)
(***************************************************************************)
EXTENDS Integers, Sequences, FiniteSets, SequencesExt

CONSTANTS
    None,
    File,            \* the files
    ConfigPath,      \* the first of these files that exists is the config
    Texts,           \* of each file: what it may say
    Elsewhere,       \* the files that may be asked for in its stead
    DefaultText,     \* the default config, which has no includes
    Section,         \* the sections that occur once in a file; "xkb" is one of them
    Layouts,         \* keyboard layouts that locale1 may report
    RECURSION_LIMIT, \* includes are less deep than this
    MaxEvents,       \* bound: how often the files change or are asked for
    UnseenEdits      \* whether files change in ways that the thread cannot notice

ASSUME ConfigAssumption ==
    /\ "xkb" \in Section
    /\ ConfigPath \in Seq(File) /\ ConfigPath # <<>> /\ Elsewhere \subseteq File
    /\ RECURSION_LIMIT \in Nat \ {0} /\ MaxEvents \in Nat
    /\ UnseenEdits \in BOOLEAN

VARIABLES
    disk,            \* of each file: what it says and the stamp of its last change, or None
    watcher,         \* WatcherInner, and what its thread is about
    asks,            \* requests to load a config that are on their way to the thread
    parsed,          \* results on their way to the compositor
    config,          \* the config in use
    file_outputs,    \* config_file_output_config
    told,            \* of each section: what the part that it configures was told last
    named,           \* the names of workspaces in the layout
    locale,          \* xkb_from_locale1
    failed,          \* what clients were told of the last load
    notification,    \* the state of the notification, and whether it is that of a new config
    events           \* bound

threadVars == <<watcher, asks, parsed>>
stateVars == <<config, file_outputs, told, named, locale, failed, notification>>
configVars == <<disk, threadVars, stateVars, events>>

-----------------------------------------------------------------------------
(* Parsing.                                                                 *)

EmptyConfig ==
    [sections |-> [s \in Section |-> None], outputs |-> <<>>, names |-> {}, binds |-> {"default"}]

\* What is known so far: the config, what to watch and whether the switcher's default binds
\* have been replaced, of all files; whether an error was met, which sections were seen and
\* whether decoding has stopped, of one file.
Decoder == [config |-> EmptyConfig, includes |-> {}, saw_mru_binds |-> FALSE,
            ok |-> TRUE, seen |-> {}, stopped |-> FALSE]

EmitError(dec) == [dec EXCEPT !.ok = FALSE]

\* A section that does not decode ends its file.
Bad(dec) == [dec EXCEPT !.ok = FALSE, !.stopped = TRUE]

Single(dec, node) ==
    IF node.name \in dec.seen THEN EmitError(dec)
    ELSE [dec EXCEPT !.seen = @ \cup {node.name}, !.config.sections[node.name] = node.value]

\* The first binds of the switcher replace the default ones.
MruBinds(dec, node) ==
    LET binds == IF dec.saw_mru_binds THEN dec.config.binds ELSE {}
    IN IF "mru" \in dec.seen THEN EmitError(dec)
       ELSE [dec EXCEPT !.seen = @ \cup {"mru"}, !.saw_mru_binds = TRUE,
                        !.config.binds = binds \cup {node.value}]

RECURSIVE Include(_, _, _, _, _)

\* Of what the disk says, the nodes of one file; recursion is how deep it is included and
\* stack the files that include it.
decode_children(nodes, says, recursion, stack, dec) ==
    FoldLeft(LAMBDA d, node :
                 CASE d.stopped -> d
                   [] ~d.stopped /\ node.kind = "include" -> Include(d, node, says, recursion + 1, stack)
                   [] ~d.stopped /\ node.kind = "single" -> Single(d, node)
                   [] ~d.stopped /\ node.kind = "mru" -> MruBinds(d, node)
                   [] ~d.stopped /\ node.kind = "output" -> [d EXCEPT !.config.outputs = Append(@, node.value)]
                   [] ~d.stopped /\ node.kind = "workspace" -> [d EXCEPT !.config.names = @ \cup {node.value}]
                   [] OTHER -> Bad(d),
             [dec EXCEPT !.ok = TRUE, !.seen = {}, !.stopped = FALSE], nodes)

\* Mutant: what cannot be read is not watched.
WatchedIfRead(dec, f, says) ==
    IF says[f] = None THEN dec ELSE [dec EXCEPT !.includes = @ \cup {f}]

\* An included file is watched even if it cannot be read or parsed.
Watched(dec, f, says) == [dec EXCEPT !.includes = @ \cup {f}]

Include(dec, node, says, recursion, stack) ==
    LET watched  == Watched(dec, node.file, says)
        included == decode_children(says[node.file].nodes, says, recursion,
                                    stack \cup {node.file}, watched)
    IN CASE recursion = RECURSION_LIMIT \/ node.file \in stack -> EmitError(dec)
         [] recursion # RECURSION_LIMIT /\ node.file \notin stack ->
              CASE says[node.file] = None -> IF node.optional THEN watched ELSE EmitError(watched)
                [] says[node.file] # None ->
                     [included EXCEPT !.seen = dec.seen, !.stopped = FALSE, !.ok = dec.ok /\ @]

\* What a load gives: a config if there was no error, and the files to watch.
ParseResult(dec) ==
    [config |-> IF dec.ok THEN dec.config ELSE None, includes |-> dec.includes]
FromError == [config |-> None, includes |-> {}]

parse(main, nodes, says) == ParseResult(decode_children(nodes, says, 0, {main}, Decoder))

\* The file that the path stands for.
Resolved(path, d) ==
    LET there == SelectSeq(path, LAMBDA f : d[f] # None)
    IN IF there = <<>> THEN None ELSE Head(there)

load(path, d) ==
    IF Resolved(path, d) = None THEN FromError
    ELSE parse(Resolved(path, d), d[Resolved(path, d)].nodes, d)

-----------------------------------------------------------------------------
(* The thread that watches the files.                                       *)

\* What tells whether a file is the one it was.
Props(f, d) == IF f = None \/ d[f] = None THEN None ELSE [file |-> f, stamp |-> d[f].stamp]
PathProps(path) == Props(Resolved(path, disk), disk)

set_includes(includes) == [f \in includes |-> Props(f, disk)]

WatcherNew(path, includes) ==
    [path |-> path, last_props |-> PathProps(path), includes |-> set_includes(includes),
     at |-> "waiting", main |-> None, result |-> None]

check(inner) ==
    CASE PathProps(inner.path) = None -> "Missing"
      [] PathProps(inner.path) # None ->
            IF \/ inner.last_props # PathProps(inner.path)
               \/ \E f \in DOMAIN inner.includes : inner.includes[f] # Props(f, disk)
            THEN "Changed"
            ELSE "Unchanged"

\* The thread wakes up, every now and then or because it is asked to load a config, maybe
\* another one.  It does not load what is missing.
Poll ==
    LET inner == IF asks = <<>> \/ Head(asks) = None THEN watcher
                 ELSE WatcherNew(<<Head(asks)>>, {})
        seen  == [inner EXCEPT !.last_props = PathProps(inner.path)]
        loads == \/ check(inner) = "Changed"
                 \/ check(inner) = "Unchanged" /\ asks # <<>>
    IN /\ watcher.at = "waiting"
       /\ asks' = IF asks = <<>> THEN <<>> ELSE Tail(asks)
       /\ watcher' = IF loads THEN [seen EXCEPT !.at = "reading"] ELSE inner
       /\ UNCHANGED <<disk, parsed, stateVars, events>>

\* The config is read before the files that it includes.
ReadMain ==
    /\ watcher.at = "reading"
    /\ LET main == Resolved(watcher.path, disk)
       IN watcher' = IF main = None
                     THEN [watcher EXCEPT !.at = "sending", !.result = FromError]
                     ELSE [watcher EXCEPT !.at = "parsing", !.main = [file |-> main, nodes |-> disk[main].nodes]]
    /\ UNCHANGED <<disk, asks, parsed, stateVars, events>>

\* Bound: the included files are all read at one moment.
Parse ==
    /\ watcher.at = "parsing"
    /\ watcher' = [watcher EXCEPT !.at = "sending", !.main = None,
                                  !.result = parse(watcher.main.file, watcher.main.nodes, disk)]
    /\ UNCHANGED <<disk, asks, parsed, stateVars, events>>

\* The channel holds one result; the thread waits until there is room.
Send ==
    /\ watcher.at = "sending" /\ parsed = <<>>
    /\ parsed' = <<watcher.result.config>>
    /\ watcher' = [watcher EXCEPT !.at = "looking"]
    /\ UNCHANGED <<disk, asks, stateVars, events>>

Look ==
    /\ watcher.at = "looking"
    /\ watcher' = [watcher EXCEPT !.at = "waiting", !.result = None,
                                  !.includes = set_includes(watcher.result.includes)]
    /\ UNCHANGED <<disk, asks, parsed, stateVars, events>>

-----------------------------------------------------------------------------
(* The notification.                                                        *)

Shows(state, created) == [state |-> state, created |-> created]

show(n) == Shows("showing", FALSE)
show_created(n) == Shows("showing", TRUE)

hide(n) == IF n.state = "hidden" THEN n ELSE [n EXCEPT !.state = "hiding"]

\* An animation ends, or the deadline has come.
advance_animations ==
    /\ notification' = CASE notification.state = "showing" -> [notification EXCEPT !.state = "shown"]
                         [] notification.state = "shown" -> hide(notification)
                         [] notification.state = "hiding" -> [notification EXCEPT !.state = "hidden"]
                         [] OTHER -> notification
    /\ notification.state # "hidden"
    /\ UNCHANGED <<disk, threadVars, config, file_outputs, told, named, locale, failed, events>>

-----------------------------------------------------------------------------
(* The compositor.                                                          *)

\* The keyboard has the config's layout, or else the system's.
Keymap(xkb, system) == IF xkb # None THEN xkb ELSE system

ToldOf(section, value) == IF section = "xkb" THEN Keymap(value, locale) ELSE value

Changed(new) == {s \in Section : new.sections[s] # config.sections[s]}

\* What changed is told to what it configures.
Told(new) == [s \in Section |-> IF s \in Changed(new) THEN ToldOf(s, new.sections[s]) ELSE told[s]]

\* Outputs that were changed while running stay so until their sections change in the file.
Outputs(new) == IF new.outputs # file_outputs THEN new.outputs ELSE config.outputs

unname_and_ensure(new) == (named \ (config.names \ new.names)) \cup new.names

ipc_config_loaded(new) == failed' = (new = None)

reload_config ==
    /\ parsed # <<>> /\ parsed' = <<>>
    /\ LET new == Head(parsed)
       IN IF new = None
          THEN /\ notification' = show(notification)
               /\ UNCHANGED <<config, file_outputs, told, named>>
          ELSE /\ notification' = hide(notification)
               /\ named' = unname_and_ensure(new)
               /\ told' = Told(new)
               /\ config' = [new EXCEPT !.outputs = Outputs(new)]
               /\ file_outputs' = new.outputs
    /\ ipc_config_loaded(Head(parsed))
    /\ UNCHANGED <<disk, watcher, asks, locale, events>>

\* A client of the IPC changes an output until the file does.
apply_transient_output_config(change) ==
    /\ config.outputs # change
    /\ config' = [config EXCEPT !.outputs = change]
    /\ UNCHANGED <<disk, threadVars, file_outputs, told, named, locale, failed, notification, events>>

\* The bus tells of changes only.
XkbChanged(layout) == layout # locale

on_locale1_msg(layout) ==
    /\ XkbChanged(layout) /\ locale' = layout
    /\ told' = IF config.sections["xkb"] # None THEN told ELSE [told EXCEPT !["xkb"] = layout]
    /\ UNCHANGED <<disk, threadVars, config, file_outputs, named, failed, notification, events>>

\* Bound: how often the files change or are asked for.
Happens == events < MaxEvents /\ events' = events + 1

\* The config is loaded again, or that of another path.
LoadConfigFile(path) ==
    /\ Happens
    /\ asks' = Append(asks, path)
    /\ UNCHANGED <<disk, watcher, parsed, stateVars>>

\* A config that is missing is created from the default one.
Created(d) ==
    IF Resolved(ConfigPath, d) # None THEN d
    ELSE [d EXCEPT ![Head(ConfigPath)] = [nodes |-> DefaultText, stamp |-> 0]]

\* At the start a missing config is created, the default one serves for one with errors, and
\* the files are looked at afterwards.
Start(d) ==
    LET there   == Created(d)
        result  == load(ConfigPath, there)
        default == parse(None, DefaultText, there).config
        first   == IF result.config = None THEN default ELSE result.config
    IN /\ disk = there
       /\ config = first /\ file_outputs = first.outputs /\ named = first.names
       /\ told = [s \in Section |-> IF s = "xkb" THEN Keymap(first.sections[s], locale) ELSE first.sections[s]]
       /\ failed = (result.config = None)
       /\ notification = CASE failed -> show(Shows("hidden", FALSE))
                           [] ~failed /\ there # d -> show_created(Shows("hidden", FALSE))
                           [] OTHER -> Shows("hidden", FALSE)
       /\ watcher = WatcherNew(ConfigPath, result.includes)

Saved(nodes, stamp) == [nodes |-> nodes, stamp |-> stamp]

ConfigInit ==
    /\ asks = <<>> /\ parsed = <<>> /\ events = 0
    /\ locale = None
    /\ \E d \in [File -> {None} \cup {Saved(text, 0) : text \in UNION {Texts[f] : f \in File}}] :
          /\ \A f \in File : d[f] # None => d[f].nodes \in Texts[f]
          /\ Start(d)

\* A change that the thread cannot notice: to an included file that was read and not looked at
\* yet, or a file that takes the place of another one while that is loaded, as when it goes
\* again the other one is as it was.
Unseen(f) ==
    \/ watcher.at \in {"sending", "looking"} /\ f \in watcher.result.includes
    \/ /\ watcher.at # "waiting" /\ disk[f] = None
       /\ Resolved(watcher.path, disk) # None
       /\ Resolved(watcher.path, [disk EXCEPT ![f] = Saved(<<>>, 0)]) = f

\* A file is saved or removed.
Edit(f, file) ==
    /\ Happens
    /\ disk[f] # None \/ file # None
    /\ Unseen(f) => UnseenEdits
    /\ disk' = [disk EXCEPT ![f] = file]
    /\ UNCHANGED <<threadVars, stateVars>>

ConfigNext ==
    \/ Poll
    \/ ReadMain
    \/ Parse
    \/ Send
    \/ Look
    \/ reload_config
    \/ advance_animations
    \/ \E layout \in Layouts : on_locale1_msg(layout)
    \/ apply_transient_output_config(<<"transient">>)
    \/ \E path \in Elsewhere \cup {None} : LoadConfigFile(path)
    \/ \E f \in File : \E text \in Texts[f] : Edit(f, Saved(text, events + 1))
    \/ \E f \in File : Edit(f, None)

ConfigSpec == ConfigInit /\ [][ConfigNext]_configVars

-----------------------------------------------------------------------------
(* Properties.                                                              *)

\* Nothing is under way, and the next poll will find that nothing has changed.
Rested ==
    /\ watcher.at = "waiting" /\ asks = <<>> /\ parsed = <<>>
    /\ check(watcher) = "Unchanged"

\* "The configuration is live-reloaded" (docs/wiki/Configuration:-Introduction.md:25) and "All
\* included files are watched for changes" (docs/wiki/Configuration:-Include.md:17): when there
\* is nothing more to notice, what is in use is what the files say, or they have an error and
\* it was reported.
FollowsFiles ==
    Rested => LET new == load(watcher.path, disk).config
              IN /\ failed = (new = None)
                 /\ new # None => /\ config.sections = new.sections
                                  /\ config.binds = new.binds /\ config.names = new.names
                                  /\ file_outputs = new.outputs

\* What is configured knows it: sections that a reload found unchanged were told before, the
\* keyboard has the layout of the system while the config has none, and the named workspaces
\* are those of the config.
PartsAreTold ==
    /\ \A s \in Section : told[s] = ToldOf(s, config.sections[s])
    /\ named = config.names

\* An error is shown only while the config that was loaded last has one.
ErrorIsTrue ==
    notification.state \in {"showing", "shown"} /\ ~notification.created => failed

\* The configuration in use, and what is known of it, follow the files.
ConfigIsCurrent == FollowsFiles /\ PartsAreTold /\ ErrorIsTrue
=============================================================================
