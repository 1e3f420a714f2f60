------------------------------ MODULE Devices ------------------------------
(***************************************************************************)
(* How the TTY backend follows the hardware: GPUs that come and go, the    *)
(* connectors of each GPU, the laptop lid, the output configuration, and   *)
(* the suspended session during which every udev event is thrown away.     *)
(*                                                                         *)
(* The state of the program is the record `tty`; a handler is a function   *)
(* on that record, as the handlers call one another.  Connectors and CRTCs *)
(* are one to one here (the DRM scanner keeps that mapping; a GPU has as   *)
(* many CRTCs as connectors).                                              *)
(***************************************************************************)
EXTENDS Naturals, Sequences, FiniteSets, SequencesExt

CONSTANTS
    Gpus,           \* DRM primary nodes
    Primary,        \* the primary GPU
    DisplayOnly,    \* the GPUs without a renderer (DisplayLink adapters)
    Hotpluggable,   \* the GPUs that can be unplugged
    Connectors,     \* connectors, in the order of their handles
    DeviceOf,       \* the GPU a connector belongs to
    Kind,           \* "panel", "monitor" or "headset" (non-desktop)
    Edid,           \* make, model and serial of what is plugged in there
    Docked,         \* bound: the connectors that may report no modes at first
    Configurable,   \* bound: the outputs the user turns off and on
    Ignorable,      \* bound: the GPUs the user ignores at times
    MaxEvents       \* bound: udev events not dispatched yet

ConnectorSet == {Connectors[i] : i \in DOMAIN Connectors}

ASSUME DevicesAssumption ==
    /\ IsFiniteSet(Gpus)
    /\ Connectors \in Seq(ConnectorSet)
    /\ \A i, j \in DOMAIN Connectors : Connectors[i] = Connectors[j] => i = j
    /\ DeviceOf \in [ConnectorSet -> Gpus]
    /\ Configurable \subseteq ConnectorSet
    /\ Ignorable \subseteq Gpus

VARIABLES
    gpus,       \* the GPUs that are there
    dead,       \* the GPUs that were unplugged while the program held them open
    plugged,    \* what each connector reports: "no", "bare" (no modes yet), "ready"
    udev,       \* udev events on their way to the program
    listed,     \* UdevBackend's own list of devices
    tty         \* the program

hardware == <<gpus, dead, plugged, udev, listed>>
deviceVars == <<hardware, tty>>

ConnectorsOf(ds) == {c \in ConnectorSet : DeviceOf[c] \in ds}

----------------------------------------------------------------------------
(* Names.  Two monitors may carry the same make, model and serial; the     *)
(* layout panics on such duplicates, so the second one loses its name.     *)

Precedes(e, c) == \E i, j \in DOMAIN Connectors : i < j /\ Connectors[i] = e /\ Connectors[j] = c

SameName(t, c, e) ==
    /\ t.names[c] = "named"
    /\ t.names[e] = "named"
    /\ Edid[c] = Edid[e]

\* The first of them keeps it: each connector is compared with those that are known
\* by then.
NameConnectors(t, added) ==
    LET taken(c) == \E e \in ConnectorSet :
            /\ Edid[e] = Edid[c]
            /\ IF e \in added THEN Precedes(e, c) ELSE t.names[e] = "named"
    IN  [t EXCEPT !.names = [c \in ConnectorSet |->
            IF c \notin added THEN @[c] ELSE IF taken(c) THEN "unnamed" ELSE "named"]]

----------------------------------------------------------------------------
(* Connecting and disconnecting connectors.  The callers go through theirs *)
(* one by one; each connector has a surface or a lease of its own, so that *)
(* what becomes of the set cs does not depend on the order.                *)

connector_disconnected(t, cs) ==
    [t EXCEPT !.surfaces = @ \ cs, !.leased = @ \ (cs \ t.surfaces)]

\* A headset is offered for a lease; it takes no mode.  A connector without modes fails
\* with "no mode"; so does every other connector of a device that has not been activated
\* yet.  The surface must be a new one, and the layout must not know an output of that name.
connector_connected(t, cs) ==
    LET lent == {c \in cs : Kind[c] = "headset"}
        lit == {c \in cs \ lent : DeviceOf[c] \notin t.paused /\ t.scanned[c] # "bare"}
    IN  [t EXCEPT !.leased = @ \cup lent,
                  !.surfaces = @ \cup lit,
                  !.panicked = @ \/ lit \cap t.surfaces # {}
                                 \/ \E c \in lit, e \in t.surfaces \cup lit :
                                        c # e /\ SameName(t, c, e)]

refresh_ipc_outputs(t) ==
    LET there == {c \in ConnectorsOf(t.devices) : t.scanned[c] # "no"}
    IN  [t EXCEPT !.ipc = [c \in there |-> c \in t.surfaces]]

\* Any connected external connector counts, enabled or not.
should_disable_laptop_panels(t) ==
    /\ t.lid
    /\ \E c \in ConnectorsOf(t.devices) : t.scanned[c] # "no" /\ Kind[c] # "panel"

on_output_config_changed(t) ==
    LET panelsOff == should_disable_laptop_panels(t)
        shouldBeOff(c) == c \in t.off \/ (panelsOff /\ Kind[c] = "panel")
        toDisconnect == {c \in t.surfaces : shouldBeOff(c)}
        toConnect == {c \in ConnectorsOf(t.devices) :
                          /\ t.scanned[c] # "no"
                          /\ c \notin t.surfaces \cup t.leased
                          /\ ~shouldBeOff(c)}
        current == [t EXCEPT !.deferred = FALSE, !.stale = FALSE]
    IN  IF ~t.active THEN [t EXCEPT !.deferred = TRUE]
        ELSE refresh_ipc_outputs(
               connector_connected(connector_disconnected(current, toDisconnect), toConnect))

----------------------------------------------------------------------------
(* Devices.                                                                *)

\* A scan of the device's connectors: those that are gone are disconnected and their
\* names forgotten, then the new ones get their names, one after the other.
ScanConnectors(t, d) ==
    LET cs == ConnectorsOf({d})
        removed == {c \in cs : t.scanned[c] # "no" /\ plugged[c] = "no"}
        added == {c \in cs : t.scanned[c] = "no" /\ plugged[c] # "no"}
        scanned == [t EXCEPT !.scanned = [c \in ConnectorSet |->
                                IF c \in cs THEN plugged[c] ELSE @[c]]]
        gone == [connector_disconnected(scanned, removed) EXCEPT
                    !.names = [c \in ConnectorSet |-> IF c \in removed THEN "no" ELSE @[c]]]
    IN  NameConnectors(gone, added)

RescanOnHotplugOnly(t, d) ==
    IF \/ d \notin gpus \/ d \in dead
       \/ \A c \in ConnectorsOf({d}) : (t.scanned[c] = "no") <=> (plugged[c] = "no")
    THEN t ELSE on_output_config_changed(ScanConnectors(t, d))

\* The part of device_changed() that concerns a known device.  Scanning a device that is
\* gone fails, and nothing else happens.  A connector whose list of modes changed is
\* neither added nor removed: on_output_config_changed() looks at it.
Rescan(t, d) ==
    IF d \notin gpus \/ d \in dead THEN t
    ELSE on_output_config_changed(ScanConnectors(t, d))

\* Opening fails when the device is gone; a display-only device borrows the allocator
\* of the primary device and is refused without it.
device_added(t, d) ==
    IF d \in t.ignored THEN t
    ELSE IF d \notin gpus \/ (d \in DisplayOnly /\ Primary \notin t.devices)
    THEN [t EXCEPT !.refused = @ \cup {d}]
    ELSE Rescan([t EXCEPT !.panicked = @ \/ d \in t.devices,
                          !.devices = @ \cup {d},
                          !.refused = @ \ {d}], d)

device_changed(t, d) ==
    IF d \in t.ignored THEN t
    ELSE IF d \in t.devices THEN Rescan(t, d)
    ELSE device_added(t, d)

\* Leaves the output configuration as it is: no on_output_config_changed() here.
device_removed(t, d) ==
    LET cs == ConnectorsOf({d})
        gone == connector_disconnected(t, {c \in cs : t.scanned[c] # "no"})
    IN  IF d \notin t.devices THEN [t EXCEPT !.refused = @ \ {d}]
        ELSE refresh_ipc_outputs(
               [gone EXCEPT !.devices = @ \ {d}, !.paused = @ \ {d},
                            !.scanned = [c \in ConnectorSet |-> IF c \in cs THEN "no" ELSE @[c]],
                            !.names = [c \in ConnectorSet |-> IF c \in cs THEN "no" ELSE @[c]],
                            !.stale = TRUE])

compute_ignored_nodes(t) == t.ignoring \ {Primary}

\* What the loops over the devices do with one of them.
Handled(what, t, d) ==
    CASE what = "remove" -> device_removed(t, d)
      [] what = "activate" -> device_changed([t EXCEPT !.paused = @ \ {d}], d)
      [] what = "add" -> device_added(t, d)

\* A loop over the devices ds, in the order that a HashMap happens to have.
AllHandled(what, t, ds, order) ==
    LET after[i \in 0 .. Len(order)] ==
            IF i = 0 THEN t
            ELSE IF order[i] \in ds THEN Handled(what, after[i - 1], order[i])
            ELSE after[i - 1]
    IN  after[Len(order)]

\* The others may depend on the primary device.
PrimaryAdded(t, ds) == IF Primary \in ds THEN device_added(t, Primary) ELSE t

----------------------------------------------------------------------------
(* The hardware and the kernel (external).                                 *)

Notify(kind, d) ==
    /\ Len(udev) < MaxEvents
    /\ udev' = Append(udev, [kind |-> kind, gpu |-> d])

\* A monitor is plugged in or pulled out, or its EDID arrives at last.  (Bound: a headset
\* stays where it is, and comes and goes with its GPU; nobody touches the monitors of a
\* GPU that is not there.)
MonitorChanges(c, s) ==
    /\ Kind[c] = "monitor"
    /\ s # plugged[c]
    /\ s = "bare" => plugged[c] = "no" /\ c \in Docked
    /\ plugged' = [plugged EXCEPT ![c] = s]
    /\ DeviceOf[c] \in gpus
    /\ Notify("changed", DeviceOf[c])
    /\ UNCHANGED <<gpus, dead, listed, tty>>

GpuAppears(d) ==
    /\ d \notin gpus
    /\ gpus' = gpus \cup {d}
    /\ Notify("added", d)
    /\ UNCHANGED <<dead, plugged, listed, tty>>

GpuVanishes(d) ==
    /\ d \in gpus \cap Hotpluggable
    /\ gpus' = gpus \ {d}
    /\ dead' = dead \cup ({d} \cap tty.devices)
    /\ Notify("removed", d)
    /\ UNCHANGED <<plugged, listed, tty>>

----------------------------------------------------------------------------
(* The program.                                                            *)

\* UdevBackend updates its list, whatever the program does with the event.
Dispatch ==
    /\ udev # <<>>
    /\ udev' = Tail(udev)
    /\ listed' = CASE Head(udev).kind = "added" -> listed \cup {Head(udev).gpu}
                   [] Head(udev).kind = "removed" -> listed \ {Head(udev).gpu}
                   [] OTHER -> listed

on_udev_event ==
    /\ Dispatch
    /\ LET d == Head(udev).gpu IN
       IF ~tty.active THEN UNCHANGED <<tty, dead>>
       ELSE /\ tty' = CASE Head(udev).kind = "added" ->
                             device_added([tty EXCEPT !.ignored = compute_ignored_nodes(tty)], d)
                        [] Head(udev).kind = "changed" -> device_changed(tty, d)
                        [] OTHER -> device_removed(tty, d)
            /\ dead' = dead \cap tty'.devices
    /\ UNCHANGED <<gpus, plugged>>

PauseSession ==
    /\ tty.active
    /\ tty' = [tty EXCEPT !.active = FALSE, !.paused = tty.devices]
    /\ UNCHANGED hardware

\* Devices that are gone leave, the others are activated and scanned again, and those
\* that are new are added, the primary one first.  HashMap's order is any order.
ResumeAll(t, order) ==
    LET start == [t EXCEPT !.active = TRUE, !.ignored = compute_ignored_nodes(t)]
        removed == {d \in t.devices : d \notin listed \/ d \in start.ignored}
        remained == t.devices \ removed
        new == listed \ t.devices
        cleared == AllHandled("remove", start, removed, order)
        updated == AllHandled("activate", cleared, remained, order)
        added == AllHandled("add", PrimaryAdded(updated, new), new \ {Primary}, order)
        applied == IF added.deferred THEN on_output_config_changed(added) ELSE added
    IN  refresh_ipc_outputs(applied)

ActivateSession ==
    /\ ~tty.active
    /\ \E order \in SetToSeqs(Gpus) : tty' = ResumeAll(tty, order)
    /\ dead' = dead \cap tty'.devices
    /\ UNCHANGED <<gpus, plugged, udev, listed>>

set_lid_closed ==
    /\ tty' = on_output_config_changed([tty EXCEPT !.lid = ~@])
    /\ UNCHANGED hardware

\* The user turns an output off or on.
ConfigureOutput(c) ==
    /\ tty' = on_output_config_changed(
                 [tty EXCEPT !.off = IF c \in @ THEN @ \ {c} ELSE @ \cup {c}])
    /\ UNCHANGED hardware

\* The devices that are listed and were not known.
AddListed(t, known, order) == AllHandled("add", t, listed \ known, order)

\* The user edits debug.ignore-drm-device: the devices follow, and then reload_config()
\* applies the output configuration anew.
update_ignored_nodes_config(d) ==
    LET t == [tty EXCEPT !.ignoring = IF d \in @ THEN @ \ {d} ELSE @ \cup {d}]
        new == [t EXCEPT !.ignored = compute_ignored_nodes(t)]
        removed == {e \in t.devices : e \in new.ignored \/ e \notin listed}
        cleared(order) == AllHandled("remove", new, removed, order)
    IN  /\ IF ~t.active \/ new.ignored = t.ignored
           THEN tty' = on_output_config_changed(t)
           ELSE \E order \in SetToSeqs(Gpus) :
                   tty' = on_output_config_changed(AddListed(cleared(order), t.devices, order))
        /\ dead' = dead \cap tty'.devices
        /\ UNCHANGED <<gpus, plugged, udev, listed>>

----------------------------------------------------------------------------

NoTty ==
    [active |-> TRUE, lid |-> FALSE, off |-> {}, ignoring |-> {}, ignored |-> {},
     devices |-> {}, paused |-> {}, scanned |-> [c \in ConnectorSet |-> "no"],
     names |-> [c \in ConnectorSet |-> "no"], surfaces |-> {}, leased |-> {},
     deferred |-> FALSE, ipc |-> [c \in {} |-> FALSE],
     \* What happened on the way: an assertion failed; a device could not be added; the
     \* last device was removed after the output configuration was last applied.
     panicked |-> FALSE, refused |-> {}, stale |-> FALSE]

\* Tty::init() with the session active: the primary device first, then the others.
init(t, order) == AllHandled("add", PrimaryAdded(t, listed), listed \ {Primary}, order)

DevicesInit ==
    /\ gpus \in {Gpus, Gpus \ Hotpluggable}
    /\ listed = gpus
    /\ dead = {}
    /\ plugged = [c \in ConnectorSet |-> IF Kind[c] = "monitor" THEN "no" ELSE "ready"]
    /\ udev = <<>>
    /\ \/ \E order \in SetToSeqs(Gpus) : tty = init(NoTty, order)
       \/ tty = [NoTty EXCEPT !.active = FALSE]

DevicesNext ==
    \/ \E c \in ConnectorSet, s \in {"no", "bare", "ready"} : MonitorChanges(c, s)
    \/ \E d \in Gpus : GpuAppears(d) \/ GpuVanishes(d)
    \/ on_udev_event
    \/ PauseSession
    \/ ActivateSession
    \/ set_lid_closed
    \/ \E c \in Configurable : ConfigureOutput(c)
    \/ \E d \in Ignorable : update_ignored_nodes_config(d)

DevicesSpec == DevicesInit /\ [][DevicesNext]_deviceVars

----------------------------------------------------------------------------
(* Properties.                                                             *)

\* No assertion fails: a device is never inserted twice, nor a surface, and the layout
\* never gets two outputs with the same make, model and serial.
DevicesNeverPanic == ~tty.panicked

Usable(d) == d \in (gpus \ tty.ignored) \ tty.refused

LitByLid(c) ==
    ~(tty.lid /\ Kind[c] = "panel"
              /\ \E e \in ConnectorSet : Usable(DeviceOf[e]) /\ plugged[e] # "no" /\ Kind[e] # "panel")

\* Once the program has seen every event it shows exactly what it should: the monitors
\* that are plugged in and have a mode, are not turned off, and are not a laptop panel
\* under a closed lid beside an external monitor; also when all of it changed while the
\* session was suspended and the events were thrown away.  (Not after a GPU was removed,
\* which does not bring the panel back, and not for a GPU that was replugged while
\* suspended, whose dead handle is kept.)  A headset that is turned off is not offered
\* again; nothing ends the offer there is.  What IPC reports agrees at all times.
OutputsMatch ==
    /\ (tty.active /\ udev = <<>> /\ dead = {}) =>
          \A c \in ConnectorSet :
             \/ /\ Kind[c] = "headset"
                /\ c \in tty.leased => Usable(DeviceOf[c])
                /\ Usable(DeviceOf[c]) /\ c \notin tty.off => c \in tty.leased
             \/ Kind[c] = "panel" /\ tty.stale
             \/ LET wanted == /\ Usable(DeviceOf[c])
                              /\ c \notin tty.off
                              /\ LitByLid(c)
                IN  /\ c \in tty.surfaces => wanted /\ plugged[c] # "no"
                    /\ wanted /\ plugged[c] = "ready" => c \in tty.surfaces
    /\ \A c \in ConnectorSet :
          (c \in tty.surfaces) <=> (c \in DOMAIN tty.ipc /\ tty.ipc[c])

\* The handlers do not run into an assertion on the way, and end with the right outputs.
OutputsFollowHardware == DevicesNeverPanic /\ OutputsMatch
=============================================================================
