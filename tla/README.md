# A TLA+ verification of sol

sol is a Wayland compositor, a fork of niri with a master-stack layout. It is
one process with one event loop (calloop): every input event, client request,
timer and kernel event is a callback that runs to its end on the main thread,
and at the end of each turn `State::refresh_and_flush_clients` redraws the
outputs that asked for it. Concurrency is therefore mostly not two threads in
one structure, but callbacks in an order nobody wrote down: page flips the
kernel answers later, timers that fire after the state they were set for is
gone, clients that die, answer late or send requests in any order, and monitors
that come and go between any two of these. Threads proper are the D-Bus servers
and the config watcher, and both are modelled as such.

This directory holds the TLA+ modules, the TLC configurations that check them,
and the TLAPS proofs. `PROJECT.json` lists components, runs, mutants, the map
from each definition to its source lines, findings, hazards and theorems.

## 1. Inventory

Paths are under `src/src/` of the repository.

| Component | State it keeps | Operations | Talks to |
|---|---|---|---|
| Tiling engine, `layout/scrolling.rs` | master, stack, focus, remembered stack row, master ratio, area, pending takeover flags | add and remove, swap, promote, focus, nudge, fullscreen, maximize, update config | tiles (size requests), workspace |
| Floating layer, `layout/floating.rs` | tiles in stacking order, active window | add, remove, raise with descendants, focus, move, resize | tiles, workspace |
| Workspace, `layout/workspace.rs` | both layers, which one is active | everything above, toggles between layers | monitor, layout |
| Tile and Mapped, `layout/tile.rs`, `window/mapped.rs` | pending configure, pending and committed modes, serials of configures not yet committed | request size, commit, animations | client |
| Monitor and Layout, `layout/monitor.rs`, `layout/mod.rs` | workspaces per monitor, active and previous workspace, monitors, interactive move | switch, move windows and workspaces, outputs added and removed | niri |
| Redraw loop, `niri.rs`, `backend/tty.rs`, `utils/vblank_throttle.rs` | RedrawState per output, timers, page flips in the kernel, power and session state | queue, redraw, vblank, estimated vblank, pause, resume, hot-plug | kernel, layout, clients (frame callbacks) |
| Session lock, `niri.rs`, `handlers/mod.rs` | LockState, lock surface and lock render state per output, deadline timer | lock, surface commits, deadline, unlock, client death, output changes | redraw loop, lock client, logind |
| Scene, `niri.rs`, `layout/monitor.rs` | what a monitor paints, in which order and where; workspace switch and overview | render, contents_under, switch, overview and their gestures | layout, input |
| Window opening, `handlers/xdg_shell.rs`, `handlers/compositor.rs`, `window/unmapped.rs` | initial configure state, remembered targets | first commit, requests before the map, map, unmap | layout |
| Keyboard, `input/mod.rs` | suppressed keys, key repeat, modal interfaces | key press, release, repeat, VT switch | focus, interfaces, layout |
| Pointer, touch, gestures, `input/` | buttons, touch slots, grabs, gestures of the layout | press, release, motion, swipe, grab set and unset | layout, clients |
| Keyboard focus, `niri.rs`, `handlers/` | focus, popup grab, on-demand layer surface, flags of windows | update_keyboard_focus once per turn | windows, layers, lock, interfaces |
| Interfaces, `ui/` | switcher: thumbnails, scope, selection; screenshot: selection per output; notification, dialogs | open, select, close | input, layout |
| IPC event streams, `ipc/server.rs`, `sol-ipc` | streams with bounded buffers, what was sent, the client's replica | refresh once per turn, read, disconnect | tools |
| Workspace and toplevel protocols, `protocols/` | per-client handles and what each was told | refresh once per turn, requests, commit | clients |
| Screencasting, `screencasting/`, `dbus/mutter_screen_cast.rs` | stream negotiation, buffers and frames; sessions on the bus's thread, casts on the main one | negotiate, resize, queue, start, stop | PipeWire, D-Bus |
| Screencopy, `protocols/screencopy.rs` | managers, frames, queue of copies waiting for damage | copy, damage, output removed | clients, redraw |
| DRM devices, `backend/tty.rs` | GPUs, connectors, surfaces; lid; session suspended or not | udev events, scan, pause, resume, lease | kernel, niri |
| Outputs, `niri.rs`, `protocols/output_management.rs`, `dbus/mutter_display_config.rs` | configuration of outputs, modes, positions; heads told to clients | reload, apply, test, hot-plug | backend, clients |
| Gamma control, `protocols/gamma_control.rs`, `backend/tty.rs` | controls, ramps, changes waiting for the session to resume | set, give up, unplug, resume | clients, kernel |
| Config, `sol-config`, `utils/watcher.rs`, `niri.rs` | files and includes, what was loaded, what each part was told | poll, load, reload, transient output changes | files, everything |

What is hard about it:

* **Order.** A redraw is requested while a page flip is under way; an output
  is unplugged while a timer is armed for it; two outputs reach the locked state
  at different times; a grab replaces another in the middle of a gesture; an
  interface opens between the press and the release of a key.
* **Failure.** A render fails on one output of several; the lock client dies
  while waiting, locking or locked; a slow reader of events is dropped; a client
  skips configures or commits them late.
* **Time.** The lock deadline, the estimated-vblank timer and the vblank throttle
  race the events they stand in for; a bind goes on repeating; what was picked at the
  initial configure is used when the window maps.
* **Differences.** Events, heads, handles and the reload of the configuration are
  computed as differences against what was last sent, which other code may have
  changed in the meantime.
* **Indices and caches.** Focus, the active workspace and the switcher's selection are
  indices or ids into lists that other operations renumber.

What makes each part correct is said by the properties of section 3.

## 2. Modules

| Module | Models | How it is composed |
|---|---|---|
| `Tile` | size requests of `Tile` | operators on a tile record, used by the two layers |
| `ScrollingSpace`, `FloatingSpace` | `layout/scrolling.rs`, `layout/floating.rs` | extend `Tile`; operators on a space record, one action per method |
| `Workspace` | `layout/workspace.rs`, the fullscreen and maximize entry points of `layout/mod.rs` | applies the operators of both layers to one state |
| `Layout` | `layout/mod.rs`, `layout/monitor.rs` | the level above: a workspace is reduced to its windows, name and output |
| `Redraw` | the redraw state machine of `niri.rs` and `backend/tty.rs` | variables per output |
| `SessionLock` | the lock state machine of `niri.rs` | extends `Redraw`; each step is a Redraw step with the lock's part of the handler |
| `LockContract` | what the lock protocol promises | abstract; `SessionLock` implements it under a refinement mapping |
| `Scene` | what a monitor shows and what is under a point; workspace switch, overview, gestures | one vertical axis |
| `Opening`, `Configures` | a toplevel until its map; a mapped window's configures, acks and commits | |
| `Keyboard`, `Pointer`, `Focus` | `input/`, the keyboard focus of `niri.rs` | |
| `Mru`, `Screenshot` | `ui/mru.rs`, `ui/screenshot_ui.rs` | |
| `Desktop` | the layout as other programs see it, changing at will | environment of the next two |
| `EventStream`, `Handles`, `Mirrors` | `ipc/server.rs` with the replica of `sol-ipc`; `ext_workspace.rs` and `foreign_toplevel.rs`; both over one desktop | `Mirrors` extends both |
| `CastStream`, `CastSessions`, `Screencopy` | `pw_utils.rs`; `mutter_screen_cast.rs` with `screencasting/mod.rs`; `screencopy.rs` | |
| `Devices`, `Outputs`, `Gamma` | `backend/tty.rs`; output configuration and management; gamma control | |
| `Config` | includes, loading, the watcher thread and the reload | the only module with a RECURSIVE operator |
| `SessionLockProofs`, `OutputsProofs`, `KeyboardProofs`, `CastProofs`, `WindowProofs`, `PointerProofs`, `MirrorProofs`, `HandlesProofs` | | TLAPS proofs, section 5 |
| `MC...` | | constants for TLC, and what runs beside what |

Conventions. Records and operators keep the names of the code's fields and methods.
A method that has a trailing refresh, size request or save has it in its action.
Variables called history (`hist`, `owed`, `asked`, `stale`, ...) are read by properties
only. `panicked` is set where the code unwraps, indexes or asserts and would fail. A
comment that begins with "Mutant" marks an operator that no module uses: it is the
definition after it with a plausible bug, and TLC finds the property of
`PROJECT.json` violated when it takes that definition's place.

**Tile, ScrollingSpace, FloatingSpace, Workspace.** Sizes are symbolic: a size is the
record of the inputs of its computation (which slot, area, ratio, number of rows), so
"the window was asked for the size of its slot" is an equality and no pixel
arithmetic is needed. `Option<Column>` is a sequence of at most one column, and indices
are the code's. Methods that differ only in animation share an action. Directional
focus in the floating layer reads pixels and is a choice among the windows it may pick.

**Layout.** The monitors in order, the primary one first (`primary_idx` is always the
first), each with its workspaces, the active one and whether a workspace switch is in
progress; without outputs, the `orphans`; the active monitor; the window that is
dragged, still in its workspace ("starting") or out of it ("moving"). What is inside a
workspace is abstracted (where the code takes the active window or column, the model
takes any), and so are where on the screen a gesture ends and whether the overview is
open. Workspace ids are left out: `last_active_workspace_id` is kept the other way
round, as the outputs that remember the workspace (`last_on`).

**Redraw, SessionLock, LockContract.** Per output: `status`, `redraw_state`, the `timers` in
the event loop, `flip` (the kernel owes a page flip event), `throttle`, `animating`,
`stale` (a change nobody has drawn yet; history) and globally `monitors_active`,
`session_active` and `phase`: the loop dispatches events, then redraws every queued
output, then dispatches again. A render submits a frame, finds no damage, fails or is
skipped. `RogueVBlanks` says whether vblanks come that no page flip of the present
connection asked for; the code expects them not to, and logs them as errors. The lock
adds `lock_state`, whether the lock client lives, the deadline, per output the lock
surface, the lock render state and the kind of the last frame given to KMS and of the
one on the screen, and screen transitions (`Transitions`), which are drawn above the lock.
`LockContract` has three states of the lock and says what a client may rely on.

**Scene.** One monitor's vertical axis in rows, each workspace `Unit` steps high; a switch and the
overview are animations given by both ends and a progress in quarters of their
durations. What is painted is the order of `Niri::render`, what is hit that of
`contents_under`, each translated from its own code.

**Opening, Configures.** Two halves of a window's life. Between the first commit and
the map the environment (`Hotplug`, `Rearrange`, `ParentChanges`) may change everything a
decision looked at. In Configures the layout is the environment and may ask for anything
that `LayoutElement` offers; serials are relative to the last committed one.

**Keyboard, Pointer, Focus.** `Keyboard` follows one event through
`should_intercept_key`, the modal interfaces, binds and their repeat. `Pointer` has the
one grab of each seat device and every gesture of the layout with what may end it.
`Focus` computes `update_keyboard_focus` once per turn; within a turn anything that it reads may
change, any number of times. A popup grab that has ended is dropped by `refresh_popup_grab` before the
focus is computed, so it is gone in the model as soon as it ends.

**Mirrors.** `Desktop` is any sequence of changes (`MaxChanges` per turn); after each turn the
streams and handles are refreshed by comparing with what they remember. Clients
connect, read, act and go at any time.

**CastStream, CastSessions, Screencopy.** PipeWire is external: it offers formats, adds and
removes buffers and changes states as its interface allows. In `CastSessions` the bus's
thread and the main thread exchange messages over a channel of bounded length
(`MaxChannel`).

**Devices, Outputs, Gamma.** The kernel and udev are external: monitors are plugged, GPUs come
and go, events are lost while suspended. Loops over a device's connectors, each of which has its own surface or
lease, are one step on the set; loops over devices take any order. `Outputs` has modes as numbers and a layout on one axis.

**Config.** Files are saved at any moment, also between two steps of the watcher's thread; a load follows
includes with their depth, cycles and errors, and a reload compares section by section.

## 3. Runs

A run answers one question of the system. Where two parts that share no state are both
small, one run checks them side by side: a behaviour chooses at its start which of the
parts works, and the others rest (`MCLayers`, `MCScene`, `MCViews`, `MCFocus`, `MCMirrors`, `MCWindows`, `MCOutputs`).

| Run | Instance | Properties |
|---|---|---|
| `layers` | tiling: 4 windows, 2 areas; floating: 4 windows, up to 2 children; config: 3 files | `SlotSizesRequested`: every column was last asked for the size of its slot. `SwapRoundTrip`: swapping back and forth restores the arrangement. `ActiveSurvivesRearrangement`. `ArrivalIsVisible`: no window opens hidden under a takeover. `ChildrenAboveParents`. `ConfigIsCurrent`: what runs is what the files say, once the watcher has looked |
| `workspace` | 3 windows | `SomeWindowActive`: a workspace with windows has an active one, in the layer that is active. `ChangingLayersKeepsActive` |
| `lock` | lock: 2 outputs; scene: 2 workspaces, 8 rows | `NoPanic`: no handler meets a state it calls unreachable. `LockedMeansBlanked`. `KeepsContract`: the lock implements `LockContract`. `LockedNeverReveals`: a locked screen never comes to show live contents. `InputMatchesVisuals`: what is under a point is what is painted there. `ViewIsContinuous`: a switch or the overview never makes the view jump |
| `lock_liveness` | 1 output, screen transitions | `StaleIsRedrawn`, `MeetsContract` (a request is confirmed or refused), `LockedIsShown` |
| `layout` | 2 outputs, 2 windows, 1 name; switcher: 3 windows | `NothingIsLost`: each open window is in exactly one workspace or in the hand, names are unique, and a displaced workspace is where its output will look for it. `MonitorsKeepTheirView`. `SwitcherIsSound`, `SwitcherIsSteady` |
| `keyboard` | 4 keys, one a modifier | `KeysBalanced`: the side that got the press gets the release. `LockedClosesUis` |
| `pointer` | 1 window, 3 buttons, 2 fingers | `GrabsMatchGestures`: a gesture of the layout has a grab or device that will end it, and a pick is answered. `DragsEndWithButtons` |
| `focus` | 2 windows, 1 layer surface; screenshot: 2 outputs of different scale | `KeyboardFocusIsTrue`: a locked session's keyboard is the lock surface's (with the exception of section 6), and only the focused window believes to be focused. `SelectionIsSound`, `MovesKeepSize` |
| `mirrors` | 2 outputs, 3 workspaces, 2 windows; streams, sessions, screencopy | `StreamsAgree`, `ClientsSeeTruth`: after every turn all clients know the desktop. `StreamFlows`: frames fit the format and none holds up the others. `CastsAreLive`: each cast has somebody to stop it and something to show. `CopiesServed` |
| `windows` | 2 outputs, 1 name; 1 mapped window | `OpensAsAsked`: a window opens where and as it was told, whatever changed. `ExchangeIsAnswered`: requests are answered and the layout's view follows commits. `Settled`: what was asked last is what holds in the end |
| `outputs` | 2 GPUs and 4 connectors; 2 outputs and a client; 2 CRTCs | `OutputsFollowHardware`, `OutputsDisjoint`, `HeadsTruthful`, `GammaFollowsControl` |
| `no_workspace` | 2 outputs, 2 names of the second | violation of `MonitorsHaveWorkspaces`, see Findings |

Every property of a passing run has a mutant. Deadlock is not checked where the system
really may stop: in `layout` and `no_workspace` the compositor that panicked stops, in
`keyboard` it was told to quit, and in `mirrors` and `outputs` a part may have used up its
bound (the frames and offers of a stream, the events that are under way).

**Bounds, and why they are enough.**

* *Layers.* Four windows give a master and three stack rows, so a removal or a swap can
  happen before, at and after the focused row, and a family of floating windows can have a
  chain of two or two branches. `NudgeStep` = 70 percent meets both ends of the ratio's range in two steps. Outside the
  first area the tiling layer is not full (`FewOutsideFirst`); an area matters only for sizes.
* *Layout.* A monitor has at most `MaxWorkspaces` workspaces (3 on the first output, 1 on the
  second: a workspace before, at and after the active one, and a monitor whose only
  workspace moves) and at most `MaxInUse` = 2 windows and names are in use.
  `empty_workspace_above_first` is in the operators (`EmptyAbove`) and in no run.
* *Redraw and lock.* Two outputs let one be locked, drawn or unplugged while the other is
  not. Tokens are bounded by reuse: a fresh one is the least not armed. Transitions are on in the
  liveness run only. Rogue vblanks are off in both runs and on in the proofs that do not need them off.
* *Scene.* Three tiled windows and a floating one, one of them maximized at the start, a layer surface of each kind
  with its pop-up; the lock, an interface or a drag begin at rest only; at most `MaxTurns` = 2 handlers move the view before it rests again, and animations take one
  or two quarters. A drag that ends adds no workspace.
* *Switcher, screenshot.* Three windows of which two are of one application; `Early`
  windows are open when it opens, `Whereabouts` says where; `Meanwhile` = FALSE keeps new windows out while it is up; the strip drifts by at
  most `MaxView`. One finger and the mouse on one axis, at four points; capture does not fail.
* *Keyboard, pointer, focus.* At most `MaxUnpaired` = 1 key loses a release (VT switches); two contacts at a time (`MaxContacts`).
* *Mirrors.* `MaxChanges` = 2 per turn (two changes are what one event can mistake for one), one client at a time
  of each kind, events of a turn within `BufferSize` or the client is dropped. Three offers and frames, two streams, three
  messages in the channel. An output of screencopy that is connected again is another one, so a name
  is used again once no frame refers to it.
* *Windows.* `MaxIdles` = 2 initial configures under way, `MaxInFlight` = 2 configures that the client has not committed.
* *Outputs.* `MaxEvents` = 2 udev events not dispatched; one monitor reports its modes late, one
  output is configured, one GPU is ignored at times; `MaxChanges` = 1 per turn for output management; the heads of
  a client's former manager are not released any more (section 6 says what that does).
* *Config.* Include depth 2 instead of 10, two edits or load requests (`MaxEvents`); all included files are read at one moment.

Some constants switch off what the code does wrong or leaves open, so that the rest can be
checked; section 6 says what happens with them on: `Redirects`, `AsksBack`,
`StartInBetween`, `CommitGone`, `UnseenEdits`, `RogueVBlanks`.

**Fairness.** Only `lock_liveness` assumes any. The redraw phase of the loop is a plain
`while` loop on the main thread that nothing interrupts, so a queued redraw is taken and
both phases end (weak fairness). Events are handled only in the dispatch phase, to which
the loop comes back again and again; it polls all its sources there, so an armed timer
(the lock's deadline included) fires and the kernel delivers the event of a page flip it
accepted: strong fairness, because these steps are disabled during each redraw phase. A
render may fail every time: no fairness chooses its result, and `StaleIsRedrawn` says
that the change gets its redraw, not that the redraw succeeds. No client is assumed to do
anything: no fairness for lock surfaces, commits, unlocks or deaths.

## 4. Findings

* **`no_workspace`** (`layout/mod.rs:759`). A new monitor gets empty workspaces only
  up to `workspace_count`. With that many named or displaced workspaces of another output, all of its
  workspaces go back when that output is connected, none is left ("Must always contain at
  least one.", `layout/monitor.rs:67`), and the next frame panics.

More was met while modelling that no run states; section 6 lists what matters most.

## 5. Proofs

The runs check small instances; TLAPS proves what follows for every set of outputs,
windows, keys, streams or clients, from the constants' assumptions named in the modules. Each
proof has an inductive invariant of which the property is one part.

* **`SessionLockProofs`**, of `Redraw`: `TypeCorrect`, and `RedrawSafety` from `~RogueVBlanks`: `NoPanic`
  always holds. It is not inductive: a timer that fires is
  harmless only because the state has its token (TimerMatchesState), a vblank only because
  its state waits for it (VBlankIsOwed), and an output that reappears only because
  nothing was left behind for it (AbsentOwesNothing). `SafeInv` is pointwise (`Safe(o)`): the
  lemma UntouchedStaysSafe disposes of the outputs an action leaves alone, QueueKeepsSafe
  of those it only queues, and each action has one case for the output it serves. The
  hypothesis is needed: with rogue vblanks the code panics (section 6).
* **`SessionLockProofs`**, of `SessionLock`, with or without rogue vblanks: `LockSafety`
  (`LockedMeansBlanked`; `LockInv` adds DarkFrames: an output that is not connected has no frame,
  because one plugged into a locked session counts as locked before it was ever drawn), the
  action property `LockNeverReveals`, and `LockKeepsContract`: every
  step of the lock is a step of `LockContract` or a stutter under the refinement mapping.
* **`OutputsProofs`**, of `Gamma`: `GammaSafety`, `GammaFollowsControl`. That a CRTC shows the ramp
  of its control, or what it had when there is none, rests on the change that waits for the
  session to resume being the one last asked for (DueAsAsked), on none waiting while
  it is active (NothingWaits), and on a CRTC without an output having no control (AbsentAsksNothing).
* **`OutputsProofs`**, of `Outputs`: `PlacementSafety` (`OutputsDisjoint`) and `HeadsSafety` (`HeadsTruthful`),
  from names that are distinct, modes that are wider than nothing, and configured positions from 0 on.
  While `reposition_outputs` places outputs they stand in a row that one of them ends (Row), so the automatic place
  is free (FallBackEndsRow) and each output placed makes a row again (PlacedInRow). That its loop,
  a recursive function, has a solution at all is shown by a least counterexample (RowsExist). What the
  clients see is an invariant between two reports: their heads show what the manager told last (ViewsShow), which is
  what there is unless a change is noted (ToldLast); UpdateShows proves the differences of one head, field by field.
* **`OutputsProofs`**, of `Devices`: `DevicesSafety` (`OutputsFollowHardware`), for finitely many GPUs and connectors with
  names of their own (`DevicesAssumption`). What is shown follows from what the last scan found (Applied); that is what is plugged in unless
  an event of the device is on its way (UpToDate); and the queue of events, replayed on the devices
  that are known, gives those there are (Replays), which is why an event handled late, after others
  were lost to a suspended session, does no harm. A resume handles the devices in any order: LoopDone is the lemma of its loops.
* **`KeyboardProofs`**: `KeysSafety` (`KeysBalanced`) and `LockCloses` (`LockedClosesUis`).
  A release goes where its press went because `suppressed_keys` holds just the pressed
  keys that were intercepted (AllPaired); the switcher needs an output to be open over (SwitcherHasOutput).
* **`CastProofs`**, of `CastSessions`: `SessionSafety`, `CastsAreLive`, from `~StartInBetween`. The two threads agree
  only up to what is under way: for a session that ended on the bus's thread,
  every StartCast in the channel is followed by its StopCast, and every
  cast and every requested target of it has a StopCast under way (StartsAreFollowed, CastsAreFollowed,
  TargetsAreFollowed). This is an invariant about the order in a queue of any length; the
  lemmas of that module on appending, taking the head and dropping are what its steps need.
* **`CastProofs`**, of `CastStream`: `StreamSafety`, `StreamFlows`, without a hypothesis but that "none" is no size. Frames
  fit because all memory there is was allocated for the format PipeWire settled on (MemoryFits) and the code lets go of
  it before the next; their order is one of sequence numbers (InOrder), and QueuedInOrder
  says that `queue_completed_buffers` takes a longest finished prefix and keeps it. Damage
  is never forgotten only because that also holds while the consumer has every buffer (DamageIsSeen); the property excepts
  a lower frame rate that comes while a timer is set, after which the code leaves damage waiting (section 6).
* **`CastProofs`**, of `Screencopy`: `CopySafety`, `CopiesServed`, without a hypothesis. The invariant counts nothing: each
  frame is where its state says (FrameFine: pending, in the queue, with the GPU or answered), each queued copy waits for an
  output that exists (Waits) and is queued once (Distinct), which is why no redraw answers it twice. RetainKeeps says what
  `retain` leaves; Tidied and Cleaned, that a queue removed from any of the five places was missed by nobody.
* **`WindowProofs`**, of `Opening`: `OpensSafely` (a window opens on a monitor and in a workspace that exist, in the
  mode it was told, whatever was unplugged, renamed or rearranged since) without a hypothesis, and
  `OpeningSafety` (`OpensAsAsked`, which adds: where it was configured for, as long as that did not
  move) from `~Redirects`. Three handlers pick a monitor at three times, from a rule, a wish, a parent and the active
  monitor. The invariant says that while nothing they look at changes, each would
  pick what the first picked (Leads, and the lemma PickedAgain).
* **`WindowProofs`**, of `Configures`: `ExchangeSafety`, `ExchangeIsAnswered`, without a hypothesis. A list of the values
  not committed yet is shorter than the list of configures under way, because a configure that
  changes nothing adds nothing; that each configure's value can still be read off it (Tracks) is
  the invariant, kept by noting a value (NotedTracks) and by committing any prefix (CommittedTracks).
* **`WindowProofs`**, of `Configures`: `SettleSafety` (`Settled`), from `~AsksBack` and sizes that tell the modes apart
  (DistinctSizes: the maximized size is asked for nothing else, and a client's own size is none that is asked for; section 6
  says what the code does otherwise). The invariant is about the newest configure, sent or committed (LastIsNewest): its
  values are those of its state or another configure will be sent. What is under way says how each wait ends:
  a size asked once (OnceIsUnderWay), a resize (ResizeIsUnderWay), a turn that sent nothing (TurnIsDone).
* **`PointerProofs`**: `GrabsSafety` (`GrabsMatchGestures`) and `DragsSafety` (`DragsEndWithButtons`). A
  gesture may have several drivers and a grab may outlive its gesture; what holds is that a grab
  takes the gesture it drives with it however it ends (the lemma UngrabDriven), that one that goes on into
  another gesture drives that (FrameGoes), and that nothing else starts one (Calmer).
* **`MirrorProofs`**: `MirrorSafety` (`StreamsAgree`), for any outputs, workspaces and windows in any arrangement with
  distinct workspaces (`DesktopAssumption`) and a buffer of at least the six events that a new client is sent first
  (`BufferAssumption`: with a smaller one the code panics by its own `expect`). The invariant (`MirrorInv`): the server's
  copy is that of some desktop there was, with at most the cast there is, and of the present one once refreshed
  (Mirrored, Agreed); and what a client has applied leads, by what waits for it, to the server's copy
  (StreamLeadsToServer). The core is Refreshed: the events that one refresh derives from a copy and a desktop, whatever happened
  in between, apply one by one without failing and make the copy the desktop. Each kind of event is followed through the list by
  what it has told so far (Telling and WsLeads for workspaces, WinTelling and WinLeads for windows, LaysOut for layouts): an
  event about one window takes the focus from all others and one about a workspace the activity of its neighbours, so what is not
  told by itself must be made good by another event, in whichever order a HashMap gives them. `replicate` makes a new client's
  copy the server's (Replicated), EventsSent is the buffer that overflows, and AssignKeeps, that the actions of the
  other protocols leave an arrangement. What a recursive function computes is shown by a least counterexample (LeastNatural).
* **`HandlesProofs`**: `ClientsSafety` (`ClientsSeeTruth`), from the same assumptions. The invariant
  (`HandlesInv`) says at each step, refreshed or not, how a client's handles fit what was last sent (BarFits, PanelFits): each
  holds that or is destroyed, a group has the workspaces of its output with a handle, a bar was sent a done event after its last change, and
  at most one window was sent as activated. A refresh is followed workspace by workspace, group by group and window by window (BarAt,
  PanelAt): a bar is told of one workspace and of no other (OneTold, FitsAgain) whether it is new, renamed or moved (NewTold, ChangeTold), a name
  that was not built again is the right one because the one sent before was (WellNamed, WorkspaceSent), and no two windows are ever activated
  because the focused one is looked at last (FocusedComesLast, ToplevelTold). That the desktop is well arranged comes from `MirrorInv`.

What stays with TLC, and why:

* Liveness (`StaleIsRedrawn`, `MeetsContract`, `LockedIsShown`) and ENABLED: the
  provers have no rules for them.
* `SlotSizesRequested`, `SwapRoundTrip`, `ChildrenAboveParents`, `ActiveSurvivesRearrangement`,
  `ArrivalIsVisible`, `NothingIsLost`, `SomeWindowActive`: their operators filter, reverse or fold
  sequences (`SelectSeq`, `RemoveAt`, `FoldRight`), which the library defines by recursion and the provers cannot unfold.
  (What a recursive function of a module computes can be proved by a least counterexample, as for `placed` above.)
* `ConfigIsCurrent`: its includes are followed by a RECURSIVE operator.
* `KeyboardFocusIsTrue`: it relates the focus before a turn to what happens in it, and a proof
  has not been written yet.
* `InputMatchesVisuals`, `ViewIsContinuous`, the switcher and the screenshot interface are
  geometry over a small axis, which TLC enumerates completely.

## 6. Not modelled, and what was met while modelling

Not modelled, because there is nothing to check or it is out of reach: rendering,
spring and bezier arithmetic, cursors, D-Bus and process I/O, xwayland satellite, the
development backends, transactions (dead code for resizes here), frame-callback
throttling. Parsing of the configuration's text is not modelled, its loading is.

The runs hold with these constants off; with them on, a run of the same configuration
finds the property violated, and each is something the code does:

| Constant | Property | What happens |
|---|---|---|
| `RogueVBlanks` | `NoPanic` | a vblank nobody asked for replaces `WaitingForEstimatedVBlank` and leaves its timer, which then meets a state it calls unreachable (`backend/tty.rs:1714`, `1810`) |
| `StartInBetween` | `CastsAreLive` | a session's stream started after Stop has collected its streams leaves a cast nobody can stop (`dbus/mutter_screen_cast.rs:171`) |
| `Redirects` | `OpensAsAsked` | a window configured for a named workspace that then asks to be fullscreen on another output is configured for that output and still opens on the workspace (`handlers/xdg_shell.rs:610`) |
| `AsksBack` | `Settled` | `request_size_once` returns early and leaves an older, unsent size pending, so the window ends with it (`window/mapped.rs:862`) |
| `UnseenEdits` | `ConfigIsCurrent` | a file created after the watcher's check and removed before its next poll leaves the configuration of neither loaded (`utils/watcher.rs:98`) |
| `CommitGone` | `panicked` in `Handles` | a commit that assigns a workspace to an output that is gone panics (`protocols/ext_workspace.rs:568`, `layout/mod.rs:3582`) |

`ToggleLeavesFullscreen` of `Workspace` is in no run because a layout fullscreen is told to the client as
Maximized and the toggle reads that back, so it never leaves fullscreen
(`layout/workspace.rs:1391`); as an INVARIANT of `Workspace.cfg` it is violated.

Met while modelling, with no property of their own:

* *Layout.* `remove_window` removes an emptied workspace although the README promises a static number per monitor
  (`layout/mod.rs:1170`); four methods of the tiling engine are `todo!()`
  (`layout/scrolling.rs:1072`); `add_workspace_top` does nothing (`layout/monitor.rs:444`).
* *Scene.* During a crossfade windows are painted at rest and hit at the sliding place; while
  the overview closes the lower layers take input without its zoom; ending a drag in the overview
  during a switch by keyboard makes the view jump. The properties exempt these moments by name.
* *Lock.* The screen transition is drawn above the lock surface (`niri.rs:4279`), and the
  locked hint is given when the frame is queued, before its flip (`niri.rs:6108`).
* *Keyboard.* A key whose release was lost and that is pressed again on a bind stays pressed for the client; a
  bind goes on repeating under an interface opened by IPC; resize mode and the
  exit dialog survive locking.
* *Focus.* The popup grab is only looked at when the focus at the end of a turn is another one than at its
  start (`niri.rs:1254`, `1313`). One that is got after the lock or the exit dialog let go of the focus, and before
  they have it again in the same turn, is kept; so it is under a lock that takes at once, without waiting for a
  surface, or under an exit dialog that is closed and opened again. `LockedKeyboard` excepts just such a grab
  (`slipped`), and without the exception is violated.
* *Pointer.* A late touch move request whose finger is up leaves a grab without a finger; a
  drag is not ended by locking; the button's release swallowed by a pick grab stays pressed in the seat.
* *Opening.* A rule that names a workspace of another monitor drops the wish for fullscreen (`handlers/xdg_shell.rs:1105`).
* *Windows.* Without panels the maximized size is the fullscreen one. A window asked to be fullscreen while its maximize
  is still with the client is then sent nothing, as `request_size` compares with what is committed (`window/mapped.rs:798`), and
  stays `is_maximized` once it has committed: with `ViewSize = WorkingSize` `Settled` is violated.
* *Outputs.* Removing a GPU does not turn the internal panel on again (`backend/tty.rs:1123`); a GPU replugged
  while suspended keeps its dead handle; a change of the number of modes hides a change of the current mode from
  the clients (`protocols/output_management.rs:127`); a client's second manager takes the place of its first, and
  the end of either then removes the data of the other (`protocols/output_management.rs:302`, `355`).
* *Casts.* Of three quick resizes the third may meet "wrong size, but we're not
  resizing" and stop the cast. A timer that fired leaves its token; when a format with a lower rate
  came meanwhile, the frame may be too soon again and no timer is set (`screencasting/pw_utils.rs:933`), so damage waits
  for another redraw. `DamageGetsOut` excepts this (`slower`).
* *Config.* The programs to run once of a configuration that failed to parse never run; a request to load a missing
  file is dropped silently.
* *Screenshot.* Space pressed and released during a move by the mouse ends the move and goes on drawing. A touch that
  is cancelled is not told to the interface (`input/mod.rs:4367`): the drag stays down until a finger of the same slot comes
  up; `DragsHaveHands` counts those fingers (`gone`).
* *Workspace protocol.* A client may be told to leave a group that it never saw it enter.

**Plan.** Next comes the proof of `NothingIsLost`, after its filters are written as functions.
