# Pookie Paste: a TLA+ model of the clipboard daemon

Pookie Paste is a clipboard manager: a daemon watches the clipboard, keeps a
history in SQLite and a directory of PNG files, and serves a popup over a Unix
socket. This directory models the parts of it whose correctness depends on what
runs between two steps: tasks interleaved at await points, failures, crashes and
late answers. Every definition is translated from `src/`; `PROJECT.json` names
the lines each one stands for.

## 1. The system

Paths are under `src/crates/`.

| component | state | operations | talks to |
|---|---|---|---|
| history service (`history/`) | the rows' order, pins and identities; `image_mutation_gate` | save, delete, clear, toggle_pin, promote, enforce_limit, reconcile, migrate | repository, image store, notifier |
| repository (`storage/repository.rs`) | table `clipboard_items` | single statements; one transaction, `consolidate_legacy_image_row` | SQLite |
| image store (`storage/image_store.rs`) | `images/<id>.png`, temporary files | write (temporary file, rename), read, delete, sweep | file system |
| revision notifier (`history/notifier.rs`) | a `watch` channel holding a counter | advance, subscribe | request handler |
| main task (`daemon/main.rs`) | none of its own | one select loop: clipboard event, SIGHUP, shutdown, IPC, shortcut | everything |
| IPC server (`daemon/ipc_server.rs`, `request_handler.rs`, `ipc/`) | one task per connection | the requests of `protocol.rs` | history, activation, shortcuts |
| popup (`ui/`) | history list, selection, tracked revision | watch thread, poll_history, user actions | IPC |
| clipboard watchers (`pookie-clipboard/`) | X11: owner, caches, queue of events; Wayland: current offer | read a new selection, deliver it | main task, by a channel |
| clipboard service (`daemon/clipboard_service.rs`, `clipboard_state.rs`) | marker of the last self-write | write, is_self_write | display server, main task |
| activation (`daemon/activation_service.rs`, `focus_service.rs`, focus backends) | none of its own | load, write, promote, restore focus, paste | history, clipboard, focus, paste |
| portal paste (`daemon/portal_eis_paste_backend.rs`) | worker session, health, sequence | paste, reconnect, shutdown | portal and EIS |
| shortcut listener (`daemon/shortcut_listener.rs`, backends) | status, current shortcut, grab | register, rebind, recheck, wait | worker thread, portal, X11 |
| reload (`daemon/reload_coordinator.rs`, `shortcut_config.rs`) | `reload_gate`, `config.toml` | reload, recheck, set_shortcut | listener, file |
| launcher and single instance (`daemon/ui_launcher.rs`, `ipc/server.rs`) | popup slot, socket path | launch, bind, drop | processes, file system |

What is hard in it, and what makes each part correct:

* **History.** The saver runs in the main task and the requests in tasks of
  their own, without a lock around an operation: texts have none at all, images
  share a gate with the migration only. Rows and files are two stores without a
  common transaction. A live image row must keep its file, an identity must have
  one row, the limit and the pins must survive the interleavings, and no file
  may be left behind by an operation that ended well.
* **Revision and watchers.** A change and its announcement are two steps, a
  snapshot three, and a popup sends each request on a connection of its own. No
  change may be missed and no revision may stand for another table.
* **Migration.** It decides on files it verified before its transaction, and
  shares the gate with the saver. It must lose no image, pin or date, and must
  end.
* **Watchers, self-write marker, activation.** Events come late, doubled, out of
  order or never; the marker is set after the write it describes. The user's
  copies must be recorded, the daemon's own writes must not, and a paste may go
  only to the confirmed window.
* **Shortcuts and reload.** A worker thread that blocks in its backend, commands
  that wake it, a configuration file and a runtime that must agree after partial
  failures, a setup view whose answers overtake each other.
* **Focus and paste.** On KDE a command's answer is a method call of a script
  that carries no number, with a timeout on either side; the portal's session is
  paused, lost and reconnected. The keys may go only to the confirmed window and
  must not stay pressed.
* **Popup.** A hidden window gets no frames, so what ends its activation must
  wake it; the slot of a popup that is gone must be free again.
* **Lifecycle.** Starts over a stale socket, a start during another daemon's end,
  crashes anywhere.

`PROJECT.json` lists every component with what is and is not modelled, and every
hazard at its line.

## 2. The modules

| module | models | depends on |
|---|---|---|
| `RevisionedStore` | abstract: who changes the table owes an advance of the revision | |
| `History` | saver, requests, image store, crash, restart and reconciliation | refines `RevisionedStore` |
| `HistoryMigration` | the background migration composed with all of `History` | extends `History`; refines `RevisionedStore` |
| `HistoryWatch` | snapshots, long polls, the popup's watch thread, daemon restarts | extends `RevisionedStore` |
| `Selection` | abstract clipboard: its owners, and what the X11 and Wayland watchers deliver of them | |
| `Activation` | activations, the self-write marker, the main task, focus | extends `Selection` |
| `ShortcutConfig` | `config.toml`: reading, writing, defaults, as operators | |
| `CompositorBinding` | what Sway's and Hyprland's bindings say of a shortcut, as operators | extends `ShortcutConfig` |
| `X11Grab` | grabs with lock modifiers, key events, the self-pipe | extends `ShortcutConfig` |
| `PortalSession` | the GlobalShortcuts session, its signals, tasks and channels | extends `ShortcutConfig` |
| `ShortcutListener` | the worker thread, its commands and status | extends the three backends |
| `ReloadCoordinator` | reload, recheck, configure_portal, set_shortcut under `reload_gate` | extends `ShortcutListener` |
| `ShortcutSetup` | the popup's setup view and its requests | extends `ReloadCoordinator` |
| `Platform` | which backends a session gets, as operators | |
| `Desktop` | windows, focus, keys; the choice of an instance | extends `Platform` |
| `KWinFocus` | KWin's script and the worker that calls it | extends `Desktop` |
| `PortalPaste` | the worker of the RemoteDesktop portal and EIS | extends `Desktop` |
| `PopupWindow` | the launcher's slot, the popup's process, frames and visibility | extends `Desktop` |
| `Delivery` | capture, restoration, confirmation and paste over all of these | extends the three above |
| `Lifecycle` | daemons that start, end and crash around one socket | |
| `Service` | `Delivery` and `Lifecycle` side by side | extends both |
| `HistoryProofs`, `HistoryRefinementProofs`, `HistoryMigrationProofs`, `HistoryWatchProofs`, `ActivationProofs`, `DeliveryProofs`, `ServiceProofs` | theorems | the module they are named for |
| `ShortcutProofs` | theorems | `ShortcutSetup` |
| `MCHistory`, `MCHistoryMigration`, `MCHistoryWatch`, `MCActivation`, `MCShortcuts`, `MCDelivery` | instances for TLC | |

**From the code to `History`.** Every await on SQLite or the file system is a
point where another task may run, so an action is the code between two of them.
`saver` and `client[c]` hold a program counter and the locals that survive an
await; their `pc` names what the task does next. `rows` is the table, `files`
and `temps` the directory, `rev` the notifier, `gate` the owner of
`image_mutation_gate`. The steps of a save are

    find -> check -> touch -> announce                      (promotion)
                  -> drop_row -> drop_file -> write ...     (missing file)
         -> write -> rename -> insert -> count -> oldest -> evict* -> prune* -> announce
                                      \-> rollback

with texts going from `find` to `touch` or `insert`. An error that `save`
returns ends the daemon, because `main` returns it (`main.rs:255-264`); a failed
statement of a request is answered and forgotten.

**Abstractions.** A content is its identity. Ids and `created_at` are one
counter: ids are unique in the code, timestamps almost surely, and a timestamp
is taken when the item is made, just before `save`. `pinned_at` keeps whether it
is set. A transaction is one step. Failures of a statement inside a save are
`Crash` at that point (the daemon ends either way), except the insertion of an
image, which rolls its file back first. The revision counts in Nat; the code
wraps at 2^64.

**`HistoryMigration`** keeps `Next` of `History` whole and adds the task's own
steps; the task is spawned at each start and dies with the daemon. The file of a
candidate, when it can be read, decodes to the row's content, so the branches
for corruption and for a missing file coincide. Candidates are taken in any
order; the code sorts them.

**`HistoryWatch`** is built on `RevisionedStore`, not on `History`: it needs
nothing of the history but its promise, which the run `history_faults` and the
theorem `ChangesAnnounced` establish. `conn[p]` is the request under way, the
handler's locals and the reply. The revision restarts at 1 with each daemon, as
in the code, so `epoch` tells the daemons apart; no action reads it.

**`Selection`** is on the display server of its `instance`, which also says what
the user may copy, and numbers every state of the clipboard by its place in `owned`;
`unread` are the notifications the watcher has yet to handle, `reading` the
reader threads of Wayland, `channel` what is on its way to the main task. On X11
a notification reads whatever is current, so one copy may be delivered twice and
another never; on Wayland each offer has its own thread, so deliveries are out
of order and an offer that was replaced may yield nothing. A read may fail or be
late whoever owns the selection, the current one included, and is not tried
again; `missed`, a ghost, has the selections that were current when theirs did.

**`Activation`** has one program counter per connection, with a step for each
await or call of `activate`: read, write, mark, promote, restore, poll, paste.
`did` is what it did, and `paste` is in it from the moment a key may have been
sent: a call that fails may have pressed some, and one that is given up leaves a
worker that may still press them.
Write and mark are two steps because the main task, on another thread, may look
at the marker in between; the mutex is held in `mark`. The main task takes an
event (`Receive`: `is_self_write`, normalisation, policy) and saves it. The
history is reduced to the row of each content, which anybody may delete or evict
at any time. A copy is compared with the marker as it was read, and recorded as
normalised: `Normal` says how, and which copies the policy rejects. `Focus` is
the window manager and the user: neither is obliged to do anything, and the time
limit of `restore_and_wait` may end any poll. A failed save ends the daemon in
the code; that is in `History`.

**The shortcut modules** are one specification in layers. `instance.platform`,
chosen by the initial state, is the backend the daemon made, and the state of the
others is idle. `pc` is where the worker thread is: before its registration,
waiting in `wait_for_activation`, or `parked` in the loop that only receives
commands. A command is a message in `cmds` and a byte in the self-pipe (X11) or
the wake channel (portal), as `wakeSet` has it; the answer comes in `reply`.
`coord` is the call that holds `reload_gate`, with its place among its awaits;
callers that wait for the gate have no state worth a variable. `set_shortcut` is
its three phases: a temporary file, the rebind, the rename, with each failure
and the roll-back, and before them the preflight of a compositor's bindings. A
shortcut is its modifiers and a key, a binding what it runs: the parsing of
configuration texts is resolved. On X11 a grab is of modifiers, a lock state and
a keycode: `Keycode` is what `find_keycode` gives for a key, and two keys may
have one. A platform is also "unknown", the session that gets the backend which
is always unavailable and whose worker parks, and "none", where the backend
could not be made and no worker runs. The portal's `session` is "unheard" when
the task that reads its activations ended and the session goes on.
`ShortcutSetup` has the view's fields by name; `poll` and `action` are the two
request threads. `missed`, `checked` (what the compositor was asked at the last
`CheckConflict`, and what was bound then) and `disturbed`, with the counters
`presses`, `calls` and `edits`, serve properties and bounds.

**`Platform`** gives the resolvers as operators, each of its own reading of the
environment: the popup's policy and the daemon's backends are decided in two
processes and may differ. `Desktop` derives `focus`, `paste` and `dismisses` from
the instance, so a combination no environment has cannot be checked.

**`KWinFocus`** keeps three queues: commands to the worker, actions invoked in
KWin, and the script's calls back. `Answers` says which callback answers which
command: by its kind, and for a focus by its window, not by a number. A caller
that gives up drops its channel (`awaited`), and the worker stays on the command;
a worker that gives up leaves the action to run.

**`PortalPaste`** keeps what the worker believes (`resumed`, `emulating`) apart
from what the compositor has (`keyboard`), with the queue of events between
them. Typing is four steps, in which the worker reads nothing. `health` is the
atomic that callers read. `stale` and `Desktop`'s `moves` are ghosts.

**`PopupWindow`** has one action per kind of step of the process; `Frame` is one
call of `PookieApp::ui`, which first reads an outcome, then decides whether to
close, start an activation or show itself again. A frame of a hidden window
needs `wake`. Two popups cannot be alive at once, as the slot is claimed with an
atomic compare-and-exchange and given back by the reaper.

**`Delivery`** has the activation's program counter `act.pc`: `restore`,
`restoring`, `check`, `checking`, `again`, `paste`, `pasting`, `typing`. Its
first part, the clipboard and the promotion, is `Activation`'s and here a choice
of outcomes. Backends of X11, Sway, Hyprland and wlroots answer in the caller's
thread and are one step per call.

**`Lifecycle`** splits `bind` into its system calls. A daemon has the database
open from then on (`HasDatabase`). It serves (`Serving`) until `main` leaves; then
the path goes in `Drop` (`close`), the listener after it, and in `end` the
variables `main` declared before the server, the database among them, and the
runtime with the connection tasks, which hold it as well.
It shares no variable with `Delivery`; `Service` puts them side by side so that
one run has both, and an instance opens popups or starts daemons.

## 3. The runs

| run | what it asks | bounds | states |
|---|---|---|---|
| `history_faults` | `TypeOK`, `NoDanglingImage`, `UniqueIdentity`, `EveryChangeAnnounced` under every fault | a text and an image, two connections, limit 2, 4 timestamps, 1 lost file | 905,000 |
| `history_saves` | `NoOrphanWhenIdle`, `CapacityKept`, `PinKept` over several saves | two texts and an image, two connections, limit 2, 5 timestamps, no crash | 403,000 |
| `history_migration` | `MigrationLosesNothing`, `MigrationComplete`, `MEveryChangeAnnounced`, `MigrationEnds`, `SaveEnds`, and the invariants of `History` again | two legacy copies of an image, one connection, lost file, crash, failed statements | 210,000 |
| `history_watch` | `TrackedIsCurrent`, `Converges` | two tables, two tasks, one popup, two daemons, revision 3 | 27,000 |
| `activation` | `LastCopyKept`, `OutcomeHonest`, `OneDropPerWrite`, `MarkerIsLastWrite`, `ActivationEnds` | one connection, two texts, one of them also with other line ends, and a rejected copy, two windows, on both platforms; two connections that contend for the clipboard's mutex, two texts, one window, on X11; 3 selections | 666,000 |
| `shortcuts` | `GrabsMatch`, `StatusTellsGrab`, `OneActivationPerPress`, `PortalConverges`, `SetAllOrNothing`, `OccupiedNotTaken`, `GateReturned`, `ShownCatchesUp` | two shortcuts, four platforms and none, 13 instances of up to 2 calls, 1 edit, 2 presses, 2 disturbances | 350,000 |
| `delivery` | `RightWindow`, `TypedInItsSession`, `NoKeyLeftDown`, `ReadyIsReady`, `PopupComesBack`, `OneDaemon` | two windows, 12 instances of six environments with up to 2 disturbances, and three daemons | 267,000 |
| `history_pinned` | finds `PinnedNeverEvicted` violated | limit 1, two texts | |
| `history_repair` | finds `PinKept` violated | a pinned image whose file is lost | |
| `history_clear` | finds `NoOrphanWhenIdle` violated | a clear during the save of an image | |
| `activation_reentry` | finds `NoReentry` violated | one connection, one text, Wayland | |
| `shortcuts_parked` | finds `ActiveIsHeard` violated | the instances of `shortcuts` | |

**Why the bounds suffice.** The races of the history are between the saver and
one or two requests over one row. Two rows exist from the start, one of them a
pinned image, and the saver adds enough to exceed the limit, so promotion,
repair, insertion and eviction all occur with deletions, toggles, promotions and
a clear under way on two connections; `history_faults` crashes and restarts
within this any number of times. `MaxClock` bounds ids and timestamps together
and `MaxRev` the revision at which operations start; both only cut the length of
a history. In `history_migration` two legacy rows and a fresh save of the same
image make three rows of one content, the least at which the survivor is a
choice. In `history_watch` the table is one of two values and several changes
per announcement are allowed, which is all a watcher can tell apart, and a
second daemon reaches revisions the popup has tracked. One popup is enough:
popups share nothing but the store.

In `activation` three selections are enough for a copy, the daemon's write and a
copy that replaces it before it was read, and two ids for an item and the one
that comes after it. What one activation does to another, over the marker and the
mutex, is in the instance with two connections, the least that contend; it is on
X11 with one window, since the wait for the mutex concerns neither. Each of
`Instances` says which display server, copies, connections and windows it has;
with one connection, X11 does without the second text. `Room` reserves the write
of an activation under way, so that the bound never blocks it.

In `shortcuts` each instance bounds how often users and coordinators call, edit
the file and press keys, and how often other programs and the portal disturb
the platform; together they have every pair of these on the backend where the
pair matters. Two shortcuts are the least with a rebind, a roll-back and one
that is taken. The second can be grabbed by another client under Caps Lock
only, so that a registration is refused halfway. Two key events are what the
code looks ahead. The keys have a keycode each; with one for both
(`Keycode <- MCSharedKeycode`, 336,000 states) the safety properties hold as
well, and `GrabsMatch` by its exception.

In `delivery` the disturbances are moves of the focus or closed windows, answers
given up, failed calls, pauses of the keyboard, and the shutdown. Popups follow
one another without bound, which is how a late answer meets a later command.
The hazards are about one disturbance, or two of different kinds; the instances
have the pairs on KDE, where answers can be late, and one of each on the others.
Two windows are the least with a right and a wrong one. In `Lifecycle` the third
daemon is what starts while another ends over the socket of a crashed one; the
database of the first may still be open, and `OneDaemon` says that the socket is
then the second's.

Deadlock is checked where the model cannot rightly stop. `history_saves` and
`history_watch` have no crash, or a bounded number of daemons, and stop when
their bounds are used up, and so do those of `Activation`, `ShortcutSetup` and
`Service`, where users need not do anything: their configurations say so.

**Fairness.** `Fairness` and `MFairness` assume that Tokio polls a task that can
run and that SQLite and the file system answer: weak fairness of the saver, of
each request under way and of the migration. None is assumed of users, of
failures, of a crash or a restart. The gate is taken by the saver and by the
migration, once per candidate; weak fairness suffices as the saver's clock is
bounded, and Tokio's mutex is fair. `WFairness` adds that tasks of a live daemon
announce what they changed, that handlers and popups run, and strong fairness of
`SnapshotRead`: a SELECT that is tried again and again does not fail every time.
The snapshot's retry loop is unbounded in the code; `Converges` holds because
the announcements are bounded by `MaxRev`, that is, for a table that is not
changed for ever.

`AFairness` assumes that the task of each connection runs and, strongly, that it
gets the clipboard's mutex, which is Tokio's and is handed over in the order of
the requests. Nothing is assumed of windows, users or the watchers.

`SFairSpec` of `ShortcutSetup`: the worker, the task that reads the portal's
signals, the call that holds the gate and the popup's frames and threads run. A
worker that is woken gets to its commands (`Woken`) although the repeats of a
held key keep arriving: the self-pipe stays readable, and the code looks at it
after every event. `DFairness`: the popup's process, KWin, the workers and the
activation run, commands are received during a recovery, and the clock of
`restore_and_wait` is read (strongly, since it is between two checks). Nothing is
assumed of users, window managers, the compositor's device, of connections, or
of timeouts, which either happen or do not.

### What the violations show

* `history_pinned`: between `enforce_limit`'s SELECT and DELETE (`service.rs:254`
  and `:263`) a request may pin a victim, which is deleted all the same, against
  `repository.rs:100` and `docs/clipboard/overview.md:286`.
* `history_repair`: `save_image` holds a `pinned_at` across the removal of a
  stale row; a pin set in between is lost, against `docs/clipboard/overview.md:255`.
* `history_clear`: `clear` unlinks the files it listed before its DELETE, which
  deletes more, against `docs/ipc/overview.md:155`. The next start reclaims the
  file.
* `activation_reentry`: the clipboard is written (`clipboard_service.rs:49`)
  before the fingerprint is recorded (`:51`); an event handled in between is
  saved as the user's copy, against `docs/clipboard/overview.md:222`. The row
  that exists already is promoted, or one that was just deleted comes back, and
  the marker stays until the user copies the same content, which it swallows.
  On X11 the second of two reads of one self-write has the same effect.
* `shortcuts_parked`: once `wait_for_activation` failed, for instance because the
  first registration met a conflict, the worker only receives commands
  (`shortcut_listener.rs:240`) and never listens again. A set that succeeds there
  grabs and saves the new key and reports Active, and no press of it is read,
  against `docs/shortcuts/platforms/x11.md:117`. Until the daemon is restarted
  the messages that interrupt the wait pile up unread.
### What does not hold, without a run

Five statements of the documents are definitions of the modules that no run
checks. TLC finds each violated, at once, when it is put into the configuration
of `shortcuts` or `delivery` with the constant named here.

* `ActiveIsGrabbed` (with `Keycode <- MCSharedKeycode`): `find_keycode` takes the
  first keycode that has the keysym in any group, so with the layouts us and fr
  the keys A and Q have one. `register` grabs the new shortcut
  (`x11_shortcut_backend.rs:282`) and then releases the old one by its keycode
  and masks (`:285`), which is the new one: the status is Active and nothing is
  grabbed, against `docs/shortcuts/status-model.md:93`. `GrabsMatch` says that
  this is the only way the grabs and what is registered come to differ.
* `OccupiedNeverTaken`: a reply of Hyprland that cannot be parsed counts for
  "nothing bound" (`hyprland_shortcut_backend.rs:487`), so the preflight lets an
  occupied shortcut pass, against the comment at `shortcut_backend.rs:359`.
* `LateKeys` (with `Instances <- MCLate`): the caller of a portal paste gives up
  (`portal_eis_paste_backend.rs:248`) and the activation answers
  `ClipboardUpdated`, while the worker goes on typing, against
  `docs/activation/overview.md:123` ("Paste emitted: No"). On X11 a paste that
  fails after its V was pressed answers `PasteFailed` in the same way, which is
  why `OutcomeHonest` takes either answer for one that may have sent keys.
* `OneDatabase` (with `Instances <- MCDaemons`): `main` drops the server, and
  with it the socket's path, before the history service and the database, which
  its connection tasks hold too; a successor that starts then has the database
  open beside it, against `docs/ipc/overview.md:311`.
* `OneServes` (with `Instances <- MCDaemons`): of two daemons that start over a
  stale socket, or one that probes between the other's bind and listen, one
  removes what the other has bound (`ipc/src/server.rs:49`) and both serve,
  against the same sentence.

### Read while modelling

`docs/ipc/overview.md:161` calls the advance atomic with the change, where the code has a window (it is what
`RevisionedStore` describes). After a daemon restart an open popup ends its
watch on the first error (`ui/src/app.rs:216`), so the branch for a restart at
`:196` is not reached. The comment of `get_all_snapshot` promises the exact
revision of the snapshot; it is exact up to changes not announced yet, which is
why `TrackedIsCurrent` asks for `pending = {}`. `docs/clipboard/overview.md:257`
gives 100 as the default limit; `history/src/config.rs` has 30.
An activation whose row is removed after it was loaded answers `NotFound` with
the clipboard already written (`activation_service.rs:142`). On Wayland the last
copy is recorded (`LastCopyKept`), but not always last, as readers end in any
order. Between the poll that confirms a target and the keys of the paste the
focus may move; `OutcomeHonest` and `RightWindow` promise the confirmation only.

*Shortcuts.* A rebind away and back between the halves of an auto-repeat opens
the popup again, which is why `OneActivationPerPress` allows one per call. In
the setup view the answer of one save clears a candidate recorded since, and a
save while another request runs is dropped (`ui/src/app.rs:711-816`). Between the
preflight of a set and its commit the compositor's bindings may change;
`OccupiedNotTaken` is about what was bound when the compositor was asked, and
leaves out the replies that cannot be parsed (`OccupiedNeverTaken`). `docs/shortcuts/platforms/x11.md`
lets a roll-back restore the original grab; the code restores the shortcut in the
file. `SetAllOrNothing` reads the file by its writes: only the end of an accepted
set writes it, so one that is refused or rolled back leaves it untouched, whatever
the user edits meanwhile.

*Focus on KDE.* `kde_focus_backend.rs:365` ignores callbacks "belonging to an
older operation", which holds of other kinds only. After a capture that timed
out, its late `Captured` is taken for the answer to the next popup's capture.
Mostly the restoration then fails, as the script has captured another window in
between; it does not if that capture found no window, or has not run yet, and
then the keys go to the window of an earlier popup. `RightWindow` claims the
popup's own target only while no call was given up. The confirmation itself is
lost after three timeouts over the same window, one of each command. The late
`Captured` answers the next capture, so the script's own `Captured` stays behind
for the one after; the late `RestoreRequested` answers the next restoration and
the late `Active` the next check, while KWin has run neither of the two, and the
keys go to a window that nobody restored. `RightWindow` therefore claims the
confirmation up to two calls given up; TLC finds that trace with three
(`late` = 3) and none with two and a move of the focus (520,000 states), which
the run leaves out for their size.

*Paste.* After a paste that its caller gave up the health stays Failed until the
keyboard is resumed or the session reconnected, although the worker is well. X11
and wlroots leave down what they pressed when a later event fails, so
`NoKeyLeftDown` is about the portal.

*Popup.* The message of a failed activation shows only where the popup does not
close on losing the focus: the frame that reads the failure and asks to be
visible finds the focus lost and, on X11 and KDE, closes.

*Lifecycle.* `OneDaemon` is what the socket does ensure: as long as no two daemons
were starting at once (`OneServes`), one at most serves, the socket leads to
it, and any other with the database open has removed its socket and is on its way
out (`OneDatabase`). A signal
that comes while an arm of `main`'s select loop is awaited is lost
(`shutdown.rs:39` subscribes anew in each round), against the runtime model's
description of the shutdown.

## 4. What is proved

TLAPS checks these for all values of the constants, from the assumptions named
in the modules.

| theorem | says |
|---|---|
| `HistoryProofs!TypeCorrect` | `Spec => []TypeOK` |
| `HistoryProofs!NoImageDangles` | `Spec => []NoDanglingImage` |
| `HistoryProofs!IdentitiesUnique` | `Spec => []UniqueIdentity` |
| `HistoryProofs!PinsAreKept` | `Spec => PinKept`, if pins are not toggled |
| `HistoryProofs!CapacityIsKept` | `Spec => []CapacityKept`, if pins are not toggled, nothing crashes and the initial rows are within the limit |
| `HistoryProofs!NothingIsOrphaned` | `Spec => []NoOrphanWhenIdle`, if no unlink fails and nobody clears |
| `HistoryRefinementProofs!ChangesAnnounced` | `Spec => EveryChangeAnnounced`: `History` implements `RevisionedStore` |
| `HistoryMigrationProofs!MigrationIsTyped` | `MSpec => []MTypeOK` |
| `HistoryMigrationProofs!MergesKeepFiles` | `MSpec => []NoDanglingImage` |
| `HistoryMigrationProofs!MergesKeepIdentities` | `MSpec => []UniqueIdentity` |
| `HistoryMigrationProofs!NoLegacyLeft` | `MSpec => []MigrationComplete` |
| `HistoryMigrationProofs!NoImageIsLost` | `MSpec => MigrationLosesNothing` |
| `HistoryMigrationProofs!MergesAnnounced` | `MSpec => MEveryChangeAnnounced`: `HistoryMigration` implements `RevisionedStore` |
| `HistoryWatchProofs!TrackingSound` | `WSpec => []TrackedIsCurrent` |
| `HistoryWatchProofs!WatchIsTyped` | `WSpec => []WTypeOK` |
| `ActivationProofs!ATypeCorrect` | `ASpec => []ATypeOK` |
| `ActivationProofs!MarkerSound` | `ASpec => []MarkerIsLastWrite` |
| `ActivationProofs!AnswersHonest` | `ASpec => []OutcomeHonest` |
| `ActivationProofs!OneEventPerWrite` | `ASpec => []OneDropPerWrite` |
| `ActivationProofs!LastCopyIsKept` | `ASpec => []LastCopyKept` |
| `DeliveryProofs!DeliveryCorrect` | `DSpec => []DeliveryInv`, the invariant of the next five |
| `DeliveryProofs!DeliveryTypesRight` | `DSpec => RightWindow` |
| `ServiceProofs!ServiceIsTyped` | `SFairSpec => []ServiceTypeOK` |
| `ServiceProofs!PasteStaysInSession` | `SFairSpec => []TypedInItsSession` |
| `ServiceProofs!KeysAreReleased` | `SFairSpec => []NoKeyLeftDown` |
| `ServiceProofs!HealthIsHonest` | `SFairSpec => []ReadyIsReady` |
| `ServiceProofs!TypesRightWindow` | `SFairSpec => RightWindow` |
| `ServiceProofs!OneDaemonServes` | `SFairSpec => []OneDaemon` |
| `ShortcutProofs!SetupKept` | `SFairSpec => []SetupInv`, the invariant of the next six |
| `ShortcutProofs!SetupIsTyped` | `SFairSpec => []STypeOK` |
| `ShortcutProofs!GrabsAreMatched` | `SFairSpec => []GrabsMatch` |
| `ShortcutProofs!StatusNamesTheGrab` | `SFairSpec => []StatusTellsGrab` |
| `ShortcutProofs!PortalIsFollowed` | `SFairSpec => []PortalConverges` |
| `ShortcutProofs!OccupiedIsNotTaken` | `SFairSpec => OccupiedNotTaken` |
| `ShortcutProofs!SetIsAllOrNothing` | `SFairSpec => SetAllOrNothing` |
| `ShortcutProofs!PressesPay` | `SFairSpec => []OneActivationPerPress` |

**Assumptions.** Of the history: texts and images are disjoint, `None` is
neither, connections are not called `"saver"` or `"migration"`, the bounds are
naturals, and the initial rows have one row per current identity. Of
`Activation`: normalised contents are fixed points of the normalisation. Of the
shortcuts: the default is a shortcut, `Keycode` is a function on the keys of the
keyboard and need not be one to one, no modifier or key is named like a
malformed text, values that stand for nothing are none of the data, edits are
files and bindings lists of bindings. Of `Service`: neither the popup
nor what stands for nothing is a window or a daemon, and instances start daemons
there are. TLC evaluates all of them on the instances of the runs.

The three theorems with an "if" have the hypotheses of the run they generalise,
`history_saves`, and each hypothesis is needed: a toggle breaks `PinKept`
(`history_repair`) and the eviction (`history_pinned`), and by pinning every row
keeps the table over its limit; a crash between an insert and its eviction leaves
one row too many, since the start enforces no limit; a clear leaves a file
(`history_clear`), and so does an unlink that fails, until the next start.

**The history.** `TypeOK` is not inductive: a task's locals must be
what its program counter implies. `TypeInv` adds `SaverWorks` (who is at work
has a content and an id, and holds the gate if that content is an image) and
`ClientWorks`. For `NoDanglingImage`, `FileInv` adds why a cleanup never hits a
live row: the new item's id is in no row until the insert (`FreshId`) and its
file is there by then (`NewFile`); the saver unlinks only rows already deleted
(`SaverUnlinksDead`), and so does a request (`ClientUnlinksDead`), since ids are
never reused. For `UniqueIdentity`, `IdentityInv` adds that when the saver is
about to insert, no row carries its identity (`KnownMatches`): only the saver
inserts, and requests only delete, so what it learnt at its lookup cannot be
undone.

`PinKept` rests on `PinInv`: the pin the saver holds is the row's, and the
victims that still exist have no pin. `CapacityKept` rests on `CapacityInv`:
between the insert and the eviction there is at most one row too many, and then
the new row is unpinned, so there is a victim (`OneTooMany`); a pinned row that
is to be inserted again has left room for itself (`RoomForPin`). That a
nonempty set of rows has an oldest is an induction over finite sets; it is
done with the well-foundedness of strict inclusion, which the library states as
a fact and not with an operator parameter. `NoOrphanWhenIdle` rests on
`OrphanInv`: each file without a row is in the list of somebody who will unlink
it (`FilesAccounted`), a temporary file is the saver's (`TempsAccounted`), and
who is about to delete rows has their files on its list (`DeleteKnows`,
`EvictKnows`).

**The migration.** `MInv` is the history's invariant and `MigInv`: the
transaction and the saver's work on an image exclude each other (`MigGate`); a
remembered id is not one that is yet to be inserted (`MigIds`), what is about to
be unlinked has no row (`MigDead`), a candidate that still has a row has the
content it was listed with (`MigKnown`), and every legacy row is ahead, at work,
or had lost its file (`MigPast`). Without the gate the history's own invariant
would fail: the saver learns at its lookup that no row has its identity, and a
merge could make one.

**Refinement.** For `ChangesAnnounced`, `Visible`, `rev`, `PendingTasks` and
`up` are substituted for `items`, `rev`, `pending` and `up`, and each action of
`History` is shown to be a `Change` or `Advance` of its task, `Die`, `Start` or a
stutter. `MergesAnnounced` adds the migration to the tasks. `TrackingSound`
rests on `WInv`: a snapshot in hand equals the table unless some task has
changed it since, and then that task owes an advance or the revision has moved
on.

**The activation.** `ATypeInv` adds that only copies, never an emptied
clipboard, are read, delivered and saved, and that an activation at work has an
item. `MarkerInv` says that at most one activation is between its write and its
mark, and that it did the last write: the mutex is what makes the marker current
again when it is released. `HonestInv` ties what an activation has done to where
it is. `OneDropPerWrite` counts, and `CreditInv` keeps the account: the drops of
a content, the marker if it has that content and the write that is yet to be
marked are together at most the writes. `OnItsWay` says where the last copy is
until it is saved, or its read has failed.

**Paste and lifecycle.** `DeliveryInv` has the types of `Delivery` and, for the
portal, `Fresh` (a command that is not stale was sent in this session), `KeysUp`
(keys are down only while the worker types on a device that emulates) and
`Believed`: what the worker believes of the keyboard is what it will be told by
the last of the events it has not read. `LifecycleInv` says that a daemon that
starts alone is alone with the path: who found it free or refused finds nobody
there until it listens, and who has the database open beside one that serves is
past its `Drop`. `Service` has both invariants, since a step of one
leaves the variables of the other alone.

**The window that is typed into.** `RightWindow` speaks of one step, the press of
the V, and its invariant of all that led there. The worker of KWin matches a
callback to a command by its kind alone, so what must be known is which commands
are still to be run and which callbacks still to be read. `Line` puts the three
queues into one: callbacks, what KWin has to run, and commands, in the order in
which they were requested. Whatever passes from one queue to the next keeps its
place (`RunsInLine`, `TakesFromLine`), requests join at the end, and what is read
or fails leaves. `LineInv` says that the line holds at most the calls that were
given up and the one that is waited for, which is the last. With two given up
there are at most three in the line, and an old check cannot be behind an old
restoration. So `ConfirmInv` follows the activation: when its capture is
answered, and until it asks for the restoration, no check is behind a
restoration (`InOrder`); when the restoration is answered no check is left
(`NoChecks`); while it checks, the check is the only one and the last
(`OnlyLast`), so the answer is about the focus after the check was asked for; and
when the answer is "true", the target has the focus or the user moved it
(`Confirmed`). On the other desktops the line is empty. `ScreenInv` has what the
popup contributes: the activation's popup is hidden, what the window manager may
still activate is the target, and on Plasma a popup that failed closes, so that
none activates a second time. `OriginInv` says that with no call given up only
windows that had the focus meanwhile are captured, and `PasteInv` that the one
paste that is waited for, queued or being typed, is that of the activation at
`pasting`. The proof needs the bound where the property has it: with three calls
given up the answered capture may leave an old restoration and an old check in
the line, in this order.

**The shortcuts.** `SetupInv` has one part for each party: the grabs are all the
masks of one shortcut, or none where two keys share a code (`GrabInv`), the worker's place tells what is registered
and what the status says (`WorkerInv`), the latest trigger is in the last
signal, else in the last event, else known (`PortalInv`), the call under the
gate and its file are at the same place (`CallInv`), at most one command is
outstanding, the one the call awaits, besides rechecks that were given up
(`CommandInv`), and an answer says what was done to the grab or found in the
bindings (`AnswerInv`). The two action properties follow at the step that ends
a call or writes the file: `FileChanges` lists the steps after which `config.toml`
is another, and `WrittenBySet` says that of those only the end of an accepted set
is the daemon's.

`OneActivationPerPress` needs an account (`AccountInv`), and its unit is half an
activation: a key that is held activates again if the grab moves away between
the halves of a repeat, and back before it is released, so that each of two
moves pays for one half. `Unread` is what the listener has yet to read: two halves
for each press in the queue that is no repeat, and `Due`, what the key that is
pressed may still cost: one half while another key is grabbed, two when the grab
is back and the listener has missed the release. `CallMay` is what the call under
the gate may still cost, one for a reload or a rollback, two for a rebind with the
rollback that may follow it, and `ActionMay` what an action costs that waits for
the gate. With what was spent (`Spent`) these are at most two for each press and
two for each call. `QueueInv` is why a press counts once: in the queue presses and
releases alternate, and a repeat follows the release of its own key. The steps
that add to the account are the user's press and a replaced grab, and a grab is
replaced only by a `Rebind`, which the call that awaits it pays for once
(`GrabReplaced`, `GrabCost`, `AnswersOnce`, `CreditKept`). On the portal, where the
compositor signals each press once, the activations and those on their way
(`Coming`) are at most the presses.

All of these invariants were checked with TLC as well, on the instances of the
runs or on some of them (`RightInv` on eight, with up to two calls given up).

**Model-checked only.** Liveness under fairness (`MigrationEnds`, `SaveEnds`,
`Converges`, `ActivationEnds`, `GateReturned`, `ShownCatchesUp`,
`PopupComesBack`), which is beyond this prover. Every other property of the
passing runs is a theorem.

## 5. The plan

What can be checked without modelling bytes is modelled, and its safety
properties are proved. What may follow, when the code changes or a stronger
prover is at hand:

1. The liveness properties, whose arguments are short: each is a chain of steps
   under weak fairness, with the bounds of the instance as the measure.
2. With the watch thread restarted, or the callbacks of KWin numbered, in the
   code: `Converges` and `RightWindow` without their exceptions.

## 6. What is not modelled

* Rendering and window placement, thumbnails, the selection and the menus of the
  popup: pixels, or the state of one thread between its own frames.
* Content conversions (PNG, SHA-256, URI lists, MIME types), the JSON of the
  protocol, the parsing of compositor configurations: functions of bytes.
* X11's fallback polling, its caches and the queue of events that x11rb buffers
  while a reply is awaited (`x11_watcher.rs:186`): `Selection` says what is read,
  not when a descriptor becomes readable.
* The end of the popup's watch thread with its first error is modelled
  (`WatchFails`); that the list is stale from then on follows at once, and no
  property restates it.
* The loss of a signal during an arm of the select loop: by construction, see
  above.
* The restore token of the portal, and the handshake of its connection, which is
  one step that succeeds or fails.
* The command line, installation, packaging and the paths of `app_paths.rs`.

SQLite is assumed to be serialisable and durable, and a rename to be atomic.
Timestamps that tie (two items made within one clock tick) are not distinguished
by the model.
