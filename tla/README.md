# TLA+ verification of fawnd

fawnd configures DrunkDeer keyboards: a daemon owns the keyboard's HID
interface, clients (command line, GUI) send it requests over a Unix socket, a
focus watcher switches profiles with the active window, and a web build talks to
the keyboard from the browser. This directory holds TLA+ models of it, the TLC
configurations that check them on small instances, and proofs for TLAPS of what
matters most. Source paths are relative to the repository (`src/daemon.rs`);
`PROJECT.json` names the lines each definition stands for.

## The system

| Component | Source | State | Operations |
|---|---|---|---|
| Device thread, job channel | `src/daemon.rs` | `State { controller, active_profile }`, the `mpsc` queue of `Job`s, a reply channel per job | `dispatch`, `device_loop`, `handle` with ten requests |
| Controller | `src/controller.rs` | `actuation`, `downstroke`, `upstroke`: the maps "mirrored from what we last pushed" | `set_actuation*`, `flush_*`, `set_rapid_trigger`, `set_led`, `poll_depths`, `write_defaults` |
| Packets, key addressing | `src/protocol/*` | none | `mm_to_byte`, `modify_row`, `row_of`, `Identity::parse` |
| Profiles | `src/config.rs`, `src/daemon.rs` | TOML files in `profiles_dir()` | `load`, `save`, `apply`; `list_profiles`, `next_profile_name` |
| Focus watcher | `src/watch.rs` | `FocusService { rules, current }` | `activated`, `cycle_profile`, installing the KWin script |
| Focus rules | `src/rules.rs` | an ordered list of glob rules | `load`, `profile_for`, `glob_match` |
| IPC | `src/ipc.rs`, `serve_connection` | one stream per client | `connect`, `request`; a line in, a line out |
| Start-up, service | `daemon::run`, `packaging/fawnd.service` | the socket file, the ready channel | bind, open the device, watch, accept; restarts |
| HID transport | `src/device.rs` | the open handle, queued input reports | `open`, `write`, `read`, `drain`, `identity` |
| Native GUI worker | `src/gui/worker.rs` | `client`, `live`, two channels | `run`, `dispatch`, `connect` |
| Web GUI worker | `src/gui/worker_web.rs` | `State` in an `Rc<RefCell<_>>` shared by browser tasks | `send`, `poll`, `run_queue`, `connect_task`, the live task, the input handler |
| GUI | `src/gui/app.rs` | `connected`, `live`, `actuation`, ... | drawing, `drain_events`, `build_profile` |
| Command line | `src/main.rs` | none | direct use of a `Controller`, or a client of the daemon |

**How they interact.** Each connection is a thread that reads a request, calls
`dispatch` and writes the answer back. `dispatch` sends a `Job` (request and a
fresh reply channel) over one shared `mpsc` channel and blocks on the reply. The
device thread takes jobs one at a time and calls `handle`, which writes packets
to the keyboard through the `Controller` and returns a `Response`. The watcher
calls the same `dispatch` from D-Bus handlers. The GUI worker is a client; the
web worker replaces daemon and client by browser tasks over WebHID.

**What is hard.** A request is several packets and any of them can fail, so
memory, label and keyboard can part; the keyboard cannot be read back, so nobody
notices. The watcher keeps a copy of the daemon's label. Files come and go
between `list_profiles` and `load_profile`. Input reports are a shared queue of
echoes, late replies and depth frames. `PROJECT.json` lists each hazard at its
line, with the properties that cover it or the reason none does.

**What makes each component correct.**
- *Daemon and Controller*: an answer other than an error means the whole request,
  and nothing else, is on the keyboard; memory and label describe the keyboard;
  every request gets one answer, its own, and gets it eventually.
- *Packets*: every key reaches its slot, at the nearest supported tenth.
- *Profiles*: the hotkey reaches every profile.
- *Watcher*: the focused application's profile is active, and is not applied
  again for nothing.
- *Rules*: the first rule whose glob means the window's id decides, whatever its case.
- *HID transport*: an identity answer describes the keyboard as it is now; a depth
  frame has rows of one request; every call returns.
- *IPC*: the k-th response answers the k-th line; a client that left or stopped
  reading costs the others nothing.
- *Start-up*: who is served is served by a daemon whose keyboard is open; the service
  comes up once the keyboard is there, whatever `rules.toml` is; a restart brings back
  what a running daemon has lost.
- *Workers and GUI*: a UI that says Connected has a connection, commands are handled,
  live view is fed; what the panel shows after an apply is on the keyboard.
- *Command line*: a good exit means the whole command, a refused one touched nothing.

## Modules

| Module | What it is |
|---|---|
| `Packet` | Encoding of distances; rows, chunks and padding; the effect of a row packet on the keyboard |
| `KeyboardTypes` | Profiles, requests, responses, the keyboard's configuration, and what each request asks for |
| `KeyboardService` | Abstract specification: one atomic object that serves a request at a time |
| `Daemon` | Producers, channel, device thread, one action per device access |
| `DaemonInvariant` | The inductive invariant of `Daemon` |
| `DaemonRefinement` | `Daemon` implements `KeyboardService`: the mapping, and what `Inv` has to be joined by for it (`RefinementInv`) |
| `Watch` | The focus watcher composed with `Daemon`, asking `Rules` |
| `RowFlush` | An upload alone, checked with the real key counts |
| `WebWorker` | The browser's tasks and their `RefCell`, with the UI code that sends and polls |
| `Rules` | `glob_match` and `profile_for`, and what a glob means; pure operators |
| `Wire` | Every packet builder and both parsers, byte by byte, and the keyboard's reading of a packet; pure operators |
| `HidLink` | The device thread's reads on the queue of input reports: a step of `Daemon` that reads the keyboard is one call here |
| `Ipc` | Connections line by line: serving threads, the channel, clients that misbehave |
| `Lifecycle` | Processes: socket path, start-up, accepting, crashes, restarts, unplugging |
| `GuiWorker` | The native GUI's worker thread, its channels and its connection |
| `GuiPanel` | What the GUI's panel edits, saves and sends, against the keyboard |
| `CommandLine` | `fawnd`'s direct commands, packet by packet |
| `DaemonProofs` | Theorems about `Daemon`, its refinement, `Watch` and `Rules` |
| `HidProofs` | Theorems about `RowFlush`, `Wire` and `HidLink` |
| `GuiProofs` | Theorems about `GuiWorker` and `GuiPanel` |
| `PacketProofs`, `CommandLineProofs`, `WebWorkerProofs`, `IpcProofs`, `LifecycleProofs` | Theorems about the module of that name |
| `MCDaemon`, `MCWatch`, `MCRowFlush`, `MCWebWorker`, `MCHidLink`, `MCIpc`, `MCLifecycle`, `MCGuiWorker`, `MCGuiPanel`, `MCCommandLine` | Instances for TLC. `MCRowFlush` also extends `Wire` |

**How the modules fit.** Each module states what the next one takes for granted.
`Wire` says that packets are heard as meant; `RowFlush` and `Daemon` write packets
as settings. `HidLink` says that reads of the keyboard return and are about the
keyboard as it is; `Daemon` makes each of them one step that answers or fails.
`Daemon` says that every job is answered; `Ipc` makes a job one step. `Ipc` says that
responses come in order; `GuiWorker` and `GuiPanel` make a request one round trip.
`Lifecycle` has no jobs: it is about which process has the socket and the keyboard.

A definition called like another with a suffix that says what is wrong with it
(`LastRowMissed`, `PlanLabelsEarly`, ...) is a mutant: a plausible bug that some
property must catch. No specification uses it.

### Daemon

`pending[p]` is the request a producer waits for inside `dispatch`, `jobs` the
channel, `reply[p]` its reply channel. A producer stands for a connection or the
watcher: both wait for an answer before they send again. The device thread's
stack is `from`, `req` (the job), `name` (the profile), `result` (what `handle`
returned) and its position: `Plan(op)` lists the state-changing calls of `handle`
for a request in the order of the code, `pc` is the index of the next one, `row`
the next packet inside a flush. `Advance` is a call that returned `Ok`, `Abort`
the `?` operator.

| Code | Action |
|---|---|
| `dispatch` up to / after `reply_rx.recv()` | `Submit`, `Receive` |
| `for job in job_rx` / `reply.send` | `Take`, `Reply` |
| `list_profiles` for ListProfiles / inside `next_profile_name` | `ListProfiles`, `ChooseNext` |
| `load_profile`, and `Profile::apply` up to its flush | `LoadProfile` |
| `set_actuation_all`, `set_actuation_index`, the fills of `write_defaults` | `SetActuation` |
| one `Device::write`: a row, the toggles, lighting | `Write`, `WriteFails` |
| `status_response`; `poll_depths` | `Identity`; `PollDepths` |
| end of `apply_named`; `into_response` on success | `SetLabel` |

`fw` is the keyboard's configuration (external): a row packet replaces the slots
of its row. `mirror` is `Controller::actuation`; the other two maps of the
controller are only ever filled with zeros just before they are flushed, so the
flush writes zeros. A failing write may or may not have reached the keyboard. The
environment unplugs the keyboard (`open`), after which no write succeeds, and
adds and removes profile files between any two steps. `clean` and `before` are
history variables: properties need them, no guard reads them. `clean` turns true
when an actuation flush completes and false when a job fails half-way.

Abstracted: what a file says is a constant `Content`, chosen among profiles that
apply, profiles that name an unknown key (with the overrides reached before it)
and files that do not parse. Distances are integers in hundredths of a
millimetre; `NaN` is not among them. Model, firmware and error texts are left out,
and so are pacing delays.

### KeyboardService and the refinement

The abstract service has the producers' requests and answers, one keyboard, one
map, one label. A request that succeeds takes effect in the step that answers it.
One that fails changes nothing (`Refuse`), or remembers the map it asked for and
leaves a prefix of the rows of each map and any of the single-packet writes
(`Fail`), or is a cycle that did everything but report it (`FailReport`). The
refinement mapping shows the abstract keyboard as the job found it until the
answer is sent. It says that no interleaving of threads, packets, failures and
file edits is visible to a client.

### Watch

`FocusService` is one of the producers. D-Bus calls arrive in any order, at most
`MaxCalls` of them waiting; since each call is a task of its own that waits for
`&mut self`, any waiting one may be handled next. `Skip` is `activated` returning
early, `Handle` the way to `dispatch`, `Conclude` what happens with the answer.
`RuleFor` is `Rules!ProfileFor` of the rules file (`RulesFile`, `Default`) for each
application's id; no file is a file without rules and without a default.

### Rules

`GlobMatch` is the code's recursion over the suffixes of pattern and text (`Go` is one
call of `go`, a suffix the position where it begins), `Lowercase` and `Hits` the test of
a rule, `ProfileFor` the first that hits. `Means` is the reference: the text is cut into
a piece per pattern letter; `Chosen` is `profile_for` told with it. Letters stand for bytes: a
few with a capital, a few without, and the star, which may occur in ids too.

### HidLink

`due` is what the keyboard owes (external: echoes, signature-less stubs, identity
replies, depth rows, some missing), `queue` what the handle has buffered. A call is
in `pc`: `identity` is `StartIdentity`, `DrainOne` until `Quiet`, `Ask`, then `Listen`
until a reply parses or the deadline passes (`NoResponse`); `poll_depths` is
`StartPoll`, `TakeRow` until three rows are seen, or `PollEnds`. `DeviceFails` is a read
that returns an error. `Punctual` says that the keyboard is never silent for 15 ms
while it owes a report, which is what `drain` takes for granted; the theorems and the
run state it in the property. `behind` (history) is set when a poll gives up and
cleared by a drain.

### Ipc

A client has sent lines (`inbox`), unread responses (`outbox`, at most `Room`: the
socket's buffer) and read ones (`got`). Its thread reads a line (`ReadLine`): a blank
line is skipped, a bad one answered with an error, a line that is no UTF-8 ends the
connection, a request goes to `jobs` and the thread waits. `Execute` is the device
thread with a job, `Wake` `reply_rx.recv()`, `WriteResponse` `write_all`, which waits
while the buffer is full; `WriteFails` is writing to a client that hung up. `late`
(history) counts executions after the client left.

### Lifecycle

A process goes through `clear` (remove the socket file), `bind`, `open` (the device
thread opens the keyboard), `watch` (rules, D-Bus, KWin), `up` (the accept loop), or
ends in `failed`; `Restart` is systemd's. `path` is whose socket the file names.
`Connect` is a client in the backlog, `Accept` the loop taking it. `handle` says
whether the daemon's handle reaches the keyboard: no handle survives `Unplug`, and
nothing reopens it. `rules` is what `rules.toml` is: missing, good, or one that does not
parse; the user may change it at any time (`EditRules`), and a process reads it once, in
`StartWatch`. `desktop` says whether the session bus and KWin are there; they may come up
after the daemon (`LogIn`), and `StartWatch` does not try again. `watching` is what came
of it: the D-Bus service with the hotkey, and the KWin script.

### GuiWorker and GuiPanel

`GuiWorker`: `pc` is the request whose answer the worker waits for, or the top of its
loop; `client` is a connection named by the run of the daemon it leads to, so a daemon
that restarted is another one. `commands` and `news` are the two channels (of the
events only the last Connected or Disconnected). `Set` stands for the four commands that
change the keyboard.

`GuiPanel`: `actuation`, `toggles` and `globalMm` are `App`'s fields, `underway` the
commands under way, which take effect in order (`Execute`, with the daemon's meaning of
a request) or fail, after any of their packets (`ExecuteFails`); `status` is a Connected
event that has not been drained. A profile file has overrides under names of keys, and
perhaps one under a name that is no key (`unknown`): `load_profile` passes it over,
`Profile::apply` refuses the whole file (`DaemonTakes`). The history variables say when
panel, keyboard and file are promised to agree: `mapSynced` and `togglesSynced` from an
apply to the next edit, or to a failed command that none after it makes up for;
`overtaken` that a command has set the toggles since the status was taken; `origin` that
the panel shows a file as it was loaded or saved, or is edited.

### CommandLine

A process at a time: `Steps` are the calls of `main` for a command, with the same
packets as `Daemon`, a map that starts at 2.0 mm, and an exit at the first error.

### Wire

A packet is a sequence of 63 bytes. `Outbound` are the packets the code sends and
`Heard` is the setting, row or request a keyboard takes a packet for (external).
`ParseIdentity` and `IsDepthRow` are the two tests a report meets.

### WebWorker

One thread runs the tasks: the connect task started by `Worker::spawn` (`boot`),
the queue's task, the live task, UI frames and the input handler. They interleave
only at awaits, so an action is a stretch of code from one await to the next, and
`pc[t]` names the await a task is at. The queue's task goes from one command to the
next without an await: at `"next"` no other action is enabled (`Yielded`).

| Code | Action |
|---|---|
| a frame: `drain_events`, then a click's `send` and `run_queue` | `Frame` |
| `run_queue`'s loop, `handle_command` up to the first await | `QueueEmpty`, `StartConnect`, `SetLiveOn`, `SetLiveOff`, `StartWrite` |
| `dispatch_device_command` after each packet | `WriteOn` |
| `select_device` + `attach_input_handler`; `open_device`; the handshake | `Select`, `Opened`, `Ask` + `Listen` |
| the ways `connect_task` fails | `Fail`, from `Select`, `Opened`, `AskRejected`, `Timeout` |
| the live loop's top; `sample_depths`; its errors | `LiveTop`, `Collect`, `CollectTimeout`, `TrackRejected`, `Break` |
| the input handler | `Deliver` |

`handle_command` keeps its borrow of the `RefCell` during a device command
(`Borrowed`). Code that borrows mutably has `~Borrowed` in its guard; `Conflict` is
the panic it meets otherwise, and the model ends there. Events are abstracted to the
last connection event not yet polled (`news`), reports to their kind; an identity
reply also has the number of its request, which only the history variables and
properties look at. A frame of three depth reports is one report. The keyboard may
be silent, late, unplugged and plugged in again, when it is a new `HIDDevice`.

## Runs

| Run | Checks | Shows |
|---|---|---|
| `daemon_profiles` | `MirrorInSync`, `LabelTruthful`, `AnswerHonest`, `CycleCoversStore`, `LabelFollowsWrites`, `ImplementsService` | Profiles: listing, applying, cycling, toggles by hand, unknown keys, files that do not parse or vanish, failing packets, unplugging |
| `daemon_queue` | `OneReplyEach`, `AnswerHonest`, `ImplementsService`, `EveryJobAnswered` | Two producers, one queue, requests without a profile (an over-long vector, the eleven packets of Reset, depths): each is done as a whole before it is answered Ok, is atomic to its client and gets its own answer, always |
| `row_flush` | `FlushProgress`, `WishGranted`, `KeyboardUnderstands`, `ToggleRoundTrip`, `EchoIsNoReply` | Encoding and rows with 59 + 59 + 8 keys; every packet and report byte by byte |
| `watch_alone` | `AutoSwitchFollowsFocus`, `NoNeedlessApply`, `RulesChoose` | The watcher as the only client; the rules it asks |
| `web_worker` | `ConnectionTruth`, `LiveIsServed`, `EveryCommandHandled`, `LiveEnds` | All commands in the browser; overlapping connects, lost and late reports, replugging |
| `web_borrow` | `UiMaySend` | Violated: see Findings |
| `hid_link` | `IdentityFresh`, `FrameInStep`, `CallsReturn` | Reads of the report queue, with echoes, stubs, late and missing reports |
| `gui_worker` | `ConnectedHasClient`, `EveryCommandHandled`, `LiveViewIsFed` | The native worker over a daemon that stops and starts |
| `lifecycle` | `ServedByTheLiving`, `StartsOncePlugged`, `RestartMends`, `ClientsSettle` | The service beside a daemon started by hand, clients, crashes, a stale socket file, a late keyboard, a late session, a `rules.toml` that is edited, broken and mended |
| `ipc` | `ResponsesInStep`, `OneAfterHangUp`, `ConnectionEnds`, `ReadersAreServed` | A client that reads and one that stops reading; both may send ahead, send nonsense and hang up |
| `command_line` | `ExitHonest`, `RefusedUntouched` | Every direct command with failing packets |
| `gui_panel` | `PanelOnKeyboard`, `FileIsPanel` | Edits, applies, defaults, profile files with and without unknown names, half-failed commands, late status events |

**Bounds and why they are enough.**
- Two keys per row and one in the last row (five keys): each row has a key of its
  own and the last row is shorter, which is what chunks, capacities and torn maps
  depend on. `row_flush` uses the real sizes, and the theorems hold for every size.
  `daemon_queue`, `gui_panel` and the watcher's run use one key per row: `daemon_queue`
  asks for a row to be missed, the others ask nothing of rows.
- One producer in `daemon_profiles`: jobs are executed one at a time, so a second
  producer adds only orders of requests, and one producer sends any request after any
  other. Two producers in `daemon_queue`, and `OneReply` proves its property for any
  number.
- Four profiles in `daemon_profiles`: two that apply, different in every field, one
  with an unknown key after an override, one that does not parse; the wrap, the step to
  the next, and a label that is no longer in the store all occur.
- `row_flush` wishes run from -1.00 mm to 6.00 mm in every hundredth, so both ends
  of the range and all half tenths are met.
- At most two D-Bus calls wait in `watch_alone` (they can overtake each other). Rules:
  every pattern of up to three letters, pairs of shorter ones, every id of up to three
  letters, over a letter with a capital, one without, and the star: a star that gives
  letters back, adjacent stars and overlapping rules all occur.
- The browser's worker: three commands (live view on, off and on again; a connect
  beside the one at the start, and a write), two reports under way, two packets per
  write, the keyboard plugged in again once.
- `hid_link`: four calls, so that a poll that gives up is followed by one that meets its
  late rows and an identity that drains them; the keyboard answers each request in
  any of the listed ways.
- `gui_worker`: four commands and two starts of the daemon: on, off and on again with a
  reconnect in between, over a connection to the run before.
- `lifecycle`: two daemons, two clients, two crashes, any path left behind by an
  earlier run, every kind of rules file, a session that is there first or comes later.
- `ipc`: two lines each of any kind and room for one response: the second response
  finds the buffer full.
- `command_line`: all commands one after the other, keys of two rows. `gui_panel`: a
  key and two slots without one, each in a row of its own, so that a half-written map
  differs from both; files with and without an override for the key and an unknown name;
  two commands under way, which is what "Apply to keyboard" sends.

**Deadlock.** The finished upload of `row_flush` has no next step, a panic ends the
browser's worker, `hid_link` ends after its last call, and `ipc` when all lines are
served and everyone has hung up: those runs go without the deadlock check. All others
are checked for it.

**Fairness.** `Daemon!FairSpec` (`daemon_queue`) assumes that the device
thread goes on as long as it has a job or a step to take: it is a loop over a
blocking `recv`, and the device accesses return, which is `CallsReturn` of `hid_link`.
It assumes that a producer wakes when its reply is there. Clients, the user and the
keyboard are not fair. `WebWorker!FairSpec` (`web_worker`) assumes that promises
are settled and timers fire: the queue's task and the live task go on and their
deadlines pass; the device chooser waits for the user and is not fair.
`HidLink!FairSpec` assumes that calls go on (reads have timeouts) and that the kernel
delivers what the keyboard sent; `GuiWorker!FairSpec` that the worker's thread runs and
that the UI draws frames; `Ipc!FairSpec` that the device thread and the connections'
threads run and that the clients in `Readers` read. `Lifecycle!FairSpec` assumes that a
process runs on, that systemd restarts the service, that the backlog is served, and,
strongly, that a keyboard which is there again and again when it is tried is opened
some day (`SF`: an attempt may fail, or come too early).

**Further configurations.** These are not among the regular runs. Each checks a sentence
of the documentation that the code does not keep and ends in a counterexample (see
Findings); they are run by hand, with the module named first:
`MCWatch` `WatchShared.cfg`, `WatchTorn.cfg`; `MCWebWorker` `WebRobbed.cfg`,
`WebUnfed.cfg`; `MCHidLink` `HidLate.cfg`; `MCGuiWorker` `GuiOffline.cfg`; `MCLifecycle`
`LifecycleUnplug.cfg`, `LifecycleTwo.cfg`, `LifecycleRules.cfg`; `MCCommandLine`
`CommandNamed.cfg`.

## Findings

- `web_borrow` (`UiMaySend`): `handle_command` (`worker_web.rs:115`) holds a borrow of
  the shared state across the await of a device command; the next UI frame calls
  `poll`, which borrows mutably, and the page panics.

Shown by the further configurations:

- `WatchShared` (`SkipOnlyWhenActive`): `activated` skips an activation because
  `current` says the profile is active (`watch.rs:70`, "already on this profile; don't
  re-apply on every focus"). `current` follows only the watcher's own requests. When a
  client applies another profile, focusing the application does not switch back.
- `WatchTorn` (`SkipOnlyWhenApplied`): the same after a switch that failed half-way:
  going back to the window before it is skipped, and the keyboard keeps rows of both
  maps.
- `WebRobbed` (`TimeoutMeansSilence`): a connect reports "device did not respond to
  identity handshake" (`worker_web.rs:343`) although the device did: another task took
  the reply out of the shared queue.
- `WebUnfed` (`LiveViewIsFed`): when the live task ends on an error the UI's toggle
  stays on, over depths that nothing updates (`app.rs:104`, "when on, caps show
  real-time travel").
- `HidLate` (`FrameOfOneRound`): `poll_depths` takes any depth row for one of its own
  request (`controller.rs:128`, "Request and collect one full key-depth frame"); after
  a poll that gave up at its 80 ms, the next frames mix rows of two requests until
  an identity drains the queue.
- `GuiOffline` (`OfflineIsShown`): `README.md:70` says of the daemon "if it isn't
  running the GUI shows "offline" with a Reconnect button"; an idle worker waits for
  commands and never notices that the daemon has stopped.
- `LifecycleUnplug` (`RecoversFromUnplug`): `fawnd.service:12` says "Keep retrying if
  the keyboard isn't plugged in yet (or is unplugged)"; only a failed start ends the
  process, so one whose keyboard was unplugged is never restarted.
- `LifecycleTwo` (`ClearsStaleOnly`): `daemon.rs:44`, "clear a stale socket (best
  effort)", also removes that of a daemon that listens on it.
- `LifecycleRules` (`HotkeyRegardless` with a bad file): `watch.rs:94` says "the hotkey
  works regardless" of `rules.toml`; one that does not parse makes `start` return
  before the shortcut is registered.
- `CommandNamed` (`OnlyNamedKeys`): `main.rs:23`, "Set the actuation point (mm) for all
  keys, or specific named keys": the map starts at 2.0 mm and whole rows are sent, so
  the keys not named are reset.

Met while modelling and stated in the properties' conditions rather than as runs:
after a job that fails half-way the label keeps naming the profile it partly
overwrote, and the controller's map may hold values never pushed
(`controller.rs:24` calls it "mirrored from what we last pushed to the device");
the next `ApplyActuation` with a short vector would push them. `MirrorInSync` and
`LabelTruthful` therefore speak of times when no job has failed half-way since
the last complete flush, which is when `clean` holds.

A profile file that names an unknown key is loaded by the GUI, which passes the name
over (`gui/app.rs:179`), and refused as a whole by the daemon (`config.rs:81`): the panel
then shows a profile that `ApplyProfile` answers with an error. `FileIsPanel` speaks of
the files the daemon takes, and says that those the panel saves are among them.

## Proofs

`tlapm` proves every invariant and every action property that the passing runs check,
and that the daemon implements `KeyboardService`: for every number of keys per row,
profile store, rules file, set of requests, producers, clients and daemons, from the
named assumptions on the constants (`RowAssumption`, `TypesAssumption`,
`DaemonAssumption`, `RulesAssumption`, `WatchAssumption`, `FlushAssumption`,
`WireAssumption`, `LinkAssumption`, `WebAssumption`, `GuiAssumption`,
`PanelAssumption`, `IpcAssumption`, `LifecycleAssumption`, `CommandAssumption`). They
say what the constants are: distances are integers, `None` is none of the values it is
told from, the watcher is a producer and what it asks for is among the requests. One
theorem assumes more: `CyclingCovers`, that file names are finitely many.

| Theorem | States |
|---|---|
| `DaemonProofs!AlwaysInv`, `TypesHold` | `Inv` and `TypeOK` hold in every reachable state |
| `DaemonProofs!MirrorStaysInSync`, `LabelStaysTruthful`, `AnswersAreHonest`, `LabelComesLast` | `MirrorInSync`, `LabelTruthful`, `AnswerHonest`, `LabelFollowsWrites` |
| `DaemonProofs!AlwaysInOnePlace`, `OneReply` | Each request is in one place; `OneReplyEach` |
| `DaemonProofs!AlwaysExplained`, `DaemonImplements` | `RefinementInv`; `ImplementsService` |
| `DaemonProofs!CyclingCovers` | `CycleCoversStore` |
| `DaemonProofs!AlwaysWatched`, `AutoSwitchFollows`, `AppliesNothingTwice` | `WatchedInv`; `AutoSwitchFollowsFocus`, `NoNeedlessApply` |
| `DaemonProofs!GlobsMean`, `RulesAlwaysChoose` | `GlobMatch` is `Means`, for all patterns and texts; `RulesChoose` |
| `HidProofs!FlushTypes`, `FlushIsByRows`, `UploadGrantsWish` | `UploadTypeOK`, `FlushProgress`, `WishGranted` of `RowFlush` |
| `HidProofs!PacketsAreUnderstood`, `TogglesRoundTrip`, `EchoesAreNoReplies` | `KeyboardUnderstands`, `ToggleRoundTrip`, `EchoIsNoReply` of `Wire` |
| `HidProofs!TypesHold`, `IdentityIsFresh`, `FramesAreInStep` | `TypeOK`, `IdentityFresh`, `FrameInStep` of `HidLink` |
| `WebWorkerProofs!ConnectionIsTrue`, `LiveHasTask` | `ConnectionTruth`, `LiveIsServed` |
| `GuiProofs!WorkerTypesHold`, `ConnectedMeansClient` | `TypeOK`, `ConnectedHasClient` of `GuiWorker` |
| `GuiProofs!AlwaysPanelInv`, `PanelStaysOnKeyboard`, `FileStaysPanel` | `PanelInv`, `PanelOnKeyboard`, `FileIsPanel` of `GuiPanel` |
| `IpcProofs!TypesHold`, `ResponsesStayInStep`, `OneExecutionAfterHangUp` | `TypeOK`, `ResponsesInStep`, `OneAfterHangUp` of `Ipc` |
| `LifecycleProofs!TypesHold`, `ServedByLiving` | `TypeOK`, `ServedByTheLiving` |
| `CommandLineProofs!TypesHold`, `ExitStaysHonest`, `RefusedStaysUntouched` | `TypeOK`, `ExitHonest`, `RefusedUntouched` |
| `PacketProofs!MmToByteNearest`, `FlushRowEffect` | the encoding is the nearest supported byte; a packet replaces one row |

**The argument.** Hardly any of the safety properties is inductive: `AnswerHonest`
speaks of the end of a job, and says nothing of how it got there. Each component
therefore has an inductive invariant, checked by TLC on the component's run before it was
proved, and one lemma per action.

*Daemon.* `Inv` follows a job through its plan. `JobControl` ties `pc`, `row` and
`result` to the plan. `JobProgress` says of each step before `pc` what it has achieved
(`Done`), of each step from `pc` on that what it alone may touch is as the job found it
(`Untouched`), and of a flush under way which rows are new. A step of `handle` then has
three duties: establish its own `Done`, disturb no other step's, and leave the rest
untouched. The lemmas `PlanOrdered` and `PastGrows` say what the order of the plans
gives for that: a map is settled before it is flushed, and the label comes after the
writes. `CleanMeans` extends `MirrorInSync` and `LabelTruthful` into the middle of jobs:
while a job runs, keyboard, map and label may disagree only in the stretch its plan has
not completed (`MapAhead`, `LabelBehind`). `AnswerHonest` follows from `JobProgress` at
the end of the plan (`AtEnd`, `EffectDone`). The row arithmetic is apart, in
`PacketProofs`.

`OneReplyEach` says where a request is; `InOnePlace` states it once per place
(channel, device thread, reply channel), so that each action has to move it from one
to the next: `Submit` into the channel, `Take` to the thread, `Reply` to the reply
channel, `Receive` out of it. No step of `handle` touches any of the three.

*Refinement.* `Inv` describes jobs that go well; the service also promises something of
those that do not. `RefinementInv` adds it. `FailureExplained`: a job that failed did
nothing, or stopped with its map settled and its writes torn, or did all but report it;
these are the service's `Refuse`, `Fail` and `FailReport`. For the middle case one has to
know, before anything fails, that the rows a flush has not sent are the old ones
(`RowsToCome`). `AnswerIsGood` is the answer the service gives, and `AimedOnce` says that
only its first step chooses a cycle's profile. Then every step is taken in turn: `Submit`,
`Take`, `Receive` and the edits of the store map to the service's steps of that kind,
`Reply` to the one in which a request takes effect, choosing a cycle's profile and
reading a listing to the abstract choice of them, and every other step of `handle`, every
packet and every failure, to a stutter, because the mapping shows the keyboard as the job
found it.

*Cycling.* `CycleCoversStore` iterates `next_profile_name`. The profiles the shortcut has
to pass before it comes to one of the store (`Ahead`) become one fewer with each press
(`AheadShrinks`), so as many presses as there are profiles are enough. The lemma `Induct`
is induction for a set of numbers, from the well-foundedness of their order: an induction
theorem that takes an operator is beyond the provers, one about a set is not. The
recursive function itself is shown to exist the same way (`CycleExists`).

*Watcher.* `WatchInv` ties the watcher's state to the daemon's: the call it handles is its
job (`CallIsJob`), what it takes for active was so when that job began (`BelievedActive`,
by `before` while the job runs), and the answer it is about to collect names what is
active now (`AnswerTellsActive`). The last two hold while the watcher is the only client
and no cycle has failed to report. What the daemon contributes is `Inv` and
`RefinementInv`: an `Ok` means that the label is the profile asked for, an error other
than a cycle's that it is the old one.

*Rules.* `GlobsMean` is about the recursion of `glob_match`. `Rest` says of two suffixes
that the one means the other. It satisfies the equation of `go` at an end, a star and a
letter (`RestEnd`, `RestStar`, `RestLetter`), and any function that satisfies it is `Rest`
(`GoesRest`), by induction on the number of letters left. `RulesAlwaysChoose` then follows
from the first hit being the first meaning (`HitsMean`) and from the cases of letters
being forgotten on both sides (`LowerCapital`).

*Command line.* `CommandInv` is the daemon's argument for a process without a queue:
`Control` ties `pc` and the exit to the command's steps, `Progress` says what map and
keyboard are at every packet, `Refused` that a command refused by its arguments or by
the identity check has written nothing.

*Panel.* `PanelOnKeyboard` speaks of a panel with no command under way that sets the map,
or the toggles. `PanelInv` says of the commands that are: the last one to set the map sets
what the panel shows, and if none sets it the keyboard holds it already; the same for the
toggles (`UnderwayAct`, `UnderwayToggles`). It holds as long as `mapSynced` or
`togglesSynced` says. A command that leaves the queue keeps it whether it took effect or
failed before another that sets the same (`TailAct`, `TailToggles`); a status keeps it if
no command has overtaken it, because it then tells the keyboard's toggles.

*Web worker.* The invariant adds to the two properties that a connect task past its first
await has a device (`Selected`), so that the device it reports is none of `None`, and that
`liveRunning` is the existence of the live task (`LiveFlag`), so that `SetLiveOn` starts
one exactly when there is none. `ConnectedHasClient` of the native worker is inductive
with its types.

*HID link.* The invariant (`InTime`, under `Punctual`) speaks of the reports under way
(`Under`: queued, then owed). When `identity` asks, none is (`Drained`: it drained
until silence, and a punctual keyboard is silent only when it owes nothing), so the
replies it hears later describe the keyboard as it is (`Answered`). Unless a poll gave
up, the depth rows under way are those the poll in progress still has to take, each once
(`OwnRows`, `EachOnce`), and those it took are its own (`Collected`).

*IPC.* A waiting thread has one job or one answer (`OneJobEach`), and a thread whose
client has gone executes nothing beyond the request in hand (`LastOne`): the write of its
response fails. `TalkInv` counts lines: a thread has read the first lines, in order, and
as many responses have gone out as those lines ask for, as many requests have been
executed, but for the line in hand. That the k-th response answers the k-th such line
then only needs the line at which a count goes up.

*Lifecycle.* `ServedByTheLiving` is inductive with the types, because only `Exit` ends
listening and it cuts the clients off.

*Wire.* There is no induction: the proof computes the bytes a builder puts at each offset
and shows that the tests of the parsers tell the packets apart.

**Only model-checked.** Liveness under fairness, which is out of the prover's reach:
`EveryJobAnswered`, `EveryCommandHandled`, `LiveEnds`, `CallsReturn`, `LiveViewIsFed`,
`StartsOncePlugged`, `RestartMends`, `ClientsSettle`, `ConnectionEnds`,
`ReadersAreServed`. The
properties of the findings are violated, which TLC shows.

## Plan

What is left, in order:

1. The command line's direct path at the same time as a daemon's job, as two owners of
   the keyboard; `CommandLine` and `Daemon` share `KeyboardTypes` and the packet step.
2. Edits of the file of a profile that is active.
3. The safety halves of the liveness properties, as theorems: that a producer which waits
   has its request in the channel, with the device thread or answered is `OneReply`; what
   is missing is that the number of steps until the answer has a bound that decreases
   (`pc`, `row` and the position in the channel).

## Not modelled

Drawing and layout of the GUI, its file dialogs and lighting widgets, argument
parsing, printing and `identify_loop`, logging, error texts, HID device enumeration,
the examples and the installation script are input/output without state that anything
else reads. The JSON text of requests is abstracted to good, bad, blank or no text, TOML
to what a file says or that it does not parse. The keyboard's firmware is external:
what it sends and how it reads a packet is modelled from what the code expects.
`PROJECT.json` gives a status for every component.
