# ws-scrcpy-web in TLA+

ws-scrcpy-web shows and controls Android devices in a browser. A Node server talks to the devices
through adb, a browser front end talks to the server over HTTP and WebSockets, and a Rust launcher
keeps the server alive, shows a tray icon, and installs, updates and removes the program.

This directory holds TLA+ models of the parts of it whose correctness depends on the order of
events, TLC configurations that check them on small instances, and TLAPS proofs of the invariants
that matter most. `PROJECT.json` maps each definition to the lines it models; paths below are those
of the repository.

1. [Inventory](#1-inventory)
2. [Modules](#2-modules) and how they correspond to the code
3. [Runs](#3-runs), bounds and fairness
4. [Proofs](#4-proofs)
5. [What the models found](#5-what-the-models-found)
6. [Not modelled](#6-not-modelled)
7. [What could follow](#7-what-could-follow)

## 1. Inventory

### How the parts talk to each other

    browser                        server (Node)                      launcher (Rust)
    -------------------------      ----------------------------       -------------------------
    pages, players, modals         middlewares (Mw), APIs             supervisor loop
      | channels                     | channels                        | job object, exit status
    Multiplexer  == WebSocket ==   WebsocketMultiplexer               tray thread -> tray process
      | fetch()                      |                                operation-server, post-stop.bat
    /api/...     ==== HTTP ====    UpdatesApi, ServiceApi, ...         | marker files, config.json
                                     | child processes, sockets        |
                                   adb, scrcpy on the device          Servy / systemd, Velopack

- **Browser and server**: one WebSocket per URL with many multiplexed channels (device lists,
  files, shell), plain WebSockets for a stream, HTTP for settings, updates and accounts.
- **Server and launcher**: no direct call. The server exits and leaves marker files
  (`control/apply-update-pending`, `uninstall-pending`, `restart-pending`); the launcher reads
  them. `config.json` is written by both sides.
- **Launcher and operating system**: a service manager restarts or stops the launcher and runs
  `post-stop.bat` after it; a job object takes the server along when the launcher dies.

Everything in the server and in a page runs on one thread, in tasks that run to their end; the
hard behaviour comes from what runs between an `await` and its continuation, from events that
overtake each other across the wire, and from processes that die with their files left behind.

### Components

| component | state | operations | what is hard | what makes it correct |
|---|---|---|---|---|
| **Multiplexer** `packages/multiplexer/*`, `ManagerClient`, `ShellModal`, `ListFilesModal`, `WebsocketMultiplexer` | socket, root and channel `readyState`, storages, channel map, ids | open, accept or refuse, send, close, lose | both ends close at once; frames sent before the socket opens; the `empty` event that hangs up | streams in order, closes spread, nobody is cut off, ids never alias |
| **File push** `filePush/*` in browser and server | reader state machine, chunk streams, temporary file, map of waiting promises | new, start, append, finish, cancel | answers matched by id; loss at any point; asynchronous unlink | whole file or none, every upload reported, no temporary file left |
| **Update service** `UpdateService.ts`, `UpdatesApi.ts` | one status object, manager, timer | check, download, apply, reconfigure | every call awaits, nothing excludes two | what is shown is what happens; nobody exits without an updater |
| **Launcher** `supervisor.rs`, `tray_supervisor.rs`, `singleton.rs` | child, marker files, tray thread, mutex | spawn, restart, uninstall, update, reap | launchers in two sessions, crashes, stale markers | the program comes back unless the user stopped it |
| **Operation-server, post-stop.bat** | marker files, tasks | pause, extract, relaunch; branch on the markers | they run while launchers come and go | the program is relaunched |
| **Service API** `ServiceApi.ts`, `ShutdownApi.ts` | `installMode`, service manager | install, verify, roll back, remove, shut down | several steps outside any transaction | a failure leaves a program that runs |
| **Device tracking** `ControlCenter.ts`, `Device.ts`, `DeviceTracker.ts` | device map, throttled updates, listeners | poll, update, subscribe, release | overlapping polls, throttle and removal | browsers converge to what adb says |
| **adb daemon** `AdbDaemonManager.ts`, `AdbClient.ts` | status, start promise | start, kill, restart | kill during a start; the daemon dies by itself | one start for all, a kill holds, everyone is answered |
| **Dependency manager** `DependencyManager.ts` | status and version per dependency, files on disk | check, install, update | concurrent updates, files in use | version and file agree |
| **Accounts** `server/auth/*`, `UsersApi.ts`, `AuthApi.ts`, `UserStore.ts` | users, sessions, failures, lockdown | login, logout, create, patch, delete, enable | decisions before an `await`, applied after it | no request locks everybody out, sessions end with their account |
| **Network scanner** `NetworkScanner.ts`, `ScanMw.ts` | one scan, workers, spectators | start, cancel, attach | cancellation against start | every spectator hears the end |
| **scrcpy session** `ScrcpyConnection.ts`, `FrameReader.ts`, `ScrcpyDemuxer.ts` | sockets, tunnel, process | start, release, read frames | release during start | everything opened is released |
| **File browser, remote shell** `FileListing.ts`, `RemoteShell.ts`, `ListFilesModal.ts` | pending entries, counters, pseudo terminal | list, download, type | two listings share state; exit against buffered output | an answer goes to its question |
| **Players, input** `app/player/*`, `app/audio/*`, `interactionHandler/*` | decoder, frame queue, pointer maps | configure, decode, stop, press, release | stop during an asynchronous start | nothing stays pressed or playing |
| **Configuration, database** `Config.ts`, `db/*` | config.json, SQLite file, backup | load, save, recover | two writers, a crash in the recovery | a setting saved is a setting read |
| **Service clients, elevation** `service/*`, `uac_requester.rs` | result file, one-time token | elevate, wait, report | a result after the time-out | what is reported is what was done |
| **Linux update** `UpdateService.ts`, `linux_apply.rs`, `SystemdClient.ts` | download, AppImage, backup, systemd unit | download, verify, swap, relaunch | a failure between two renames; the server exits before the swap | a whole program is always on disk, and the server comes back |
| **Start-up, shutdown, HTTP** `index.ts`, `HttpServer.ts`, `WebSocketServer.ts`, `PortPicker.ts` | services, ports | start, release | order of release | the process ends |
| **Request gates, hooks, user interface, build scripts** | none, or none that is shared | | | |

`PROJECT.json` lists under `hazards` the places where these can go wrong in a way a unit test hardly
reaches, with the properties that watch them; [section 6](#6-not-modelled) has those that no property
covers.

## 2. Modules

| module | what it is |
|---|---|
| `Multiplexer` | both ends of a multiplexed WebSocket, the wire, and the pages that share a root |
| `ChannelPipe` | what one channel promises: two FIFO pipes; `Multiplexer` is checked and proved to implement it |
| `FilePush` | uploads to a device over such channels |
| `DeviceTracking` | the list of devices, from the polls of adb to the rows of the pages |
| `AdbDaemon` | the shared start of the adb daemon, its kill, and everybody who calls them |
| `ScrcpySession` | one stream: the page's start, refresh and stop, the session on the server |
| `NetworkScanner` | a scan with its two tracks, its cancellation and the pages that watch |
| `Accounts` | users, sessions, the switch of authentication |
| `UpdateService` | checks, downloads and applies of updates in the server |
| `Launcher` | who keeps the server running on Windows: supervisor, tray, service, helpers |
| `LinuxApply` | who puts the new version in place on Linux, and starts it |
| `MultiplexerProofs`, `FilePushProofs`, `NetworkScannerProofs`, `ScrcpySessionProofs`, `LauncherProofs`, `LinuxApplyProofs` | theorems and their proofs, one module each |
| `AdbProofs` | theorems about `AdbDaemon` and `DeviceTracking`, which both stand before adb |
| `ApiProofs` | theorems about `Accounts` and `UpdateService`, which both stand behind the HTTP interface |
| `MC...` | the instance of each for TLC |

A definition `X_Name` beside an `X` is a variant of `X` with a plausible bug, used to confirm that a
property notices it; nothing else refers to it.

### Multiplexer

`Client` is the browser, which opens every channel; `Server` is the other end. For each end there
are the `readyState` of its WebSocket (`ws`) and of the root multiplexer (`root`), the root's Map
of channels (`channels`), each channel object's own `readyState` (`chan`), the two storages that
keep frames until the socket opens (`held`, `chHeld`), and the ids given out (`nextId`).

| actions | code |
|---|---|
| `Connect`, `OpenOnCached` | `ManagerClient.openNewConnection`, `ShellModal.connect`: wrap a socket, or find the root in `ManagerClient.sockets`, and create a channel at once |
| `ConnectModal`, `ModalOnCached`, `ModalCreates` | `ListFilesModal.connectAndLoad`, which waits for `open` first |
| `Send`, `CloseByApp` | `Multiplexer.send` and `close` |
| `RunOpen`, `RunEmpty` | the `setImmediate` of `_createChannel`, the relayed `open` event, the promise of `scheduleEmptyEvent` and the listener that closes the socket on `empty` |
| `Accept`, `SocketOpen`, `SocketClose` | the socket's events at each end, with the flush of the storages |
| `RecvCreate`, `RecvData`, `RecvClose`, `RecvWsClose`, `DropFrame` | `onMessageHandler` by message type; a refused channel is closed with 4003 |
| `Lose` | the network is gone: nothing more is delivered, each end learns of it when it does |

The order of tasks is that of JavaScript: an event of the socket is handled only when the end's
microtasks are done (`Quiet`), calls of the application may come at any time. The close code and the
texts are left out; a payload is the number of the message among those its sender sent on the
channel. Nested multiplexers (a channel used as a root) and the wrap of ids at 2^32 are not
modelled.

### FilePush

One upload `f` has its own channel (`chC`, `chS`). In the browser `pc` is where `pushFile` stands,
`waiters` the map of promises by push id (all uploads wait for their first answer under id 0), and
`shown` the last update of the row. On the server `rstate` and `stage` are `FilePushReader`'s state
and where its asynchronous work stands; `written`, `disk`, `path` and `tmp` are the temporary file.
`OnNew`, `OnStart`, `OnAppend`, `OnFinish` are the handlers, `Refuse` an answer with an error,
`StreamEnded`, `PushSucceeds`, `PushFails` the end of the transfer by adb, `FileCreated` and
`ChunkWritten` the file system; `Leave` closes the dialog, `Break` loses the network. `early` records
an unlink that came before the file existed, which leaves it behind for good. Push ids are 16 bits
wide on the wire; `MaxInt16` stands for 2^15 - 1 and `FirstIds` for the ids that earlier uploads of
the server process may have left in the counter. `ReadFails` is a local file that cannot be read
any more, while the first piece or a later one is awaited: `unread` has those uploads, whose `pushFile`
has ended. `CANCEL` is left out because the browser never
sends it, and so is the restart of the ids at 2^32.

### DeviceTracking

`real` is what adb would answer now. `PollAsks` and `PollApplies` are `ControlCenter.pollDevices`
before and after its `await`, `Connect`, `AdbAnswers` and `InitEnds` the first enumeration, which the
service and every early page run for themselves; `list` is an answer not yet applied, so answers
come late and out of order. `HandleConnected` is the part they share: it keeps `known`
(`knownDevices`), `present` (`deviceMap`) and `listed` (`descriptors`), and makes or drops the
`Device` objects. Of a `Device` there are its `state`, the throttle (`hot`, `timer`: `Cool`,
`TimerFires`) and the fetches of its properties with their shared counter and timer (`fetches`,
`retries`, `tries`: `FetchEnds`, `RetryFires`). `view` are the rows of a page. The process lookups and
shell helpers of `Device`, and the HTML of a row, are left out.

### AdbDaemon

`flight[f]` is one run of `spawnLifecycle`, `inflight` the promise that callers share, `state` the
manager's. `Ensure` is `ensureReady`, `GivesUp` the scanner's five seconds, `Spawns`, `Starts` and
`Fails` the stages of a start; `Command` is an adb command, which brings a missing daemon up by
itself. `KillEnds` belongs to `kill()`, which `Shutdown` (`gracefulShutdown`), and `Hygiene` (before an
update) call; `InstallStarts` to `InstallEnds` are `DependencyManager.installAdb`, which stops the
daemon without telling the manager. `Dies` is the daemon's own death. `crossed` records that a kill,
or a failure of the process, met a start on its way. What an adb command says is left out.

### ScrcpySession

`Conn` numbers the connections of one stream. On the page: `Hydrated`, `Connects` are the two awaits
of `startStream`, `Stop` and `Refresh` the calls that may come at any time, `MetadataArrives`,
`AudioLoads`, `ClientOpens`, `ClientClosed` the callbacks of the demuxer and of the sound,
`SendControl` the input. On the server: `Accept` is the upgrade, `Pushed`, `Launches`, `TunnelFails`,
`Gathers`, `GatherTimesOut` and `HeaderArrives` the awaits of `ScrcpyConnection.start` (both kinds of
tunnel), `Fails` its rejection, `ServerClosed` and `Release` the end, `TunnelRemoved` the answer of
adb. `VideoEnds` and `ProcessExits` are the device's doing, `Break` the network's. `late` holds the
connections released while adb made the tunnel. Frames and their reassembly, options, the watch for
a poor picture (it only calls `refreshStream`), players and input handlers are left out.

### NetworkScanner

`phase` is where `start()` stands: pre-warming adb, listing what is connected, or the tracks.
`StartArrives`, `CancelArrives`, `Closes` come from pages; `Warmed`, `Listed`, `MdnsAnswers` and
`ProbeEnds` end an `await`. `Refill` is the pool of workers, `Hit` the one place where an address is
told, `Settles` the end of the tracks with the terminal message. `told[p]` is what a page hears. The
bytes of the handshake, the parser of subnets, labels and progress are left out.

### Accounts

The table is four sets of row ids (`rows`, `admins`, `disabled`, `secured`), `session[t]` the user of a
cookie, `req[r]` a POST or PATCH whose body is on the way: `SubmitUser` and `SubmitPatch` are what the
handler reads before the body, `CreateUser` and `PatchUser` what it does after it. `DeleteUser`,
`Login`, `EnableAuth` and `DisableAuth` run in one task. SQLite gives a new row the largest id plus
one, so the id of a deleted account may be given out again. Left out: wrong passwords and the lock
they lead to, which only refuses a log-in; the change of one's own password; the text of the pages.

### UpdateService

The shared state object is `status` and `pending`; `check[c]` and `apply[a]` are calls in flight,
each at the `await` it waits for. `StartCheck` is the timer, `init()` or the user's "check now";
`Reconfigure` a change of the release channel. `FeedAnswers` is the remote answer and `UpToDate` or
`Found` what `checkForUpdates` does with it, including the download it may start. An apply runs
`ApplyStarts`, `ApplyMarks`, then one of `HandToVelopack` (service), `HandToOperationServer`
(Windows without a service) or `Fetch` and `HandToHelper` (Linux), and `Exit` is the deferred
`process.exit(0)`. Each of the three may fail, and the code does not treat them alike: an error of
Velopack, of the download or of `pkexec` ends the apply (`Fails`); a manifest or an operation-server
that fails, and a helper that does not start (`HelperLost`), do not keep the server from exiting.
`handed[a]` is what an updater process was really given. Left out: an installation without an `UpdateManager`, where every call does
nothing; progress; a change of `autoUpdate` while the server runs.

### Launcher

There may be a launcher in two places, under the service (`"service"`) and in the user's session
(`"user"`), each with a main thread (`launcher[w]`), a server (`node[w]`) and a tray thread
(`poll[w]`, `halt[w]`). `files` are the marker files. `Supervise` is the supervisor loop: what it
does once the server is gone depends on the markers and the exit. `Poll` is the tray thread, `Help`
the operation-server that extracts an update, `PostStop` the batch file's three branches, `Task` the
scheduled task that removes the service. Requests of users (`QuitRequested`, `RestartRequested`,
`ApplyRequested`, `InstallRequested`, `UninstallRequested`, `StopRequested`, `UserStarts`) and faults
(`Crashes`, `ServerCrashes`, a step that fails) come at any point, at most `MaxEvents` of them.

The code relies on clocks in some places, and the model turns each into an assumption:

- the operation-server's pause of 3 s, and the removal of a service, outlast an exit that is under
  way (`Leaving`);
- the 12 s the batch file waits outlast the scheduled task's two calls of Servy, and Servy's
  recovery, a minute and more, outlasts both;
- somebody is logged in, so a process can be started in the user's session;
- nobody asks for the removal of the service while its installation is under way (`Installing`).

One simplification goes to the side of fewer behaviours: the roll-back of a failed installation
removes the service (the code tries to, and logs a failure). Behaviours the model has, but
`AppReturns` excuses as a failed step: an extraction that fails (`operation_server.rs:599`), a tray
respawned during the extraction (`operation_server.rs:566`), and a launcher of the user that takes the
service's uninstall marker (`supervisor.rs:239`). The Linux branches, the start-up
hooks of Velopack, the wait for a free port and the operation-server's web page are not modelled.

### LinuxApply

Three files (`staged`, the download; `target`, the AppImage; `backup`) hold the old program, the new
one, a part of one, or are missing. An installation is `"home"` (in the user's files), `"service"` (a
systemd unit) or `"opt"` (root's, changed by a script that pkexec runs); `across` says that the
download is on another file system, where a move is a copy and a removal.

| actions | code |
|---|---|
| `Begins` ... `Rejects` | `applyUpdate`: `downloadToFile`, `verifySha256`, the removal of what is rejected |
| `Asks`, `Declined`, `Granted` | `runPkexec` with `buildMachineWideUpdateScript` |
| `Hands`, `HandFails`, `Exits` | `buildDetachedSpawn`, which does not notice a failed `systemd-run`; the exit 100 ms after the answer |
| `Stops`, `Saves`, `Moves`, `Copies`, `Undo`, `Sets`, `Retries`, `GivesUp` | `run_service_restart`, `swap_appimage` and the script, command by command |
| `Starts`, `Cleans` | `relaunch` or `systemctl start`, `cleanup_apply_artifacts` |
| `Tidies`, `UserStarts` | `init()` removes the backup; somebody starts the program |
| `Crashes`, `Dies` | the server or a helper is killed, at any step |

`crossed` records that two applies, or a start by the user, met on the files. It assumes that the old
launcher has released its lock before the relaunched one asks for it, and that a directory that just
accepted a rename accepts the restoring one. The 60 s after which `wait_for_pid_exit` gives up, the
`VERSION` file, and the installation and removal of the service are left out.

### Composition

`FilePush` uses one FIFO per direction with a shared end for all channels. That is what `Multiplexer`
is checked and proved to provide (`ImplementsPipe`), so the upload model does not repeat ids on the wire and
storages. `UpdateService` ends where `Launcher` and `LinuxApply` begin: on Windows `Exit` with the
marker file written is `ApplyRequested` in `Launcher`, and on Linux its one step `HandToHelper` is
`Hands` to `Starts` of `LinuxApply`, and `HelperLost` its `HandFails`. `AdbDaemon` has the callers of the manager in place of the
modules they stand for: polls (`DeviceTracking`), sessions, and the scan, whose own wait of 5 s is the
answer `Warmed` in `NetworkScanner`.

## 3. Runs

Deadlock is not checked: every session really ends (a closed connection, a stopped program, users who
ask for nothing more), and all actions of users are bounded.

| run | bounds | states | properties | what it shows |
|---|---|---|---|---|
| `mux_safety` | 2 channels, 1 message each way, 1 modal | 254,797 | `ChannelsTracked` `EmptyMeansUnused` `QuiescentAgreement` `ClosedForGood` `CloseSpreads` | pages and a waiting modal share one socket; closes from both ends, refusals and a loss at any point leave the ends in agreement, and a close at one end reaches the other |
| `mux_streams` | 1 channel, 3 messages each way | 23,272 | `StreamsIntact` `ImplementsPipe` | messages kept in two storages and then flushed come out in order; each channel refines `ChannelPipe` |
| `push_safety` | 3 uploads of 2 chunks, one of them refused; the last id, or the last two, do not fit | 303,428 | `IdsMatch` `WholeFile` `TempFilesGone` `EveryPushReported` | answers under the shared id 0 reach the right upload; a file arrives whole or not at all; every upload that gets an id and can be read ends in a report, whatever the others do |
| `devices_all` | 1 device, 1 page and the service, 2 polls in flight, 2 changes, 1 retry | 383,420 | `TypeOK` `UpdateDue` `InfoDue` `MapsAgree` `PagesSettle` | late answers of adb, double enumeration and the throttle leave no device that is there shown wrong for good |
| `adb_all` | 2 callers, 3 starts, 1 death | 124,490 | `OneStart` `KilledStays` `Answered` | one start for all as long as no kill meets it; a kill is not undone by it; everyone who waits is answered |
| `scrcpy_all` | 1 connection on both tunnels, 2 inputs, 1 break | 80,856 | `TypeOK` `ControlReady` `CleanedUp` `EndIsTold` | input arrives once the metadata have; nothing is left behind on the device; the page is told of the end |
| `scrcpy_refresh` | 2 connections | 689,165 | `OneStream` | after a refresh at any moment one connection and one sound remain |
| `scan_all` | 2 pages, 3 hosts, 1 address more by mDNS, 2 workers, 2 scans | 129,502 | `FoundOnce` `IdleIsQuiet` `InOrder` `NothingSkipped` `EveryoneTold` | each address is told once, the messages keep their order, "complete" means complete, everyone who watches hears the end |
| `accounts_all` | 3 rows, 2 requests on the way, 2 cookies | 165,967 | `SessionsOfEnabled` `EveryoneSecured` `LastAdminStays` | no order of requests leaves a session without its account or an account without a password; the last administrator goes only by a PATCH that judges a stale row |
| `update_all` | 2 checks, 2 applies, 2 channels, 1 release each, all installations | 937,656 | `BusyMeansWorking` `ExitHasRelease` `StatusSettles` | the calls may overlap in every way: the status never spins for nothing, and an apply whose update is cleared or replaced under it gives no updater anything but a release |
| `life_all` | both installations, 2 batch runs, 3 events | 295,710 | `RestartsAsked` `AppReturns` `TrayFollows` | restarts, updates, installation and removal of the service, crashes and failing steps in every order: the program comes back, a stale restart marker restarts nothing, the tray is replaced |
| `linux_all` | 2 applies, 3 installations, both file systems, 2 faults | 54,460 | `ProgramKept` `ComesBack` | whatever fails, a whole program stays on disk; a server that exits for an update comes back with it when nothing fails |

The numbers are of distinct states; the largest runs take two minutes. Type invariants are
proved for every module; the runs of `DeviceTracking` and `ScrcpySession` check theirs as well, since
`TypeOK` says more there than types (only devices of the map are listed; nothing of a session exists
before its socket and its process). The properties are silent where the code
makes no promise: `crossed`, `late`, `early`, `lost`, `faults`, `unread`, an id above `MaxInt16`, a stale
PATCH, `"opt"` and `"local"` are named in them, and sections 5 and 6 tell what happens there. Where a
hazard includes such a case, its note in `PROJECT.json` says so.

### Why the bounds are enough

- **Multiplexer.** Interaction between channels goes through the Map, the id counter and the order
  of the wire, and needs a second channel: one keeps the socket in use, or does not, while the
  other closes. One modal is enough for the race with a page. Order within a channel needs three
  messages: one in each storage and one sent directly; `mux_streams` has them, with one channel.
- **FilePush.** Two uploads make the shared id 0 ambiguous, a third is refused and has to leave the
  others' answers alone. Two chunks distinguish a part from the whole. The counter starts at 2 or 3 and
  `MaxInt16` is 4, so the three ids are 3, 4, 5 or 4, 5, 6: one or two uploads fit, one or two do not, and
  any of the three may be the one that does not.
- **DeviceTracking.** Devices do not interact but through the list, which is applied as a whole; one
  device with two changes can come, go and come back while two polls and two enumerations hold
  answers of different ages.
- **AdbDaemon.** A start, the one that a kill has met, and one after it: three. A patient caller and a
  hasty one.
- **ScrcpySession.** A refresh needs the old and the new connection; the rest concerns one. Two inputs
  have an order.
- **NetworkScanner.** Two workers and three hosts make a worker come back for more; the fourth address
  is known to mDNS only; a second scan meets what the first left.
- **Accounts.** The implicit admin, another, and one more to act on them; two requests cross.
- **UpdateService.** Two checks overlap; two applies overlap; two channels make a pending release
  stale.
- **Launcher.** An error of this kind needs an event that leaves something behind, one that
  stumbles over it, and one to come in between: three events. Two batch runs are what can overlap
  within Servy's recovery.
- **LinuxApply.** Two applies share the files; a fault and one in the recovery from it.

### Fairness

Only of what the code or the operating system runs by itself; weak, but for two cases.

- `Multiplexer`: an event loop runs its pending microtasks and handles frames that have arrived, and
  a modal told of `open` goes on. Users, applications and the network owe nothing: `Lose`, `Send`,
  `CloseByApp` and the openings are not fair.
- `FilePush`: handlers run, the file system and adb end in success or failure.
- `DeviceTracking`: timers fire, adb answers every enumeration, and a device that is there answers the
  question for its screen. A poll is asked again and again and does not fail for ever: strong
  fairness of `PollApplies`, since failures may come in between.
- `AdbDaemon`: processes end or are killed by their timeouts; the wait for the file polls every 250 ms.
- `ScrcpySession`: sockets tell of their end, adb answers, timers fire, and a process that was killed or
  cannot reach the server exits. Users and the network owe nothing.
- `NetworkScanner`: adb commands, the ARP cache and the probes have timeouts.
- `UpdateService`: a request to the feed ends in an answer or an error, and the call continues. Timers
  and users are not fair; nothing makes an apply go on.
- `Launcher`: processes and threads that exist are scheduled, and the service manager's recovery
  does its restart. Events are not fair, and their number is bounded.
- `LinuxApply`: the timer of the exit fires and a helper runs. A swap that fails again and again is
  given up after 15 s: strong fairness of `GivesUp`.

Under these, `CloseSpreads`, `EveryPushReported`, `PagesSettle`, `Answered`, `CleanedUp`, `EndIsTold`,
`EveryoneTold`, `StatusSettles`, `AppReturns`, `TrayFollows` and `ComesBack` are checked.

## 4. Proofs

All theorems hold for every value of the constants that meets the assumption named in the module
(`BoundsAssumption`, `UpdateAssumption`, `LauncherAssumption`, ...): any number of channels, messages,
uploads, devices, connections, callers, hosts, workers, pages, accounts, requests, checks, applies,
faults and events. Every invariant and every action property of the runs has a theorem, and so has the
refinement; only liveness has none.

| theorem | statement | argument |
|---|---|---|
| `MultiplexerProofs!TypeCorrect` | `[]TypeOK` | one invariant with the next two |
| `MultiplexerProofs!ChannelsAlwaysTracked` | `[]ChannelsTracked` | |
| `MultiplexerProofs!EmptyNeverCutsOff` | `[]EmptyMeansUnused` | |
| `MultiplexerProofs!StreamsAlwaysIntact` | `[]StreamsIntact` | with `Streams` |
| `MultiplexerProofs!QuiescentEndsAgree` | `[]QuiescentAgreement` | with `Streams` |
| `MultiplexerProofs!ClosedStaysClosed` | the action property `ClosedForGood` | by the kinds of steps |
| `MultiplexerProofs!PipeImplemented` | the refinement `ImplementsPipe` | each kind of step is a step of `ChannelPipe`, or none |
| `MultiplexerProofs!NewsAlwaysUnderWay` | `[]NewsUnderWay`, the safety half of `CloseSpreads` | from `Life` |
| `FilePushProofs!TypeCorrect` | `[]TypeOK` | with `Wire`, `Numbered`, `Asleep` |
| `FilePushProofs!NoTempFileLeft` | `[]TempFilesGone` | with `Unlinked` |
| `FilePushProofs!IdsAlwaysMatch` | `[]IdsMatch` | with `Talk`, `Line`, `Ids` |
| `FilePushProofs!FilesArriveWhole` | `[]WholeFile` | with the same, `Levels` and `Whole` |
| `AdbProofs!DaemonTyped` | `[]AdbTypeOK` | one invariant with the next two |
| `AdbProofs!NoStalePromise` | `[]InflightRuns` | |
| `AdbProofs!SingleFlight` | `[]OneStart` | |
| `AdbProofs!KillHolds` | the action property `KilledStays` | by the steps |
| `AdbProofs!NobodyWaitsInVain` | `[]WaitsForAStart`, the safety half of `Answered` | with `InflightRuns` |
| `AdbProofs!DevicesTyped` | `[]TypeOK` | with `Dropped`, `Counted` |
| `AdbProofs!NoUpdateLost` | `[]UpdateDue` | with `Dropped` |
| `AdbProofs!NoDeviceForgotten` | `[]InfoDue` | with `Dropped` |
| `AdbProofs!MapsAlwaysAgree` | `[]MapsAgree` | |
| `ScrcpySessionProofs!TypeCorrect` | `[]TypeOK` | with `Sessions` |
| `ScrcpySessionProofs!ControlNeverDropped` | `[]ControlReady` | with `Sessions`, `Inputs` |
| `ScrcpySessionProofs!OnlyOneStream` | `[]OneStream` | with `Paging`, `Alone` |
| `ScrcpySessionProofs!NothingIsForgotten` | `[]NothingKept`, the safety half of `CleanedUp` | `Staged` and `Surrendered` per session |
| `NetworkScannerProofs!TypeCorrect` | `[]TypeOK`, the bounds of the pool with it | with `Pool` |
| `NetworkScannerProofs!EachFoundOnce` | `[]FoundOnce` | with `Fresh`, `Apart` |
| `NetworkScannerProofs!NothingLeftBehind` | `[]IdleIsQuiet` | with the same |
| `NetworkScannerProofs!AlwaysInOrder` | `[]InOrder` | with `Order` |
| `NetworkScannerProofs!CompleteIsComplete` | the action property `NothingSkipped` | with `Dequeued` |
| `NetworkScannerProofs!NobodyLeftWatching` | `LastWord`, the safety half of `EveryoneTold` | by the steps |
| `ApiProofs!AccountsTypeCorrect` | `[]AccountsTypeOK` | one invariant with the next two |
| `ApiProofs!SessionsEnd` | `[]SessionsOfEnabled` | |
| `ApiProofs!Secured` | `[]EveryoneSecured` | |
| `ApiProofs!LastAdmin` | the action property `LastAdminStays` | by the steps |
| `ApiProofs!TypeCorrect` | `[]TypeOK` of `UpdateService` | with `DownloadsFound` |
| `ApiProofs!BusyAlwaysWorks` | `[]BusyMeansWorking` | with `DownloadsFound` |
| `ApiProofs!ExitKnowsRelease` | `[]ExitHasRelease` | with `Traced`, `Prepared` |
| `LauncherProofs!TypeCorrect` | `[]TypeOK` | `TypeOK` is inductive |
| `LauncherProofs!RestartsWereAsked` | the action property `RestartsAsked` | with `RestartsOnRecord` |
| `LinuxApplyProofs!TypeCorrect` | `[]TypeOK` | `TypeOK` is inductive |
| `LinuxApplyProofs!AlwaysAProgram` | `[]ProgramKept` | below |

**Multiplexer.** The invariants are not inductive alone. `IInv` adds three facts:

- `OpensTracked`: a pending `setImmediate` belongs to a channel still in the Map. Without it a
  channel closed in the task that created it could reopen.
- `RootFollows`: the root is open when its socket is, and an end without a socket has no channels.
- `IdsKnown`: no id in the Map exceeds `nextId`. It makes `NextIdIsNext` true: `getNextId` always
  finds the next id free, which `TypeOK` needs, since otherwise a new channel would take the id of
  an open one.

What the two ends tell each other needs `SInv`, which adds `Streams`. Its view of one direction is
`Path`: the frames on the wire, then those that the root holds until the socket opens. `Life` relates the
states of the two ends of a channel to the `CreateChannel` and `CloseChannel` frames on the paths: an end
that is open while its peer never heard of the channel has the creation under way, one whose peer is
closed has the close under way. `Flow` says of the data of a channel that what was delivered, what is on
the path and what the channel object still holds are the messages 1, 2, ... that were sent, in that order and
without a gap as long as the path transmits. When nothing is under way, `Life` leaves only agreement
(`QuiescentAgreement`); the delivered end of `Flow` is `StreamsIntact`. `Sockets` and `Openings` keep ids
fresh and say that a channel on an open root is about to open. The actions become seven kinds of
steps (`StepKind`): a channel is opened, answered, made ready or shut, a message is put or taken, or nothing
of this happens. They are what `ChannelPipe` knows as steps, so that the refinement follows with the mapping
of the five states of a channel to "none", "open" and "closed" (`PipeState`).

**FilePush.** The types need what is on the wire: only frames, with ids that an answer can carry
(`Wire`), and a reader that awaits something has such an id (`Numbered`) and is past FINISH (`Asleep`).
`Unlinked` says of a temporary file that exists: its unlink came too early, or its reader still has its
path and has not been released. Every way out of the reader goes through `CleanupTempFile`, so
nothing else remains at its end.

That answers under the shared id 0 reach the right upload rests on the order of two queues. While the
network is up, an upload has at most one word on the wire, a command or its answer, and it fits the
stage that `pushFile` is in (`Talk`). `Line` is about those that wait under id 0: the readers got their ids
in the order of the waiters, the commands of those without a reader are on the wire in that order
too, and so are the answers. The first answer is therefore for the first waiter. An id that is too big to be
sent as an answer leaves its waiter behind, and those after it with larger ids as well; `Giving` says so. `Ids`
makes ids unique to a reader, `Levels` lets the two ends count the same chunks but for one under way,
and `Whole` brings them into the file. After a loss the conversation is over, and only what does not
depend on it (`Apart`) has to be kept.

**AdbDaemon.** `OneStart` is inductive with `InflightRuns`: whoever asks while a start runs joins it, and
the end of a start clears `inflight` in the step that settles it. A kill that meets a start breaks the
first half, which is why the property, and the code's comment, hold only before (`crossed`).

**DeviceTracking.** One invariant (`DInv`) carries the four theorems. `Dropped` says that an object which is
not in the map has no timer, no fetch and no retry that is still heard; without it a late fetch
would list a device that is gone. `Counted` says that there are no more intervals than starters that
came to their end. The work is in `HandleConnectedKeeps`, a lemma about any set of devices that is
handled with any states: `pollDevices` and `init()` both call it. What it needs of the caller is that a
device reported gone is in the map (which `MapsAgree` gives) and that only pages that get the whole list
begin to listen.

**ScrcpySession.** `Sessions` follows the order in which a session comes and goes: no process before the
socket, no socket of scrcpy-server before the process, and the control socket is held from the metadata on, as
long as the connection is open. So a control message is not dropped, and `Inputs` says where it is: what
the device got, followed by what is on the wire, are the messages in their order, and those owed are
among them unless the connection was cut. For `OneStream`, `Paging` ties the demuxer to the last
connection, and `Alone` says that when the stream listens to one demuxer only, all other connections are
closed and without sound. A refresh that comes before `startStream()` has connected makes it listen to
two, which is the exception in the property.

**NetworkScanner.** `Fresh` (a scan starts with nothing found) and `Apart` (no probe goes to an address
that is connected) make `FoundOnce` inductive. For "complete", `Dequeued` says that a pool without
probes has dequeued all hosts or was cancelled, and has checked all it dequeued; `RefillTakes` is the lemma
about a free worker. `Pool` counts: hosts dequeued are checked or in flight, no more than there are
workers. `InOrder` is a statement about the whole history of a page. Its invariant `Order` looks at the
last word of it alone: a page that watches has heard "started" last when the scan runs its tracks, "draining"
when it was cancelled, and rests with the end of a scan or nothing at all before (`Placed`), while a page
that does not watch rests (`Ready`). `Drains` ties the state that `attach` looks at to the phase and
the flag. Hits and progress in between do not count (`Heard`), and what was heard up to a place does not
depend on what follows (`Before`), so that each new message is judged by `Placed` only.

**Accounts.** The invariants hold each other up: a session's user has a row, rows are secured except
for the implicit admin alone in open mode, and all columns stay within the table although row ids are
given out again. `LastAdmin` goes through the actions that can take an administrator: `DELETE` is
judged in one task, so it is refused; a `PATCH` is judged after its body, so what it read must be stale.

**UpdateService.** `DownloadsFound` says that a download in flight has an update, which keeps
`onDisk` typed. `BusyMeansWorking` is inductive with it: each step that ends a check or a download
also sets the status. For `ExitHasRelease`, `Traced` follows a release from the feed to the updater: what a
check has found, what is pending and what was handed over are releases or nothing, however checks put
their answers over each other; releases are not taken back (`ReleasedStays`). `Prepared` is about
one apply: only Linux fetches, and an apply at its exit holds what its installation owes, which
`HandsRelease` shows for every way there. `NoUpdate` is no update because versions are positive
(`UpdateTypes`).

**Launcher.** `RestartsOnRecord` says that while the restart marker exists every running launcher
has been asked for a restart, and so has one whose server is leaving for a new port. It holds
because `Begin` deletes the marker before a server runs; without that deletion (`Begin_NoCleanup`) a
dead launcher's marker would restart the next one's server.

**LinuxApply.** That some whole program is on disk needs the whole story. `StageOK` says for each stage
of an apply what the three files hold; it stands only because nobody else touches them, so `Alone`
(no two applies or helpers work on the files), `TakenOver` (once a helper works the server is gone, and what
runs later is the new version) and `Down` belong to it; `Handed` ties a helper to an apply that is
through. `Kept` is the goal: the program's name is empty or half-written only while a helper moves it, or
was killed at that, and then the backup is whole. All of it under `~crossed`: each action that could break
`Alone` sets `crossed` itself.

**Model-checked only.** Liveness under fairness, which TLAPS 1.4.5 does not prove, nor ENABLED:
`CloseSpreads`, `EveryPushReported`, `PagesSettle`, `Answered`, `CleanedUp`, `EndIsTold`, `EveryoneTold`,
`StatusSettles`, `AppReturns`, `TrayFollows` and `ComesBack`. Of some of them the
safety half is a theorem: what has to happen is under way, or in the hands of somebody who will act.
`NewsUnderWay` says so for `CloseSpreads` (the `CloseChannel` frame is on the path), `WaitsForAStart` for
`Answered` (the start whose promise a caller holds has not ended), `NothingKept` for `CleanedUp` (after
the release the process was killed and adb was asked for the tunnel), `LastWord` for `EveryoneTold` (the
step that ends a scan tells every page that watches), `BusyMeansWorking` for `StatusSettles`, and
`UpdateDue` with `InfoDue` for `PagesSettle`. What is left to the model checker there is that the fair
steps get their turn.

## 5. What the models found

Places where a behaviour of the model, and of the code it models, differs from what a comment or a
document says, or from what one would expect. The properties of section 3 are stated so that they
hold beside them; each was met as a counterexample of a stricter form.

**Connections, uploads**

1. A file modal that is the first to open a URL waits for `open` before it creates a channel. The new
   root's first `empty` event fires before, and the modal's own listener closes the socket
   (`ListFilesModal.ts:532`; :479 says "same pattern as ManagerClient/ShellModal", which create theirs at
   once).
2. `pushFile`, resumed after the connection broke, reports progress after the error; the modal counts an
   upload that no longer runs and asks for confirmation (`FilePushHandler.ts:136`).
3. Push ids run to 2^32 - 1 and are written as 16 signed bits: from the 32767th upload on an exception
   leaves the browser without an answer (`FilePushReader.ts:39`).
4. A local file that cannot be read any more, at its start or in its middle, ends `pushFile` with a rejection
   that nobody handles (`FilePushHandler.ts:88`, :127): the row keeps its last progress, no `CANCEL` is
   sent, and the channel and the server's temporary file stay until the connection ends. A connection that
   ends while the temporary file is being created leaves the file for good: its unlink comes too early
   (`FilePushReader.ts:123`).

**Devices, adb, streams**

5. The service and a page that come together enumerate twice and start two intervals, of which one can
   never be cleared (`ControlCenter.ts:127`); a page that leaves during `init()` leaves its listener behind
   (`DeviceTracker.ts:41`).
6. An update "disconnected" within 300 ms of the last one waits in the throttle's timer while
   `ControlCenter.ts:91` takes the listener off at once: the card stays, although
   `docs/TECHNICAL_GUIDE.md:1091` says it disappears.
7. `AdbDaemonManager.ts:40` says "single-flight" and :123 that a start "won't overwrite" a kill: both fail
   when a kill meets a start and a new call follows, since the first start sees `starting` again and takes
   it for its own. The daemon may outlive the shutdown, when `kill-server` comes before the start in
   flight has brought it up, or a poll after it starts another. Likewise a poll between the stop and the
   extraction of `installAdb` brings the daemon back (`DependencyManager.ts:401`).
8. `stop()` while `startStream()` awaits finds nothing to stop, and `startStream()` then connects all the
   same (`StreamClientScrcpy.ts:510`; `docs/superpowers/specs/2026-04-17-stream-api-design.md:110` and :326
   promise "no stray WebSocket"). The same holds of `AudioPlayer.ts:25` for a `stop()` while the worklet
   loads, and of `ScrcpyConnection.ts:185`, which launches scrcpy-server after a release that came while adb
   made the tunnel. A refresh while `startStream()` chooses the codec leaves a stray demuxer.
9. `onDisconnected` does not empty the container (the same document, :327). `readExact` waits for ever when
   a socket ends within the header (`ScrcpyConnection.ts:438`), and sockets collected before the accept
   times out are not among those `release()` destroys (:364).

**Scanner**

10. The close listener of an old socket clears the `scanWs` of the new scan, so Cancel does nothing
   (`NetworkDiscoveryPanel.ts:164`).
11. A second page's own `scan.start` is refused with `scan.error` and dismisses its chip although it is a
    spectator (`docs/superpowers/specs/2026-04-19-network-scan-port-5555-design.md:27`, :362); a page
    whose start arrives just after a scan's end hears two terminal messages; one that connected while the
    scanner was idle watches nobody else's scan (`ScanMw.ts:39`); a late spectator gets no earlier hits
    (`NetworkScanner.ts:84`). Progress after `scan.draining` contradicts the document's :348.

**Accounts**

12. A PATCH judges its target by the row read before its body (`UsersApi.ts:92`): two of them can take the
    last administrator.
13. `UsersModal.ts:296` says "the app will require login after this", which is not so when an admin is
    secured and authentication is off; `requireAdmin.ts:6` says that in open mode the implicit admin passes,
    which ends when that account is deleted or demoted.

**Updates, life cycle**

14. A second check during a download replaces the pending update; the end of the first download says
    `ready` (`UpdateService.ts:413`), while `UpdateEvents.ts:11` says "download complete".
15. A check that ends while an apply waits clears the pending update; in Windows local mode the exception
    is logged and the server exits with nobody to update it (`UpdateService.ts:628`).
16. Only `post-stop.bat` deletes the update marker. A program without a service keeps it after its first
    update, and every later quit leaves its tray behind (`tray_supervisor.rs:72`).
17. The uninstall marker is deleted before the steps that can fail, so the batch file that the comments call
    the fallback takes the exit for a user's stop (`supervisor.rs:242`).

**Linux updates**

18. The status stays `ready` during an apply, so a second one shares `<asset>.new`: it truncates a verified
    download that the first's helper then installs, or its rejection or cleanup deletes it, and the helper
    returns 1 with nobody to start the program. In service mode the second helper stops the unit that the
    first has started.
19. A failed swap ends without a relaunch or an error marker (`linux_apply.rs:88`), and with the unit stopped
    (:125); `docs/specs/2026-06-01-linux-appimage-self-update-design.md:96` and :125 promise the backup, a
    marker and "the current version still launches".
20. The script of pkexec does not restore (`SystemdClient.ts:343`): after a failed second `mv` every later try
    fails at the first, and after a partial copy a retry puts the part over the backup. And the
    comment at `linux_apply.rs:93`, "completed OR failed apply leaves no cruft", does not hold there: a rejected
    password or a failed `mv` leaves the download.
21. A user's start during a swap lets `init()` remove the backup (`UpdateService.ts:283`). A `systemd-run` that
    fails is taken for one that worked (`UpdateService.ts:591`), and the server exits with no helper.

## 6. Not modelled

The map covers the code whose correctness depends on the order of events, and that is the smaller part
of the program: half of the source is forms, layout, settings, binary formats and calls of the operating
system in a row.

- **Dependency manager** but for `installAdb`: downloads and extractions with a status each. Nothing
  refuses a second update of one dependency, nor a check while it runs (`DependencyManager.ts:140`); a crash
  between the copy of scrcpy-server and its version file starts one version with the other's arguments
  (:461).
- **File browser and shell** but for their connections and uploads. Two listings in flight push into one
  array (`ListFilesModal.ts:692`), a failed download is never taken off `activeDownloads` (:597), a failed
  listing is shown as an empty directory (:656); the exit of a terminal meets its 5 ms buffer
  (`RemoteShell.ts:139`), and `resize` works only before `start` (:149).
- **Players, touch, keyboard, control messages.** They are event handlers of one thread over WebCodecs and
  AudioContext, whose behaviour the source does not show. The maps of pointers are shared by all players
  (`InteractionHandler.ts:70`).
- **Configuration and database.** `config.json` is written in place by two programs (`Config.ts:806`), and the
  recovery of the database has a moment between its two steps (`openDatabase.ts:62`); what a crash leaves
  there is the file system's.
- **Elevation, service clients, start-up.** A result that comes after the 5 minutes (`elevatedRunner.ts:248`); a
  crash between the spawn and the deletion of the hand-off marker (`control_marker.rs:130`); a second request
  to shut down, which exits before the first has stopped adb (`index.ts:353`); an exit watchdog armed for
  signals only (`index.ts:425`); a port bound after it was probed (`PortPicker.ts:25`).
- **Accounts.** A reset password leaves its sessions valid (`UsersApi.ts:107`); the window of failures and the
  lock meet at their boundaries (`loginPolicy.ts`).
- **File push.** The write stream has no `error` listener: a full disk ends the server
  (`FilePushReader.ts:123`).
- **Life cycle.** The tray thread may pass its check of the stop flag before main sets it, and spawn a tray
  after the kill (`tray_supervisor.rs:140`): the model has it, no property forbids it. An extraction that fails
  or is stopped by a tray that came back ends with nobody relaunched (`operation_server.rs:566`, :599):
  `AppReturns` excuses it as a failed step. Linux has its update only.
- Parts without state of their own, or with a single actor: request gates, installer hooks, forms,
  build scripts, codec tables, static files. The unit tests enumerate what they decide.
- External programs: adb, scrcpy, Servy, systemd, Velopack and SQLite appear only as the outcomes
  their callers distinguish.
- Timing: throttles, time-outs and pauses are choices of order, or the assumptions listed with
  `Launcher` and `LinuxApply`.

## 7. What could follow

- `LinuxApply` shown to implement the one step `HandToHelper` of `UpdateService`.
- What `ComesBack`, `AppReturns` and `EveryPushReported` rest on as invariants (who will still act on what is left behind), so
  that only the fairness is left to the model checker.
- The elevated helper with its result file and time-out, composed with `Launcher`.
- The dependency manager with two updates in flight, composed with `AdbDaemon`.
