------------------------------- MODULE Launcher -------------------------------
(***************************************************************************)
(* The life cycle of the program on Windows: who keeps the server running, *)
(* and who brings it back.  A launcher supervises the Node server and,     *)
(* with a thread of its own, the tray icon.  It runs in up to two places:  *)
(* under Servy as a service, and in the user's session; the named mutex    *)
(* lets one live in each.  Processes that outlive a launcher finish what   *)
(* it began: the operation-server after an update without a service, the  *)
(* post-stop batch file after every exit of the service, a scheduled task  *)
(* for the removal of the service.  They talk through marker files.        *)
(*                                                                         *)
(* Assumptions replace clocks.  The operation-server's pause of 3 s, and   *)
(* the removal of a service, outlast an exit that is under way; the 12 s   *)
(* of the batch file outlast the task's two calls of Servy, and Servy's    *)
(* recovery (a minute and more) outlasts them.  Somebody is logged in.     *)
(***************************************************************************)
EXTENDS Naturals, FiniteSets

CONSTANTS Modes,    \* installations to start from
          Bats,     \* bound: post-stop handlers that run at once
          MaxEvents \* bound: what users do, crashes, steps that fail

ASSUME LauncherAssumption ==
    /\ Modes \subseteq {"local", "service"} /\ Bats # {}
    /\ MaxEvents \in Nat

Where  == {"service", "user"}
Causes == {"port", "quit", "apply", "uninstall", "install"}   \* why a server exits by itself

VARIABLES
    mode,      \* installMode in config.json
    scm,       \* what the service manager has: "absent", "stopped", "running"
    launcher,  \* launcher[w]: where its main thread stands
    node,      \* node[w]: "up", or how the server ended
    due,       \* due[w]: the exits its server has scheduled
    stop,      \* stop[w]: the Ctrl+C flag of the supervisor
    poll,      \* poll[w]: the tray thread: "off", "top", or the mode it read
    halt,      \* halt[w]: the tray thread's stop_flag
    asService, \* asService[w]: is_service_mode when w began
    tray,      \* a tray icon runs in the user's session
    trayMode,  \* control/tray-mode.txt
    files,     \* the marker files that exist
    helper,    \* the operation-server that applies an update
    bat,       \* bat[b]: a run of post-stop.bat
    task,      \* the scheduled task that removes the service
    install,   \* the request to install the service
    left,      \* how many more events there are
    wish,      \* history: what the user wants, "up" or "down"
    lost,      \* history: a step failed, or nobody was told to go on, since a user started it
    asked      \* history: asked[w]: a restart was requested since w began

vars == <<mode, scm, launcher, node, due, stop, poll, halt, asService, tray, trayMode, files,
          helper, bat, task, install, left, wish, lost, asked>>
history == <<wish, lost, asked>>
procs   == <<launcher, node, due, stop, poll, halt, asService>>
outside == <<helper, bat, task, install>>

\* Every variable has its type, and no server outlives its launcher: the job object takes it
\* along.
TypeOK ==
    /\ \A w \in Where : launcher[w] = "gone" => node[w] = "none" /\ due[w] = {}
    /\ mode \in {"local", "service"} /\ scm \in {"absent", "stopped", "running"}
    /\ launcher \in [Where -> {"gone", "wait", "blocked", "ending", "reap", "exit"}]
    /\ node \in [Where -> {"none", "up", "stop", "crash"} \cup Causes]
    /\ due \in [Where -> SUBSET Causes]
    /\ stop \in [Where -> BOOLEAN] /\ halt \in [Where -> BOOLEAN]
    /\ poll \in [Where -> {"off", "top", "local", "service"}]
    /\ asService \in [Where -> BOOLEAN]
    /\ tray \in BOOLEAN /\ trayMode \in {"none", "local", "service"}
    /\ files \subseteq {"apply", "uninstall", "restart"}
    /\ helper \in {"off", "kill", "sleep", "launch"}
    /\ bat \in [Bats -> {"off", "sleep", "remove", "spawn"}]
    /\ task \in {"off", "stop", "remove", "spawn"}
    /\ install \in {"off", "asked", "verify"}
    /\ left \in 0..MaxEvents
    /\ wish \in {"up", "down"} /\ lost \in BOOLEAN
    /\ asked \in [Where -> BOOLEAN]

\* The program as it was installed, running where it belongs.
Init ==
    /\ mode \in Modes
    /\ LET home == IF mode = "service" THEN "service" ELSE "user" IN
       /\ scm = IF mode = "service" THEN "running" ELSE "absent"
       /\ launcher = [w \in Where |-> IF w = home THEN "wait" ELSE "gone"]
       /\ node = [w \in Where |-> IF w = home THEN "up" ELSE "none"]
       /\ poll = [w \in Where |-> IF w = home THEN "top" ELSE "off"]
       /\ asService = [w \in Where |-> w = home /\ mode = "service"]
    /\ due = [w \in Where |-> {}]
    /\ stop = [w \in Where |-> FALSE] /\ halt = [w \in Where |-> FALSE]
    /\ tray = FALSE /\ trayMode = "none" /\ files = {}
    /\ helper = "off" /\ bat = [b \in Bats |-> "off"] /\ task = "off" /\ install = "off"
    /\ left = MaxEvents
    /\ wish = "up" /\ lost = FALSE
    /\ asked = [w \in Where |-> FALSE]

Running == \E w \in Where : node[w] = "up"

Event      == left > 0 /\ left' = left - 1
User(next) == Event /\ wish' = next
Fault      == Event /\ lost' = TRUE

-------------------------------------------------------------------------------
(* A launcher *)

\* Mutant: the restart marker of a dead launcher stays.
Begin_NoCleanup(w) ==
    IF launcher[w] # "gone"
    THEN UNCHANGED <<procs, files, asked>>
    ELSE /\ launcher' = [launcher EXCEPT ![w] = "wait"]
         /\ node' = [node EXCEPT ![w] = "up"]
         /\ due' = [due EXCEPT ![w] = {}]
         /\ stop' = [stop EXCEPT ![w] = FALSE]
         /\ poll' = [poll EXCEPT ![w] = "top"]
         /\ halt' = [halt EXCEPT ![w] = FALSE]
         /\ asService' = [asService EXCEPT ![w] = mode = "service"]
         /\ asked' = [asked EXCEPT ![w] = FALSE]
         /\ UNCHANGED files

\* One more launcher process at w: past the mutex unless one is there, else it exits.
\* The stale restart marker goes, the tray thread starts, the server is spawned.
Begin(w) ==
    IF launcher[w] # "gone"
    THEN UNCHANGED <<procs, files, asked>>
    ELSE /\ launcher' = [launcher EXCEPT ![w] = "wait"]
         /\ node' = [node EXCEPT ![w] = "up"]
         /\ due' = [due EXCEPT ![w] = {}]
         /\ stop' = [stop EXCEPT ![w] = FALSE]
         /\ poll' = [poll EXCEPT ![w] = "top"]
         /\ halt' = [halt EXCEPT ![w] = FALSE]
         /\ asService' = [asService EXCEPT ![w] = mode = "service"]
         /\ files' = files \ {"restart"}
         /\ asked' = [asked EXCEPT ![w] = FALSE]

\* Ctrl+C at a user's launcher; "stop" in the services console.
StopRequested(w) ==
    /\ launcher[w] \in {"wait", "blocked"} /\ ~stop[w]
    /\ User("down")
    /\ stop' = [stop EXCEPT ![w] = TRUE]
    /\ UNCHANGED <<mode, scm, launcher, node, due, poll, halt, asService, tray, trayMode, files,
                   outside, lost, asked>>

\* The user's server ends while the service is being installed: nobody verifies it.
CutOff(w) == IF w = "user" /\ install # "off"
             THEN install' = "off" /\ lost' = TRUE ELSE UNCHANGED <<install, lost>>

\* wait_with_signal sees the flag: the child is killed, no restart.
Stopped(w) ==
    /\ launcher[w] \in {"wait", "blocked"} /\ stop[w]
    /\ launcher' = [launcher EXCEPT ![w] = "ending"]
    /\ node' = [node EXCEPT ![w] = IF @ = "up" THEN "stop" ELSE @]
    /\ due' = [due EXCEPT ![w] = {}]
    /\ CutOff(w)
    /\ UNCHANGED <<mode, scm, stop, poll, halt, asService, tray, trayMode, files, helper, bat,
                   task, left, wish, asked>>

ServerGone(w) == launcher[w] = "wait" /\ node[w] # "up" /\ ~stop[w]

\* The server left an uninstall marker: the launcher takes it and starts the task that
\* removes the service, then waits to be stopped by it.  A user's launcher that comes upon
\* the marker does the same, and nobody ever stops it.
Uninstalls(w) ==
    /\ ServerGone(w) /\ "uninstall" \in files
    /\ files' = files \ {"uninstall"}
    /\ \/ /\ task = "off" /\ task' = "stop"
          /\ launcher' = [launcher EXCEPT ![w] = "blocked"]
          /\ lost' = (lost \/ w = "user") /\ UNCHANGED left
       \/ /\ Fault
          /\ launcher' = [launcher EXCEPT ![w] = "ending"]
          /\ UNCHANGED task
    /\ UNCHANGED <<mode, scm, node, due, stop, poll, halt, asService, tray, trayMode, helper,
                   bat, install, wish, asked>>

\* decide_restart: the marker first, else exit code 75.
Restarts(w) ==
    /\ ServerGone(w) /\ "uninstall" \notin files
    /\ "restart" \in files \/ node[w] = "port"
    /\ files' = files \ {"restart"}
    /\ node' = [node EXCEPT ![w] = "up"]
    /\ UNCHANGED <<mode, scm, launcher, due, stop, poll, halt, asService, tray, trayMode,
                   outside, left, history>>

Ends(w) ==
    /\ ServerGone(w) /\ files \cap {"uninstall", "restart"} = {} /\ node[w] # "port"
    /\ launcher' = [launcher EXCEPT ![w] = "ending"]
    /\ UNCHANGED <<mode, scm, node, due, stop, poll, halt, asService, tray, trayMode, files,
                   outside, left, history>>

\* run() returned: the tray thread is told to stop, then the tray is killed unless a marker
\* says that somebody relaunches, then the process is over.
SignalTray(w) ==
    /\ launcher[w] = "ending"
    /\ launcher' = [launcher EXCEPT ![w] = "reap"]
    /\ halt' = [halt EXCEPT ![w] = TRUE]
    /\ UNCHANGED <<mode, scm, node, due, stop, poll, asService, tray, trayMode, files, outside,
                   left, history>>

Reap(w) ==
    /\ launcher[w] = "reap"
    /\ launcher' = [launcher EXCEPT ![w] = "exit"]
    /\ tray' = (tray /\ files \cap {"apply", "uninstall"} # {})
    /\ UNCHANGED <<mode, scm, node, due, stop, poll, halt, asService, trayMode, files, outside,
                   left, history>>

\* Mutant: the batch file of old, without the branch of the update.
BatBegins_NoUpdate ==
    \E b \in Bats :
        /\ bat[b] = "off"
        /\ bat' = [bat EXCEPT ![b] = IF "uninstall" \in files THEN "remove" ELSE "off"]
        /\ files' = files \ {"uninstall"}

\* post-stop.bat reads the markers as soon as the service is gone: an update first, then a
\* removal, else the user stopped the service.
BatBegins ==
    \E b \in Bats :
        /\ bat[b] = "off"
        /\ bat' = [bat EXCEPT ![b] = IF "apply" \in files THEN "sleep"
                                     ELSE IF "uninstall" \in files THEN "remove" ELSE "off"]
        /\ files' = IF "apply" \in files THEN files \ {"apply"} ELSE files \ {"uninstall"}

\* After an exit of the service Servy runs post-stop.bat; unless it was asked to stop, it
\* may start the launcher again.
ServyReacts(w) ==
    IF w = "user" THEN UNCHANGED <<scm, bat, files>>
    ELSE /\ BatBegins
         /\ \/ scm = "running" /\ ~stop[w] /\ UNCHANGED scm
            \/ scm' = IF scm = "absent" THEN "absent" ELSE "stopped"

Gone(w) ==
    /\ launcher' = [launcher EXCEPT ![w] = "gone"]
    /\ node' = [node EXCEPT ![w] = "none"]
    /\ due' = [due EXCEPT ![w] = {}]
    /\ poll' = [poll EXCEPT ![w] = "off"]
    /\ ServyReacts(w)
    /\ UNCHANGED <<mode, stop, halt, asService, tray, trayMode, helper, task, wish,
                   asked>>

Exits(w) == /\ launcher[w] = "exit" /\ Gone(w) /\ UNCHANGED <<install, left, lost>>

\* A launcher is killed: its job object takes the server with it, the tray stays.
Crashes(w) ==
    /\ launcher[w] # "gone" /\ Fault /\ Gone(w)
    /\ install' = IF w = "user" THEN "off" ELSE install

Recovers ==
    /\ scm = "running" /\ launcher["service"] = "gone"
    /\ \A b \in Bats : bat[b] # "sleep"
    /\ Begin("service")
    /\ UNCHANGED <<mode, scm, tray, trayMode, outside, left, wish, lost>>

UserStarts ==
    /\ launcher["user"] = "gone"
    /\ User("up") /\ Begin("user") /\ lost' = FALSE
    /\ UNCHANGED <<mode, scm, tray, trayMode, outside>>

-------------------------------------------------------------------------------
(* The tray thread *)

\* Top of an iteration: the stop flag, then a tray of another mode is killed.
PollTop(w) ==
    /\ poll[w] = "top"
    /\ IF halt[w]
       THEN poll' = [poll EXCEPT ![w] = "off"] /\ UNCHANGED tray
       ELSE /\ poll' = [poll EXCEPT ![w] = mode]
            /\ tray' = (tray /\ trayMode \in {"none", mode})
    /\ UNCHANGED <<mode, scm, launcher, node, due, stop, halt, asService, trayMode, files,
                   outside, left, history>>

\* Mutant: the file gets the mode in which the launcher began.
PollEnsure_StartMode(w) ==
    /\ poll[w] \in {"local", "service"}
    /\ LET reaches == asService[w] <=> w = "service" IN
       /\ tray' = (tray \/ reaches)
       /\ trayMode' = IF ~tray /\ (w = "service" \/ reaches)
                      THEN (IF asService[w] THEN "service" ELSE "local") ELSE trayMode
    /\ poll' = [poll EXCEPT ![w] = "top"]
    /\ UNCHANGED <<mode, scm, launcher, node, due, stop, halt, asService, files, outside,
                   left, history>>

\* A missing tray is spawned.  The service needs to know that it is one to reach the user's
\* session; a user's launcher that takes itself for the service has no right to do so.
PollEnsure(w) ==
    /\ poll[w] \in {"local", "service"}
    /\ LET reaches == asService[w] <=> w = "service" IN
       /\ tray' = (tray \/ reaches)
       /\ trayMode' = IF ~tray /\ (w = "service" \/ reaches) THEN poll[w] ELSE trayMode
    /\ poll' = [poll EXCEPT ![w] = "top"]
    /\ UNCHANGED <<mode, scm, launcher, node, due, stop, halt, asService, files, outside,
                   left, history>>

\* The user confirms "exit" in the tray's menu: its process ends after asking a server, if
\* it reaches one, to shut down.
TrayExit ==
    /\ tray /\ tray' = FALSE
    /\ \/ \E w \in Where : /\ node[w] = "up" /\ User("down")
                           /\ due' = [due EXCEPT ![w] = @ \cup {"quit"}]
       \/ User(wish) /\ UNCHANGED due
    /\ UNCHANGED <<mode, scm, launcher, node, stop, poll, halt, asService, trayMode, files,
                   outside, lost, asked>>

-------------------------------------------------------------------------------
(* The server *)

\* What a request to w says about the user's wish: nothing, when w is being stopped.
Wish(w) == IF stop[w] THEN wish ELSE "up"

Schedules(w, cause) == node[w] = "up" /\ due' = [due EXCEPT ![w] = @ \cup {cause}]

\* "stop server & exit": answered, then the exit is scheduled.
QuitRequested(w) ==
    /\ Schedules(w, "quit") /\ User("down")
    /\ UNCHANGED <<mode, scm, launcher, node, stop, poll, halt, asService, tray, trayMode,
                   files, outside, lost, asked>>

\* A new port: the marker is written at once, the exit with code 75 comes a second later.
RestartRequested(w) ==
    /\ Schedules(w, "port") /\ User(Wish(w))
    /\ files' = files \cup {"restart"}
    /\ asked' = [v \in Where |-> asked[v] \/ launcher[v] # "gone"]
    /\ UNCHANGED <<mode, scm, launcher, node, stop, poll, halt, asService, tray, trayMode,
                   outside, lost>>

\* applyUpdate: the marker, then Velopack for a service or the operation-server without one;
\* the exit is scheduled whether or not the operation-server came up.
ApplyRequested(w) ==
    /\ Schedules(w, "apply") /\ files' = files \cup {"apply"}
    /\ User(Wish(w))
    /\ \/ mode = "service" /\ lost' = (lost \/ w = "user") /\ UNCHANGED helper
       \/ mode = "local" /\ helper = "off" /\ helper' = "kill" /\ UNCHANGED lost
       \/ mode = "local" /\ lost' = TRUE /\ UNCHANGED helper
    /\ UNCHANGED <<mode, scm, launcher, node, stop, poll, halt, asService, tray, trayMode, bat,
                   task, install, asked>>

\* The user's program has not yet made way for the service.
Installing == install # "off" \/ "install" \in due["user"] \/ node["user"] = "install"

\* The service is told to remove itself: config.json goes back to local mode first.  That
\* nobody asks for it while the service is being installed is an assumption.
UninstallRequested ==
    /\ ~Installing
    /\ mode = "service" /\ Schedules("service", "uninstall") /\ User(Wish("service"))
    /\ mode' = "local" /\ files' = files \cup {"uninstall"}
    /\ UNCHANGED <<scm, launcher, node, stop, poll, halt, asService, tray, trayMode, outside,
                   lost, asked>>

InstallRequested ==
    /\ node["user"] = "up" /\ mode = "local" /\ scm = "absent" /\ install = "off"
    /\ User(Wish("user"))
    /\ mode' = "service" /\ install' = "asked"
    /\ UNCHANGED <<scm, procs, tray, trayMode, files, helper, bat, task, lost, asked>>

\* The elevated helper registers and starts the service, and a tray.
ServiceInstalled ==
    /\ install = "asked" /\ install' = "verify"
    /\ scm' = "running" /\ Begin("service") /\ tray' = TRUE
    /\ UNCHANGED <<mode, trayMode, helper, bat, task, left, wish, lost>>

InstallVerified ==
    /\ install = "verify" /\ install' = "off"
    /\ Schedules("user", "install")
    /\ UNCHANGED <<mode, scm, launcher, node, stop, poll, halt, asService, tray, trayMode,
                   files, helper, bat, task, left, history>>

\* The service does not come up, or is refused: rolled back.
InstallFails ==
    /\ install # "off" /\ install' = "off" /\ Fault
    /\ mode' = "local" /\ scm' = "absent"
    /\ launcher' = [launcher EXCEPT !["service"] = "gone"]
    /\ node' = [node EXCEPT !["service"] = "none"]
    /\ due' = [due EXCEPT !["service"] = {}]
    /\ poll' = [poll EXCEPT !["service"] = "off"]
    /\ UNCHANGED <<stop, halt, asService, tray, trayMode, files, helper, bat, task, wish,
                   asked>>

\* One of the scheduled exits.
ServerExits(w) ==
    /\ node[w] = "up"
    /\ \E c \in due[w] : node' = [node EXCEPT ![w] = c]
    /\ due' = [due EXCEPT ![w] = {}]
    /\ CutOff(w)
    /\ UNCHANGED <<mode, scm, launcher, stop, poll, halt, asService, tray, trayMode, files,
                   helper, bat, task, left, wish, asked>>

ServerCrashes(w) ==
    /\ node[w] = "up" /\ Fault
    /\ node' = [node EXCEPT ![w] = "crash"]
    /\ due' = [due EXCEPT ![w] = {}]
    /\ install' = IF w = "user" THEN "off" ELSE install
    /\ UNCHANGED <<mode, scm, launcher, stop, poll, halt, asService, tray, trayMode, files,
                   helper, bat, task, wish, asked>>

-------------------------------------------------------------------------------
(* The processes that go on *)

\* An exit is under way at w.
Leaving(w) == due[w] # {} \/ (stop[w] /\ launcher[w] # "gone") \/ ServerGone(w)
                \/ launcher[w] \in {"ending", "reap", "exit"}

HelperKillsTray ==
    /\ helper = "kill" /\ helper' = "sleep" /\ tray' = FALSE
    /\ UNCHANGED <<mode, scm, procs, trayMode, files, bat, task, install, left, history>>

\* Files of a program that runs cannot be replaced: the extraction stops half-way and the
\* operation-server ends, with nobody relaunched.
HelperExtracts ==
    /\ helper = "sleep" /\ \A w \in Where : ~Leaving(w)
    /\ IF tray \/ \E w \in Where : launcher[w] # "gone"
       THEN helper' = "off" /\ lost' = TRUE /\ UNCHANGED left
       ELSE \/ helper' = "launch" /\ UNCHANGED <<left, lost>>
            \/ helper' = "off" /\ Fault
    /\ UNCHANGED <<mode, scm, procs, tray, trayMode, files, bat, task, install, wish,
                   asked>>

\* The launcher is started in the user's session.
SpawnsUser ==
    /\ ~Leaving("user")
    /\ \/ Begin("user") /\ UNCHANGED <<left, lost>>
       \/ Fault /\ UNCHANGED <<procs, files, asked>>

HelperLaunches ==
    /\ helper = "launch" /\ helper' = "off" /\ SpawnsUser
    /\ UNCHANGED <<mode, scm, tray, trayMode, bat, task, install, wish>>

\* 12 s after the marker of an update: sc start.
BatStarts(b) ==
    /\ bat[b] = "sleep" /\ task = "off" /\ bat' = [bat EXCEPT ![b] = "off"]
    /\ IF scm = "stopped" THEN scm' = "running" /\ Begin("service")
       ELSE UNCHANGED <<scm, procs, files, asked>>
    /\ UNCHANGED <<mode, tray, trayMode, helper, task, install, left, wish, lost>>

\* servy-cli uninstall; a failure is not looked at.
Removes == \/ scm' = "absent" /\ UNCHANGED <<left, lost>>
           \/ Fault /\ UNCHANGED scm

BatRemoves(b) ==
    /\ bat[b] = "remove" /\ bat' = [bat EXCEPT ![b] = "spawn"] /\ Removes
    /\ UNCHANGED <<mode, procs, tray, trayMode, files, helper, task, install, wish, asked>>

BatSpawns(b) ==
    /\ bat[b] = "spawn" /\ bat' = [bat EXCEPT ![b] = "off"] /\ SpawnsUser
    /\ UNCHANGED <<mode, scm, tray, trayMode, helper, task, install, wish>>

\* The task of the launcher: servy-cli stop returns when the service is down.
TaskStops ==
    /\ task = "stop" /\ launcher["service"] # "gone" /\ ~stop["service"]
    /\ stop' = [stop EXCEPT !["service"] = TRUE]
    /\ UNCHANGED <<mode, scm, launcher, node, due, poll, halt, asService, tray, trayMode, files,
                   outside, left, history>>

TaskStopped ==
    /\ task = "stop" /\ scm # "running" /\ launcher["service"] = "gone"
    /\ task' = "remove"
    /\ UNCHANGED <<mode, scm, procs, tray, trayMode, files, helper, bat, install, left,
                   history>>

TaskRemoves ==
    /\ task = "remove" /\ task' = "spawn" /\ Removes
    /\ UNCHANGED <<mode, procs, tray, trayMode, files, helper, bat, install, wish, asked>>

TaskSpawns ==
    /\ task = "spawn" /\ task' = "off" /\ SpawnsUser
    /\ UNCHANGED <<mode, scm, tray, trayMode, helper, bat, install, wish>>

-------------------------------------------------------------------------------
Supervise(w) == Stopped(w) \/ Uninstalls(w) \/ Restarts(w) \/ Ends(w) \/ SignalTray(w)
                  \/ Reap(w) \/ Exits(w) \/ ServerExits(w)
Poll(w)      == PollTop(w) \/ PollEnsure(w)
Help         == HelperKillsTray \/ HelperExtracts \/ HelperLaunches
PostStop(b)  == BatStarts(b) \/ BatRemoves(b) \/ BatSpawns(b)
Task         == TaskStops \/ TaskStopped \/ TaskRemoves \/ TaskSpawns
Install      == ServiceInstalled \/ InstallVerified

Next ==
    \/ \E w \in Where : \/ Supervise(w) \/ Poll(w)
                        \/ StopRequested(w) \/ QuitRequested(w) \/ RestartRequested(w)
                        \/ ApplyRequested(w) \/ Crashes(w) \/ ServerCrashes(w)
    \/ \E b \in Bats : PostStop(b)
    \/ Help \/ Task \/ Install \/ InstallFails \/ Recovers
    \/ UserStarts \/ TrayExit \/ UninstallRequested \/ InstallRequested

Spec == Init /\ [][Next]_vars

\* Threads and processes that exist are scheduled; the user and the failures owe nothing.
Fairness ==
    /\ \A w \in Where : WF_vars(Supervise(w)) /\ WF_vars(Poll(w))
    /\ \A b \in Bats : WF_vars(PostStop(b))
    /\ WF_vars(Help) /\ WF_vars(Task) /\ WF_vars(Install) /\ WF_vars(Recovers)

FairSpec == Spec /\ Fairness

-------------------------------------------------------------------------------
(* Properties *)

\* Whatever ends the program on its way to something else - a new port, an update, the
\* service's coming or going - brings it back: it is down for good only if the user asked
\* for that, or a step failed.
AppReturns == []<>(Running \/ wish = "down" \/ lost)

\* A launcher that keeps running, in the place it takes itself for, keeps a tray: trays that
\* die, are killed by the other launcher's exit or carry the wrong mode are replaced, and the
\* killing of trays of the wrong mode comes to an end.
TrayFollows ==
    \A w \in Where :
        <>[](launcher[w] = "wait" /\ (asService[w] <=> w = "service")) => <>[]tray

\* A launcher respawns its server only for a restart somebody asked for since it began: a
\* marker that a dead launcher left behind never does it.
RestartsAsked ==
    [][\A w \in Where : (launcher[w] = "wait" /\ node[w] # "up" /\ node'[w] = "up") => asked[w]]_vars

=============================================================================
