------------------------------ MODULE AdbDaemon -------------------------------
(***************************************************************************)
(* AdbDaemonManager: callers share one start of the adb daemon; kill() may *)
(* come at any moment of it. Around it, what makes those calls: the adb    *)
(* commands of AdbClient, the scanner that waits 5 s at most, the          *)
(* installation of adb and the shutdown of the server.                     *)
(***************************************************************************)
EXTENDS Naturals, FiniteSets

CONSTANTS Callers,     \* who runs adb commands
          Hasty,       \* those that call ensureReady with waitMs
          MaxFlights,  \* bound: starts of the daemon
          MaxDeaths    \* bound: times the daemon dies by itself

ASSUME AdbDaemonAssumption ==
    Hasty \subseteq Callers /\ MaxFlights \in Nat /\ MaxDeaths \in Nat

Flight == 1..MaxFlights
None == 0

VARIABLES
    manager,   \* the state of AdbDaemonManager
    inflight,  \* the shared start
    flight,    \* each start: "binary" waits for the file, "spawned" for start-server
    spawned,   \* starts so far
    caller,    \* "idle", "waiting" for a start or "running" adb
    on,        \* the start that it waits for
    daemon,    \* the daemon is up
    binary,    \* adb is on the disk
    install,   \* DependencyManager.installAdb: "none", "stopping", "extracting" or "over"
    down,      \* gracefulShutdown(): "no", "kill", "reap", "released" or "exited"
    deaths,
    crossed    \* a kill() or a failure of the process met a start on its way

adbVars == <<manager, inflight, flight, spawned, caller, on, daemon, binary, install, down, deaths, crossed>>

FlightState == {"none", "binary", "spawned", "done", "failed"}
Running(f) == flight[f] \in {"binary", "spawned"}

AdbTypeOK ==
    /\ manager \in {"idle", "starting", "ready", "killed"}
    /\ inflight \in 0..spawned /\ spawned \in 0..MaxFlights
    /\ flight \in [Flight -> FlightState]
    /\ caller \in [Callers -> {"idle", "waiting", "running"}]
    /\ on \in [Callers -> 0..MaxFlights]
    /\ daemon \in BOOLEAN /\ binary \in BOOLEAN /\ crossed \in BOOLEAN
    /\ install \in {"none", "stopping", "extracting", "over"}
    /\ down \in {"no", "kill", "reap", "released", "exited"}
    /\ deaths \in 0..MaxDeaths
    \* a promise is waited for until it settles, and every start has its number
    /\ \A c \in Callers : caller[c] = "waiting" => on[c] \in 1..spawned /\ flight[on[c]] # "none"
    /\ \A f \in Flight : IF f > spawned THEN flight[f] = "none" ELSE flight[f] # "none"

\* An earlier server that was restarted has left its daemon.
AdbInit ==
    /\ manager = "idle" /\ inflight = None
    /\ flight = [f \in Flight |-> "none"] /\ spawned = 0
    /\ caller = [c \in Callers |-> "idle"] /\ on = [c \in Callers |-> None]
    /\ binary \in BOOLEAN /\ daemon \in {FALSE, binary}
    /\ install = "none" /\ down = "no" /\ deaths = 0 /\ crossed = FALSE

Alive == down # "exited"
-------------------------------------------------------------------------------
(* The manager.                                                             *)

\* Mutant of Ensure: the start is not kept.
Ensure_NotShared(c) ==
    /\ Alive /\ caller[c] = "idle" /\ down # "released"
    /\ IF manager = "ready"
         THEN caller' = [caller EXCEPT ![c] = "running"] /\ UNCHANGED <<manager, inflight, flight, spawned, on>>
         ELSE /\ spawned < MaxFlights /\ spawned' = spawned + 1 /\ inflight' = spawned + 1
              /\ flight' = [flight EXCEPT ![spawned + 1] = "binary"]
              /\ manager' = "starting"
              /\ caller' = [caller EXCEPT ![c] = "waiting"] /\ on' = [on EXCEPT ![c] = inflight']
    /\ UNCHANGED <<daemon, binary, install, down, deaths, crossed>>

\* ensureReady(): by an adb command, by the scanner. Once its service is released nobody calls.
Ensure(c) ==
    /\ Alive /\ caller[c] = "idle" /\ down # "released"
    /\ IF manager = "ready"
         THEN caller' = [caller EXCEPT ![c] = "running"] /\ UNCHANGED <<manager, inflight, flight, spawned, on>>
         ELSE /\ IF inflight # None THEN UNCHANGED <<manager, inflight, flight, spawned>>
                 ELSE /\ spawned < MaxFlights /\ spawned' = spawned + 1 /\ inflight' = spawned + 1
                      /\ flight' = [flight EXCEPT ![spawned + 1] = "binary"]
                      /\ manager' = "starting"
              /\ caller' = [caller EXCEPT ![c] = "waiting"] /\ on' = [on EXCEPT ![c] = inflight']
    /\ UNCHANGED <<daemon, binary, install, down, deaths, crossed>>

\* waitMs is over: the start goes on without this caller.
GivesUp(c) ==
    /\ Alive /\ c \in Hasty /\ caller[c] = "waiting"
    /\ caller' = [caller EXCEPT ![c] = "idle"] /\ on' = [on EXCEPT ![c] = None]
    /\ UNCHANGED <<manager, inflight, flight, spawned, daemon, binary, install, down, deaths, crossed>>

\* waitForBinary() has found the file: adb start-server.
Spawns(f) ==
    /\ Alive /\ flight[f] = "binary" /\ binary
    /\ flight' = [flight EXCEPT ![f] = "spawned"]
    /\ UNCHANGED <<manager, inflight, spawned, caller, on, daemon, binary, install, down, deaths, crossed>>

\* Mutant of Answer: a start that kill() has met never settles.
Answer_Lost(f, ok) ==
    /\ caller' = [c \in Callers |-> IF caller[c] = "waiting" /\ on[c] = f /\ manager # "killed"
                                      THEN IF ok THEN "running" ELSE "idle" ELSE caller[c]]
    /\ on' = [c \in Callers |-> IF caller[c] = "waiting" /\ on[c] = f /\ manager # "killed" THEN None ELSE on[c]]

\* The callers of a start learn how it ended.
Answer(f, ok) ==
    /\ caller' = [c \in Callers |-> IF caller[c] = "waiting" /\ on[c] = f
                                      THEN IF ok THEN "running" ELSE "idle" ELSE caller[c]]
    /\ on' = [c \in Callers |-> IF caller[c] = "waiting" /\ on[c] = f THEN None ELSE on[c]]

\* Mutant of Starts: the state is not looked at.
Starts_Overwrites(f) ==
    /\ Alive /\ flight[f] = "spawned"
    /\ flight' = [flight EXCEPT ![f] = "done"]
    /\ daemon' = TRUE
    /\ manager' = "ready"
    /\ inflight' = None
    /\ Answer(f, TRUE)
    /\ UNCHANGED <<spawned, binary, install, down, deaths, crossed>>

\* start-server exits with 0: the rest of spawnLifecycle().
Starts(f) ==
    /\ Alive /\ flight[f] = "spawned"
    /\ flight' = [flight EXCEPT ![f] = "done"]
    /\ daemon' = TRUE
    /\ manager' = IF manager = "starting" THEN "ready" ELSE manager
    /\ inflight' = None
    /\ Answer(f, TRUE)
    /\ UNCHANGED <<spawned, binary, install, down, deaths, crossed>>

\* No file in 5 minutes, an error, or 30 s without an answer: the daemon may be up all the same.
Fails(f) ==
    /\ Alive /\ (flight[f] = "spawned" \/ (flight[f] = "binary" /\ ~binary))
    /\ flight' = [flight EXCEPT ![f] = "failed"]
    /\ daemon' \in IF flight[f] = "spawned" THEN {daemon, TRUE} ELSE {daemon}
    /\ manager' = IF manager = "starting" THEN "idle" ELSE manager
    /\ inflight' = None
    /\ Answer(f, FALSE)
    /\ UNCHANGED <<spawned, binary, install, down, deaths, crossed>>

\* The command itself: the client of adb starts a daemon that is not there.
Command(c, ok) ==
    /\ Alive /\ caller[c] = "running"
    /\ caller' = [caller EXCEPT ![c] = "idle"]
    /\ IF ok THEN binary /\ daemon' = TRUE ELSE UNCHANGED daemon
    /\ UNCHANGED <<manager, inflight, flight, spawned, on, binary, install, down, deaths, crossed>>

Dies ==
    /\ daemon /\ deaths < MaxDeaths
    /\ daemon' = FALSE /\ deaths' = deaths + 1
    /\ UNCHANGED <<manager, inflight, flight, spawned, caller, on, binary, install, down, crossed>>

-------------------------------------------------------------------------------
(* installAdb and gracefulShutdown.                                         *)

InstallStarts ==
    /\ Alive /\ install = "none"
    /\ install' = IF binary THEN "stopping" ELSE "extracting"
    /\ UNCHANGED <<manager, inflight, flight, spawned, caller, on, daemon, binary, down, deaths, crossed>>

\* adb kill-server, which the manager does not hear of.
InstallStops ==
    /\ Alive /\ install = "stopping"
    /\ install' = "extracting" /\ daemon' \in {FALSE, daemon}
    /\ UNCHANGED <<manager, inflight, flight, spawned, caller, on, binary, down, deaths, crossed>>

\* The archive is extracted and its files copied, which Windows refuses under a running daemon.
InstallEnds(ok) ==
    /\ Alive /\ install = "extracting"
    /\ install' = "over" /\ binary' = (binary \/ ok)
    /\ UNCHANGED <<manager, inflight, flight, spawned, caller, on, daemon, down, deaths, crossed>>

\* kill() by gracefulShutdown().
Shutdown ==
    /\ down = "no"
    /\ IF manager \in {"idle", "killed"}
         THEN down' = "reap" /\ UNCHANGED <<manager, inflight, crossed>>
         ELSE /\ down' = "kill" /\ manager' = "killed" /\ inflight' = None
              /\ crossed' = (crossed \/ manager = "starting")
    /\ UNCHANGED <<flight, spawned, caller, on, daemon, binary, install, deaths>>

\* kill() by the hygiene before an update, which may then fail.
Hygiene ==
    /\ Alive /\ manager \in {"starting", "ready"}
    /\ manager' = "killed" /\ inflight' = None /\ daemon' \in {FALSE, daemon}
    /\ crossed' = (crossed \/ manager = "starting")
    /\ UNCHANGED <<flight, spawned, caller, on, binary, install, down, deaths>>

\* adb kill-server has ended, or its 5 s are over.
KillEnds ==
    /\ down = "kill" /\ down' = "reap" /\ daemon' \in {FALSE, daemon}
    /\ UNCHANGED <<manager, inflight, flight, spawned, caller, on, binary, install, deaths, crossed>>

\* reapStrayAdbOnWindows, which leaves none on Windows, then the services are released.
Reaped ==
    /\ down = "reap" /\ down' = "released" /\ daemon' \in {FALSE, daemon}
    /\ UNCHANGED <<manager, inflight, flight, spawned, caller, on, binary, install, deaths, crossed>>

\* process.exit(), or the watchdog of a signal.
Exits ==
    /\ down \in {"kill", "reap", "released"} /\ down' = "exited"
    /\ UNCHANGED <<manager, inflight, flight, spawned, caller, on, daemon, binary, install, deaths, crossed>>

AdbNext ==
    \/ \E c \in Callers : Ensure(c) \/ GivesUp(c) \/ \E ok \in BOOLEAN : Command(c, ok)
    \/ \E f \in Flight : Spawns(f) \/ Starts(f) \/ Fails(f)
    \/ Dies \/ InstallStarts \/ InstallStops \/ (\E ok \in BOOLEAN : InstallEnds(ok))
    \/ Shutdown \/ Hygiene \/ KillEnds \/ Reaped \/ Exits

\* Processes end or are killed after their timeouts; the wait for the file looks every 250 ms.
AdbFairness ==
    /\ \A f \in Flight : WF_adbVars(Spawns(f)) /\ WF_adbVars(Starts(f) \/ Fails(f))
    /\ \A c \in Callers : WF_adbVars(\E ok \in BOOLEAN : Command(c, ok))

AdbSpec == AdbInit /\ [][AdbNext]_adbVars /\ AdbFairness

-------------------------------------------------------------------------------
(* Properties.                                                              *)

\* A caller never gets the promise of a start that has failed or is done: it tries again.
InflightRuns == inflight # None => Running(inflight)

\* "Single-flight: concurrent ensureReady() callers share one in-flight spawn", and 'ready' says
\* that one has succeeded: as long as no kill() has met a start on its way.
OneStart ==
    ~crossed => /\ \A f \in Flight : Running(f) <=> inflight = f
                /\ manager = "starting" <=> inflight # None
                /\ manager = "ready" => \E f \in Flight : flight[f] = "done"

\* A kill() is not undone by the start it has met: only a new call of ensureReady starts again.
KilledStays == [][manager = "killed" /\ manager' # "killed" => spawned' = spawned + 1]_adbVars

\* Everyone who asks for the daemon is answered while the server runs.
Answered == \A c \in Callers : (caller[c] = "waiting") ~> (caller[c] # "waiting" \/ ~Alive)
===============================================================================
