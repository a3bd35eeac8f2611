------------------------------- MODULE AdbProofs -------------------------------
(***************************************************************************)
(* Theorems about what stands between the server and adb: the manager of   *)
(* the daemon (AdbDaemon) and the list of devices that is polled from it   *)
(* (DeviceTracking).  They share no state; each has its own part.          *)
(***************************************************************************)
EXTENDS AdbDaemon, DeviceTracking, FiniteSetTheorems, TLAPS

(***************************************************************************)
(* Part I: the manager of the adb daemon, for any number of callers and of *)
(* starts.                                                                 *)
(***************************************************************************)

\* What every step keeps.
AInv == AdbTypeOK /\ InflightRuns /\ OneStart

USE DEF Flight, None, FlightState

LEMMA DaemonInitHolds == AdbInit => AInv
<1> SUFFICES ASSUME AdbInit PROVE AInv
  OBVIOUS
<1>1. AdbTypeOK
  <2>1. daemon \in BOOLEAN /\ binary \in BOOLEAN /\ crossed \in BOOLEAN
    BY DEF AdbInit
  <2>2. /\ manager = "idle" /\ inflight = 0 /\ flight = [f \in Flight |-> "none"] /\ spawned = 0
        /\ caller = [c \in Callers |-> "idle"] /\ on = [c \in Callers |-> 0]
        /\ install = "none" /\ down = "no" /\ deaths = 0
    BY DEF AdbInit
  <2> QED
    BY <2>1, <2>2, AdbDaemonAssumption DEF AdbDaemonAssumption, AdbTypeOK
<1>2. InflightRuns /\ OneStart
  BY DEF AdbInit, InflightRuns, OneStart, Running
<1> QED
  BY <1>1, <1>2 DEF AInv

\* A call: the caller runs at once, joins the start on its way, or makes the next one.
LEMMA EnsureKeeps ==
    ASSUME AInv, NEW c \in Callers, Ensure(c)
    PROVE  AInv'
<1>1. CASE manager = "ready"
  <2>1. UNCHANGED <<manager, inflight, flight, spawned, on, daemon, binary, install, down, deaths, crossed>>
    BY <1>1 DEF Ensure
  <2>2. caller' = [caller EXCEPT ![c] = "running"]
    BY <1>1 DEF Ensure
  <2> QED
    BY <2>1, <2>2 DEF AInv, AdbTypeOK, InflightRuns, OneStart, Running
<1>2. CASE manager # "ready" /\ inflight # 0
  <2>1. UNCHANGED <<manager, inflight, flight, spawned, daemon, binary, install, down, deaths, crossed>>
    BY <1>2 DEF Ensure
  <2>2. caller' = [caller EXCEPT ![c] = "waiting"] /\ on' = [on EXCEPT ![c] = inflight]
    BY <1>2 DEF Ensure
  <2>3. inflight \in 1..spawned /\ flight[inflight] # "none"
    BY <1>2 DEF AInv, AdbTypeOK, InflightRuns, Running
  <2>4. AdbTypeOK'
    BY <2>1, <2>2, <2>3, AdbDaemonAssumption DEF AInv, AdbTypeOK, AdbDaemonAssumption
  <2> QED
    BY <2>1, <2>4 DEF AInv, InflightRuns, OneStart, Running
<1>3. CASE manager # "ready" /\ inflight = 0
  <2>1. UNCHANGED <<daemon, binary, install, down, deaths, crossed>>
    BY DEF Ensure
  <2>2. /\ spawned < MaxFlights /\ spawned' = spawned + 1 /\ inflight' = spawned + 1
        /\ flight' = [flight EXCEPT ![spawned + 1] = "binary"] /\ manager' = "starting"
        /\ caller' = [caller EXCEPT ![c] = "waiting"] /\ on' = [on EXCEPT ![c] = spawned + 1]
    BY <1>3 DEF Ensure
  <2>3. spawned + 1 \in Flight /\ spawned \in Nat
    BY <2>2, AdbDaemonAssumption DEF AInv, AdbTypeOK, AdbDaemonAssumption
  <2>4. flight'[spawned + 1] = "binary"
    BY <2>2, <2>3 DEF AInv, AdbTypeOK
  <2>5. /\ flight' \in [Flight -> FlightState] /\ spawned' \in 0..MaxFlights /\ inflight' \in 0..spawned'
        /\ caller' \in [Callers -> {"idle", "waiting", "running"}] /\ on' \in [Callers -> 0..MaxFlights]
    BY <2>2, <2>3, AdbDaemonAssumption DEF AInv, AdbTypeOK, AdbDaemonAssumption
  <2>6. \A f \in Flight : IF f > spawned' THEN flight'[f] = "none" ELSE flight'[f] # "none"
    BY <2>2, <2>3 DEF AInv, AdbTypeOK
  <2>7. \A x \in Callers : caller'[x] = "waiting" => on'[x] \in 1..spawned' /\ flight'[on'[x]] # "none"
    BY <2>2, <2>3, <2>4 DEF AInv, AdbTypeOK
  <2>8. AdbTypeOK'
    BY <2>1, <2>2, <2>5, <2>6, <2>7 DEF AInv, AdbTypeOK
  <2>9. InflightRuns'
    BY <2>2, <2>4 DEF InflightRuns, Running
  <2>10. OneStart'
    BY <1>3, <2>1, <2>2, <2>3, <2>4 DEF AInv, AdbTypeOK, OneStart, Running
  <2> QED
    BY <2>8, <2>9, <2>10 DEF AInv
<1> QED
  BY <1>1, <1>2, <1>3

LEMMA SpawnsKeeps ==
    ASSUME AInv, NEW f \in Flight, Spawns(f)
    PROVE  AInv'
<1>1. AdbTypeOK'
  BY DEF AInv, AdbTypeOK, Spawns
<1>2. \A g \in Flight : Running(g)' <=> Running(g)
  BY DEF AInv, AdbTypeOK, Spawns, Running
<1>3. \A g \in Flight : flight'[g] = "done" <=> flight[g] = "done"
  BY DEF AInv, AdbTypeOK, Spawns
<1>4. UNCHANGED <<manager, inflight, crossed>>
  BY DEF Spawns
<1>5. inflight # 0 => inflight \in Flight
  BY AdbDaemonAssumption DEF AInv, AdbTypeOK, AdbDaemonAssumption
<1>6. InflightRuns'
  BY <1>2, <1>4, <1>5 DEF AInv, InflightRuns
<1>7. OneStart'
  BY <1>2, <1>3, <1>4 DEF AInv, OneStart
<1> QED
  BY <1>1, <1>6, <1>7 DEF AInv

\* The answer keeps the types, and nobody waits for that start any more.
LEMMA AnswerTyped ==
    ASSUME AdbTypeOK, NEW f, NEW ok \in BOOLEAN, Answer(f, ok)
    PROVE  /\ caller' \in [Callers -> {"idle", "waiting", "running"}] /\ on' \in [Callers -> 0..MaxFlights]
           /\ \A c \in Callers : caller'[c] = "waiting" => caller[c] = "waiting" /\ on'[c] = on[c]
BY AdbDaemonAssumption DEF AdbTypeOK, Answer, AdbDaemonAssumption

\* A start that ends well or badly.
LEMMA SettlesKeep ==
    ASSUME AInv, NEW f \in Flight, Starts(f) \/ Fails(f)
    PROVE  AInv'
<1>1. PICK ok \in BOOLEAN :
        /\ Running(f) /\ flight' = [flight EXCEPT ![f] = IF ok THEN "done" ELSE "failed"]
        /\ manager' = IF manager = "starting" THEN IF ok THEN "ready" ELSE "idle" ELSE manager
        /\ inflight' = 0 /\ Answer(f, ok)
        /\ UNCHANGED <<spawned, binary, install, down, deaths, crossed>>
  <2>1. CASE Starts(f)
    <3> WITNESS TRUE \in BOOLEAN
    <3> QED
      BY <2>1 DEF Starts, Running
  <2>2. CASE Fails(f)
    <3> WITNESS FALSE \in BOOLEAN
    <3> QED
      BY <2>2 DEF Fails, Running
  <2> QED
    BY <2>1, <2>2
<1>2. daemon' \in BOOLEAN
  BY DEF AInv, AdbTypeOK, Starts, Fails
<1>3. flight' \in [Flight -> FlightState] /\ \A g \in Flight : flight'[g] = "none" <=> flight[g] = "none"
  BY <1>1 DEF AInv, AdbTypeOK, Running
<1>4. manager' \in {"idle", "starting", "ready", "killed"}
  BY <1>1 DEF AInv, AdbTypeOK
<1>5. inflight' \in 0..spawned'
  BY <1>1 DEF AInv, AdbTypeOK
<1>6. /\ caller' \in [Callers -> {"idle", "waiting", "running"}] /\ on' \in [Callers -> 0..MaxFlights]
      /\ \A c \in Callers : caller'[c] = "waiting" => caller[c] = "waiting" /\ on'[c] = on[c]
  BY <1>1, AnswerTyped DEF AInv
<1>7. \A c \in Callers : caller'[c] = "waiting" => on'[c] \in 1..spawned' /\ flight'[on'[c]] # "none"
  BY <1>1, <1>3, <1>6, AdbDaemonAssumption DEF AInv, AdbTypeOK, AdbDaemonAssumption
<1>8. \A g \in Flight : IF g > spawned' THEN flight'[g] = "none" ELSE flight'[g] # "none"
  BY <1>1, <1>3 DEF AInv, AdbTypeOK
<1>9. UNCHANGED <<spawned, binary, install, down, deaths, crossed>>
  BY <1>1
<1>10. AdbTypeOK'
  BY <1>2, <1>3, <1>4, <1>5, <1>6, <1>7, <1>8, <1>9 DEF AInv, AdbTypeOK
<1>11. InflightRuns'
  BY <1>1 DEF InflightRuns
<1>12. OneStart'
  <2> SUFFICES ASSUME ~crossed PROVE OneStart'
    BY <1>9 DEF OneStart
  <2>1. f = inflight /\ manager = "starting" /\ \A g \in Flight : Running(g) => g = f
    BY <1>1 DEF AInv, OneStart, Running
  <2>2. manager' = (IF ok THEN "ready" ELSE "idle")
    BY <1>1, <2>1
  <2>3. \A g \in Flight : ~Running(g)'
    BY <1>1, <2>1 DEF AInv, AdbTypeOK, Running
  <2>4. ok => flight'[f] = "done"
    BY <1>1 DEF AInv, AdbTypeOK
  <2>5. inflight' = 0
    BY <1>1
  <2> QED
    BY <2>2, <2>3, <2>4, <2>5 DEF OneStart
<1> QED
  BY <1>10, <1>11, <1>12 DEF AInv

\* kill(): by the shutdown, by the hygiene before an update.
LEMMA KillsKeep ==
    ASSUME AInv, Shutdown \/ Hygiene
    PROVE  AInv'
<1>1. UNCHANGED <<flight, spawned, caller, on, binary, install, deaths>>
  BY DEF Shutdown, Hygiene
<1>2. daemon' \in BOOLEAN /\ down' \in {"no", "kill", "reap", "released", "exited"}
  BY DEF AInv, AdbTypeOK, Shutdown, Hygiene
<1>3. \/ UNCHANGED <<manager, inflight, crossed>>
      \/ /\ manager' = "killed" /\ inflight' = 0 /\ manager # "killed"
         /\ crossed' = (crossed \/ manager = "starting")
  BY DEF Shutdown, Hygiene
<1>4. crossed' \in BOOLEAN
  BY <1>3 DEF AInv, AdbTypeOK
<1>5. inflight' \in 0..spawned'
  BY <1>1, <1>3 DEF AInv, AdbTypeOK
<1>6. AdbTypeOK'
  BY <1>1, <1>2, <1>3, <1>4, <1>5 DEF AInv, AdbTypeOK
<1>7. InflightRuns'
  BY <1>1, <1>3 DEF AInv, InflightRuns, Running
<1>8. OneStart'
  BY <1>1, <1>3 DEF AInv, OneStart, Running
<1> QED
  BY <1>6, <1>7, <1>8 DEF AInv

\* What leaves the manager alone.
LEMMA OthersKeep ==
    ASSUME AInv,
           \/ UNCHANGED adbVars
           \/ \E c \in Callers : GivesUp(c) \/ \E ok \in BOOLEAN : Command(c, ok)
           \/ Dies \/ InstallStarts \/ InstallStops \/ (\E ok \in BOOLEAN : InstallEnds(ok))
           \/ KillEnds \/ Reaped \/ Exits
    PROVE  AInv'
<1>1. UNCHANGED <<manager, inflight, flight, spawned, crossed>>
  BY DEF adbVars, GivesUp, Command, Dies, InstallStarts, InstallStops, InstallEnds, KillEnds, Reaped, Exits
<1>2. daemon' \in BOOLEAN
  BY DEF AInv, AdbTypeOK, adbVars, GivesUp, Command, Dies, InstallStarts, InstallStops, InstallEnds, KillEnds,
         Reaped, Exits
<1>3. binary' \in BOOLEAN
  BY DEF AInv, AdbTypeOK, adbVars, GivesUp, Command, Dies, InstallStarts, InstallStops, InstallEnds, KillEnds,
         Reaped, Exits
<1>4. /\ install' \in {"none", "stopping", "extracting", "over"}
      /\ down' \in {"no", "kill", "reap", "released", "exited"} /\ deaths' \in 0..MaxDeaths
  <2>1. install' \in {install, "stopping", "extracting", "over"}
    BY DEF adbVars, GivesUp, Command, Dies, InstallStarts, InstallStops, InstallEnds, KillEnds, Reaped, Exits
  <2>2. down' \in {down, "reap", "released", "exited"}
    BY DEF adbVars, GivesUp, Command, Dies, InstallStarts, InstallStops, InstallEnds, KillEnds, Reaped, Exits
  <2>3. deaths' = deaths \/ (deaths < MaxDeaths /\ deaths' = deaths + 1)
    BY DEF adbVars, GivesUp, Command, Dies, InstallStarts, InstallStops, InstallEnds, KillEnds, Reaped, Exits
  <2>4. deaths' \in 0..MaxDeaths
    BY <2>3, AdbDaemonAssumption DEF AInv, AdbTypeOK, AdbDaemonAssumption
  <2> QED
    BY <2>1, <2>2, <2>4 DEF AInv, AdbTypeOK
<1>5. /\ caller' \in [Callers -> {"idle", "waiting", "running"}] /\ on' \in [Callers -> 0..MaxFlights]
      /\ \A c \in Callers : caller'[c] = "waiting" => caller[c] = "waiting" /\ on'[c] = on[c]
  <2>1. CASE UNCHANGED <<caller, on>>
    BY <2>1 DEF AInv, AdbTypeOK
  <2>2. CASE \E c \in Callers : GivesUp(c)
    BY <2>2, AdbDaemonAssumption DEF AInv, AdbTypeOK, GivesUp, AdbDaemonAssumption
  <2>3. CASE \E c \in Callers : \E ok \in BOOLEAN : Command(c, ok)
    BY <2>3 DEF AInv, AdbTypeOK, Command
  <2> QED
    BY <2>1, <2>2, <2>3 DEF adbVars, Dies, InstallStarts, InstallStops, InstallEnds, KillEnds, Reaped, Exits
<1>6. AdbTypeOK'
  BY <1>1, <1>2, <1>3, <1>4, <1>5 DEF AInv, AdbTypeOK
<1>7. InflightRuns' /\ OneStart'
  BY <1>1 DEF AInv, InflightRuns, OneStart, Running
<1> QED
  BY <1>6, <1>7 DEF AInv

LEMMA DaemonNextKeeps == AInv /\ [AdbNext]_adbVars => AInv'
BY EnsureKeeps, SpawnsKeeps, SettlesKeep, KillsKeep, OthersKeep DEF AdbNext

LEMMA DaemonInvariance == AdbSpec => []AInv
BY DaemonInitHolds, DaemonNextKeeps, PTL DEF AdbSpec

\* The types, and every caller that waits does so for a start that was made.
THEOREM DaemonTyped == AdbSpec => []AdbTypeOK
BY DaemonInvariance, PTL DEF AInv

\* InflightRuns: nobody is handed the promise of a start that is over.
THEOREM NoStalePromise == AdbSpec => []InflightRuns
BY DaemonInvariance, PTL DEF AInv

\* OneStart: as long as no kill() meets a start on its way, there is one start at a time, it is the
\* shared one, and 'ready' says that one has succeeded.
THEOREM SingleFlight == AdbSpec => []OneStart
BY DaemonInvariance, PTL DEF AInv

\* KilledStays: only a new start takes the manager out of 'killed'.
THEOREM KillHolds == AdbSpec => KilledStays
<1>1. AInv /\ [AdbNext]_adbVars => (manager = "killed" /\ manager' # "killed" => spawned' = spawned + 1)
  <2> SUFFICES ASSUME AInv, [AdbNext]_adbVars, manager = "killed", manager' # "killed" PROVE spawned' = spawned + 1
    OBVIOUS
  <2>1. \E c \in Callers : Ensure(c)
    BY DEF AdbNext, adbVars, GivesUp, Command, Spawns, Starts, Fails, Dies, InstallStarts, InstallStops, InstallEnds,
           Shutdown, Hygiene, KillEnds, Reaped, Exits
  <2> QED
    BY <2>1 DEF Ensure
<1>2. AInv /\ [AdbNext]_adbVars => [manager = "killed" /\ manager' # "killed" => spawned' = spawned + 1]_adbVars
  BY <1>1
<1> QED
  BY <1>2, DaemonInvariance, PTL DEF AdbSpec, KilledStays

\* Whoever waits for a start waits for one that is on its way, also when a kill() has met it.
WaitsForAStart == \A c \in Callers : caller[c] = "waiting" => Running(on[c])

LEMMA WaitsKeep == AInv /\ WaitsForAStart /\ [AdbNext]_adbVars => WaitsForAStart'
<1> SUFFICES ASSUME AInv, WaitsForAStart, [AdbNext]_adbVars PROVE WaitsForAStart'
  OBVIOUS
<1>0. \A c \in Callers : caller[c] = "waiting" => on[c] \in Flight
  BY AdbDaemonAssumption DEF AInv, AdbTypeOK, AdbDaemonAssumption
<1>1. ASSUME NEW c \in Callers, Ensure(c) PROVE WaitsForAStart'
  <2>1. CASE manager = "ready"
    <3>1. caller' = [caller EXCEPT ![c] = "running"] /\ UNCHANGED <<flight, on>>
      BY <1>1, <2>1 DEF Ensure
    <3> QED
      BY <3>1 DEF WaitsForAStart, Running, AInv, AdbTypeOK
  <2>2. CASE manager # "ready" /\ inflight # 0
    <3>1. /\ caller' = [caller EXCEPT ![c] = "waiting"] /\ on' = [on EXCEPT ![c] = inflight]
          /\ flight' = flight
      BY <1>1, <2>2 DEF Ensure
    <3> QED
      BY <2>2, <3>1 DEF WaitsForAStart, Running, AInv, AdbTypeOK, InflightRuns
  <2>3. CASE manager # "ready" /\ inflight = 0
    <3>1. /\ spawned < MaxFlights /\ flight' = [flight EXCEPT ![spawned + 1] = "binary"]
          /\ caller' = [caller EXCEPT ![c] = "waiting"] /\ on' = [on EXCEPT ![c] = spawned + 1]
      BY <1>1, <2>3 DEF Ensure
    <3>2. spawned + 1 \in Flight
      BY <3>1, AdbDaemonAssumption DEF AInv, AdbTypeOK, AdbDaemonAssumption
    <3>3. \A f \in Flight : flight'[f] = IF f = spawned + 1 THEN "binary" ELSE flight[f]
      BY <3>1, <3>2 DEF AInv, AdbTypeOK
    <3>4. \A x \in Callers : x # c => caller'[x] = caller[x] /\ on'[x] = on[x]
      BY <3>1 DEF AInv, AdbTypeOK
    <3>5. on'[c] = spawned + 1
      BY <3>1 DEF AInv, AdbTypeOK
    <3> QED
      BY <1>0, <3>2, <3>3, <3>4, <3>5 DEF WaitsForAStart, Running
  <2> QED
    BY <2>1, <2>2, <2>3
<1>2. ASSUME NEW f \in Flight, Spawns(f) PROVE WaitsForAStart'
  BY <1>0, <1>2 DEF Spawns, WaitsForAStart, Running, AInv, AdbTypeOK
<1>3. ASSUME NEW f \in Flight, NEW ok \in BOOLEAN, Answer(f, ok),
             flight' = [flight EXCEPT ![f] = IF ok THEN "done" ELSE "failed"]
      PROVE  WaitsForAStart'
  <2>1. \A c \in Callers : caller'[c] = "waiting" => caller[c] = "waiting" /\ on'[c] = on[c] /\ on[c] # f
    BY <1>3 DEF Answer, AInv, AdbTypeOK
  <2>2. \A g \in Flight : g # f => flight'[g] = flight[g]
    BY <1>3 DEF AInv, AdbTypeOK
  <2> QED
    BY <1>0, <2>1, <2>2 DEF WaitsForAStart, Running
<1>4. ASSUME NEW f \in Flight, Starts(f) \/ Fails(f) PROVE WaitsForAStart'
  <2>1. CASE Starts(f)
    <3>1. Answer(f, TRUE) /\ flight' = [flight EXCEPT ![f] = IF TRUE THEN "done" ELSE "failed"]
      BY <2>1 DEF Starts
    <3> QED
      BY <3>1, <1>3
  <2>2. CASE Fails(f)
    <3>1. Answer(f, FALSE) /\ flight' = [flight EXCEPT ![f] = IF FALSE THEN "done" ELSE "failed"]
      BY <2>2 DEF Fails
    <3> QED
      BY <3>1, <1>3
  <2> QED
    BY <1>4, <2>1, <2>2
<1>5. ASSUME NEW c \in Callers, GivesUp(c) \/ \E ok \in BOOLEAN : Command(c, ok) PROVE WaitsForAStart'
  BY <1>5 DEF GivesUp, Command, WaitsForAStart, Running, AInv, AdbTypeOK
<1>6. CASE UNCHANGED <<flight, caller, on>>
  BY <1>6 DEF WaitsForAStart, Running
<1> QED
  BY <1>1, <1>2, <1>4, <1>5, <1>6 DEF AdbNext, adbVars, Dies, InstallStarts, InstallStops, InstallEnds, Shutdown,
     Hygiene, KillEnds, Reaped, Exits

\* Nobody waits in vain: the start whose promise a caller holds has still to end, and its end answers all
\* of its callers. With the fairness of processes that is Answered.
THEOREM NobodyWaitsInVain == AdbSpec => []WaitsForAStart
<1>1. AdbInit => WaitsForAStart
  BY DEF AdbInit, WaitsForAStart
<1> QED
  BY <1>1, WaitsKeep, DaemonInvariance, PTL DEF AdbSpec

HIDE DEF Flight, None, FlightState

(***************************************************************************)
(* Part II: the list of devices, for any number of devices, of pages, of   *)
(* polls that overlap and of attempts to fetch.  One invariant carries the *)
(* four theorems: with the types and the three properties it says that an  *)
(* object that is out of the map has no timer and no fetch that is heard.  *)
(***************************************************************************)

\* The parts of TypeOK: the world outside with the calls on their way, and what the server has.
World ==
    /\ real \in Lists /\ changes \in 0..MaxChanges
    /\ start \in [Starters -> {"none", "asking", "answered", "on"}] /\ left \subseteq Trackers
    /\ poll \in [Polls -> BOOLEAN]
    /\ list \in [Starters \cup Polls -> Lists]

Objects ==
    /\ hot \in [Dev -> BOOLEAN] /\ timer \in [Dev -> BOOLEAN] /\ informed \in [Dev -> BOOLEAN]
    /\ fetches \in [Dev -> Nat] /\ retries \in [Dev -> Nat] /\ tries \in [Dev -> 0..(MaxUpdates + 1)]

Maps ==
    /\ known \in Lists /\ state \in Lists
    /\ listed \subseteq present /\ present \subseteq Dev
    /\ view \in [Trackers -> Lists]

\* Every interval was set by an init() that came to its end.
Begun   == {x \in Starters : start[x] = "on"}
Counted == intervals \in Nat /\ intervals <= Cardinality(Begun)

\* What is dropped from the map has no timer and no fetch left that is heard.
Dropped == \A d \in Dev \ present : ~timer[d] /\ fetches[d] = 0 /\ retries[d] = 0

\* What the steps of the objects and of ControlCenter keep.
Centre == Objects /\ Maps /\ Dropped /\ MapsAgree /\ UpdateDue /\ InfoDue

DInv == World /\ Counted /\ Centre

LEMMA StartersFinite == IsFiniteSet(Starters) /\ Begun \in SUBSET Starters
<1>1. IsFiniteSet(Trackers \cup {Server})
  BY DeviceTrackingAssumption, FS_AddElement DEF DeviceTrackingAssumption
<1> QED
  BY <1>1 DEF Starters, Begun

LEMMA DInvTypes == DInv => TypeOK
<1> SUFFICES ASSUME DInv PROVE TypeOK
  OBVIOUS
<1>1. Cardinality(Begun) <= Cardinality(Starters) /\ Cardinality(Begun) \in Nat /\ Cardinality(Starters) \in Nat
  BY StartersFinite, FS_Subset, FS_CardinalityType
<1>2. intervals \in 0..Cardinality(Starters)
  BY <1>1 DEF DInv, Counted
<1> QED
  BY <1>2 DEF DInv, World, Centre, Objects, Maps, TypeOK

LEMMA DeviceInitHolds == Init => DInv
<1> SUFFICES ASSUME Init PROVE DInv
  OBVIOUS
<1>1. Nothing \in Lists
  BY DEF Nothing, Lists, Reported
<1>2. World
  BY <1>1, DeviceTrackingAssumption DEF Init, World, DeviceTrackingAssumption
<1>3. Objects
  BY DeviceTrackingAssumption DEF Init, Objects, DeviceTrackingAssumption
<1>4. Maps
  BY <1>1 DEF Init, Maps
<1>5. Counted
  BY StartersFinite, FS_Subset, FS_CardinalityType DEF Init, Counted
<1>6. Dropped
  BY DEF Init, Dropped
<1>7. MapsAgree /\ UpdateDue /\ InfoDue
  BY DEF Init, MapsAgree, UpdateDue, InfoDue, Nothing
<1> QED
  BY <1>2, <1>3, <1>4, <1>5, <1>6, <1>7 DEF DInv, Centre

-------------------------------------------------------------------------------
(* One Device object.                                                       *)

\* emit('update') of one device: it is listed, and every page that listens shows it as it is.
LEMMA EmittedKeeps ==
    ASSUME Maps, NEW d \in present, Emitted({d}), UNCHANGED <<state, present, known>>
    PROVE  /\ Maps' /\ listed' = listed \cup {d}
           /\ \A t \in Trackers, e \in Dev : t \in Listening =>
                  view'[t][e] = IF e = d THEN state[d] ELSE view[t][e]
<1>1. listed' = listed \cup {d} /\ view' = Shown(view, {d}, state)
  BY DEF Emitted
<1>2. \A t \in Trackers : view'[t] = IF t \in Listening
                            THEN [e \in Dev |-> IF e \in {d} THEN state[e] ELSE view[t][e]] ELSE view[t]
  BY <1>1 DEF Shown
<1>3. view' \in [Trackers -> Lists]
  <2>1. \A t \in Trackers : view'[t] \in Lists
    BY <1>2 DEF Maps, Lists
  <2>2. view' = [t \in Trackers |-> view'[t]]
    BY <1>1 DEF Shown
  <2> QED
    BY <2>1, <2>2
<1>4. Maps'
  BY <1>1, <1>3 DEF Maps
<1> QED
  BY <1>1, <1>2, <1>4

\* emitUpdate(): the pages learn of the device now, or the timer is set.
LEMMA EmitUpdateKeeps ==
    ASSUME Objects, Maps, UpdateDue, NEW d \in present, EmitUpdate(d),
           UNCHANGED <<start, left, state, present, known>>
    PROVE  /\ Maps' /\ UpdateDue'
           /\ hot' \in [Dev -> BOOLEAN] /\ timer' \in [Dev -> BOOLEAN]
           /\ \A e \in Dev : timer'[e] => timer[e] \/ e = d
<1>0. d \in Dev
  BY DEF Maps
<1>l. Listening' = Listening /\ Listening \subseteq Trackers
  BY DEF Listening
<1>1. CASE hot[d]
  <2>1. timer' = [timer EXCEPT ![d] = TRUE] /\ UNCHANGED <<hot, listed, view>>
    BY <1>1 DEF EmitUpdate
  <2>2. timer' \in [Dev -> BOOLEAN] /\ timer'[d] /\ \A e \in Dev : e # d => timer'[e] = timer[e]
    BY <2>1, <1>0 DEF Objects
  <2>3. UpdateDue'
    BY <2>1, <2>2, <1>l DEF UpdateDue, Maps
  <2>4. Maps'
    BY <2>1 DEF Maps
  <2> QED
    BY <2>1, <2>2, <2>3, <2>4 DEF Objects
<1>2. CASE ~hot[d]
  <2>1. hot' = [hot EXCEPT ![d] = TRUE] /\ Emitted({d}) /\ UNCHANGED timer
    BY <1>2 DEF EmitUpdate
  <2>2. /\ Maps' /\ listed' = listed \cup {d}
        /\ \A t \in Trackers, e \in Dev : t \in Listening =>
               view'[t][e] = IF e = d THEN state[d] ELSE view[t][e]
    BY <2>1, EmittedKeeps
  <2>3. UpdateDue'
    BY <2>1, <2>2, <1>l, <1>0 DEF UpdateDue, Maps
  <2>4. hot' \in [Dev -> BOOLEAN]
    BY <2>1 DEF Objects
  <2> QED
    BY <2>1, <2>2, <2>3, <2>4 DEF Objects
<1> QED
  BY <1>1, <1>2

LEMMA CoolKeeps ==
    ASSUME Centre, NEW d \in Dev, Cool(d)
    PROVE  Centre'
BY DEF Centre, Objects, Maps, Dropped, MapsAgree, UpdateDue, InfoDue, Listening, Cool

LEMMA TimerFiresKeeps ==
    ASSUME Centre, NEW d \in Dev, TimerFires(d)
    PROVE  Centre'
<1>1. /\ timer[d] /\ timer' = [timer EXCEPT ![d] = FALSE] /\ hot' = [hot EXCEPT ![d] = TRUE] /\ Emitted({d})
      /\ UNCHANGED <<start, left, known, present, state, fetches, retries, tries, informed>>
  BY DEF TimerFires
<1>2. d \in present
  BY <1>1 DEF Centre, Dropped
<1>3. /\ Maps' /\ listed' = listed \cup {d}
      /\ \A t \in Trackers, e \in Dev : t \in Listening =>
             view'[t][e] = IF e = d THEN state[d] ELSE view[t][e]
  BY <1>1, <1>2, EmittedKeeps DEF Centre
<1>4. Objects'
  BY <1>1 DEF Centre, Objects
<1>5. \A e \in Dev : e # d => timer'[e] = timer[e]
  BY <1>1 DEF Centre, Objects
<1>6. UpdateDue'
  <2>1. Listening' = Listening /\ Listening \subseteq Trackers
    BY <1>1 DEF Listening
  <2> QED
    BY <1>1, <1>3, <1>5, <2>1 DEF Centre, UpdateDue, Maps
<1>7. Dropped' /\ MapsAgree' /\ InfoDue'
  BY <1>1, <1>2, <1>5 DEF Centre, Dropped, MapsAgree, InfoDue
<1> QED
  BY <1>3, <1>4, <1>6, <1>7 DEF Centre

\* scheduleInfoUpdate(): another attempt is to come, or all are used up.
LEMMA RescheduleKeeps ==
    ASSUME Objects, NEW d \in Dev, Reschedule(d)
    PROVE  /\ retries' \in [Dev -> Nat] /\ tries' \in [Dev -> 0..(MaxUpdates + 1)]
           /\ retries'[d] > 0 \/ tries'[d] > MaxUpdates
           /\ \A e \in Dev : e # d => retries'[e] = retries[e] /\ tries'[e] = tries[e]
<1>0. MaxUpdates \in Nat
  BY DeviceTrackingAssumption DEF DeviceTrackingAssumption
<1>1. CASE tries[d] >= MaxUpdates
  <2>1. tries' = [tries EXCEPT ![d] = MaxUpdates + 1] /\ retries' = retries
    BY <1>1 DEF Reschedule
  <2> QED
    BY <1>0, <2>1 DEF Objects
<1>2. CASE ~(tries[d] >= MaxUpdates)
  <2>1. tries' = [tries EXCEPT ![d] = tries[d] + 1] /\ retries' = [retries EXCEPT ![d] = retries[d] + 1]
    BY <1>2 DEF Reschedule
  <2>2. tries[d] \in 0..(MaxUpdates + 1) /\ retries[d] \in Nat
    BY DEF Objects
  <2>3. tries[d] + 1 \in 0..(MaxUpdates + 1) /\ retries[d] + 1 \in Nat /\ retries[d] + 1 > 0
    BY <1>0, <1>2, <2>2
  <2> QED
    BY <2>1, <2>3 DEF Objects
<1> QED
  BY <1>1, <1>2

\* What an object's step may do to the rest, once it has kept the maps and the updates.
LEMMA FetchEndsKeeps ==
    ASSUME Centre, NEW d \in Dev, NEW ok \in BOOLEAN, NEW new \in BOOLEAN, FetchEnds(d, ok, new)
    PROVE  Centre'
<1>1. /\ fetches[d] > 0 /\ fetches' = [fetches EXCEPT ![d] = fetches[d] - 1]
      /\ UNCHANGED <<start, left, known, present, state>>
  BY DEF FetchEnds
<1>2. d \in present
  BY <1>1 DEF Centre, Dropped, Objects
<1>3. fetches[d] \in Nat /\ fetches[d] - 1 \in Nat
  BY <1>1 DEF Centre, Objects
<1>4. fetches' \in [Dev -> Nat] /\ \A e \in Dev : e # d => fetches'[e] = fetches[e]
  BY <1>1, <1>3 DEF Centre, Objects
<1>5. /\ Maps' /\ UpdateDue' /\ hot' \in [Dev -> BOOLEAN] /\ timer' \in [Dev -> BOOLEAN]
      /\ \A e \in Dev : timer'[e] => timer[e] \/ e = d
  <2>1. CASE EmitUpdate(d)
    BY <2>1, <1>1, <1>2, EmitUpdateKeeps DEF Centre
  <2>2. CASE UNCHANGED <<hot, timer, listed, view>>
    BY <2>2, <1>1 DEF Centre, Objects, Maps, UpdateDue, Listening
  <2> QED
    BY <2>1, <2>2 DEF FetchEnds
<1>6. /\ retries' \in [Dev -> Nat] /\ tries' \in [Dev -> 0..(MaxUpdates + 1)] /\ informed' \in [Dev -> BOOLEAN]
      /\ informed'[d] \/ retries'[d] > 0 \/ tries'[d] > MaxUpdates
      /\ \A e \in Dev : e # d => retries'[e] = retries[e] /\ tries'[e] = tries[e] /\ informed'[e] = informed[e]
  <2>1. CASE ok
    <3>1. tries' = [tries EXCEPT ![d] = 0] /\ retries' = retries /\ informed' = [informed EXCEPT ![d] = TRUE]
      BY <2>1 DEF FetchEnds
    <3> QED
      BY <3>1, DeviceTrackingAssumption DEF Centre, Objects, DeviceTrackingAssumption
  <2>2. CASE ~ok
    <3>1. Reschedule(d) /\ informed' = informed
      BY <2>2 DEF FetchEnds
    <3>2. /\ retries' \in [Dev -> Nat] /\ tries' \in [Dev -> 0..(MaxUpdates + 1)]
          /\ retries'[d] > 0 \/ tries'[d] > MaxUpdates
          /\ \A e \in Dev : e # d => retries'[e] = retries[e] /\ tries'[e] = tries[e]
      BY <3>1, RescheduleKeeps DEF Centre
    <3> QED
      BY <3>1, <3>2 DEF Centre, Objects
  <2> QED
    BY <2>1, <2>2
<1>7. Objects'
  BY <1>4, <1>5, <1>6 DEF Objects
<1>8. Dropped' /\ MapsAgree'
  BY <1>1, <1>2, <1>4, <1>5, <1>6 DEF Centre, Dropped, MapsAgree
<1>9. InfoDue'
  BY <1>1, <1>4, <1>6 DEF Centre, InfoDue, Maps
<1> QED
  BY <1>5, <1>7, <1>8, <1>9 DEF Centre

LEMMA RetryFiresKeeps ==
    ASSUME Centre, NEW d \in Dev, RetryFires(d)
    PROVE  Centre'
<1>1. /\ retries[d] > 0 /\ retries' = [retries EXCEPT ![d] = retries[d] - 1]
      /\ UNCHANGED <<start, left, known, present, state, informed>>
  BY DEF RetryFires
<1>2. d \in present
  BY <1>1 DEF Centre, Dropped, Objects
<1>3. retries[d] \in Nat /\ retries[d] - 1 \in Nat
  BY <1>1 DEF Centre, Objects
<1>4. retries' \in [Dev -> Nat] /\ \A e \in Dev : e # d => retries'[e] = retries[e]
  BY <1>1, <1>3 DEF Centre, Objects
<1>5. CASE state[d] = "device"
  <2>1. fetches' = [fetches EXCEPT ![d] = fetches[d] + 1] /\ UNCHANGED <<tries, hot, timer, listed, view>>
    BY <1>5 DEF RetryFires
  <2>2. fetches[d] \in Nat /\ fetches[d] + 1 \in Nat /\ fetches[d] + 1 > 0
    BY DEF Centre, Objects
  <2>3. fetches' \in [Dev -> Nat] /\ fetches'[d] > 0 /\ \A e \in Dev : e # d => fetches'[e] = fetches[e]
    BY <2>1, <2>2 DEF Centre, Objects
  <2>4. Objects'
    BY <1>1, <1>4, <2>1, <2>3 DEF Centre, Objects
  <2>5. Maps' /\ UpdateDue'
    BY <1>1, <2>1 DEF Centre, Maps, UpdateDue, Listening
  <2>6. Dropped' /\ MapsAgree'
    BY <1>1, <1>2, <1>4, <2>1, <2>3 DEF Centre, Dropped, MapsAgree
  <2>7. InfoDue'
    BY <1>1, <1>4, <2>1, <2>3 DEF Centre, InfoDue, Maps
  <2> QED
    BY <2>4, <2>5, <2>6, <2>7 DEF Centre
<1>6. CASE state[d] # "device"
  <2>1. tries' = [tries EXCEPT ![d] = 0] /\ EmitUpdate(d) /\ UNCHANGED fetches
    BY <1>6 DEF RetryFires
  <2>2. /\ Maps' /\ UpdateDue' /\ hot' \in [Dev -> BOOLEAN] /\ timer' \in [Dev -> BOOLEAN]
        /\ \A e \in Dev : timer'[e] => timer[e] \/ e = d
    BY <1>1, <1>2, <2>1, EmitUpdateKeeps DEF Centre
  <2>3. tries' \in [Dev -> 0..(MaxUpdates + 1)] /\ \A e \in Dev : e # d => tries'[e] = tries[e]
    BY <2>1, DeviceTrackingAssumption DEF Centre, Objects, DeviceTrackingAssumption
  <2>4. Objects'
    BY <1>1, <1>4, <2>1, <2>2, <2>3 DEF Centre, Objects
  <2>5. Dropped' /\ MapsAgree'
    BY <1>1, <1>2, <1>4, <2>1, <2>2 DEF Centre, Dropped, MapsAgree
  <2>6. InfoDue'
    BY <1>1, <1>4, <1>6, <2>1, <2>3 DEF Centre, InfoDue, Maps
  <2> QED
    BY <2>2, <2>4, <2>5, <2>6 DEF Centre
<1> QED
  BY <1>5, <1>6

LEMMA ProbeKeeps ==
    ASSUME Centre, NEW d \in Dev, Probe(d)
    PROVE  Centre'
<1>1. /\ d \in present /\ EmitUpdate(d)
      /\ UNCHANGED <<start, left, known, present, state, fetches, retries, tries, informed>>
  BY DEF Probe
<1>2. /\ Maps' /\ UpdateDue' /\ hot' \in [Dev -> BOOLEAN] /\ timer' \in [Dev -> BOOLEAN]
      /\ \A e \in Dev : timer'[e] => timer[e] \/ e = d
  BY <1>1, EmitUpdateKeeps DEF Centre
<1>3. Objects'
  BY <1>1, <1>2 DEF Centre, Objects
<1>4. Dropped' /\ MapsAgree' /\ InfoDue'
  BY <1>1, <1>2 DEF Centre, Dropped, MapsAgree, InfoDue
<1> QED
  BY <1>2, <1>3, <1>4 DEF Centre

-------------------------------------------------------------------------------
(* ControlCenter.                                                           *)

\* What becomes of each device when those of S are handled with the states s: it is in the map
\* or dropped, is fetched when it is connected, and no page misses it.
LEMMA HandleConnectedKeeps ==
    ASSUME Centre, NEW S \in SUBSET Dev, NEW s \in Lists, NEW J, HandleConnected(S, s, J),
           \A d \in S : s[d] = "gone" => d \in present,
           known' = [d \in Dev |-> IF d \in S THEN s[d] ELSE known[d]],
           Listening' \subseteq Listening \cup J
    PROVE  Centre'
<1> DEFINE drop == {d \in S \cap present : s[d] = "gone"}
           put  == {d \in S : s[d] # "gone"}
           now  == {d \in S \cap present : ~hot[d]}
<1>1. /\ present' = (present \ drop) \cup put
      /\ listed' = (listed \cup now) \ drop
      /\ state' = [d \in Dev |-> IF d \in S THEN s[d] ELSE state[d]]
      /\ view' = [t \in Trackers |-> IF t \in J THEN Rows(listed', state') ELSE Shown(view, now, s)[t]]
      /\ hot' = [d \in Dev |-> IF d \in drop THEN FALSE ELSE hot[d] \/ d \in put]
      /\ timer' = [d \in Dev |-> /\ d \notin drop
                                 /\ timer[d] \/ (d \in put /\ (hot[d] \/ s[d] = "offline"))]
      /\ fetches' = [d \in Dev |-> IF d \in drop THEN 0
                                   ELSE IF d \in put /\ s[d] = "device" THEN fetches[d] + 1 ELSE fetches[d]]
      /\ retries' = [d \in Dev |-> IF d \in drop THEN 0 ELSE retries[d]]
      /\ tries' = [d \in Dev |-> IF d \in drop \/ (d \in put /\ s[d] = "offline") THEN 0 ELSE tries[d]]
      /\ informed' = [d \in Dev |-> IF d \in S THEN FALSE ELSE informed[d]]
  BY DEF HandleConnected, Forgotten
<1>2. /\ \A d \in S : d \in drop <=> s[d] = "gone"
      /\ \A d \in S : d \in put <=> s[d] # "gone"
      /\ \A d \in S : d \in now <=> (d \in present /\ ~hot[d])
      /\ drop \subseteq S /\ put \subseteq S /\ now \subseteq S /\ drop \subseteq present /\ now \subseteq present
      /\ put \cap drop = {}
  OBVIOUS
<1> HIDE DEF drop, put, now
<1>3. \A d \in Dev : d \in present' <=> IF d \in S THEN s[d] # "gone" ELSE d \in present
  BY <1>1, <1>2
<1>4. Objects'
  <2>1. hot' \in [Dev -> BOOLEAN] /\ timer' \in [Dev -> BOOLEAN] /\ informed' \in [Dev -> BOOLEAN]
    BY <1>1 DEF Centre, Objects
  <2>2. fetches' \in [Dev -> Nat] /\ retries' \in [Dev -> Nat] /\ tries' \in [Dev -> 0..(MaxUpdates + 1)]
    BY <1>1, DeviceTrackingAssumption DEF Centre, Objects, DeviceTrackingAssumption
  <2> QED
    BY <2>1, <2>2 DEF Objects
<1>5. known' \in Lists /\ state' \in Lists
  BY <1>1 DEF Centre, Maps, Lists
<1>6. listed' \subseteq present' /\ present' \subseteq Dev
  BY <1>1, <1>2 DEF Centre, Maps
<1>7. \A t \in Trackers, d \in Dev :
          view'[t][d] = IF t \in J THEN IF d \in listed' THEN state'[d] ELSE "gone"
                        ELSE IF t \in Listening /\ d \in now THEN s[d] ELSE view[t][d]
  <2> SUFFICES ASSUME NEW t \in Trackers
               PROVE  \A d \in Dev : view'[t][d] = IF t \in J THEN IF d \in listed' THEN state'[d] ELSE "gone"
                                     ELSE IF t \in Listening /\ d \in now THEN s[d] ELSE view[t][d]
    OBVIOUS
  <2>1. CASE t \in J
    BY <2>1, <1>1 DEF Rows
  <2>2. CASE t \notin J
    BY <2>2, <1>1 DEF Shown
  <2> QED
    BY <2>1, <2>2
<1>8. view' \in [Trackers -> Lists]
  <2>1. \A t \in Trackers : view'[t] \in Lists
    <3> SUFFICES ASSUME NEW t \in Trackers PROVE view'[t] \in Lists
      OBVIOUS
    <3>1. Rows(listed', state') \in Lists
      BY <1>5 DEF Rows, Lists, Reported
    <3>2. Shown(view, now, s)[t] \in Lists
      BY DEF Shown, Centre, Maps, Lists
    <3> QED
      BY <1>1, <3>1, <3>2
  <2>2. view' = [t \in Trackers |-> view'[t]]
    BY <1>1
  <2> QED
    BY <2>1, <2>2
<1>9. Maps'
  BY <1>5, <1>6, <1>8 DEF Maps
<1>10. Dropped'
  BY <1>1, <1>2, <1>3 DEF Centre, Dropped
<1>11. MapsAgree'
  BY <1>1, <1>3 DEF Centre, MapsAgree
<1>12. UpdateDue'
  <2> SUFFICES ASSUME NEW t \in Listening', NEW d \in listed' PROVE view'[t][d] = state'[d] \/ timer'[d]
    BY DEF UpdateDue
  <2>1. t \in Trackers /\ d \in Dev /\ d \in present'
    BY <1>6 DEF Listening
  <2>2. CASE t \in J
    BY <2>1, <2>2, <1>7
  <2>3. CASE t \notin J
    <3>1. t \in Listening
      BY <2>3
    <3>2. CASE d \notin S
      <4>1. d \in listed /\ state'[d] = state[d] /\ view'[t][d] = view[t][d] /\ (timer[d] => timer'[d])
        BY <3>2, <2>1, <2>3, <1>1, <1>2, <1>7
      <4> QED
        BY <4>1, <3>1 DEF Centre, UpdateDue
    <3>3. CASE d \in S /\ hot[d]
      BY <3>3, <2>1, <1>1, <1>2, <1>3
    <3>4. CASE d \in S /\ ~hot[d]
      <4>1. d \in now
        BY <3>4, <2>1, <1>1, <1>2 DEF Centre, Maps
      <4> QED
        BY <4>1, <3>1, <3>4, <2>1, <2>3, <1>1, <1>7
    <3> QED
      BY <3>2, <3>3, <3>4
  <2> QED
    BY <2>2, <2>3
<1>13. InfoDue'
  <2> SUFFICES ASSUME NEW d \in present', state'[d] = "device", ~informed'[d]
               PROVE  fetches'[d] > 0 \/ retries'[d] > 0 \/ tries'[d] > MaxUpdates
    BY DEF InfoDue
  <2>1. d \in Dev /\ fetches[d] \in Nat
    BY <1>6 DEF Centre, Objects
  <2>2. CASE d \in S
    <3>1. d \in put /\ d \notin drop /\ s[d] = "device"
      BY <2>1, <2>2, <1>1, <1>2, <1>3
    <3> QED
      BY <3>1, <2>1, <1>1
  <2>3. CASE d \notin S
    <3>1. d \in present /\ state[d] = "device" /\ ~informed[d]
      BY <2>1, <2>3, <1>1, <1>3
    <3>2. fetches'[d] = fetches[d] /\ retries'[d] = retries[d] /\ tries'[d] = tries[d]
      BY <2>1, <2>3, <1>1, <1>2
    <3> QED
      BY <3>1, <3>2 DEF Centre, InfoDue
  <2> QED
    BY <2>2, <2>3
<1> QED
  BY <1>4, <1>9, <1>10, <1>11, <1>12, <1>13 DEF Centre

LEMMA NothingTyped == Nothing \in Lists
BY DEF Nothing, Lists, Reported

\* A poll handles what differs from knownDevices.
LEMMA PollAppliesKeeps ==
    ASSUME DInv, NEW p \in Polls, PollApplies(p)
    PROVE  DInv'
<1> DEFINE S == {d \in Dev : list[p][d] # known[d]}
<1>1. /\ poll' = [poll EXCEPT ![p] = FALSE] /\ list' = [list EXCEPT ![p] = Nothing] /\ known' = list[p]
      /\ HandleConnected(S, list[p], {}) /\ UNCHANGED <<real, changes, start, left, intervals>>
  BY DEF PollApplies
<1>2. World'
  BY <1>1, NothingTyped DEF DInv, World
<1>3. Counted'
  BY <1>1 DEF DInv, Counted, Begun
<1>4. list[p] \in Lists /\ known \in Lists
  BY DEF DInv, World, Centre, Maps
<1>5. \A d \in S : list[p][d] = "gone" => d \in present
  <2>1. \A d \in Dev : known[d] # "gone" => d \in present
    BY DEF DInv, Centre, MapsAgree
  <2> QED
    BY <2>1
<1>6. known' = [d \in Dev |-> IF d \in S THEN list[p][d] ELSE known[d]]
  BY <1>1, <1>4 DEF Lists
<1>7. Listening' \subseteq Listening \cup {} /\ S \in SUBSET Dev
  BY <1>1 DEF Listening
<1> HIDE DEF S
<1>8. Centre'
  BY <1>1, <1>4, <1>5, <1>6, <1>7, HandleConnectedKeeps DEF DInv
<1> QED
  BY <1>2, <1>3, <1>8 DEF DInv

\* One more of the starters has begun.
LEMMA BegunGrows ==
    ASSUME DInv, NEW x \in Starters, start[x] = "answered", start' = [start EXCEPT ![x] = "on"],
           intervals' = intervals + 1
    PROVE  Counted'
<1>1. Begun' = Begun \cup {x} /\ x \notin Begun
  BY DEF DInv, World, Begun
<1>2. IsFiniteSet(Begun)
  BY StartersFinite, FS_Subset
<1>3. Cardinality(Begun') = Cardinality(Begun) + 1 /\ Cardinality(Begun) \in Nat
  BY <1>1, <1>2, FS_AddElement, FS_CardinalityType
<1> QED
  BY <1>3 DEF DInv, Counted

\* init() ends: it handles what adb listed, and its page gets the whole list.
LEMMA InitEndsKeeps ==
    ASSUME DInv, NEW x \in Starters, NEW ok \in BOOLEAN, InitEnds(x, ok)
    PROVE  DInv'
<1> DEFINE S == {d \in Dev : ok /\ list[x][d] # "gone"}
<1>1. /\ start[x] = "answered" /\ start' = [start EXCEPT ![x] = "on"] /\ intervals' = intervals + 1
      /\ known' = [d \in Dev |-> IF d \in S THEN list[x][d] ELSE known[d]]
      /\ HandleConnected(S, list[x], {x} \ left) /\ list' = [list EXCEPT ![x] = Nothing]
      /\ UNCHANGED <<real, changes, left, poll>>
  BY DEF InitEnds
<1>2. World'
  BY <1>1, NothingTyped DEF DInv, World
<1>3. Counted'
  BY <1>1, BegunGrows
<1>4. list[x] \in Lists
  BY DEF DInv, World
<1>5. Listening' \subseteq Listening \cup ({x} \ left) /\ S \in SUBSET Dev
  BY <1>1 DEF DInv, World, Listening, Starters
<1>6. \A d \in S : list[x][d] = "gone" => d \in present
  OBVIOUS
<1> HIDE DEF S
<1>7. Centre'
  BY <1>1, <1>4, <1>5, <1>6, HandleConnectedKeeps DEF DInv
<1> QED
  BY <1>2, <1>3, <1>7 DEF DInv

\* A connection: its page gets the list as it is, or waits for init().
LEMMA ConnectKeeps ==
    ASSUME DInv, NEW t \in Trackers, Connect(t)
    PROVE  DInv'
<1>1. start[t] = "none" /\ t \in Starters /\ t # Server
      /\ UNCHANGED <<real, changes, left, poll, list, intervals, known, present, listed, state,
                     hot, timer, fetches, retries, tries, informed>>
  BY DeviceTrackingAssumption DEF Connect, Starters, center, object, DeviceTrackingAssumption
<1>2. /\ start' \in [Starters -> {"none", "asking", "answered", "on"}]
      /\ \A x \in Starters : x # t => start'[x] = start[x]
  BY <1>1 DEF DInv, World, Connect
<1>3. World'
  BY <1>1, <1>2 DEF DInv, World
<1>4. Counted'
  <2>1. Begun \subseteq Begun'
    BY <1>1, <1>2 DEF Begun
  <2>2. Begun' \subseteq Starters
    BY DEF Begun
  <2>3. IsFiniteSet(Begun')
    BY <2>2, StartersFinite, FS_Subset
  <2>4. Cardinality(Begun) <= Cardinality(Begun') /\ Cardinality(Begun) \in Nat /\ Cardinality(Begun') \in Nat
    BY <2>1, <2>3, StartersFinite, FS_Subset, FS_CardinalityType
  <2> QED
    BY <1>1, <2>4 DEF DInv, Counted
<1>5. Objects' /\ Dropped' /\ MapsAgree' /\ InfoDue'
  BY <1>1 DEF DInv, Centre, Objects, Dropped, MapsAgree, InfoDue
<1>6. Maps' /\ UpdateDue'
  <2>1. CASE Initialized
    <3>1. view' = [view EXCEPT ![t] = Rows(listed, state)]
      BY <2>1 DEF Connect
    <3>2. Rows(listed, state) \in Lists
      BY DEF Rows, Lists, Reported, DInv, Centre, Maps
    <3>3. Maps'
      BY <1>1, <3>1, <3>2 DEF DInv, Centre, Maps
    <3>4. \A u \in Trackers : view'[u] = IF u = t THEN Rows(listed, state) ELSE view[u]
      BY <3>1 DEF DInv, Centre, Maps
    <3>5. \A u \in Listening' : u # t => u \in Listening
      BY <1>1, <1>2 DEF Listening, Starters
    <3>6. UpdateDue'
      <4> SUFFICES ASSUME NEW u \in Listening', NEW d \in listed PROVE view'[u][d] = state[d] \/ timer[d]
        BY <1>1 DEF UpdateDue
      <4>1. u \in Trackers /\ d \in Dev
        BY DEF Listening, DInv, Centre, Maps
      <4>2. CASE u = t
        BY <4>1, <4>2, <3>4 DEF Rows
      <4>3. CASE u # t
        BY <4>1, <4>3, <3>4, <3>5 DEF DInv, Centre, UpdateDue
      <4> QED
        BY <4>2, <4>3
    <3> QED
      BY <3>3, <3>6
  <2>2. CASE ~Initialized
    <3>1. start' = [start EXCEPT ![t] = "asking"] /\ view' = view
      BY <2>2 DEF Connect
    <3>2. Listening' \subseteq Listening
      BY <1>1, <3>1 DEF Listening, Starters, DInv, World
    <3> QED
      BY <1>1, <3>1, <3>2 DEF DInv, Centre, Maps, UpdateDue
  <2> QED
    BY <2>1, <2>2
<1> QED
  BY <1>3, <1>4, <1>5, <1>6 DEF DInv, Centre

\* What happens outside: nothing of ControlCenter changes, and no page begins to listen.
LEMMA OutsideKeeps ==
    ASSUME DInv,
           \/ UNCHANGED vars
           \/ \E p \in Polls : PollAsks(p) \/ PollFails(p)
           \/ \E t \in Trackers : Leave(t)
           \/ \E x \in Starters : AdbAnswers(x)
           \/ \E d \in Dev, r \in Reported : Change(d, r)
    PROVE  DInv'
<1>1. UNCHANGED <<intervals, known, present, listed, state, hot, timer, fetches, retries, tries, informed, view>>
  BY DEF vars, center, object, PollAsks, PollFails, Leave, AdbAnswers, Change
<1>2. World' /\ Listening' \subseteq Listening /\ Begun' = Begun
  <2>1. CASE UNCHANGED <<real, changes, start, left, poll, list>>
    BY <2>1 DEF DInv, World, Listening, Begun
  <2>2. CASE \E p \in Polls : PollAsks(p) \/ PollFails(p)
    <3>1. PICK p \in Polls : PollAsks(p) \/ PollFails(p)
      BY <2>2
    <3>2. /\ poll' \in [Polls -> BOOLEAN] /\ list' \in [Starters \cup Polls -> Lists]
          /\ UNCHANGED <<real, changes, start, left>>
      BY <3>1, NothingTyped DEF DInv, World, PollAsks, PollFails
    <3> QED
      BY <3>2 DEF DInv, World, Listening, Begun
  <2>3. CASE \E t \in Trackers : Leave(t)
    BY <2>3 DEF DInv, World, Listening, Begun, Leave
  <2>4. CASE \E x \in Starters : AdbAnswers(x)
    <3>1. PICK x \in Starters : AdbAnswers(x)
      BY <2>4
    <3>2. /\ start[x] = "asking" /\ start' = [start EXCEPT ![x] = "answered"] /\ list' = [list EXCEPT ![x] = real]
          /\ UNCHANGED <<real, changes, left, poll>>
      BY <3>1 DEF AdbAnswers
    <3>3. World'
      BY <3>2 DEF DInv, World
    <3>4. \A y \in Starters : start'[y] = "on" <=> start[y] = "on"
      BY <3>2 DEF DInv, World
    <3>5. Listening' \subseteq Listening /\ Begun' = Begun
      BY <3>2, <3>4 DEF Listening, Begun, Starters
    <3> QED
      BY <3>3, <3>5
  <2>5. CASE \E d \in Dev, r \in Reported : Change(d, r)
    <3>1. PICK d \in Dev, r \in Reported : Change(d, r)
      BY <2>5
    <3>2. /\ changes < MaxChanges /\ real' = [real EXCEPT ![d] = r] /\ changes' = changes + 1
          /\ UNCHANGED <<start, left, poll, list>>
      BY <3>1 DEF Change
    <3>3. real' \in Lists /\ changes' \in 0..MaxChanges
      BY <3>2, DeviceTrackingAssumption DEF DInv, World, Lists, DeviceTrackingAssumption
    <3> QED
      BY <3>2, <3>3 DEF DInv, World, Listening, Begun
  <2> QED
    BY <2>1, <2>2, <2>3, <2>4, <2>5 DEF vars
<1>3. Counted'
  BY <1>1, <1>2 DEF DInv, Counted
<1>4. Objects' /\ Maps' /\ Dropped' /\ MapsAgree' /\ InfoDue'
  BY <1>1 DEF DInv, Centre, Objects, Maps, Dropped, MapsAgree, InfoDue
<1>5. UpdateDue'
  BY <1>1, <1>2 DEF DInv, Centre, UpdateDue
<1> QED
  BY <1>2, <1>3, <1>4, <1>5 DEF DInv, Centre

LEMMA ObjectStepsKeep ==
    ASSUME DInv, NEW d \in Dev, ObjectStep(d)
    PROVE  DInv'
<1>1. Centre'
  BY CoolKeeps, TimerFiresKeeps, RetryFiresKeeps, ProbeKeeps, FetchEndsKeeps DEF DInv, ObjectStep
<1>2. UNCHANGED <<real, changes, start, left, poll, list, intervals>>
  BY DEF ObjectStep, Cool, TimerFires, RetryFires, Probe, FetchEnds
<1>3. World' /\ Counted'
  BY <1>2 DEF DInv, World, Counted, Begun
<1> QED
  BY <1>1, <1>3 DEF DInv

LEMMA DeviceNextKeeps == DInv /\ [Next]_vars => DInv'
BY ObjectStepsKeep, PollAppliesKeeps, ConnectKeeps, InitEndsKeeps, OutsideKeeps DEF Next

LEMMA DeviceInvariance == Spec => []DInv
BY DeviceInitHolds, DeviceNextKeeps, PTL DEF Spec

\* TypeOK: only devices of the map are listed, and there are no more intervals than starters.
THEOREM DevicesTyped == Spec => []TypeOK
BY DeviceInvariance, DInvTypes, PTL

\* UpdateDue: the throttle loses no update of a listed device.
THEOREM NoUpdateLost == Spec => []UpdateDue
<1>1. DInv => UpdateDue
  BY DEF DInv, Centre
<1> QED
  BY <1>1, DeviceInvariance, PTL

\* InfoDue: a connected device is fetched, will be, or all its attempts are used up.
THEOREM NoDeviceForgotten == Spec => []InfoDue
<1>1. DInv => InfoDue
  BY DEF DInv, Centre
<1> QED
  BY <1>1, DeviceInvariance, PTL

\* MapsAgree: deviceMap, its objects and knownDevices tell the same of every device.
THEOREM MapsAlwaysAgree == Spec => []MapsAgree
<1>1. DInv => MapsAgree
  BY DEF DInv, Centre
<1> QED
  BY <1>1, DeviceInvariance, PTL
================================================================================
