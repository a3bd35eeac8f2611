----------------------------- MODULE LauncherProofs -----------------------------
(***************************************************************************)
(* The life cycle for any bound of the batch files and of the events: the  *)
(* types, and that a server is started again only when that was asked for. *)
(***************************************************************************)
EXTENDS Launcher, TLAPS

\* TypeOK in two parts: the processes of a launcher, and the rest.
ProcsOK ==
    /\ \A w \in Where : launcher[w] = "gone" => node[w] = "none" /\ due[w] = {}
    /\ launcher \in [Where -> {"gone", "wait", "blocked", "ending", "reap", "exit"}]
    /\ node \in [Where -> {"none", "up", "stop", "crash"} \cup Causes]
    /\ due \in [Where -> SUBSET Causes]
    /\ stop \in [Where -> BOOLEAN] /\ halt \in [Where -> BOOLEAN]
    /\ poll \in [Where -> {"off", "top", "local", "service"}]
    /\ asService \in [Where -> BOOLEAN]

RestOK ==
    /\ mode \in {"local", "service"} /\ scm \in {"absent", "stopped", "running"}
    /\ tray \in BOOLEAN /\ trayMode \in {"none", "local", "service"}
    /\ files \subseteq {"apply", "uninstall", "restart"}
    /\ helper \in {"off", "kill", "sleep", "launch"}
    /\ bat \in [Bats -> {"off", "sleep", "remove", "spawn"}]
    /\ task \in {"off", "stop", "remove", "spawn"}
    /\ install \in {"off", "asked", "verify"}
    /\ left \in 0..MaxEvents
    /\ wish \in {"up", "down"} /\ lost \in BOOLEAN
    /\ asked \in [Where -> BOOLEAN]

\* Who asked for a restart is on record: with the marker every launcher there is, with the
\* exit code of a new port its own.
RestartsOnRecord ==
    /\ "restart" \in files => \A w \in Where : launcher[w] # "gone" => asked[w]
    /\ \A w \in Where : "port" \in due[w] \/ node[w] = "port" => asked[w]

LEMMA TypeParts == TypeOK <=> ProcsOK /\ RestOK
BY DEF TypeOK, ProcsOK, RestOK

LEMMA EventBounds == ASSUME TypeOK, Event PROVE left' \in 0..MaxEvents
BY LauncherAssumption DEF Event, TypeOK

\* A start keeps the types.
LEMMA BeginTypes ==
    ASSUME TypeOK, NEW w \in Where, Begin(w)
    PROVE  ProcsOK' /\ files' \subseteq files /\ asked' \in [Where -> BOOLEAN]
<1>1. CASE launcher[w] # "gone"
  BY <1>1 DEF Begin, TypeOK, ProcsOK, procs
<1>2. CASE launcher[w] = "gone"
  <2>1. asService' = [asService EXCEPT ![w] = mode = "service"] /\ (mode = "service") \in BOOLEAN
    BY <1>2 DEF Begin
  <2>2. asService' \in [Where -> BOOLEAN]
    BY <2>1 DEF TypeOK
  <2>3. stop' \in [Where -> BOOLEAN] /\ halt' \in [Where -> BOOLEAN] /\ asked' \in [Where -> BOOLEAN]
    BY <1>2 DEF Begin, TypeOK
  <2>4. /\ launcher' \in [Where -> {"gone", "wait", "blocked", "ending", "reap", "exit"}]
        /\ node' \in [Where -> {"none", "up", "stop", "crash"} \cup Causes]
        /\ due' \in [Where -> SUBSET Causes]
        /\ poll' \in [Where -> {"off", "top", "local", "service"}]
    BY <1>2 DEF Begin, TypeOK
  <2>5. \A v \in Where : launcher'[v] = "gone" => node'[v] = "none" /\ due'[v] = {}
    BY <1>2 DEF Begin, TypeOK
  <2>6. files' \subseteq files
    BY <1>2 DEF Begin
  <2>7. QED BY <2>2, <2>3, <2>4, <2>5, <2>6 DEF ProcsOK
<1>3. QED BY <1>1, <1>2

\* So does the end of a launcher, with what Servy makes of it.
LEMMA GoneTypes ==
    ASSUME TypeOK, NEW w \in Where, Gone(w)
    PROVE  /\ ProcsOK' /\ files' \subseteq files /\ scm' \in {"absent", "stopped", "running"}
           /\ bat' \in [Bats -> {"off", "sleep", "remove", "spawn"}]
<1>1. ProcsOK'
  BY DEF Gone, TypeOK, ProcsOK
<1>2. CASE w = "user"
  BY <1>1, <1>2 DEF Gone, ServyReacts, TypeOK
<1>3. CASE w # "user"
  <2>1. files' \subseteq files /\ bat' \in [Bats -> {"off", "sleep", "remove", "spawn"}]
    BY <1>3 DEF Gone, ServyReacts, BatBegins, TypeOK
  <2>2. scm' \in {"absent", "stopped", "running"}
    BY <1>3 DEF Gone, ServyReacts, TypeOK
  <2>3. QED BY <1>1, <2>1, <2>2
<1>4. QED BY <1>2, <1>3

\* So does the end of a server that may be busy with an installation.
LEMMA CutOffTypes ==
    ASSUME TypeOK, NEW w \in Where, CutOff(w)
    PROVE  install' \in {"off", "asked", "verify"} /\ lost' \in BOOLEAN
<1>1. CASE w = "user" /\ install # "off"
  BY <1>1 DEF CutOff
<1>2. CASE ~(w = "user" /\ install # "off")
  BY <1>2 DEF CutOff, TypeOK
<1>3. QED BY <1>1, <1>2

LEMMA RemovesTypes ==
    ASSUME TypeOK, Removes
    PROVE  /\ scm' \in {"absent", "stopped", "running"}
           /\ left' \in 0..MaxEvents /\ lost' \in BOOLEAN
<1>1. CASE scm' = "absent" /\ UNCHANGED <<left, lost>>
  BY <1>1 DEF TypeOK
<1>2. CASE Fault /\ UNCHANGED scm
  BY <1>2, EventBounds DEF Fault, TypeOK
<1>3. QED BY <1>1, <1>2 DEF Removes

LEMMA SpawnsTypes ==
    ASSUME TypeOK, SpawnsUser
    PROVE  /\ ProcsOK' /\ files' \subseteq files /\ asked' \in [Where -> BOOLEAN]
           /\ left' \in 0..MaxEvents /\ lost' \in BOOLEAN
<1> USE DEF Where
<1>1. CASE Begin("user") /\ UNCHANGED <<left, lost>>
  BY <1>1, BeginTypes DEF TypeOK
<1>2. CASE Fault /\ UNCHANGED <<procs, files, asked>>
  BY <1>2, EventBounds DEF Fault, TypeOK, ProcsOK, procs
<1>3. QED BY <1>1, <1>2 DEF SpawnsUser

LEMMA TypeInductive == TypeOK /\ [Next]_vars => TypeOK'
<1> SUFFICES ASSUME TypeOK, [Next]_vars PROVE TypeOK'
  OBVIOUS
<1> USE LauncherAssumption
<1>1. ASSUME NEW w \in Where, Stopped(w) PROVE TypeOK'
  <2>1. install' \in {"off", "asked", "verify"} /\ lost' \in BOOLEAN
    BY <1>1, CutOffTypes DEF Stopped
  <2>2. ProcsOK'
    BY <1>1 DEF Stopped, ProcsOK, TypeOK
  <2>3. RestOK'
    BY <1>1, <2>1 DEF Stopped, RestOK, TypeOK
  <2>4. QED BY <2>2, <2>3 DEF ProcsOK, RestOK, TypeOK
<1>2. ASSUME NEW w \in Where, Uninstalls(w) PROVE TypeOK'
  <2>1. left' \in 0..MaxEvents /\ lost' \in BOOLEAN
    <3>1. CASE Fault
      BY <3>1, EventBounds DEF Fault
    <3>2. CASE lost' = (lost \/ w = "user") /\ UNCHANGED left
      BY <3>2 DEF TypeOK
    <3>3. QED BY <1>2, <3>1, <3>2 DEF Uninstalls
  <2>2. ProcsOK'
    BY <1>2 DEF Uninstalls, ServerGone, ProcsOK, TypeOK
  <2>3. RestOK'
    BY <1>2, <2>1 DEF Uninstalls, RestOK, TypeOK
  <2>4. QED BY <2>2, <2>3 DEF ProcsOK, RestOK, TypeOK
<1>3. ASSUME NEW w \in Where, Restarts(w) PROVE TypeOK'
  BY <1>3 DEF Restarts, TypeOK, Where, Causes, procs, outside, history, ServerGone
<1>4. ASSUME NEW w \in Where, Ends(w) PROVE TypeOK'
  BY <1>4 DEF Ends, TypeOK, Where, Causes, procs, outside, history, ServerGone
<1>5. ASSUME NEW w \in Where, SignalTray(w) PROVE TypeOK'
  BY <1>5 DEF SignalTray, TypeOK, Where, Causes, procs, outside, history
<1>6. ASSUME NEW w \in Where, Reap(w) PROVE TypeOK'
  BY <1>6 DEF Reap, TypeOK, Where, Causes, procs, outside, history
<1>7. ASSUME NEW w \in Where, Exits(w) PROVE TypeOK'
  <2>1. /\ ProcsOK' /\ files' \subseteq {"apply", "uninstall", "restart"}
        /\ scm' \in {"absent", "stopped", "running"}
        /\ bat' \in [Bats -> {"off", "sleep", "remove", "spawn"}]
    BY <1>7, GoneTypes DEF Exits, TypeOK
  <2>2. RestOK'
    BY <1>7, <2>1 DEF Exits, Gone, RestOK, TypeOK
  <2>3. QED BY <2>1, <2>2 DEF ProcsOK, RestOK, TypeOK
<1>8. ASSUME NEW w \in Where, ServerExits(w) PROVE TypeOK'
  <2>1. install' \in {"off", "asked", "verify"} /\ lost' \in BOOLEAN
    BY <1>8, CutOffTypes DEF ServerExits
  <2>2. ProcsOK'
    BY <1>8 DEF ServerExits, ProcsOK, TypeOK
  <2>3. RestOK'
    BY <1>8, <2>1 DEF ServerExits, RestOK, TypeOK
  <2>4. QED BY <2>2, <2>3 DEF ProcsOK, RestOK, TypeOK
<1>9. ASSUME NEW w \in Where, PollTop(w) PROVE TypeOK'
  BY <1>9 DEF PollTop, TypeOK, Where, Causes, procs, outside, history
<1>10. ASSUME NEW w \in Where, PollEnsure(w) PROVE TypeOK'
  BY <1>10 DEF PollEnsure, TypeOK, Where, Causes, procs, outside, history
<1>11. ASSUME NEW w \in Where, StopRequested(w) PROVE TypeOK'
  BY <1>11 DEF StopRequested, TypeOK, Where, Causes, procs, outside, history, User, Event
<1>12. ASSUME NEW w \in Where, QuitRequested(w) PROVE TypeOK'
  BY <1>12 DEF QuitRequested, TypeOK, Where, Causes, procs, outside, history, Schedules,
     User, Event, Wish
<1>13. ASSUME NEW w \in Where, RestartRequested(w) PROVE TypeOK'
  BY <1>13 DEF RestartRequested, TypeOK, Where, Causes, procs, outside, history, Schedules,
     User, Event, Wish
<1>14. ASSUME NEW w \in Where, ApplyRequested(w) PROVE TypeOK'
  <2>1. left' \in 0..MaxEvents /\ wish' \in {"up", "down"}
    BY <1>14, EventBounds DEF ApplyRequested, User, Wish, TypeOK
  <2>2. lost' \in BOOLEAN /\ helper' \in {"off", "kill", "sleep", "launch"}
    BY <1>14 DEF ApplyRequested, TypeOK
  <2>3. ProcsOK'
    BY <1>14 DEF ApplyRequested, Schedules, Causes, ProcsOK, TypeOK
  <2>4. RestOK'
    BY <1>14, <2>1, <2>2 DEF ApplyRequested, RestOK, TypeOK
  <2>5. QED BY <2>3, <2>4 DEF ProcsOK, RestOK, TypeOK
<1>15. ASSUME NEW w \in Where, Crashes(w) PROVE TypeOK'
  <2>1. /\ ProcsOK' /\ files' \subseteq {"apply", "uninstall", "restart"}
        /\ scm' \in {"absent", "stopped", "running"}
        /\ bat' \in [Bats -> {"off", "sleep", "remove", "spawn"}]
    BY <1>15, GoneTypes DEF Crashes, TypeOK
  <2>2. /\ left' \in 0..MaxEvents /\ lost' \in BOOLEAN
        /\ install' \in {"off", "asked", "verify"}
    BY <1>15, EventBounds DEF Crashes, Fault, TypeOK
  <2>3. RestOK'
    BY <1>15, <2>1, <2>2 DEF Crashes, Gone, RestOK, TypeOK
  <2>4. QED BY <2>1, <2>3 DEF ProcsOK, RestOK, TypeOK
<1>16. ASSUME NEW w \in Where, ServerCrashes(w) PROVE TypeOK'
  BY <1>16 DEF ServerCrashes, TypeOK, Where, Causes, procs, outside, history, Fault, Event
<1>17. ASSUME NEW b \in Bats, BatStarts(b) PROVE TypeOK'
  <2>1. /\ ProcsOK' /\ files' \subseteq {"apply", "uninstall", "restart"}
        /\ asked' \in [Where -> BOOLEAN] /\ scm' \in {"absent", "stopped", "running"}
    <3>1. CASE scm = "stopped"
      BY <1>17, <3>1, BeginTypes DEF BatStarts, Where, TypeOK
    <3>2. CASE scm # "stopped"
      BY <1>17, <3>2 DEF BatStarts, ProcsOK, TypeOK, procs
    <3>3. QED BY <3>1, <3>2
  <2>2. bat' \in [Bats -> {"off", "sleep", "remove", "spawn"}]
    BY <1>17 DEF BatStarts, TypeOK
  <2>3. RestOK'
    BY <1>17, <2>1, <2>2 DEF BatStarts, RestOK, TypeOK
  <2>4. QED BY <2>1, <2>3 DEF ProcsOK, RestOK, TypeOK
<1>18. ASSUME NEW b \in Bats, BatRemoves(b) PROVE TypeOK'
  <2>1. /\ scm' \in {"absent", "stopped", "running"}
        /\ left' \in 0..MaxEvents /\ lost' \in BOOLEAN
    BY <1>18, RemovesTypes DEF BatRemoves
  <2>2. ProcsOK'
    BY <1>18 DEF BatRemoves, ProcsOK, TypeOK, procs
  <2>3. RestOK'
    BY <1>18, <2>1 DEF BatRemoves, RestOK, TypeOK
  <2>4. QED BY <2>2, <2>3 DEF ProcsOK, RestOK, TypeOK
<1>19. ASSUME NEW b \in Bats, BatSpawns(b) PROVE TypeOK'
  <2>1. /\ ProcsOK' /\ files' \subseteq {"apply", "uninstall", "restart"}
        /\ asked' \in [Where -> BOOLEAN] /\ left' \in 0..MaxEvents /\ lost' \in BOOLEAN
    BY <1>19, SpawnsTypes DEF BatSpawns, TypeOK
  <2>2. RestOK'
    BY <1>19, <2>1 DEF BatSpawns, RestOK, TypeOK
  <2>3. QED BY <2>1, <2>2 DEF ProcsOK, RestOK, TypeOK
<1>20. CASE HelperKillsTray
  BY ZenonT(60), <1>20 DEF HelperKillsTray, TypeOK, Where, Causes, procs, outside, history
<1>21. CASE HelperExtracts
  <2>1. left' \in 0..MaxEvents /\ lost' \in BOOLEAN
    <3>1. CASE Fault
      BY <3>1, EventBounds DEF Fault
    <3>2. CASE lost' = TRUE /\ UNCHANGED left
      BY <3>2 DEF TypeOK
    <3>3. CASE UNCHANGED <<left, lost>>
      BY <3>3 DEF TypeOK
    <3>4. QED BY <1>21, <3>1, <3>2, <3>3 DEF HelperExtracts
  <2>2. ProcsOK'
    BY <1>21 DEF HelperExtracts, ProcsOK, TypeOK, procs
  <2>3. RestOK'
    BY <1>21, <2>1 DEF HelperExtracts, RestOK, TypeOK
  <2>4. QED BY <2>2, <2>3 DEF ProcsOK, RestOK, TypeOK
<1>22. CASE HelperLaunches
  <2>1. /\ ProcsOK' /\ files' \subseteq {"apply", "uninstall", "restart"}
        /\ asked' \in [Where -> BOOLEAN] /\ left' \in 0..MaxEvents /\ lost' \in BOOLEAN
    BY <1>22, SpawnsTypes DEF HelperLaunches, TypeOK
  <2>2. RestOK'
    BY <1>22, <2>1 DEF HelperLaunches, RestOK, TypeOK
  <2>3. QED BY <2>1, <2>2 DEF ProcsOK, RestOK, TypeOK
<1>23. CASE TaskStops
  BY <1>23 DEF TaskStops, TypeOK, Where, Causes, procs, outside, history
<1>24. CASE TaskStopped
  BY <1>24 DEF TaskStopped, TypeOK, Where, Causes, procs, outside, history
<1>25. CASE TaskRemoves
  <2>1. /\ scm' \in {"absent", "stopped", "running"}
        /\ left' \in 0..MaxEvents /\ lost' \in BOOLEAN
    BY <1>25, RemovesTypes DEF TaskRemoves
  <2>2. ProcsOK'
    BY <1>25 DEF TaskRemoves, ProcsOK, TypeOK, procs
  <2>3. RestOK'
    BY <1>25, <2>1 DEF TaskRemoves, RestOK, TypeOK
  <2>4. QED BY <2>2, <2>3 DEF ProcsOK, RestOK, TypeOK
<1>26. CASE TaskSpawns
  <2>1. /\ ProcsOK' /\ files' \subseteq {"apply", "uninstall", "restart"}
        /\ asked' \in [Where -> BOOLEAN] /\ left' \in 0..MaxEvents /\ lost' \in BOOLEAN
    BY <1>26, SpawnsTypes DEF TaskSpawns, TypeOK
  <2>2. RestOK'
    BY <1>26, <2>1 DEF TaskSpawns, RestOK, TypeOK
  <2>3. QED BY <2>1, <2>2 DEF ProcsOK, RestOK, TypeOK
<1>27. CASE ServiceInstalled
  <2>1. /\ ProcsOK' /\ files' \subseteq {"apply", "uninstall", "restart"}
        /\ asked' \in [Where -> BOOLEAN]
    BY <1>27, BeginTypes DEF ServiceInstalled, Where, TypeOK
  <2>3. RestOK'
    BY <1>27, <2>1 DEF ServiceInstalled, RestOK, TypeOK, outside
  <2>4. QED BY <2>1, <2>3 DEF ProcsOK, RestOK, TypeOK
<1>28. CASE InstallVerified
  BY <1>28 DEF InstallVerified, TypeOK, Where, Causes, procs, outside, history, Schedules
<1>29. CASE InstallFails
  BY <1>29 DEF InstallFails, TypeOK, Where, Causes, procs, outside, history, Fault, Event
<1>30. CASE Recovers
  <2>1. /\ ProcsOK' /\ files' \subseteq {"apply", "uninstall", "restart"}
        /\ asked' \in [Where -> BOOLEAN]
    BY <1>30, BeginTypes DEF Recovers, Where, TypeOK
  <2>3. RestOK'
    BY <1>30, <2>1 DEF Recovers, RestOK, TypeOK, outside
  <2>4. QED BY <2>1, <2>3 DEF ProcsOK, RestOK, TypeOK
<1>31. CASE UserStarts
  <2>1. /\ ProcsOK' /\ files' \subseteq {"apply", "uninstall", "restart"}
        /\ asked' \in [Where -> BOOLEAN]
    BY <1>31, BeginTypes DEF UserStarts, Where, TypeOK
  <2>2. left' \in 0..MaxEvents
    BY <1>31, EventBounds DEF UserStarts, User
  <2>3. RestOK'
    BY ZenonT(60), <1>31, <2>1, <2>2 DEF UserStarts, User, RestOK, TypeOK, outside
  <2>4. QED BY <2>1, <2>3 DEF ProcsOK, RestOK, TypeOK
<1>32. CASE TrayExit
  <2>1. left' \in 0..MaxEvents /\ wish' \in {"up", "down"}
    BY <1>32, EventBounds DEF TrayExit, User, TypeOK
  <2>2. ProcsOK'
    BY <1>32 DEF TrayExit, Causes, ProcsOK, TypeOK
  <2>3. RestOK'
    BY ZenonT(60), <1>32, <2>1 DEF TrayExit, RestOK, TypeOK, outside
  <2>4. QED BY <2>2, <2>3 DEF ProcsOK, RestOK, TypeOK
<1>33. CASE UninstallRequested
  BY <1>33 DEF UninstallRequested, TypeOK, Where, Causes, procs, outside, history,
     Schedules, User, Event, Wish
<1>34. CASE InstallRequested
  BY <1>34 DEF InstallRequested, TypeOK, Where, Causes, procs, outside, history, User,
     Event, Wish
<1>35. CASE UNCHANGED vars
  BY <1>35 DEF vars, TypeOK
<1>36. QED
  BY <1>1, <1>2, <1>3, <1>4, <1>5, <1>6, <1>7, <1>8, <1>9, <1>10, <1>11, <1>12, <1>13,
     <1>14, <1>15, <1>16, <1>17, <1>18, <1>19, <1>20, <1>21, <1>22, <1>23, <1>24, <1>25,
     <1>26, <1>27, <1>28, <1>29, <1>30, <1>31, <1>32, <1>33, <1>34, <1>35 DEF Next,
     Supervise, Poll, Help,
     PostStop, Task, Install

-----------------------------------------------------------------------------
\* What RestartsAsked says of one step.
StepAsked ==
    \A w \in Where : (launcher[w] = "wait" /\ node[w] # "up" /\ node'[w] = "up") => asked[w]

\* A start drops the marker, and has no server to restart.
LEMMA BeginRecord ==
    ASSUME TypeOK, RestartsOnRecord, NEW w \in Where, Begin(w)
    PROVE  RestartsOnRecord' /\ StepAsked
<1>1. CASE launcher[w] # "gone"
  BY <1>1 DEF Begin, procs, RestartsOnRecord, StepAsked
<1>2. CASE launcher[w] = "gone"
  <2>1. RestartsOnRecord'
    BY <1>2 DEF Begin, RestartsOnRecord, TypeOK
  <2>2. StepAsked
    BY <1>2 DEF Begin, StepAsked, TypeOK
  <2>3. QED BY <2>1, <2>2
<1>3. QED BY <1>1, <1>2

LEMMA GoneRecord ==
    ASSUME TypeOK, RestartsOnRecord, NEW w \in Where, Gone(w)
    PROVE  RestartsOnRecord' /\ StepAsked
<1>1. files' \subseteq files
  BY GoneTypes
<1>2. RestartsOnRecord'
  BY <1>1 DEF Gone, RestartsOnRecord, TypeOK
<1>3. StepAsked
  BY DEF Gone, StepAsked, TypeOK
<1>4. QED BY <1>2, <1>3

LEMMA SpawnsRecord ==
    ASSUME TypeOK, RestartsOnRecord, SpawnsUser
    PROVE  RestartsOnRecord' /\ StepAsked
<1>1. CASE Begin("user")
  BY <1>1, BeginRecord DEF Where
<1>2. CASE UNCHANGED <<procs, files, asked>>
  BY <1>2 DEF procs, RestartsOnRecord, StepAsked
<1>3. QED BY <1>1, <1>2 DEF SpawnsUser

LEMMA RecordInductive ==
    TypeOK /\ RestartsOnRecord /\ [Next]_vars => RestartsOnRecord' /\ StepAsked
<1> SUFFICES ASSUME TypeOK, RestartsOnRecord, [Next]_vars PROVE RestartsOnRecord' /\ StepAsked
  OBVIOUS
<1>1. ASSUME NEW w \in Where, Stopped(w) PROVE RestartsOnRecord' /\ StepAsked
  BY <1>1 DEF Stopped, RestartsOnRecord, StepAsked, TypeOK, procs, outside, history
<1>2. ASSUME NEW w \in Where, Uninstalls(w) PROVE RestartsOnRecord' /\ StepAsked
  <2>1. /\ files' \subseteq files /\ asked' = asked /\ due' = due /\ node' = node
        /\ \A v \in Where : launcher'[v] # "gone" => launcher[v] # "gone"
    BY <1>2 DEF Uninstalls, ServerGone, TypeOK
  <2>2. QED BY <2>1 DEF RestartsOnRecord, StepAsked
<1>3. ASSUME NEW w \in Where, Restarts(w) PROVE RestartsOnRecord' /\ StepAsked
  BY <1>3 DEF Restarts, RestartsOnRecord, StepAsked, TypeOK, procs, outside, history, ServerGone
<1>4. ASSUME NEW w \in Where, Ends(w) PROVE RestartsOnRecord' /\ StepAsked
  BY <1>4 DEF Ends, RestartsOnRecord, StepAsked, TypeOK, procs, outside, history, ServerGone
<1>5. ASSUME NEW w \in Where, SignalTray(w) PROVE RestartsOnRecord' /\ StepAsked
  BY <1>5 DEF SignalTray, RestartsOnRecord, StepAsked, TypeOK, procs, outside, history
<1>6. ASSUME NEW w \in Where, Reap(w) PROVE RestartsOnRecord' /\ StepAsked
  BY <1>6 DEF Reap, RestartsOnRecord, StepAsked, TypeOK, procs, outside, history
<1>7. ASSUME NEW w \in Where, Exits(w) PROVE RestartsOnRecord' /\ StepAsked
  BY <1>7, GoneRecord DEF Exits
<1>8. ASSUME NEW w \in Where, ServerExits(w) PROVE RestartsOnRecord' /\ StepAsked
  BY <1>8 DEF ServerExits, RestartsOnRecord, StepAsked, TypeOK, procs, outside, history
<1>9. ASSUME NEW w \in Where, PollTop(w) PROVE RestartsOnRecord' /\ StepAsked
  BY <1>9 DEF PollTop, RestartsOnRecord, StepAsked, TypeOK, procs, outside, history
<1>10. ASSUME NEW w \in Where, PollEnsure(w) PROVE RestartsOnRecord' /\ StepAsked
  BY <1>10 DEF PollEnsure, RestartsOnRecord, StepAsked, TypeOK, procs, outside, history
<1>11. ASSUME NEW w \in Where, StopRequested(w) PROVE RestartsOnRecord' /\ StepAsked
  BY <1>11 DEF StopRequested, RestartsOnRecord, StepAsked, TypeOK, procs, outside, history
<1>12. ASSUME NEW w \in Where, QuitRequested(w) PROVE RestartsOnRecord' /\ StepAsked
  BY <1>12 DEF QuitRequested, RestartsOnRecord, StepAsked, TypeOK, procs, outside, history,
     Schedules
<1>13. ASSUME NEW w \in Where, RestartRequested(w) PROVE RestartsOnRecord' /\ StepAsked
  BY <1>13 DEF RestartRequested, RestartsOnRecord, StepAsked, TypeOK, procs, outside,
     history, Schedules
<1>14. ASSUME NEW w \in Where, ApplyRequested(w) PROVE RestartsOnRecord' /\ StepAsked
  BY <1>14 DEF ApplyRequested, RestartsOnRecord, StepAsked, TypeOK, procs, outside, history,
     Schedules
<1>15. ASSUME NEW w \in Where, Crashes(w) PROVE RestartsOnRecord' /\ StepAsked
  BY <1>15, GoneRecord DEF Crashes
<1>16. ASSUME NEW w \in Where, ServerCrashes(w) PROVE RestartsOnRecord' /\ StepAsked
  BY <1>16 DEF ServerCrashes, RestartsOnRecord, StepAsked, TypeOK, procs, outside, history
<1>17. ASSUME NEW b \in Bats, BatStarts(b) PROVE RestartsOnRecord' /\ StepAsked
  <2>1. CASE scm = "stopped"
    BY <1>17, <2>1, BeginRecord DEF BatStarts, Where
  <2>2. CASE scm # "stopped"
    BY <1>17, <2>2 DEF BatStarts, procs, RestartsOnRecord, StepAsked
  <2>3. QED BY <2>1, <2>2
<1>18. ASSUME NEW b \in Bats, BatRemoves(b) PROVE RestartsOnRecord' /\ StepAsked
  BY <1>18 DEF BatRemoves, RestartsOnRecord, StepAsked, TypeOK, procs, outside, history
<1>19. ASSUME NEW b \in Bats, BatSpawns(b) PROVE RestartsOnRecord' /\ StepAsked
  BY <1>19, SpawnsRecord DEF BatSpawns
<1>20. CASE HelperKillsTray
  BY <1>20 DEF HelperKillsTray, RestartsOnRecord, StepAsked, TypeOK, procs, outside, history
<1>21. CASE HelperExtracts
  BY <1>21 DEF HelperExtracts, RestartsOnRecord, StepAsked, TypeOK, procs, outside, history
<1>22. CASE HelperLaunches
  BY <1>22, SpawnsRecord DEF HelperLaunches
<1>23. CASE TaskStops
  BY <1>23 DEF TaskStops, RestartsOnRecord, StepAsked, TypeOK, procs, outside, history
<1>24. CASE TaskStopped
  BY <1>24 DEF TaskStopped, RestartsOnRecord, StepAsked, TypeOK, procs, outside, history
<1>25. CASE TaskRemoves
  BY <1>25 DEF TaskRemoves, RestartsOnRecord, StepAsked, TypeOK, procs, outside, history
<1>26. CASE TaskSpawns
  BY <1>26, SpawnsRecord DEF TaskSpawns
<1>27. CASE ServiceInstalled
  BY <1>27, BeginRecord DEF ServiceInstalled, Where
<1>28. CASE InstallVerified
  BY <1>28 DEF InstallVerified, RestartsOnRecord, StepAsked, TypeOK, procs, outside,
     history, Schedules
<1>29. CASE InstallFails
  BY <1>29 DEF InstallFails, RestartsOnRecord, StepAsked, TypeOK, procs, outside, history
<1>30. CASE Recovers
  BY <1>30, BeginRecord DEF Recovers, Where
<1>31. CASE UserStarts
  BY <1>31, BeginRecord DEF UserStarts, Where
<1>32. CASE TrayExit
  BY <1>32 DEF TrayExit, RestartsOnRecord, StepAsked, TypeOK, procs, outside, history
<1>33. CASE UninstallRequested
  BY <1>33 DEF UninstallRequested, RestartsOnRecord, StepAsked, TypeOK, procs, outside,
     history, Schedules
<1>34. CASE InstallRequested
  BY <1>34 DEF InstallRequested, RestartsOnRecord, StepAsked, TypeOK, procs, outside, history
<1>35. CASE UNCHANGED vars
  BY <1>35 DEF vars, RestartsOnRecord, StepAsked
<1>36. QED
  BY <1>1, <1>2, <1>3, <1>4, <1>5, <1>6, <1>7, <1>8, <1>9, <1>10, <1>11, <1>12, <1>13,
     <1>14, <1>15, <1>16, <1>17, <1>18, <1>19, <1>20, <1>21, <1>22, <1>23, <1>24, <1>25,
     <1>26, <1>27, <1>28, <1>29, <1>30, <1>31, <1>32, <1>33, <1>34, <1>35 DEF Next,
     Supervise, Poll, Help,
     PostStop, Task, Install

-----------------------------------------------------------------------------
LEMMA InitHolds == Init => TypeOK /\ RestartsOnRecord
<1> SUFFICES ASSUME Init PROVE TypeOK /\ RestartsOnRecord
  OBVIOUS
<1> USE LauncherAssumption DEF Where
<1>1. mode \in {"local", "service"}
  BY DEF Init
<1>2. ProcsOK
  BY <1>1 DEF Init, ProcsOK, Causes
<1>3. RestOK
  <2>1. asked \in [Where -> BOOLEAN] /\ bat \in [Bats -> {"off", "sleep", "remove", "spawn"}]
    BY DEF Init
  <2>2. scm \in {"absent", "stopped", "running"}
    BY DEF Init
  <2>3. left \in 0..MaxEvents
    BY DEF Init
  <2>4. /\ files = {} /\ tray = FALSE /\ trayMode = "none" /\ helper = "off" /\ task = "off"
        /\ install = "off" /\ wish = "up" /\ lost = FALSE
    BY DEF Init
  <2>5. QED BY <1>1, <2>1, <2>2, <2>3, <2>4 DEF RestOK
<1>4. RestartsOnRecord
  BY DEF Init, RestartsOnRecord
<1>5. QED BY <1>2, <1>3, <1>4, TypeParts

\* TypeOK is an invariant of the life cycle, whatever installations it starts from: the types
\* of all the state, and that no server outlives its launcher (the job object).
THEOREM TypeCorrect == Spec => []TypeOK
<1>1. Init => TypeOK
  BY InitHolds
<1>2. QED BY <1>1, TypeInductive, PTL DEF Spec

\* A launcher respawns its server only for a restart that was asked for since it began: a
\* marker that a dead launcher left behind never does it (cleanup_stale_marker).
THEOREM RestartsWereAsked == Spec => RestartsAsked
<1>1. TypeOK /\ RestartsOnRecord /\ [Next]_vars => TypeOK' /\ RestartsOnRecord'
  BY TypeInductive, RecordInductive
<1>2. Spec => [](TypeOK /\ RestartsOnRecord)
  BY InitHolds, <1>1, PTL DEF Spec
<1>3. TypeOK /\ RestartsOnRecord /\ [Next]_vars => [StepAsked]_vars
  BY RecordInductive
<1>4. QED
  BY <1>2, <1>3, PTL DEF Spec, RestartsAsked, StepAsked
=================================================================================
