---------------------------- MODULE DeviceTracking ----------------------------
(***************************************************************************)
(* The list of devices: ControlCenter polls adb every five seconds, one    *)
(* Device object per serial fetches its properties and throttles its       *)
(* updates, one DeviceTracker per connection forwards them to a page.      *)
(* Neither the interval nor the first enumeration waits for the others, so *)
(* answers of adb are applied late and out of order.                       *)
(***************************************************************************)
EXTENDS Naturals, FiniteSets

CONSTANTS Dev,         \* serials
          Trackers,    \* connections of pages, each used once
          Server,      \* the start of the service, which enumerates like a tracker
          Polls,       \* polls that may be under way at once
          MaxChanges,  \* bound: how often a device comes, goes or changes its state
          MaxUpdates   \* MAX_UPDATES_COUNT

ASSUME DeviceTrackingAssumption ==
    /\ IsFiniteSet(Trackers) /\ Server \notin Trackers
    /\ MaxUpdates \in Nat /\ MaxChanges \in Nat

Starters == Trackers \cup {Server}
Reported == {"gone", "offline", "device"}   \* a line of `adb devices`, or none
Lists    == [Dev -> Reported]

VARIABLES
    real,       \* what adb would answer now
    changes,    \* counts the changes of real
    start,      \* start[x]: "none", "asking" or "answered" while init() waits for adb, "on"
    left,       \* the connections that have ended
    poll,       \* poll[p]: waiting with the list adb gave, or not
    list,       \* list[x]: the answer that x, a starter or a poll, has not applied yet
    intervals,  \* setInterval calls; all but the last cannot be cleared
    known,      \* knownDevices
    present,    \* keys of deviceMap
    listed,     \* keys of descriptors
    state,      \* state[d]: descriptor.state of the Device object
    hot,        \* its last update went out less than 300 ms ago
    timer,      \* throttleTimeoutId
    fetches,    \* its fetches under way
    retries,    \* timers that will fetch again
    tries,      \* updateCount
    informed,   \* a fetch has succeeded since the device was last connected
    view        \* view[t]: the rows of the page

object == <<hot, timer, fetches, retries, tries, informed>>
center == <<known, present, listed, state, object>>
vars   == <<real, changes, start, left, poll, list, intervals, center, view>>

Initialized == intervals > 0
Listening   == {t \in Trackers \ left : start[t] = "on"}

TypeOK ==
    /\ real \in Lists /\ changes \in 0..MaxChanges
    /\ start \in [Starters -> {"none", "asking", "answered", "on"}] /\ left \subseteq Trackers
    /\ poll \in [Polls -> BOOLEAN]
    /\ list \in [Starters \cup Polls -> Lists]
    /\ intervals \in 0..Cardinality(Starters)
    /\ known \in Lists /\ state \in Lists
    /\ listed \subseteq present /\ present \subseteq Dev
    /\ hot \in [Dev -> BOOLEAN] /\ timer \in [Dev -> BOOLEAN] /\ informed \in [Dev -> BOOLEAN]
    /\ fetches \in [Dev -> Nat] /\ retries \in [Dev -> Nat] /\ tries \in [Dev -> 0..(MaxUpdates + 1)]
    /\ view \in [Trackers -> Lists]

Nothing == [d \in Dev |-> "gone"]

Init ==
    /\ real \in Lists /\ changes = 0
    /\ start = [x \in Starters |-> IF x = Server THEN "asking" ELSE "none"]
    /\ left = {}
    /\ poll = [p \in Polls |-> FALSE]
    /\ list = [x \in Starters \cup Polls |-> Nothing]
    /\ intervals = 0
    /\ known = Nothing /\ present = {} /\ listed = {} /\ state = Nothing
    /\ hot = [d \in Dev |-> FALSE] /\ timer = [d \in Dev |-> FALSE]
    /\ fetches = [d \in Dev |-> 0] /\ retries = [d \in Dev |-> 0] /\ tries = [d \in Dev |-> 0]
    /\ informed = [d \in Dev |-> FALSE]
    /\ view = [t \in Trackers |-> Nothing]

-------------------------------------------------------------------------------
(* One Device object.                                                       *)

\* The rows of a page that gets the whole list.
Rows(L, s) == [d \in Dev |-> IF d \in L THEN s[d] ELSE "gone"]

\* emit('update') of the devices in E: ControlCenter lists them and every listener shows
\* them, or takes the row away of a device that is gone.
Shown(v, E, s) == [t \in Trackers |-> IF t \in Listening
                     THEN [d \in Dev |-> IF d \in E THEN s[d] ELSE v[t][d]]
                     ELSE v[t]]
Emitted(E) == /\ listed' = listed \cup E
              /\ view' = Shown(view, E, state)

\* emitUpdate(): now, or by the timer when the last one is too young.
EmitUpdate(d) ==
    IF hot[d] THEN timer' = [timer EXCEPT ![d] = TRUE] /\ UNCHANGED <<hot, listed, view>>
              ELSE hot' = [hot EXCEPT ![d] = TRUE] /\ Emitted({d}) /\ UNCHANGED timer

\* 300 ms pass.
Cool(d) ==
    /\ hot[d]
    /\ hot' = [hot EXCEPT ![d] = FALSE]
    /\ UNCHANGED <<real, changes, start, left, poll, list, intervals, known, present, listed, state,
                   timer, fetches, retries, tries, informed, view>>

\* Mutant of TimerFires: the update that waited is forgotten.
TimerFires_Silent(d) ==
    /\ timer[d] /\ ~hot[d]
    /\ timer' = [timer EXCEPT ![d] = FALSE]
    /\ hot' = [hot EXCEPT ![d] = TRUE]
    /\ UNCHANGED <<real, changes, start, left, poll, list, intervals, known, present, listed, state,
                   fetches, retries, tries, informed, view>>

\* The throttle's timer; one that fires too early sets itself again.
TimerFires(d) ==
    /\ timer[d] /\ ~hot[d]
    /\ timer' = [timer EXCEPT ![d] = FALSE]
    /\ hot' = [hot EXCEPT ![d] = TRUE]
    /\ Emitted({d})
    /\ UNCHANGED <<real, changes, start, left, poll, list, intervals, known, present, state,
                   fetches, retries, tries, informed>>

\* Mutant of Reschedule: the attempt that failed does not ask for another one.
Reschedule_Never(d) == UNCHANGED <<retries, tries>>

\* scheduleInfoUpdate(), called with updateTimeoutId just cleared.
Reschedule(d) ==
    IF tries[d] >= MaxUpdates
    THEN tries' = [tries EXCEPT ![d] = MaxUpdates + 1] /\ UNCHANGED retries
    ELSE tries' = [tries EXCEPT ![d] = tries[d] + 1] /\ retries' = [retries EXCEPT ![d] = @ + 1]

\* A fetch ends: with all it asked for or not, and with something new for the pages or not.
FetchEnds(d, ok, new) ==
    /\ fetches[d] > 0
    /\ fetches' = [fetches EXCEPT ![d] = @ - 1]
    /\ IF ok THEN /\ tries' = [tries EXCEPT ![d] = 0] /\ UNCHANGED retries
                  /\ informed' = [informed EXCEPT ![d] = TRUE]
             ELSE Reschedule(d) /\ UNCHANGED informed
    /\ IF new \/ (ok /\ d \notin listed) THEN EmitUpdate(d) ELSE UNCHANGED <<hot, timer, listed, view>>
    /\ UNCHANGED <<real, changes, start, left, poll, list, intervals, known, present, state>>

\* fetchDeviceInfo from the timer of a retry.
RetryFires(d) ==
    /\ retries[d] > 0
    /\ retries' = [retries EXCEPT ![d] = @ - 1]
    /\ IF state[d] = "device"
         THEN /\ fetches' = [fetches EXCEPT ![d] = @ + 1]
              /\ UNCHANGED <<tries, hot, timer, listed, view>>
         ELSE tries' = [tries EXCEPT ![d] = 0] /\ EmitUpdate(d) /\ UNCHANGED fetches
    /\ UNCHANGED <<real, changes, start, left, poll, list, intervals, known, present, state, informed>>

\* checkScreenState or detectDeviceKind after a poll finds something new.
Probe(d) ==
    /\ d \in present /\ state[d] = "device" /\ Initialized
    /\ EmitUpdate(d)
    /\ UNCHANGED <<real, changes, start, left, poll, list, intervals, known, present, state,
                   fetches, retries, tries, informed>>

-------------------------------------------------------------------------------
(* ControlCenter.                                                           *)

\* Mutant of Forgotten: the descriptor of a device that is gone stays in the map.
Forgotten_Not(L, drop) == L
Forgotten(L, drop) == L \ drop

\* handleConnected for the devices in S with the states s.  setState emits, then fetches, or
\* emits again when the device is not connected; the constructor of a new Device does so
\* before anybody listens.  An object that is dropped is not heard any more, nor are its timers.
\* The pages of J then get the whole list: a descriptor is the object of the device, not a copy.
HandleConnected(S, s, J) ==
    LET drop  == {d \in S \cap present : s[d] = "gone"}
        put   == {d \in S : s[d] # "gone"}
        now   == {d \in S \cap present : ~hot[d]}
    IN
    /\ present' = (present \ drop) \cup put
    /\ listed' = Forgotten(listed \cup now, drop)
    /\ state' = [d \in Dev |-> IF d \in S THEN s[d] ELSE state[d]]
    /\ view' = [t \in Trackers |->
                  IF t \in J THEN Rows(listed', state') ELSE Shown(view, now, s)[t]]
    /\ hot' = [d \in Dev |-> IF d \in drop THEN FALSE ELSE hot[d] \/ d \in put]
    /\ timer' = [d \in Dev |-> /\ d \notin drop
                               /\ timer[d] \/ (d \in put /\ (hot[d] \/ s[d] = "offline"))]
    /\ fetches' = [d \in Dev |-> IF d \in drop THEN 0
                                 ELSE IF d \in put /\ s[d] = "device" THEN fetches[d] + 1 ELSE fetches[d]]
    /\ retries' = [d \in Dev |-> IF d \in drop THEN 0 ELSE retries[d]]
    /\ tries' = [d \in Dev |-> IF d \in drop \/ (d \in put /\ s[d] = "offline") THEN 0 ELSE tries[d]]
    /\ informed' = [d \in Dev |-> IF d \in S THEN FALSE ELSE informed[d]]

\* setInterval has fired: `adb devices` runs, and its answer is on the way.
PollAsks(p) ==
    /\ Initialized /\ ~poll[p]
    /\ poll' = [poll EXCEPT ![p] = TRUE]
    /\ list' = [list EXCEPT ![p] = real]
    /\ UNCHANGED <<real, changes, start, left, intervals, center, view>>

PollFails(p) ==
    /\ poll[p]
    /\ poll' = [poll EXCEPT ![p] = FALSE]
    /\ list' = [list EXCEPT ![p] = Nothing]
    /\ UNCHANGED <<real, changes, start, left, intervals, center, view>>

\* Mutant of PollApplies: a serial that is missing is not deleted from knownDevices.
PollApplies_NoForget(p) ==
    LET S == {d \in Dev : list[p][d] # known[d]} IN
    /\ poll[p]
    /\ poll' = [poll EXCEPT ![p] = FALSE]
    /\ known' = [d \in Dev |-> IF list[p][d] # "gone" THEN list[p][d] ELSE known[d]]
    /\ HandleConnected(S, list[p], {})
    /\ list' = [list EXCEPT ![p] = Nothing]
    /\ UNCHANGED <<real, changes, start, left, intervals>>

\* Mutant of PollApplies: only what comes or goes is handled, not a new state.
PollApplies_NewOnly(p) ==
    LET S == {d \in Dev : (list[p][d] = "gone") # (known[d] = "gone")} IN
    /\ poll[p]
    /\ poll' = [poll EXCEPT ![p] = FALSE]
    /\ known' = [d \in Dev |-> IF d \in S THEN list[p][d] ELSE known[d]]
    /\ HandleConnected(S, list[p], {})
    /\ list' = [list EXCEPT ![p] = Nothing]
    /\ UNCHANGED <<real, changes, start, left, intervals>>

\* pollDevices: what differs from knownDevices, in either direction.
PollApplies(p) ==
    LET S == {d \in Dev : list[p][d] # known[d]} IN
    /\ poll[p]
    /\ poll' = [poll EXCEPT ![p] = FALSE]
    /\ known' = list[p]
    /\ HandleConnected(S, list[p], {})
    /\ list' = [list EXCEPT ![p] = Nothing]
    /\ UNCHANGED <<real, changes, start, left, intervals>>

\* A connection: a DeviceTracker, which waits for init() unless that is done.
Connect(t) ==
    /\ start[t] = "none"
    /\ IF Initialized
         THEN /\ start' = [start EXCEPT ![t] = "on"]
              /\ view' = [view EXCEPT ![t] = Rows(listed, state)]
         ELSE start' = [start EXCEPT ![t] = "asking"] /\ UNCHANGED view
    /\ UNCHANGED <<real, changes, left, poll, list, intervals, center>>

\* release(): a listener that init() has yet to add is added all the same, for nobody.
Leave(t) ==
    /\ start[t] # "none" /\ t \notin left
    /\ left' = left \cup {t}
    /\ UNCHANGED <<real, changes, start, poll, list, intervals, center, view>>

AdbAnswers(x) ==
    /\ start[x] = "asking"
    /\ start' = [start EXCEPT ![x] = "answered"]
    /\ list' = [list EXCEPT ![x] = real]
    /\ UNCHANGED <<real, changes, left, poll, intervals, center, view>>

\* The rest of init() and of the constructor, or all of it after an error of adb (ok is FALSE):
\* the flag initialized is not looked at again.
InitEnds(x, ok) ==
    LET S == {d \in Dev : ok /\ list[x][d] # "gone"} IN
    /\ start[x] = "answered"
    /\ start' = [start EXCEPT ![x] = "on"]
    /\ intervals' = intervals + 1
    /\ known' = [d \in Dev |-> IF d \in S THEN list[x][d] ELSE known[d]]
    /\ HandleConnected(S, list[x], {x} \ left)
    /\ list' = [list EXCEPT ![x] = Nothing]
    /\ UNCHANGED <<real, changes, left, poll>>

\* A device comes, goes, or is authorised.
Change(d, r) ==
    /\ changes < MaxChanges /\ r # real[d]
    /\ real' = [real EXCEPT ![d] = r] /\ changes' = changes + 1
    /\ UNCHANGED <<start, left, poll, list, intervals, center, view>>

-------------------------------------------------------------------------------
ObjectStep(d) == \/ Cool(d) \/ TimerFires(d) \/ RetryFires(d) \/ Probe(d)
                 \/ \E ok, new \in BOOLEAN : FetchEnds(d, ok, new)

Next ==
    \/ \E d \in Dev : ObjectStep(d) \/ \E r \in Reported : Change(d, r)
    \/ \E p \in Polls : PollAsks(p) \/ PollFails(p) \/ PollApplies(p)
    \/ \E t \in Trackers : Connect(t) \/ Leave(t)
    \/ \E x \in Starters : AdbAnswers(x) \/ \E ok \in BOOLEAN : InitEnds(x, ok)

\* Timers fire; adb answers every enumeration, and every kind of poll succeeds again and again;
\* a connected device answers the question for its screen, which is new for one nobody lists.
Fairness ==
    /\ \A d \in Dev : WF_vars(Cool(d)) /\ WF_vars(TimerFires(d)) /\ WF_vars(d \notin listed /\ Probe(d))
    /\ \A p \in Polls : WF_vars(PollAsks(p)) /\ SF_vars(PollApplies(p))
    /\ \A x \in Starters : WF_vars(AdbAnswers(x)) /\ WF_vars(\E ok \in BOOLEAN : InitEnds(x, ok))

Spec == Init /\ [][Next]_vars /\ Fairness

-------------------------------------------------------------------------------
(* Properties.                                                              *)

\* No update is lost in the throttle: a page shows a listed device as it is, or the timer that
\* will tell it is set.
UpdateDue == \A t \in Listening, d \in listed : view[t][d] = state[d] \/ timer[d]

\* Fetches that overlap, and share one timer id, one counter and one set of properties, never
\* forget a connected device: it is fetched, will be, or all its attempts are used up.
InfoDue == \A d \in present : state[d] = "device" /\ ~informed[d]
                => fetches[d] > 0 \/ retries[d] > 0 \/ tries[d] > MaxUpdates

\* What is in the maps is the same, whatever enumerations and polls crossed.
MapsAgree == \A d \in Dev : /\ d \in present <=> known[d] # "gone"
                            /\ d \in present => state[d] = known[d]

\* When the devices stay as they are, every page comes to show each of them that is there as
\* it is: late answers of adb do no lasting harm.
PagesSettle == \A t \in Trackers, d \in Dev :
    <>[](t \in Listening /\ real[d] # "gone" => view[t][d] = real[d])

===============================================================================
