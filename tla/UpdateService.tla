----------------------------- MODULE UpdateService -----------------------------
(***************************************************************************)
(* The update flow of the server: UpdateService and UpdatesApi.  A timer,  *)
(* the user's "check now" and a change of channel each start a check; a    *)
(* check may go on to a download; the user's click starts an apply, which  *)
(* hands the update to a process of its own and ends the server.  All of   *)
(* them are async calls that share one state object and nothing keeps two  *)
(* of them from overlapping.                                               *)
(***************************************************************************)
EXTENDS Naturals, FiniteSets

CONSTANTS Checks,       \* checks that may be in flight together
          Applies,      \* requests to apply
          Channels,     \* release channels
          MaxVersion,   \* bound: releases per channel
          Installs,     \* installations: "linux", a Windows "service" or "local" on Windows
          AutoUpdate    \* the user's setting: download what a check finds

ASSUME UpdateAssumption ==
    /\ MaxVersion \in Nat /\ Channels # {}
    /\ Installs \subseteq {"linux", "service", "local"}
    /\ AutoUpdate \in BOOLEAN

Update   == [channel : Channels, version : 1..MaxVersion]
NoUpdate == [channel |-> "none", version |-> 0]

VARIABLES
    install,   \* the installation this is
    status,    \* state.status
    pending,   \* state.pendingUpdate, and availableVersion with it
    mgr,       \* channel the UpdateManager was made for
    channel,   \* channel in config.json
    latest,    \* latest[ch]: newest release of ch, 0 for none newer than this one
    onDisk,    \* downloaded packages
    check,     \* check[c]: where checkForUpdates c stands, and what it found
    apply,     \* apply[a]: where handleApply a stands, and what it works on
    handed,    \* handed[a]: what a gave to an updater process
    marker,    \* apply-update-pending exists
    alive      \* the process runs

vars == <<install, status, pending, mgr, channel, latest, onDisk, check, apply, handed, marker,
          alive>>

CheckStage == {"none", "asked", "answered", "download"}
ApplyStage == {"none", "hygiene", "marked", "fetch", "failed", "exit"}

TypeOK ==
    /\ install \in Installs
    /\ status \in {"idle", "checking", "downloading", "ready", "error"}
    /\ pending \in Update \cup {NoUpdate}
    /\ mgr \in Channels /\ channel \in Channels
    /\ latest \in [Channels -> 0..MaxVersion]
    /\ onDisk \subseteq Update
    /\ check \in [Checks -> [at : CheckStage, mgr : Channels, found : Update \cup {NoUpdate}]]
    /\ apply \in [Applies -> [at : ApplyStage, upd : Update \cup {NoUpdate}]]
    /\ handed \in [Applies -> Update \cup {NoUpdate}]
    /\ marker \in BOOLEAN /\ alive \in BOOLEAN

\* After init(): the manager is there, nothing is known yet.
Init ==
    /\ install \in Installs
    /\ status = "idle" /\ pending = NoUpdate
    /\ channel \in Channels /\ mgr = channel
    /\ latest \in [Channels -> 0..MaxVersion]
    /\ onDisk = {}
    /\ check = [c \in Checks |-> [at |-> "none", mgr |-> channel, found |-> NoUpdate]]
    /\ apply = [a \in Applies |-> [at |-> "none", upd |-> NoUpdate]]
    /\ handed = [a \in Applies |-> NoUpdate]
    /\ marker = FALSE /\ alive = TRUE

AutoDownload == AutoUpdate /\ install # "linux"

-----------------------------------------------------------------------------
(* Checks.                                                                  *)

\* checkForUpdates up to its await, with manager m.
Ask(c, m) ==
    /\ check[c].at = "none"
    /\ status' = "checking"
    /\ check' = [check EXCEPT ![c] = [at |-> "asked", mgr |-> m, found |-> NoUpdate]]

\* The timer of restartTimer, init() or POST /api/updates/check.
StartCheck(c) ==
    /\ alive
    /\ Ask(c, mgr)
    /\ UNCHANGED <<install, pending, mgr, channel, latest, onDisk, apply, handed, marker, alive>>

\* PATCH of the channel: a new manager, what is known forgotten, a check at once.
Reconfigure(c, ch) ==
    /\ alive /\ ch # channel
    /\ channel' = ch /\ mgr' = ch
    /\ pending' = NoUpdate
    /\ Ask(c, ch)
    /\ UNCHANGED <<install, latest, onDisk, apply, handed, marker, alive>>

\* The new manager cannot be made: the old one stays, the setting does not.
ReconfigureFails(ch) ==
    /\ alive /\ ch # channel
    /\ channel' = ch
    /\ status' = "error"
    /\ UNCHANGED <<install, pending, mgr, latest, onDisk, check, apply, handed, marker, alive>>

\* The feed answers; the answer is on its way to the server.
FeedAnswers(c) ==
    /\ check[c].at = "asked"
    /\ LET m == check[c].mgr
       IN  check' = [check EXCEPT ![c].at = "answered",
                       ![c].found = IF latest[m] = 0 THEN NoUpdate
                                    ELSE [channel |-> m, version |-> latest[m]]]
    /\ UNCHANGED <<install, status, pending, mgr, channel, latest, onDisk, apply, handed, marker, alive>>

Done(c) == [check EXCEPT ![c] = [at |-> "none", mgr |-> @.mgr, found |-> NoUpdate]]

\* Mutant of UpToDate: the status is left as it is.
UpToDate_NoReset(c) ==
    /\ alive /\ check[c].at = "answered" /\ check[c].found = NoUpdate
    /\ pending' = NoUpdate
    /\ check' = Done(c)
    /\ UNCHANGED <<install, status, mgr, channel, latest, onDisk, apply, handed, marker, alive>>

\* Nothing newer: what an earlier check found is forgotten too.
UpToDate(c) ==
    /\ alive /\ check[c].at = "answered" /\ check[c].found = NoUpdate
    /\ status' = "idle" /\ pending' = NoUpdate
    /\ check' = Done(c)
    /\ UNCHANGED <<install, mgr, channel, latest, onDisk, apply, handed, marker, alive>>

\* An update: offered as it is, or downloaded first.  downloadIfNeeded leaves a
\* download that is already running alone.
Found(c) ==
    /\ alive /\ check[c].at = "answered" /\ check[c].found # NoUpdate
    /\ pending' = check[c].found
    /\ \/ /\ ~AutoDownload
          /\ status' = "ready" /\ check' = Done(c)
       \/ /\ AutoDownload /\ status = "downloading"
          /\ check' = Done(c) /\ UNCHANGED status
       \/ /\ AutoDownload /\ status # "downloading"
          /\ status' = "downloading"
          /\ check' = [check EXCEPT ![c].at = "download"]
    /\ UNCHANGED <<install, mgr, channel, latest, onDisk, apply, handed, marker, alive>>

Downloaded(c) ==
    /\ alive /\ check[c].at = "download"
    /\ onDisk' = onDisk \cup {check[c].found}
    /\ status' = "ready"
    /\ check' = Done(c)
    /\ UNCHANGED <<install, pending, mgr, channel, latest, apply, handed, marker, alive>>

\* Mutant of CheckFails: the error is only logged.
CheckFails_Silent(c) ==
    /\ alive /\ check[c].at \in {"asked", "download"}
    /\ check' = Done(c)
    /\ UNCHANGED <<install, status, pending, mgr, channel, latest, onDisk, apply, handed, marker, alive>>

\* The feed or the download fails.
CheckFails(c) ==
    /\ alive /\ check[c].at \in {"asked", "download"}
    /\ status' = "error"
    /\ check' = Done(c)
    /\ UNCHANGED <<install, pending, mgr, channel, latest, onDisk, apply, handed, marker, alive>>

\* A release is published.
Publish(ch) ==
    /\ alive /\ latest[ch] < MaxVersion
    /\ latest' = [latest EXCEPT ![ch] = @ + 1]
    /\ UNCHANGED <<install, status, pending, mgr, channel, onDisk, check, apply, handed, marker, alive>>

-----------------------------------------------------------------------------
(* Applying.  Every await lets checks run in between, and what follows reads *)
(* the shared state anew.                                                   *)

Fails(a) ==
    /\ apply' = [apply EXCEPT ![a].at = "failed"]
    /\ UNCHANGED handed

Hands(a, u) ==
    /\ apply'  = [apply EXCEPT ![a].at = "exit"]
    /\ handed' = [handed EXCEPT ![a] = u]

\* POST /api/updates/apply: allowed when the status is "ready" and an update is
\* there (else 409 or 500, and nothing changes); it begins with preApplyHygiene.
ApplyStarts(a) ==
    /\ alive /\ apply[a].at = "none"
    /\ status = "ready" /\ pending # NoUpdate
    /\ apply' = [apply EXCEPT ![a].at = "hygiene"]
    /\ UNCHANGED <<install, status, pending, mgr, channel, latest, onDisk, check, handed, marker, alive>>

\* The marker files are written.
ApplyMarks(a) ==
    /\ alive /\ apply[a].at = "hygiene"
    /\ marker' = TRUE
    /\ apply' = [apply EXCEPT ![a].at = "marked"]
    /\ UNCHANGED <<install, status, pending, mgr, channel, latest, onDisk, check, handed, alive>>

\* Mutant of HandToVelopack: pendingUpdate is not looked at.
HandToVelopack_Blind(a) ==
    /\ alive /\ install = "service" /\ apply[a].at = "marked"
    /\ Hands(a, pending)
    /\ UNCHANGED <<install, status, pending, mgr, channel, latest, onDisk, check, marker, alive>>

\* Windows service: Velopack applies pendingUpdate once the server is gone.  It throws
\* when there is none, and may throw for reasons of its own.
HandToVelopack(a) ==
    /\ alive /\ install = "service" /\ apply[a].at = "marked"
    /\ Fails(a) \/ (pending # NoUpdate /\ Hands(a, pending))
    /\ UNCHANGED <<install, status, pending, mgr, channel, latest, onDisk, check, marker, alive>>

\* Windows: the operation-server gets a manifest of pendingUpdate.  When there is none,
\* or the manifest or the process fails, the exception is logged: the server exits all
\* the same, with nothing handed.
HandToOperationServer(a) ==
    /\ alive /\ install = "local" /\ apply[a].at = "marked"
    /\ \E u \in {pending, NoUpdate} : Hands(a, u)
    /\ UNCHANGED <<install, status, pending, mgr, channel, latest, onDisk, check, marker, alive>>

\* Linux: the AppImage of the pending version is fetched, from the channel set now.
Fetch(a) ==
    /\ alive /\ install = "linux" /\ apply[a].at = "marked"
    /\ IF pending = NoUpdate
         THEN Fails(a)
         ELSE /\ apply' = [apply EXCEPT ![a] = [at |-> "fetch",
                              upd |-> [channel |-> channel, version |-> pending.version]]]
              /\ UNCHANGED handed
    /\ UNCHANGED <<install, status, pending, mgr, channel, latest, onDisk, check, marker, alive>>

\* No such asset, no network, a SHA-256 that does not match, or a pkexec refused.
FetchFails(a) ==
    /\ alive /\ apply[a].at = "fetch"
    /\ Fails(a)
    /\ UNCHANGED <<install, status, pending, mgr, channel, latest, onDisk, check, marker, alive>>

\* The asset was there and its SHA-256 matched.
Verified(a) == apply[a].at = "fetch" /\ apply[a].upd.version <= latest[apply[a].upd.channel]

\* The helper process takes over.
HandToHelper(a) ==
    /\ alive /\ Verified(a)
    /\ Hands(a, apply[a].upd)
    /\ UNCHANGED <<install, status, pending, mgr, channel, latest, onDisk, check, marker, alive>>

\* The helper does not start.  systemd-run's exit code and its 'error' event are not
\* looked at: the call returns as if all was well, and the server exits.
HelperLost(a) ==
    /\ alive /\ Verified(a)
    /\ Hands(a, NoUpdate)
    /\ UNCHANGED <<install, status, pending, mgr, channel, latest, onDisk, check, marker, alive>>

\* The deferred process.exit(0) after the reply.
Exit ==
    /\ alive /\ \E a \in Applies : apply[a].at = "exit"
    /\ alive' = FALSE
    /\ UNCHANGED <<install, status, pending, mgr, channel, latest, onDisk, check, apply, handed, marker>>

-----------------------------------------------------------------------------
Next ==
    \/ \E c \in Checks : \/ StartCheck(c) \/ FeedAnswers(c) \/ UpToDate(c) \/ Found(c)
                         \/ Downloaded(c) \/ CheckFails(c)
                         \/ \E ch \in Channels : Reconfigure(c, ch)
    \/ \E ch \in Channels : ReconfigureFails(ch) \/ Publish(ch)
    \/ \E a \in Applies : \/ ApplyStarts(a) \/ ApplyMarks(a) \/ HandToVelopack(a)
                          \/ HandToOperationServer(a) \/ Fetch(a) \/ FetchFails(a)
                          \/ HandToHelper(a) \/ HelperLost(a)
    \/ Exit

\* Requests to the feed end in an answer or an error, and calls go on.
Fairness ==
    \A c \in Checks : /\ WF_vars(FeedAnswers(c) \/ CheckFails(c))
                      /\ WF_vars(UpToDate(c) \/ Found(c))
                      /\ WF_vars(Downloaded(c) \/ CheckFails(c))

Spec     == Init /\ [][Next]_vars
FairSpec == Spec /\ Fairness

-----------------------------------------------------------------------------
(* Properties.                                                              *)

\* "checking" and "downloading" are shown only while a check, or a download, is in
\* flight, however the calls overlap: the UI never spins for nothing.
BusyMeansWorking ==
    /\ status = "checking"    => \E c \in Checks : check[c].at \in {"asked", "answered"}
    /\ status = "downloading" => \E c \in Checks : check[c].at = "download"

\* The status comes to rest again and again, however often checks are started.
StatusSettles == []<>(status \in {"idle", "ready", "error"} \/ ~alive)

\* u is an update that its channel has.
Released(u) == u \in Update /\ u.version <= latest[u.channel]

\* Checks and changes of channel overlap an apply and may clear or replace pendingUpdate
\* under it.  Whatever they do, an updater is never given anything but a release; a
\* Windows service exits only with a release in Velopack's hands, and Linux only with a
\* release fetched and verified.  Whether the helper on Linux, or the operation-server
\* on Windows, really starts is not promised: the code exits without it.
ExitHasRelease ==
    /\ \A a \in Applies : handed[a] # NoUpdate => Released(handed[a])
    /\ ~alive => \E a \in Applies :
          /\ apply[a].at = "exit"
          /\ install = "service" => Released(handed[a])
          /\ install = "linux" => Released(apply[a].upd)

=============================================================================
