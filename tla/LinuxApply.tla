------------------------------ MODULE LinuxApply -------------------------------
(***************************************************************************)
(* How an update gets installed on Linux.  The server downloads the new    *)
(* AppImage beside the data, verifies it, has a helper process started and *)
(* exits; the helper (linux_apply.rs), or a script run by pkexec where the *)
(* program belongs to root, moves it over the old one, which is kept as a  *)
(* backup, and the program is started again.  Everything goes by the names *)
(* of three files that the parties share without a lock.                   *)
(***************************************************************************)
EXTENDS Naturals, FiniteSets

CONSTANTS Applies,   \* requests to apply the update
          Installs,  \* "home": in the user's files; "opt": root's; "service": a systemd unit
          Across,    \* whether the download is on another file system than the program
          MaxFaults  \* bound: crashes and failing steps

ASSUME LinuxApplyAssumption ==
    /\ Installs \subseteq {"home", "opt", "service"} /\ Across \subseteq BOOLEAN
    /\ MaxFaults \in Nat

Whole   == {"old", "new"}
Content == Whole \cup {"none", "part"}

VARIABLES
    install, across,
    staged,   \* <asset>.AppImage.new
    target,   \* $APPIMAGE
    backup,   \* <target>.bak
    up,       \* the version that runs
    tidy,     \* its removal of the backup is on the way
    apply,    \* apply[a]: where applyUpdate stands
    helper,   \* helper[a]: where its helper, or its script, stands
    faults,
    crossed   \* history: somebody else came while files were in use

files == <<staged, target, backup>>
vars  == <<install, across, files, up, tidy, apply, helper, faults, crossed>>

Stages == {"none", "wait", "stop", "swap", "moved", "copy", "mode", "broken", "start", "clean",
           "done", "failed", "dead"}
Over   == {"none", "done", "failed", "dead"}

TypeOK ==
    /\ install \in Installs /\ across \in Across
    /\ staged \in Content \ {"old"} /\ target \in Content /\ backup \in Content
    /\ up \in Whole \cup {"none"} /\ tidy \in BOOLEAN /\ crossed \in BOOLEAN
    /\ apply \in [Applies -> {"none", "fetch", "write", "hash", "verified", "asking", "exit", "over"}]
    /\ helper \in [Applies -> Stages]
    /\ faults \in 0..MaxFaults

Init ==
    /\ install \in Installs /\ across \in Across
    /\ staged = "none" /\ target = "old" /\ backup = "none"
    /\ up = "old" /\ tidy = FALSE
    /\ apply = [a \in Applies |-> "none"] /\ helper = [a \in Applies |-> "none"]
    /\ faults = 0 /\ crossed = FALSE

\* b counts on the download, or is about to replace the program.
Busy(b) == \/ apply[b] \in {"write", "hash", "verified", "asking"}
           \/ helper[b] \in {"wait", "stop", "swap", "moved", "copy", "mode", "broken"}

\* a works on the files.
Works(a) == crossed' = (crossed \/ \E b \in Applies \ {a} : Busy(b))

Fault == faults < MaxFaults /\ faults' = faults + 1

\* A process goes: its calls with it, and those who wait for it go on. The script of pkexec
\* does not need it.
Gone(now) ==
    /\ up' = "none" /\ tidy' = FALSE
    /\ apply'  = [b \in Applies |-> IF apply[b] = "none" THEN "none" ELSE "over"]
    /\ helper' = [b \in Applies |-> IF now[b] # "wait" THEN now[b]
                                    ELSE IF install = "opt" THEN "start" ELSE "swap"]

--------------------------------------------------------------------------------
(* The server.                                                              *)

\* applyUpdate, up to the download; the new version has nothing to apply.
Begins(a) ==
    /\ up = "old" /\ apply[a] = "none"
    /\ apply' = [apply EXCEPT ![a] = "fetch"]
    /\ UNCHANGED <<install, across, files, up, tidy, helper, faults, crossed>>

\* The release has no such asset, or cannot be reached.
FetchFails(a) ==
    /\ apply[a] = "fetch"
    /\ apply' = [apply EXCEPT ![a] = "over"]
    /\ UNCHANGED <<install, across, files, up, tidy, helper, faults, crossed>>

\* downloadToFile: writeFile truncates what is there, then writes.
Writes(a) ==
    /\ apply[a] = "fetch"
    /\ apply' = [apply EXCEPT ![a] = "write"] /\ staged' = "part"
    /\ Works(a)
    /\ UNCHANGED <<install, across, target, backup, up, tidy, helper, faults>>

\* The bytes are those of the release, or not. A file that was removed meanwhile stays so.
Written(a, ok) ==
    /\ apply[a] = "write"
    /\ apply' = [apply EXCEPT ![a] = "hash"]
    /\ staged' = IF staged # "none" /\ ok THEN "new" ELSE staged
    /\ Works(a)
    /\ UNCHANGED <<install, across, target, backup, up, tidy, helper, faults>>

WriteFails(a) ==
    /\ apply[a] = "write" /\ Fault
    /\ apply' = [apply EXCEPT ![a] = "over"]
    /\ UNCHANGED <<install, across, files, up, tidy, helper, crossed>>

\* verifySha256.
Verifies(a) ==
    /\ apply[a] = "hash" /\ staged = "new"
    /\ apply' = [apply EXCEPT ![a] = "verified"]
    /\ UNCHANGED <<install, across, files, up, tidy, helper, faults, crossed>>

\* SHA256SUMS does not come, and the file stays; or has no entry, or another sum.
Rejects(a, sums) ==
    /\ apply[a] = "hash"
    /\ apply' = [apply EXCEPT ![a] = "over"]
    /\ IF sums THEN staged' = "none" /\ Works(a) ELSE UNCHANGED <<staged, crossed>>
    /\ UNCHANGED <<install, across, target, backup, up, tidy, helper, faults>>

\* pkexec asks the user.
Asks(a) ==
    /\ install = "opt" /\ apply[a] = "verified"
    /\ apply' = [apply EXCEPT ![a] = "asking"]
    /\ UNCHANGED <<install, across, files, up, tidy, helper, faults, crossed>>

Declined(a) ==
    /\ apply[a] = "asking" /\ helper[a] = "none"
    /\ apply' = [apply EXCEPT ![a] = "over"]
    /\ UNCHANGED <<install, across, files, up, tidy, helper, faults, crossed>>

Granted(a) ==
    /\ apply[a] = "asking" /\ helper[a] = "none"
    /\ helper' = [helper EXCEPT ![a] = "swap"]
    /\ UNCHANGED <<install, across, files, up, tidy, apply, faults, crossed>>

\* The helper is there, in a unit of its own; the answer goes out.
Hands(a) ==
    /\ install # "opt" /\ apply[a] = "verified"
    /\ apply'  = [apply EXCEPT ![a] = "exit"]
    /\ helper' = [helper EXCEPT ![a] = IF install = "service" THEN "stop" ELSE "wait"]
    /\ UNCHANGED <<install, across, files, up, tidy, faults, crossed>>

\* systemd-run fails: nobody asks.
HandFails(a) ==
    /\ install # "opt" /\ apply[a] = "verified" /\ Fault
    /\ apply' = [apply EXCEPT ![a] = "exit"]
    /\ UNCHANGED <<install, across, files, up, tidy, helper, crossed>>

\* process.exit(0), 100 ms after the answer; the launcher goes with it.
Exits ==
    /\ \E a \in Applies : apply[a] = "exit"
    /\ Gone(helper)
    /\ UNCHANGED <<install, across, files, faults, crossed>>

Crashes ==
    /\ up # "none" /\ Fault
    /\ Gone(helper)
    /\ UNCHANGED <<install, across, files, crossed>>

\* init() of a server that has started.
Tidies ==
    /\ tidy /\ tidy' = FALSE
    /\ backup' = IF install = "opt" THEN backup ELSE "none"
    /\ UNCHANGED <<install, across, staged, target, up, apply, helper, faults, crossed>>

Launch == IF target \in Whole THEN up' = target /\ tidy' = TRUE ELSE UNCHANGED <<up, tidy>>

\* The user, or the system when it comes up, starts the program.
UserStarts ==
    /\ up = "none" /\ target \in Whole
    /\ Launch
    /\ crossed' = (crossed \/ \E a \in Applies : helper[a] \notin Over)
    /\ UNCHANGED <<install, across, files, apply, helper, faults>>

--------------------------------------------------------------------------------
(* The helper, and the script: swap_appimage and its callers.               *)

\* Mutant of Stops: the helper was spawned inside the unit, and goes with it.
Stops_Inside(a) ==
    /\ helper[a] = "stop"
    /\ Gone([helper EXCEPT ![a] = "dead"])
    /\ UNCHANGED <<install, across, files, faults, crossed>>

\* `systemctl stop`: every process of the unit is gone when it returns.
Stops(a) ==
    /\ helper[a] = "stop"
    /\ Gone([helper EXCEPT ![a] = "swap"])
    /\ UNCHANGED <<install, across, files, faults, crossed>>

At(a, stage) == helper' = [helper EXCEPT ![a] = stage]

\* The script ends with the first command that fails; its server, if it still runs, says so.
ScriptEnds(a) == At(a, "done") /\ apply' = [apply EXCEPT ![a] = "over"]

\* Mutant of Undo: what was moved aside is left there.
Undo_Not(a) ==
    IF install = "opt" THEN ScriptEnds(a) /\ UNCHANGED <<target, backup>>
    ELSE At(a, "broken") /\ UNCHANGED <<target, backup, apply>>

\* The move has failed: the helper restores the backup, the script does not.
Undo(a) ==
    IF install = "opt" THEN ScriptEnds(a) /\ UNCHANGED <<target, backup>>
    ELSE /\ At(a, "broken") /\ UNCHANGED apply
         /\ IF backup # "none" THEN target' = backup /\ backup' = "none"
                               ELSE UNCHANGED <<target, backup>>

\* The program, if it is there, becomes the backup.
Saves(a) ==
    /\ helper[a] = "swap" /\ staged # "none" /\ (target = "none" => install # "opt")
    /\ IF target = "none" THEN UNCHANGED <<target, backup>> ELSE target' = "none" /\ backup' = target
    /\ At(a, "moved") /\ Works(a)
    /\ UNCHANGED <<install, across, staged, up, tidy, apply, faults>>

\* No download, or, for `mv`, no program; or the directory cannot be written.
SaveFails(a) ==
    /\ helper[a] = "swap"
    /\ \/ (IF install = "opt" THEN target = "none" ELSE staged = "none") /\ UNCHANGED faults
       \/ Fault
    /\ IF install = "opt" THEN ScriptEnds(a) ELSE At(a, "broken") /\ UNCHANGED apply
    /\ UNCHANGED <<install, across, files, up, tidy, crossed>>

\* A rename; across file systems the first half of a copy.
Moves(a) ==
    /\ helper[a] = "moved" /\ staged # "none"
    /\ IF across THEN target' = "part" /\ At(a, "copy") /\ UNCHANGED staged
                 ELSE target' = staged /\ staged' = "none" /\ At(a, "mode")
    /\ Works(a)
    /\ UNCHANGED <<install, across, backup, up, tidy, apply, faults>>

\* The second half, and the removal of what was copied.
Copies(a) ==
    /\ helper[a] = "copy" /\ staged # "none"
    /\ target' = staged /\ staged' = "none"
    /\ At(a, "mode") /\ Works(a)
    /\ UNCHANGED <<install, across, backup, up, tidy, apply, faults>>

\* The download has vanished, or the disk is full.
MoveFails(a) ==
    /\ helper[a] \in {"moved", "copy"}
    /\ \/ staged = "none" /\ UNCHANGED faults
       \/ Fault
    /\ Undo(a) /\ Works(a)
    /\ UNCHANGED <<install, across, staged, up, tidy>>

\* chmod, and the label. The script has done its part: the server spawns a helper that waits
\* for its end; without a server nobody does.
Sets(a) ==
    /\ helper[a] = "mode"
    /\ IF install # "opt" THEN At(a, "start") /\ UNCHANGED apply
       ELSE IF apply[a] = "asking" THEN At(a, "wait") /\ apply' = [apply EXCEPT ![a] = "exit"]
       ELSE At(a, "done") /\ UNCHANGED apply
    /\ UNCHANGED <<install, across, files, up, tidy, faults, crossed>>

SetFails(a) ==
    /\ helper[a] = "mode" /\ Fault
    /\ IF install = "opt" THEN ScriptEnds(a) ELSE At(a, "broken") /\ UNCHANGED apply
    /\ UNCHANGED <<install, across, files, up, tidy, crossed>>

\* run_service_restart tries again for 15 s.
Retries(a) ==
    /\ install = "service" /\ helper[a] = "broken"
    /\ At(a, "swap")
    /\ UNCHANGED <<install, across, files, up, tidy, apply, faults, crossed>>

\* The end of a swap that failed: the download is removed, nothing is started.
GivesUp(a) ==
    /\ helper[a] = "broken"
    /\ staged' = "none" /\ At(a, "failed") /\ Works(a)
    /\ UNCHANGED <<install, across, target, backup, up, tidy, apply, faults>>

\* relaunch, or `systemctl start`: nothing happens when a program runs already, it has the lock.
Starts(a) ==
    /\ helper[a] = "start"
    /\ IF up = "none" THEN Launch ELSE UNCHANGED <<up, tidy>>
    /\ At(a, IF install = "opt" THEN "done" ELSE "clean")
    /\ UNCHANGED <<install, across, files, apply, faults, crossed>>

\* cleanup_apply_artifacts.
Cleans(a) ==
    /\ helper[a] = "clean"
    /\ staged' = "none" /\ At(a, "done") /\ Works(a)
    /\ UNCHANGED <<install, across, target, backup, up, tidy, apply, faults>>

\* A helper is killed, or the start fails.
Dies(a) ==
    /\ helper[a] \notin Over /\ Fault
    /\ At(a, "dead")
    /\ UNCHANGED <<install, across, files, up, tidy, apply, crossed>>

--------------------------------------------------------------------------------
Server(a) ==
    \/ Begins(a) \/ FetchFails(a) \/ Writes(a) \/ WriteFails(a) \/ Verifies(a)
    \/ \E ok \in BOOLEAN : Written(a, ok) \/ Rejects(a, ok)
    \/ Asks(a) \/ Declined(a) \/ Granted(a) \/ Hands(a) \/ HandFails(a)

Helper(a) ==
    \/ Stops(a) \/ Saves(a) \/ SaveFails(a) \/ Moves(a) \/ Copies(a) \/ MoveFails(a)
    \/ Sets(a) \/ SetFails(a) \/ Retries(a) \/ GivesUp(a) \/ Starts(a) \/ Cleans(a)

Next == \/ Exits \/ Crashes \/ Tidies \/ UserStarts
        \/ \E a \in Applies : Server(a) \/ Helper(a) \/ Dies(a)

\* Timers fire and processes run; a helper that cannot swap gives up in the end.
Fairness ==
    /\ WF_vars(Exits)
    /\ \A a \in Applies : WF_vars(Helper(a)) /\ SF_vars(GivesUp(a))

Spec == Init /\ [][Next]_vars /\ Fairness

--------------------------------------------------------------------------------
(* Properties.                                                              *)

\* Whatever fails and whoever is killed in an update, the program's file or its backup is a whole
\* program; helpers that came to their end, in success or in failure, leave one in its place:
\* unless two updates, or a start of the program, meet on the files. The script of pkexec does
\* not promise that.
ProgramKept ==
    install # "opt" /\ ~crossed =>
        /\ target \in Whole \/ backup \in Whole
        /\ (\A a \in Applies : helper[a] \in Over \ {"dead"}) => target \in Whole

\* A server that exits for an update comes back, and the update is installed, when nothing fails
\* and nobody gets in between.
ComesBack ==
    (\E a \in Applies : apply[a] = "exit")
        ~> (faults > 0 \/ crossed \/ (up # "none" /\ target = "new"))
================================================================================
