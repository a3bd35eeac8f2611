------------------------------- MODULE FilePush -------------------------------
(***************************************************************************)
(* Uploading files to a device: FilePushHandler and AdbkitFilePushStream in*)
(* the browser, one FilePushReader per upload on the server.  Each upload  *)
(* has a channel of its own, all channels share one WebSocket, and the     *)
(* browser sends a command only after the answer to the one before.  The   *)
(* reader collects the chunks in a temporary file and hands it to adb.     *)
(***************************************************************************)
EXTENDS Naturals, Sequences, SequencesExt

CONSTANTS Files,     \* uploads of the session
          Chunks,    \* chunks in a file
          Refused,   \* the files START is refused for, their size or their path
          FirstIds,  \* what earlier uploads of the server process may have left in fileId
          MaxInt16   \* largest push id an answer can carry (32767 in the code)

ASSUME FilesAssumption ==
    /\ Chunks \in Nat \ {0}
    /\ Refused \subseteq Files
    /\ FirstIds \subseteq Nat \ {0}
    /\ MaxInt16 \in Nat

PushId == 0..MaxInt16
RequestNewPushId == 0

\* Command and answer frames, tagged with the channel they travel on.
Msg(f, kind, id) == [file |-> f, kind |-> kind, id |-> id]

VARIABLES
    \* browser
    pc,        \* pc[f]: where pushFile(f) stands
    cid,       \* cid[f]: the id pushFile(f) works with, 0 before it has one
    count,     \* count[f]: chunks sent
    waiters,   \* responseWaiter: who waits for an answer, by push id, in order
    chC,       \* chC[f]: the browser's end of f's channel
    shown,     \* shown[f]: the last update its listeners were given
    unread,    \* files whose reading failed: their pushFile has ended, whatever pc says
    \* wire
    toS, toC,  \* frames on their way to the server and to the browser
    net,       \* the connection is up
    \* server
    fileId,    \* FilePushReader.fileId
    rstate,    \* rstate[f]: state of f's reader
    pushId,    \* pushId[f]: id of f's reader, 0 before NEW
    chS,       \* chS[f]: the server's end of f's channel
    written,   \* written[f]: chunks given to the write stream
    disk,      \* disk[f]: chunks in the temporary file
    tmp,       \* tmp[f]: the temporary file: absent, "opening" or "there"
    path,      \* path[f]: tempFilePath is set
    stage,     \* stage[f]: what FINISH awaits: "none", "end" or "push"
    source,    \* source[f]: adb was given a path that existed
    disposed,  \* disposed[f]
    early,     \* early[f]: unlink came before the file was created (history)
    device     \* device[f]: chunks that reached the device, 0 for none

client == <<pc, cid, count, waiters, chC, shown, unread>>
files  == <<written, disk, tmp, path, early>>
reader == <<fileId, rstate, pushId, chS, stage, source, disposed, device>>
vars   == <<client, toS, toC, net, reader, files>>

Stage == {"idle", "new", "start", "append", "finish", "go", "end"}

TypeOK ==
    /\ pc \in [Files -> Stage] /\ cid \in [Files -> PushId] /\ count \in [Files -> 0..Chunks]
    /\ waiters \in [PushId -> Seq(Files)]
    /\ chC \in [Files -> {"none", "open", "closed"}]
    /\ chS \in [Files -> {"none", "open", "closed"}]
    /\ shown \in [Files -> {"none", "progress", "success", "error"}]
    /\ unread \subseteq Files
    /\ net \in {"up", "down", "over"}
    /\ fileId \in Nat /\ pushId \in [Files -> Nat]
    /\ rstate \in [Files -> {"INITIAL", "NEW", "START", "APPEND", "FINISH"}]
    /\ written \in [Files -> Nat] /\ disk \in [Files -> Nat] /\ device \in [Files -> Nat]
    /\ tmp \in [Files -> {"none", "opening", "there"}]
    /\ path \in [Files -> BOOLEAN] /\ source \in [Files -> BOOLEAN]
    /\ stage \in [Files -> {"none", "end", "push"}]
    /\ disposed \in [Files -> BOOLEAN] /\ early \in [Files -> BOOLEAN]

Init ==
    /\ pc = [f \in Files |-> "idle"] /\ cid = [f \in Files |-> 0]
    /\ count = [f \in Files |-> 0] /\ waiters = [i \in PushId |-> <<>>]
    /\ chC = [f \in Files |-> "none"] /\ chS = [f \in Files |-> "none"]
    /\ shown = [f \in Files |-> "none"] /\ unread = {}
    /\ toS = <<>> /\ toC = <<>> /\ net = "up"
    /\ fileId \in FirstIds /\ pushId = [f \in Files |-> 0]
    /\ rstate = [f \in Files |-> "INITIAL"]
    /\ written = [f \in Files |-> 0] /\ disk = [f \in Files |-> 0]
    /\ tmp = [f \in Files |-> "none"] /\ path = [f \in Files |-> FALSE]
    /\ source = [f \in Files |-> FALSE] /\ stage = [f \in Files |-> "none"]
    /\ disposed = [f \in Files |-> FALSE] /\ early = [f \in Files |-> FALSE]
    /\ device = [f \in Files |-> 0]

-----------------------------------------------------------------------------
(* The browser.                                                             *)

\* waitForResponse: several uploads may wait under one id, first come first
\* served.
WaitFor(f, id) == waiters' = [waiters EXCEPT ![id] = Append(@, f)]

\* pushFile up to its first await: a channel of its own and a NEW command.
PushFile(f) ==
    /\ pc[f] = "idle" /\ net = "up"
    /\ pc'    = [pc EXCEPT ![f] = "new"]
    /\ chC'   = [chC EXCEPT ![f] = "open"]
    /\ shown' = [shown EXCEPT ![f] = "progress"]
    /\ toS'   = Append(toS, Msg(f, "NEW", RequestNewPushId))
    /\ WaitFor(f, RequestNewPushId)
    /\ UNCHANGED <<cid, count, unread, toC, net, reader, files>>

\* Mutant of Answered: the newest resolver is taken first.
Answered_Last ==
    LET m  == Head(toC)
        id == IF m.kind = "NEW_PUSH_ID" THEN RequestNewPushId ELSE m.id
    IN  [id |-> id, who |-> IF waiters[id] = <<>> THEN "nobody" ELSE Last(waiters[id])]

\* An answer settles the promise of whoever waits first under its id; NEW_PUSH_ID
\* is for those who asked for one.
Answered ==
    LET m  == Head(toC)
        id == IF m.kind = "NEW_PUSH_ID" THEN RequestNewPushId ELSE m.id
    IN  [id |-> id, who |-> IF waiters[id] = <<>> THEN "nobody" ELSE Head(waiters[id])]

Settle == [waiters EXCEPT ![Answered.id] = Tail(@)]

\* The id arrives: pushFile goes on to START at once, on the channel that brought
\* this id.
OnNewPushId ==
    /\ net = "up" /\ toC # <<>> /\ Head(toC).kind = "NEW_PUSH_ID"
    /\ LET m == Head(toC)
           f == Answered.who
       IN  /\ f # "nobody"
           /\ cid' = [cid EXCEPT ![f] = m.id]
           /\ pc'  = [pc EXCEPT ![f] = "start"]
           /\ waiters' = [Settle EXCEPT ![m.id] = Append(@, f)]
           /\ toS' = IF chC[m.file] = "open"
                       THEN Append(toS, [Msg(m.file, "START", m.id) EXCEPT !.kind =
                                           IF f \in Refused THEN "START_BAD" ELSE "START"])
                       ELSE toS
    /\ toC' = Tail(toC)
    /\ UNCHANGED <<count, chC, shown, unread, net, reader, files>>

\* An answer to START, APPEND or FINISH.  The last one ends pushFile; the others
\* let it go on as soon as the next piece of the file has been read, which does
\* nothing for one that has failed.  (An answer nobody waits for would be dropped;
\* here it would block the browser for good and break EveryPushReported.)
OnNoError ==
    /\ net = "up" /\ toC # <<>> /\ Head(toC).kind = "NO_ERROR"
    /\ LET f == Answered.who
       IN  /\ f # "nobody"
           /\ waiters' = Settle
           /\ IF pc[f] = "finish"
                THEN /\ pc' = [pc EXCEPT ![f] = "end"]
                     /\ shown' = [shown EXCEPT ![f] = "success"]
                ELSE /\ pc' = [pc EXCEPT ![f] = "go"]
                     /\ UNCHANGED shown
    /\ toC' = Tail(toC)
    /\ UNCHANGED <<cid, count, chC, unread, toS, net, reader, files>>

\* processData: show the progress, send the next chunk or FINISH.  On a channel
\* that closed meanwhile send() throws and pushFile ends without a word.
ProcessData(f) ==
    /\ pc[f] = "go" /\ f \notin unread
    /\ shown' = [shown EXCEPT ![f] = IF count[f] > 0 THEN "progress" ELSE @]
    /\ IF chC[f] # "open"
         THEN /\ pc' = [pc EXCEPT ![f] = "end"]
              /\ UNCHANGED <<count, waiters, toS>>
         ELSE LET more == count[f] < Chunks
              IN  /\ pc'    = [pc EXCEPT ![f] = IF more THEN "append" ELSE "finish"]
                  /\ count' = [count EXCEPT ![f] = IF more THEN @ + 1 ELSE @]
                  /\ toS'   = Append(toS, Msg(f, IF more THEN "APPEND" ELSE "FINISH", cid[f]))
                  /\ WaitFor(f, cid[f])
    /\ UNCHANGED <<cid, chC, unread, toC, net, reader, files>>

\* The file cannot be read (it is gone, or has changed): Promise.all rejects, also
\* before the answer that pushFile awaits has come, and nobody catches it. No word
\* to the listeners or to the server; the channel stays open.
ReadFails(f) ==
    /\ pc[f] \in {"start", "append", "go"} /\ f \notin unread
    /\ unread' = unread \cup {f}
    /\ UNCHANGED <<pc, cid, count, waiters, chC, shown, toS, toC, net, reader, files>>

\* onClose of the channel: anything but a clean close is reported as an error.
OnClose ==
    /\ net = "up" /\ toC # <<>> /\ Head(toC).kind \in {"CLEAN", "FAILED"}
    /\ LET m == Head(toC)
       IN  /\ chC'   = [chC EXCEPT ![m.file] = "closed"]
           /\ shown' = [shown EXCEPT ![m.file] =
                          IF m.kind = "FAILED" /\ chC[m.file] = "open" THEN "error" ELSE @]
    /\ toC' = Tail(toC)
    /\ UNCHANGED <<pc, cid, count, waiters, unread, toS, net, reader, files>>

-----------------------------------------------------------------------------
(* The server.                                                              *)

\* A reader that is gone has removed its listeners.  (The browser sends a command
\* only after the answer to the one before, so none comes to such a reader.)
Listening(f) == ~disposed[f] /\ chS[f] # "closed"

\* cleanupTempFile: unlink what tempFilePath names; a file that is still being
\* created is not there to be unlinked.
CleanupTempFile(f) ==
    /\ path'  = [path EXCEPT ![f] = FALSE]
    /\ tmp'   = [tmp EXCEPT ![f] = IF path[f] /\ @ = "there" THEN "none" ELSE @]
    /\ early' = [early EXCEPT ![f] = @ \/ (path[f] /\ tmp[f] = "opening")]

\* release, with the close frame of the channel if it is still open; closeWithError
\* closes the channel first, with its code.
Release(f, answers, how) ==
    /\ disposed' = [disposed EXCEPT ![f] = TRUE]
    /\ CleanupTempFile(f)
    /\ chS' = [chS EXCEPT ![f] = "closed"]
    /\ toC' = IF chS[f] = "open" THEN toC \o answers \o <<Msg(f, how, 0)>> ELSE toC

Arrived(f, kind) ==
    /\ net = "up" /\ toS # <<>>
    /\ Head(toS).file = f /\ Head(toS).kind = kind
    /\ toS' = Tail(toS)

\* NEW makes the reader's id.  An id above 32767 cannot be written in the answer:
\* the exception leaves the reader NEW and the browser without an answer.
OnNew(f) ==
    /\ Arrived(f, "NEW") /\ rstate[f] = "INITIAL"
    /\ rstate' = [rstate EXCEPT ![f] = "NEW"]
    /\ fileId' = fileId + 1
    /\ pushId' = [pushId EXCEPT ![f] = fileId + 1]
    /\ chS'    = [chS EXCEPT ![f] = "open"]
    /\ toC'    = IF fileId + 1 <= MaxInt16
                   THEN Append(toC, Msg(f, "NEW_PUSH_ID", fileId + 1)) ELSE toC
    /\ UNCHANGED <<client, net, stage, source, disposed, device, files>>

\* verifyId and the check of the state.
Expected(f, states) == Head(toS).id = pushId[f] /\ rstate[f] \in states

\* A command the reader refuses: wrong id, wrong state, bad name, no size.
Refuse(f) ==
    /\ Release(f, <<>>, "FAILED")
    /\ UNCHANGED <<client, net, fileId, rstate, pushId, stage, source, device, written, disk>>

\* START names the file: the reader opens a temporary file for it.
OnStart(f) ==
    /\ Listening(f)
    /\ \E kind \in {"START", "START_BAD"} : Arrived(f, kind)
    /\ IF Expected(f, {"NEW"}) /\ Head(toS).kind = "START"
         THEN /\ rstate' = [rstate EXCEPT ![f] = "START"]
              /\ path'   = [path EXCEPT ![f] = TRUE]
              /\ tmp'    = [tmp EXCEPT ![f] = "opening"]
              /\ toC'    = Append(toC, Msg(f, "NO_ERROR", pushId[f]))
              /\ UNCHANGED <<client, net, fileId, pushId, chS, stage, source, disposed, device,
                             written, disk, early>>
         ELSE Refuse(f)

OnAppend(f) ==
    /\ Listening(f) /\ Arrived(f, "APPEND")
    /\ IF Expected(f, {"START", "APPEND"})
         THEN /\ rstate'  = [rstate EXCEPT ![f] = "APPEND"]
              /\ written' = [written EXCEPT ![f] = @ + 1]
              /\ toC'     = Append(toC, Msg(f, "NO_ERROR", pushId[f]))
              /\ UNCHANGED <<client, net, fileId, pushId, chS, stage, source, disposed, device,
                             disk, tmp, path, early>>
         ELSE Refuse(f)

OnFinish(f) ==
    /\ Listening(f) /\ Arrived(f, "FINISH")
    /\ IF Expected(f, {"APPEND"})
         THEN /\ rstate' = [rstate EXCEPT ![f] = "FINISH"]
              /\ stage'  = [stage EXCEPT ![f] = "end"]
              /\ UNCHANGED <<client, toC, net, fileId, pushId, chS, source, disposed, device,
                             files>>
         ELSE Refuse(f)

\* Mutant of StreamEnded: adb starts before the stream has written everything.
StreamEnded_NoWait(f) ==
    /\ stage[f] = "end"
    /\ stage'  = [stage EXCEPT ![f] = "push"]
    /\ source' = [source EXCEPT ![f] = path[f]]
    /\ UNCHANGED <<client, toS, toC, net, fileId, rstate, pushId, chS, disposed, device, files>>

\* The stream has written everything: adb push is started on tempFilePath, which
\* is empty by now if the channel closed during the await.
StreamEnded(f) ==
    /\ stage[f] = "end" /\ tmp[f] # "opening" /\ disk[f] = written[f]
    /\ stage'  = [stage EXCEPT ![f] = "push"]
    /\ source' = [source EXCEPT ![f] = path[f]]
    /\ UNCHANGED <<client, toS, toC, net, fileId, rstate, pushId, chS, disposed, device, files>>

\* adb push is through: answer, remove the file, close the channel.
PushSucceeds(f) ==
    /\ stage[f] = "push" /\ source[f]
    /\ stage'  = [stage EXCEPT ![f] = "none"]
    /\ device' = [device EXCEPT ![f] = disk[f]]
    /\ Release(f, <<Msg(f, "NO_ERROR", pushId[f])>>, "CLEAN")
    /\ UNCHANGED <<client, toS, net, fileId, rstate, pushId, source, written, disk>>

\* Mutant of PushFails: the channel is closed with the default code 1000.
PushFails_Clean(f) ==
    /\ stage[f] = "push"
    /\ stage' = [stage EXCEPT ![f] = "none"]
    /\ Release(f, <<>>, "CLEAN")
    /\ UNCHANGED <<client, toS, net, fileId, rstate, pushId, source, device, written, disk>>

\* adb push fails: the channel is closed with an error code.
PushFails(f) ==
    /\ stage[f] = "push"
    /\ stage' = [stage EXCEPT ![f] = "none"]
    /\ Release(f, <<>>, "FAILED")
    /\ UNCHANGED <<client, toS, net, fileId, rstate, pushId, source, device, written, disk>>

\* The write stream creates its file and writes the chunks in the background.
FileCreated(f) ==
    /\ tmp[f] = "opening"
    /\ tmp' = [tmp EXCEPT ![f] = "there"]
    /\ UNCHANGED <<client, toS, toC, net, reader, written, disk, path, early>>

ChunkWritten(f) ==
    /\ tmp[f] # "opening" /\ disk[f] < written[f]
    /\ disk' = [disk EXCEPT ![f] = @ + 1]
    /\ UNCHANGED <<client, toS, toC, net, reader, written, tmp, path, early>>

-----------------------------------------------------------------------------
(* The end of the connection: the dialog is closed or the network is gone.  *)
(* Every channel dies with it, at each end in its own time.                 *)

\* Mutant of ServerLoses: release leaves the temporary files.
ServerLoses_NoCleanup ==
    /\ net # "up" /\ \E f \in Files : chS[f] = "open"
    /\ disposed' = [f \in Files |-> disposed[f] \/ chS[f] = "open"]
    /\ chS'   = [f \in Files |-> IF chS[f] = "open" THEN "closed" ELSE chS[f]]
    /\ UNCHANGED <<client, toS, toC, net, fileId, rstate, pushId, stage, source, device, files>>

\* The dialog hangs up and no longer listens.
Leave ==
    /\ net = "up"
    /\ net' = "over" /\ toS' = <<>> /\ toC' = <<>>
    /\ UNCHANGED <<client, reader, files>>

\* The connection breaks: each channel's unclean close is an error.
Break ==
    /\ net = "up"
    /\ net' = "down" /\ toS' = <<>> /\ toC' = <<>>
    /\ shown' = [f \in Files |-> IF chC[f] = "open" THEN "error" ELSE shown[f]]
    /\ chC'   = [f \in Files |-> IF chC[f] = "open" THEN "closed" ELSE chC[f]]
    /\ UNCHANGED <<pc, cid, count, waiters, unread, reader, files>>

\* The server's readers are told.
ServerLoses ==
    /\ net # "up" /\ \E f \in Files : chS[f] = "open"
    /\ disposed' = [f \in Files |-> disposed[f] \/ chS[f] = "open"]
    /\ path'  = [f \in Files |-> path[f] /\ chS[f] # "open"]
    /\ tmp'   = [f \in Files |-> IF chS[f] = "open" /\ path[f] /\ tmp[f] = "there"
                                   THEN "none" ELSE tmp[f]]
    /\ early' = [f \in Files |-> early[f] \/ (chS[f] = "open" /\ path[f] /\ tmp[f] = "opening")]
    /\ chS'   = [f \in Files |-> IF chS[f] = "open" THEN "closed" ELSE chS[f]]
    /\ UNCHANGED <<client, toS, toC, net, fileId, rstate, pushId, stage, source, device,
                   written, disk>>

-----------------------------------------------------------------------------
Next ==
    \/ \E f \in Files : \/ PushFile(f) \/ ProcessData(f) \/ ReadFails(f)
                        \/ OnNew(f) \/ OnStart(f) \/ OnAppend(f) \/ OnFinish(f)
                        \/ StreamEnded(f) \/ PushSucceeds(f) \/ PushFails(f)
                        \/ FileCreated(f) \/ ChunkWritten(f)
    \/ OnNewPushId \/ OnNoError \/ OnClose \/ Leave \/ Break \/ ServerLoses

\* Event loops, file system and adb get on with their work; users and the network
\* owe nothing.
Fairness ==
    /\ WF_vars(OnNewPushId) /\ WF_vars(OnNoError) /\ WF_vars(OnClose) /\ WF_vars(ServerLoses)
    /\ \A f \in Files :
          /\ WF_vars(ProcessData(f)) /\ WF_vars(OnNew(f)) /\ WF_vars(OnStart(f))
          /\ WF_vars(OnAppend(f)) /\ WF_vars(OnFinish(f))
          /\ WF_vars(StreamEnded(f)) /\ WF_vars(PushSucceeds(f) \/ PushFails(f))
          /\ WF_vars(FileCreated(f)) /\ WF_vars(ChunkWritten(f))

Spec     == Init /\ [][Next]_vars
FairSpec == Spec /\ Fairness

-----------------------------------------------------------------------------
(* Properties.                                                              *)

\* All uploads ask for their id under the same key 0 and take the answers in
\* turn: still, each gets the id of the reader on its own channel.
IdsMatch == \A f \in Files : cid[f] # 0 => cid[f] = pushId[f]

\* What reaches the device is the whole file, never the part that happened to be
\* written, and nobody is told of a success before.
WholeFile ==
    \A f \in Files : /\ device[f] \in {0, Chunks}
                     /\ shown[f] = "success" => device[f] = Chunks

\* A reader that is through leaves no temporary file, unless its unlink came while
\* the file was still being created.
TempFilesGone ==
    \A f \in Files : disposed[f] /\ stage[f] = "none" /\ tmp[f] # "none" => early[f]

\* The user learns how each upload ends: whenever pushFile waits for an answer, a
\* success or an error is shown in the end, unless the dialog is closed. Two uploads
\* end without a word, one whose file cannot be read and one whose id does not fit its
\* answer; the others are not held up by them, although all share the key 0.
EveryPushReported ==
    \A f \in Files : (pc[f] \in {"new", "start", "append", "finish"})
                       ~> \/ shown[f] \in {"success", "error"} \/ net = "over"
                          \/ f \in unread \/ pushId[f] > MaxInt16

=============================================================================
