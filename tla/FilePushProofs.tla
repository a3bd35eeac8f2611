---------------------------- MODULE FilePushProofs ----------------------------
(***************************************************************************)
(* Theorems about uploads: for any number of files, of chunks and of ids.  *)
(* Part I: types and temporary files.  Part II: the conversation of the    *)
(* two ends, one word at a time for each file, and the queue of those who  *)
(* wait for an id; from it, IdsMatch and WholeFile.                        *)
(***************************************************************************)
EXTENDS FilePush, TLAPS

\* Every id on the wire is one that an answer can carry, and so is that of a reader that has one
\* from START on.
Frame == [file : Files,
          kind : {"NEW", "START", "START_BAD", "APPEND", "FINISH", "NEW_PUSH_ID", "NO_ERROR",
                  "CLEAN", "FAILED"},
          id   : PushId]

Wire == toS \in Seq(Frame) /\ toC \in Seq(Frame)

Numbered == \A f \in Files : stage[f] # "none" => pushId[f] \in PushId

\* A reader awaits nothing before FINISH.
Asleep == \A f \in Files : stage[f] # "none" => rstate[f] = "FINISH"

IInv == TypeOK /\ Wire /\ Numbered /\ Asleep

LEMMA FrameTyped ==
    ASSUME NEW f \in Files, NEW id \in PushId,
           NEW kind \in {"NEW", "START", "START_BAD", "APPEND", "FINISH", "NEW_PUSH_ID", "NO_ERROR",
                         "CLEAN", "FAILED"}
    PROVE  Msg(f, kind, id) \in Frame
BY DEF Msg, Frame

LEMMA Sends == ASSUME NEW s \in Seq(Frame), NEW m \in Frame PROVE Append(s, m) \in Seq(Frame)
OBVIOUS

LEMMA Joins == ASSUME NEW s \in Seq(Frame), NEW t \in Seq(Frame) PROVE s \o t \in Seq(Frame)
OBVIOUS

LEMMA Zero == 0 \in PushId /\ RequestNewPushId \in PushId
BY FilesAssumption DEF FilesAssumption, PushId, RequestNewPushId

LEMMA InitHolds == Init => IInv
<1> SUFFICES ASSUME Init PROVE IInv
  OBVIOUS
<1>1. Wire /\ Numbered /\ Asleep
  BY DEF Init, Wire, Numbered, Asleep
<1>2. pc \in [Files -> Stage] /\ cid \in [Files -> PushId] /\ count \in [Files -> 0..Chunks]
  BY Zero, FilesAssumption DEF FilesAssumption, Init, Stage
<1>3. waiters \in [PushId -> Seq(Files)]
  BY DEF Init
<1>4. /\ path \in [Files -> BOOLEAN] /\ source \in [Files -> BOOLEAN]
      /\ disposed \in [Files -> BOOLEAN] /\ early \in [Files -> BOOLEAN]
  BY DEF Init
<1>5. /\ written \in [Files -> Nat] /\ disk \in [Files -> Nat] /\ device \in [Files -> Nat]
      /\ fileId \in Nat /\ pushId \in [Files -> Nat]
  BY FilesAssumption DEF FilesAssumption, Init
<1>6. TypeOK
  BY <1>2, <1>3, <1>4, <1>5 DEF Init, TypeOK
<1> QED
  BY <1>1, <1>6 DEF IInv

--------------------------------------------------------------------------------
(* The browser.                                                             *)

\* What the browser does leaves the server's state alone.
LEMMA BrowserKeeps ==
    ASSUME IInv, UNCHANGED <<reader, files, net>>, Wire',
           pc' \in [Files -> Stage], cid' \in [Files -> PushId], count' \in [Files -> 0..Chunks],
           waiters' \in [PushId -> Seq(Files)], chC' \in [Files -> {"none", "open", "closed"}],
           shown' \in [Files -> {"none", "progress", "success", "error"}], unread' \subseteq Files
    PROVE  IInv'
<1>1. Numbered' /\ Asleep'
  BY DEF IInv, Numbered, Asleep, reader
<1> QED
  BY <1>1 DEF IInv, TypeOK, reader, files

LEMMA WaitTyped ==
    ASSUME TypeOK, NEW f \in Files, NEW id \in PushId, WaitFor(f, id)
    PROVE  waiters' \in [PushId -> Seq(Files)]
BY DEF TypeOK, WaitFor

\* The answer is for somebody who waits for it.
LEMMA AnswerTyped ==
    ASSUME TypeOK, Wire, toC # <<>>, Answered.who # "nobody"
    PROVE  /\ Head(toC) \in Frame /\ Tail(toC) \in Seq(Frame)
           /\ Answered.id \in PushId /\ Answered.who \in Files
           /\ Settle \in [PushId -> Seq(Files)]
<1>1. Head(toC) \in Frame /\ Tail(toC) \in Seq(Frame)
  BY DEF Wire
<1>2. Answered.id \in PushId
  BY <1>1, Zero DEF Answered, Frame
<1>3. waiters[Answered.id] \in Seq(Files)
  BY <1>2 DEF TypeOK
<1>4. waiters[Answered.id] # <<>> /\ Answered.who = Head(waiters[Answered.id])
  BY DEF Answered
<1>5. Answered.who \in Files /\ Tail(waiters[Answered.id]) \in Seq(Files)
  BY <1>3, <1>4
<1>6. Settle \in [PushId -> Seq(Files)]
  BY <1>2, <1>5 DEF Settle, TypeOK
<1> QED
  BY <1>1, <1>2, <1>5, <1>6

LEMMA PushFileKeeps == ASSUME IInv, NEW f \in Files, PushFile(f) PROVE IInv'
<1>1. Msg(f, "NEW", RequestNewPushId) \in Frame
  BY FrameTyped, Zero
<1>2. Wire'
  BY <1>1 DEF IInv, Wire, PushFile
<1>3. waiters' \in [PushId -> Seq(Files)]
  BY WaitTyped, Zero DEF IInv, PushFile
<1> QED
  BY <1>2, <1>3, BrowserKeeps DEF IInv, TypeOK, Stage, PushFile

LEMMA OnNewPushIdKeeps == ASSUME IInv, OnNewPushId PROVE IInv'
<1> DEFINE m == Head(toC)
           f == Answered.who
<1>1. /\ f # "nobody" /\ toC # <<>>
      /\ cid' = [cid EXCEPT ![f] = m.id] /\ pc' = [pc EXCEPT ![f] = "start"]
      /\ waiters' = [Settle EXCEPT ![m.id] = Append(@, f)]
      /\ toC' = Tail(toC) /\ UNCHANGED <<count, chC, shown, net, unread, reader, files>>
  BY DEF OnNewPushId
<1>2. m \in Frame /\ Tail(toC) \in Seq(Frame) /\ f \in Files /\ Settle \in [PushId -> Seq(Files)]
  BY <1>1, AnswerTyped DEF IInv
<1>3. m.id \in PushId /\ m.file \in Files
  BY <1>2 DEF Frame
<1>4. \/ toS' = toS
      \/ toS' = Append(toS, Msg(m.file, "START", m.id))
      \/ toS' = Append(toS, Msg(m.file, "START_BAD", m.id))
  BY DEF OnNewPushId, Msg
<1>5. Msg(m.file, "START", m.id) \in Frame /\ Msg(m.file, "START_BAD", m.id) \in Frame
  BY <1>3, FrameTyped
<1> HIDE DEF m, f
<1>6. Wire'
  <2>1. toS \in Seq(Frame)
    BY DEF IInv, Wire
  <2>2. toS' \in Seq(Frame)
    BY <1>4, <1>5, <2>1, Sends
  <2> QED
    BY <1>1, <1>2, <2>2 DEF Wire
<1>7. waiters' \in [PushId -> Seq(Files)]
  BY <1>1, <1>2, <1>3
<1>8. cid' \in [Files -> PushId] /\ pc' \in [Files -> Stage]
  BY <1>1, <1>2, <1>3 DEF IInv, TypeOK, Stage
<1> QED
  BY <1>1, <1>6, <1>7, <1>8, BrowserKeeps DEF IInv, TypeOK

LEMMA OnNoErrorKeeps == ASSUME IInv, OnNoError PROVE IInv'
<1> DEFINE f == Answered.who
<1>1. /\ f # "nobody" /\ toC # <<>> /\ waiters' = Settle
      /\ toC' = Tail(toC) /\ UNCHANGED <<cid, count, chC, toS, net, unread, reader, files>>
      /\ \/ pc' = [pc EXCEPT ![f] = "end"] /\ shown' = [shown EXCEPT ![f] = "success"]
         \/ pc' = [pc EXCEPT ![f] = "go"] /\ shown' = shown
  BY DEF OnNoError
<1>2. Tail(toC) \in Seq(Frame) /\ f \in Files /\ Settle \in [PushId -> Seq(Files)]
  BY <1>1, AnswerTyped DEF IInv
<1> HIDE DEF f
<1>3. Wire'
  BY <1>1, <1>2 DEF IInv, Wire
<1>4. pc' \in [Files -> Stage] /\ shown' \in [Files -> {"none", "progress", "success", "error"}]
  <2>1. pc' \in [Files -> Stage]
    <3>1. pc \in [Files -> Stage] /\ "end" \in Stage /\ "go" \in Stage
      BY DEF IInv, TypeOK, Stage
    <3>2. pc' = [pc EXCEPT ![f] = "end"] \/ pc' = [pc EXCEPT ![f] = "go"]
      BY <1>1
    <3> QED
      BY <1>2, <3>1, <3>2
  <2>2. shown' \in [Files -> {"none", "progress", "success", "error"}]
    BY <1>1, <1>2 DEF IInv, TypeOK
  <2> QED
    BY <2>1, <2>2
<1> QED
  BY <1>1, <1>2, <1>3, <1>4, BrowserKeeps DEF IInv, TypeOK

LEMMA ProcessDataKeeps == ASSUME IInv, NEW f \in Files, ProcessData(f) PROVE IInv'
<1>1. cid[f] \in PushId /\ count[f] \in 0..Chunks /\ Chunks \in Nat
  BY FilesAssumption DEF FilesAssumption, IInv, TypeOK
<1>2. Msg(f, "APPEND", cid[f]) \in Frame /\ Msg(f, "FINISH", cid[f]) \in Frame
  BY <1>1, FrameTyped
<1>3. \/ UNCHANGED <<count, waiters, toS>>
      \/ /\ \/ toS' = Append(toS, Msg(f, "APPEND", cid[f]))
            \/ toS' = Append(toS, Msg(f, "FINISH", cid[f]))
         /\ WaitFor(f, cid[f])
         /\ count' = [count EXCEPT ![f] = IF count[f] < Chunks THEN @ + 1 ELSE @]
  BY DEF ProcessData
<1>4. Wire'
  <2>1. toS \in Seq(Frame) /\ toC \in Seq(Frame) /\ toC' = toC
    BY DEF ProcessData, IInv, Wire
  <2>2. toS' \in Seq(Frame)
    BY <1>2, <1>3, <2>1, Sends
  <2> QED
    BY <2>1, <2>2 DEF Wire
<1>5. waiters' \in [PushId -> Seq(Files)]
  BY <1>1, <1>3, WaitTyped DEF IInv, TypeOK
<1>6. count' \in [Files -> 0..Chunks]
  <2>1. count \in [Files -> 0..Chunks]
    BY DEF IInv, TypeOK
  <2>2. (IF count[f] < Chunks THEN count[f] + 1 ELSE count[f]) \in 0..Chunks
    BY <1>1
  <2>3. count' = count \/ count' = [count EXCEPT ![f] = IF count[f] < Chunks THEN count[f] + 1 ELSE count[f]]
    BY <1>3
  <2> QED
    BY <2>1, <2>2, <2>3
<1>7. pc' \in [Files -> Stage] /\ shown' \in [Files -> {"none", "progress", "success", "error"}]
  <2>1. pc \in [Files -> Stage] /\ shown \in [Files -> {"none", "progress", "success", "error"}]
    BY DEF IInv, TypeOK
  <2>2. \/ pc' = [pc EXCEPT ![f] = "end"]
        \/ pc' = [pc EXCEPT ![f] = "append"]
        \/ pc' = [pc EXCEPT ![f] = "finish"]
    BY DEF ProcessData
  <2>3. shown' = [shown EXCEPT ![f] = "progress"] \/ shown' = shown
    <3>1. shown' = [shown EXCEPT ![f] = IF count[f] > 0 THEN "progress" ELSE @]
      BY DEF ProcessData
    <3> QED
      BY <2>1, <3>1
  <2>4. pc' \in [Files -> Stage]
    BY <2>1, <2>2 DEF Stage
  <2> QED
    BY <2>1, <2>3, <2>4
<1>8. UNCHANGED <<cid, chC, net, unread, reader, files>>
  BY DEF ProcessData
<1> QED
  BY <1>4, <1>5, <1>6, <1>7, <1>8, BrowserKeeps DEF IInv, TypeOK

LEMMA ReadFailsKeeps == ASSUME IInv, NEW f \in Files, ReadFails(f) PROVE IInv'
<1>1. UNCHANGED <<pc, cid, count, waiters, chC, shown, toS, toC, net, reader, files>>
  BY DEF ReadFails
<1>2. unread' \subseteq Files
  BY DEF ReadFails, IInv, TypeOK
<1> QED
  BY <1>1, <1>2, BrowserKeeps DEF IInv, TypeOK, Wire

LEMMA OnCloseKeeps == ASSUME IInv, OnClose PROVE IInv'
<1>1. Head(toC) \in Frame /\ Tail(toC) \in Seq(Frame)
  BY DEF OnClose, IInv, Wire
<1>2. Head(toC).file \in Files
  BY <1>1 DEF Frame
<1>3. Wire'
  BY <1>1 DEF OnClose, IInv, Wire
<1>4. chC' \in [Files -> {"none", "open", "closed"}]
        /\ shown' \in [Files -> {"none", "progress", "success", "error"}]
  BY <1>2 DEF OnClose, IInv, TypeOK
<1>5. UNCHANGED <<pc, cid, count, waiters, net, unread, reader, files>>
  BY DEF OnClose
<1> QED
  BY <1>3, <1>4, <1>5, BrowserKeeps DEF IInv, TypeOK

--------------------------------------------------------------------------------
(* The server.                                                              *)

\* What a reader does leaves the browser's state alone.
LEMMA ReaderKeeps ==
    ASSUME IInv, UNCHANGED <<client, net>>, Wire', Numbered', Asleep',
           fileId' \in Nat, pushId' \in [Files -> Nat],
           rstate' \in [Files -> {"INITIAL", "NEW", "START", "APPEND", "FINISH"}],
           chS' \in [Files -> {"none", "open", "closed"}], stage' \in [Files -> {"none", "end", "push"}],
           source' \in [Files -> BOOLEAN], disposed' \in [Files -> BOOLEAN],
           device' \in [Files -> Nat], written' \in [Files -> Nat], disk' \in [Files -> Nat],
           tmp' \in [Files -> {"none", "opening", "there"}], path' \in [Files -> BOOLEAN],
           early' \in [Files -> BOOLEAN]
    PROVE  IInv'
BY DEF IInv, TypeOK, client

LEMMA ReleaseTyped ==
    ASSUME IInv, NEW f \in Files, NEW answers \in Seq(Frame), NEW how \in {"CLEAN", "FAILED"},
           Release(f, answers, how)
    PROVE  /\ disposed' \in [Files -> BOOLEAN] /\ path' \in [Files -> BOOLEAN]
           /\ early' \in [Files -> BOOLEAN] /\ tmp' \in [Files -> {"none", "opening", "there"}]
           /\ chS' \in [Files -> {"none", "open", "closed"}] /\ toC' \in Seq(Frame)
<1>1. disposed' \in [Files -> BOOLEAN] /\ path' \in [Files -> BOOLEAN]
  BY DEF Release, CleanupTempFile, IInv, TypeOK
<1>2. early' \in [Files -> BOOLEAN]
  <2>1. (early[f] \/ (path[f] /\ tmp[f] = "opening")) \in BOOLEAN
    OBVIOUS
  <2>2. early' = [early EXCEPT ![f] = early[f] \/ (path[f] /\ tmp[f] = "opening")]
    BY DEF Release, CleanupTempFile
  <2> DEFINE now == early[f] \/ (path[f] /\ tmp[f] = "opening")
  <2> HIDE DEF now
  <2>3. now \in BOOLEAN /\ early' = [early EXCEPT ![f] = now]
    BY <2>1, <2>2 DEF now
  <2> QED
    BY <2>3 DEF IInv, TypeOK
<1>3. tmp' \in [Files -> {"none", "opening", "there"}]
  BY DEF Release, CleanupTempFile, IInv, TypeOK
<1>4. chS' \in [Files -> {"none", "open", "closed"}]
  BY DEF Release, IInv, TypeOK
<1>5. toC' \in Seq(Frame)
  <2>1. Msg(f, how, 0) \in Frame
    BY FrameTyped, Zero
  <2>2. toC' = toC \/ toC' = toC \o answers \o <<Msg(f, how, 0)>>
    BY DEF Release
  <2>3. toC \in Seq(Frame) /\ <<Msg(f, how, 0)>> \in Seq(Frame)
    BY <2>1 DEF IInv, Wire
  <2> DEFINE close == <<Msg(f, how, 0)>>
  <2>4. close \in Seq(Frame) /\ (toC' = toC \/ toC' = (toC \o answers) \o close)
    BY <2>2, <2>3
  <2> HIDE DEF close
  <2>5. toC \o answers \in Seq(Frame)
    BY <2>3, Joins
  <2>6. (toC \o answers) \o close \in Seq(Frame)
    BY <2>4, <2>5, Joins
  <2> QED
    BY <2>3, <2>4, <2>6
<1> QED
  BY <1>1, <1>2, <1>3, <1>4, <1>5

LEMMA ArrivedTyped ==
    ASSUME IInv, NEW f \in Files, NEW kind, Arrived(f, kind)
    PROVE  Head(toS).id \in PushId /\ toS' \in Seq(Frame)
<1>1. Head(toS) \in Frame /\ Tail(toS) \in Seq(Frame)
  BY DEF Arrived, IInv, Wire
<1> QED
  BY <1>1 DEF Arrived, Frame

LEMMA RefuseKeeps ==
    ASSUME IInv, NEW f \in Files, Refuse(f), toS' \in Seq(Frame)
    PROVE  IInv'
<1>1. <<>> \in Seq(Frame)
  OBVIOUS
<1>2. /\ disposed' \in [Files -> BOOLEAN] /\ path' \in [Files -> BOOLEAN]
      /\ early' \in [Files -> BOOLEAN] /\ tmp' \in [Files -> {"none", "opening", "there"}]
      /\ chS' \in [Files -> {"none", "open", "closed"}] /\ toC' \in Seq(Frame)
  BY <1>1, ReleaseTyped DEF Refuse
<1>3. UNCHANGED <<client, net, fileId, rstate, pushId, stage, source, device, written, disk>>
  BY DEF Refuse
<1>4. Numbered' /\ Asleep' /\ Wire'
  BY <1>2, <1>3 DEF IInv, Numbered, Asleep, Wire
<1> QED
  BY <1>2, <1>3, <1>4, ReaderKeeps DEF IInv, TypeOK

LEMMA OnNewKeeps == ASSUME IInv, NEW f \in Files, OnNew(f) PROVE IInv'
<1>1. toS' \in Seq(Frame)
  BY ArrivedTyped DEF OnNew
<1>2. fileId \in Nat /\ MaxInt16 \in Nat
  BY FilesAssumption DEF FilesAssumption, IInv, TypeOK
<1>3. toC' \in Seq(Frame)
  <2>1. CASE fileId + 1 <= MaxInt16
    <3>1. fileId + 1 \in PushId
      BY <1>2, <2>1 DEF PushId
    <3>2. Msg(f, "NEW_PUSH_ID", fileId + 1) \in Frame
      BY <3>1, FrameTyped
    <3> QED
      BY <2>1, <3>2, Sends DEF OnNew, IInv, Wire
  <2>2. CASE ~(fileId + 1 <= MaxInt16)
    BY <2>2 DEF OnNew, IInv, Wire
  <2> QED
    BY <2>1, <2>2
<1>4. UNCHANGED <<client, net, stage, source, disposed, device, files>>
  BY DEF OnNew
<1>5. fileId' \in Nat /\ pushId' \in [Files -> Nat] /\ chS' \in [Files -> {"none", "open", "closed"}]
  BY <1>2 DEF OnNew, IInv, TypeOK
<1>6. rstate' \in [Files -> {"INITIAL", "NEW", "START", "APPEND", "FINISH"}]
  BY DEF OnNew, IInv, TypeOK
<1>7. Numbered' /\ Asleep'
  <2>1. stage[f] = "none"
    BY DEF OnNew, IInv, Asleep
  <2>2. stage' = stage /\ \A g \in Files \ {f} : pushId'[g] = pushId[g] /\ rstate'[g] = rstate[g]
    BY <1>4 DEF OnNew, IInv, TypeOK
  <2> QED
    BY <2>1, <2>2 DEF IInv, Numbered, Asleep
<1> QED
  BY <1>1, <1>3, <1>4, <1>5, <1>6, <1>7, ReaderKeeps DEF IInv, TypeOK, Wire, files

\* A command that is as expected is answered with the id it came with.
LEMMA AnswersKnown ==
    ASSUME IInv, NEW f \in Files, NEW kind, Arrived(f, kind), NEW states, Expected(f, states)
    PROVE  pushId[f] \in PushId /\ Append(toC, Msg(f, "NO_ERROR", pushId[f])) \in Seq(Frame)
<1>1. pushId[f] \in PushId
  BY ArrivedTyped DEF Expected
<1>2. Msg(f, "NO_ERROR", pushId[f]) \in Frame
  BY <1>1, FrameTyped
<1> QED
  BY <1>1, <1>2, Sends DEF IInv, Wire

LEMMA OnStartKeeps == ASSUME IInv, NEW f \in Files, OnStart(f) PROVE IInv'
<1>1. PICK kind \in {"START", "START_BAD"} : Arrived(f, kind)
  BY DEF OnStart
<1>2. toS' \in Seq(Frame)
  BY <1>1, ArrivedTyped
<1>3. CASE Refuse(f)
  BY <1>2, <1>3, RefuseKeeps
<1>4. CASE Expected(f, {"NEW"}) /\ ~Refuse(f)
  <2>1. /\ rstate' = [rstate EXCEPT ![f] = "START"] /\ path' = [path EXCEPT ![f] = TRUE]
        /\ tmp' = [tmp EXCEPT ![f] = "opening"] /\ toC' = Append(toC, Msg(f, "NO_ERROR", pushId[f]))
        /\ UNCHANGED <<client, net, fileId, pushId, chS, stage, source, disposed, device,
                       written, disk, early>>
    BY <1>4 DEF OnStart
  <2>2. toC' \in Seq(Frame)
    BY <1>1, <1>4, <2>1, AnswersKnown
  <2>3. Wire'
    BY <1>2, <2>2 DEF Wire
  <2>4. Numbered' /\ Asleep'
    <3>1. rstate[f] = "NEW"
      BY <1>4 DEF Expected
    <3> QED
      BY <2>1, <3>1 DEF IInv, TypeOK, Numbered, Asleep
  <2>5. path' \in [Files -> BOOLEAN]
    BY <2>1 DEF IInv, TypeOK
  <2>6. /\ rstate' \in [Files -> {"INITIAL", "NEW", "START", "APPEND", "FINISH"}]
        /\ tmp' \in [Files -> {"none", "opening", "there"}]
    BY <2>1 DEF IInv, TypeOK
  <2> QED
    BY <2>1, <2>3, <2>4, <2>5, <2>6, ReaderKeeps DEF IInv, TypeOK
<1> QED
  BY <1>3, <1>4 DEF OnStart

LEMMA OnAppendKeeps == ASSUME IInv, NEW f \in Files, OnAppend(f) PROVE IInv'
<1>1. toS' \in Seq(Frame)
  BY ArrivedTyped DEF OnAppend
<1>2. CASE Refuse(f)
  BY <1>1, <1>2, RefuseKeeps
<1>3. CASE Expected(f, {"START", "APPEND"}) /\ ~Refuse(f)
  <2>1. /\ rstate' = [rstate EXCEPT ![f] = "APPEND"] /\ written' = [written EXCEPT ![f] = @ + 1]
        /\ toC' = Append(toC, Msg(f, "NO_ERROR", pushId[f]))
        /\ UNCHANGED <<client, net, fileId, pushId, chS, stage, source, disposed, device,
                       disk, tmp, path, early>>
    BY <1>3 DEF OnAppend
  <2>2. toC' \in Seq(Frame)
    BY <1>3, <2>1, AnswersKnown DEF OnAppend
  <2>3. Wire'
    BY <1>1, <2>2 DEF Wire
  <2>4. Numbered' /\ Asleep'
    <3>1. rstate[f] # "FINISH"
      BY <1>3 DEF Expected
    <3> QED
      BY <2>1, <3>1 DEF IInv, TypeOK, Numbered, Asleep
  <2>5. written' \in [Files -> Nat]
    BY <2>1 DEF IInv, TypeOK
  <2>6. rstate' \in [Files -> {"INITIAL", "NEW", "START", "APPEND", "FINISH"}]
    BY <2>1 DEF IInv, TypeOK
  <2> QED
    BY <2>1, <2>3, <2>4, <2>5, <2>6, ReaderKeeps DEF IInv, TypeOK
<1> QED
  BY <1>2, <1>3 DEF OnAppend

LEMMA OnFinishKeeps == ASSUME IInv, NEW f \in Files, OnFinish(f) PROVE IInv'
<1>1. toS' \in Seq(Frame)
  BY ArrivedTyped DEF OnFinish
<1>2. CASE Refuse(f)
  BY <1>1, <1>2, RefuseKeeps
<1>3. CASE Expected(f, {"APPEND"}) /\ ~Refuse(f)
  <2>1. /\ rstate' = [rstate EXCEPT ![f] = "FINISH"] /\ stage' = [stage EXCEPT ![f] = "end"]
        /\ UNCHANGED <<client, toC, net, fileId, pushId, chS, source, disposed, device, files>>
    BY <1>3 DEF OnFinish
  <2>2. pushId[f] \in PushId
    BY <1>3, AnswersKnown DEF OnFinish
  <2>3. Wire'
    BY <1>1, <2>1 DEF IInv, Wire
  <2>4. Numbered' /\ Asleep'
    BY <2>1, <2>2 DEF IInv, TypeOK, Numbered, Asleep
  <2>5. /\ rstate' \in [Files -> {"INITIAL", "NEW", "START", "APPEND", "FINISH"}]
        /\ stage' \in [Files -> {"none", "end", "push"}]
    BY <2>1 DEF IInv, TypeOK
  <2> QED
    BY <2>1, <2>3, <2>4, <2>5, ReaderKeeps DEF IInv, TypeOK, files
<1> QED
  BY <1>2, <1>3 DEF OnFinish

LEMMA PushKeeps ==
    ASSUME IInv, NEW f \in Files, StreamEnded(f) \/ PushSucceeds(f) \/ PushFails(f)
    PROVE  IInv'
<1>1. CASE StreamEnded(f)
  <2>1. stage[f] = "end" /\ stage' = [stage EXCEPT ![f] = "push"] /\ source' = [source EXCEPT ![f] = path[f]]
        /\ UNCHANGED <<client, toS, toC, net, fileId, rstate, pushId, chS, disposed, device, files>>
    BY <1>1 DEF StreamEnded
  <2>2. Wire' /\ Numbered' /\ Asleep'
    BY <2>1 DEF IInv, TypeOK, Wire, Numbered, Asleep
  <2>3. stage' \in [Files -> {"none", "end", "push"}] /\ source' \in [Files -> BOOLEAN]
    BY <2>1 DEF IInv, TypeOK
  <2> QED
    BY <2>1, <2>2, <2>3, ReaderKeeps DEF IInv, TypeOK, files
<1>2. CASE PushSucceeds(f)
  <2> DEFINE answers == <<Msg(f, "NO_ERROR", pushId[f])>>
  <2>1. /\ stage[f] = "push" /\ stage' = [stage EXCEPT ![f] = "none"]
        /\ device' = [device EXCEPT ![f] = disk[f]] /\ Release(f, answers, "CLEAN")
        /\ UNCHANGED <<client, toS, net, fileId, rstate, pushId, source, written, disk>>
    BY <1>2 DEF PushSucceeds
  <2>2. pushId[f] \in PushId
    BY <2>1 DEF IInv, Numbered
  <2>3. answers \in Seq(Frame)
    <3>1. Msg(f, "NO_ERROR", pushId[f]) \in Frame
      BY <2>2, FrameTyped
    <3> QED
      BY <3>1
  <2> HIDE DEF answers
  <2>4. /\ disposed' \in [Files -> BOOLEAN] /\ path' \in [Files -> BOOLEAN]
        /\ early' \in [Files -> BOOLEAN] /\ tmp' \in [Files -> {"none", "opening", "there"}]
        /\ chS' \in [Files -> {"none", "open", "closed"}] /\ toC' \in Seq(Frame)
    BY <2>1, <2>3, ReleaseTyped
  <2>5. Wire' /\ Numbered' /\ Asleep'
    <3>1. Wire'
      BY <2>1, <2>4 DEF IInv, Wire
    <3>2. \A g \in Files : stage'[g] # "none" => stage[g] # "none"
      BY <2>1 DEF IInv, TypeOK
    <3>3. pushId' = pushId /\ rstate' = rstate
      BY <2>1
    <3> QED
      BY <3>1, <3>2, <3>3 DEF IInv, Numbered, Asleep
  <2>6. stage' \in [Files -> {"none", "end", "push"}] /\ device' \in [Files -> Nat]
    BY <2>1 DEF IInv, TypeOK
  <2> QED
    BY <2>1, <2>4, <2>5, <2>6, ReaderKeeps DEF IInv, TypeOK
<1>3. CASE PushFails(f)
  <2>1. /\ stage' = [stage EXCEPT ![f] = "none"] /\ Release(f, <<>>, "FAILED") /\ <<>> \in Seq(Frame)
        /\ UNCHANGED <<client, toS, net, fileId, rstate, pushId, source, device, written, disk>>
    BY <1>3 DEF PushFails
  <2>4. /\ disposed' \in [Files -> BOOLEAN] /\ path' \in [Files -> BOOLEAN]
        /\ early' \in [Files -> BOOLEAN] /\ tmp' \in [Files -> {"none", "opening", "there"}]
        /\ chS' \in [Files -> {"none", "open", "closed"}] /\ toC' \in Seq(Frame)
    BY <2>1, ReleaseTyped
  <2>5. Wire' /\ Numbered' /\ Asleep'
    <3>1. Wire'
      BY <2>1, <2>4 DEF IInv, Wire
    <3>2. \A g \in Files : stage'[g] # "none" => stage[g] # "none"
      BY <2>1 DEF IInv, TypeOK
    <3>3. pushId' = pushId /\ rstate' = rstate
      BY <2>1
    <3> QED
      BY <3>1, <3>2, <3>3 DEF IInv, Numbered, Asleep
  <2>6. stage' \in [Files -> {"none", "end", "push"}]
    BY <2>1 DEF IInv, TypeOK
  <2> QED
    BY <2>1, <2>4, <2>5, <2>6, ReaderKeeps DEF IInv, TypeOK
<1> QED
  BY <1>1, <1>2, <1>3

LEMMA StreamKeeps ==
    ASSUME IInv, NEW f \in Files, FileCreated(f) \/ ChunkWritten(f)
    PROVE  IInv'
<1>1. UNCHANGED <<client, toS, toC, net, reader, written, path, early>>
  BY DEF FileCreated, ChunkWritten
<1>2. Wire' /\ Numbered' /\ Asleep'
  BY <1>1 DEF IInv, Wire, Numbered, Asleep, reader
<1>3. tmp' \in [Files -> {"none", "opening", "there"}]
  <2>1. tmp \in [Files -> {"none", "opening", "there"}]
    BY DEF IInv, TypeOK
  <2>2. tmp' = tmp \/ tmp' = [tmp EXCEPT ![f] = "there"]
    BY DEF FileCreated, ChunkWritten
  <2> QED
    BY <2>1, <2>2
<1>4. disk' \in [Files -> Nat]
  <2>1. disk \in [Files -> Nat]
    BY DEF IInv, TypeOK
  <2>2. disk' = disk \/ disk' = [disk EXCEPT ![f] = disk[f] + 1]
    BY DEF FileCreated, ChunkWritten
  <2> QED
    BY <2>1, <2>2
<1> QED
  BY <1>1, <1>2, <1>3, <1>4, ReaderKeeps DEF IInv, TypeOK, reader

--------------------------------------------------------------------------------
(* The end of the connection.                                               *)

LEMMA EndKeeps == ASSUME IInv, Leave \/ Break \/ ServerLoses PROVE IInv'
<1>1. CASE Leave \/ Break
  <2>1. net' \in {"up", "down", "over"} /\ toS' = <<>> /\ toC' = <<>>
        /\ UNCHANGED <<pc, cid, count, waiters, unread, reader, files>>
    BY <1>1 DEF Leave, Break, client
  <2>2. Wire' /\ Numbered' /\ Asleep'
    BY <2>1 DEF IInv, Wire, Numbered, Asleep, reader
  <2>3. /\ chC' \in [Files -> {"none", "open", "closed"}]
        /\ shown' \in [Files -> {"none", "progress", "success", "error"}]
    BY <1>1 DEF Leave, Break, client, IInv, TypeOK
  <2> QED
    BY <2>1, <2>2, <2>3 DEF IInv, TypeOK, reader, files
<1>2. CASE ServerLoses
  <2>1. UNCHANGED <<client, toS, toC, net, fileId, rstate, pushId, stage, source, device,
                    written, disk>>
    BY <1>2 DEF ServerLoses
  <2>2. Wire' /\ Numbered' /\ Asleep'
    BY <2>1 DEF IInv, Wire, Numbered, Asleep
  <2>3. /\ chS' \in [Files -> {"none", "open", "closed"}]
        /\ tmp' \in [Files -> {"none", "opening", "there"}]
    BY <1>2 DEF ServerLoses, IInv, TypeOK
  <2>4. disposed' \in [Files -> BOOLEAN] /\ path' \in [Files -> BOOLEAN]
    BY <1>2 DEF ServerLoses, IInv, TypeOK
  <2>5. early' \in [Files -> BOOLEAN]
    BY <1>2 DEF ServerLoses, IInv, TypeOK
  <2> QED
    BY <2>1, <2>2, <2>3, <2>4, <2>5, ReaderKeeps DEF IInv, TypeOK
<1> QED
  BY <1>1, <1>2

LEMMA NextKeeps == IInv /\ [Next]_vars => IInv'
<1> SUFFICES ASSUME IInv, [Next]_vars PROVE IInv'
  OBVIOUS
<1>1. CASE UNCHANGED vars
  BY <1>1 DEF vars, client, reader, files, IInv, TypeOK, Wire, Numbered, Asleep
<1> QED
  BY <1>1, PushFileKeeps, OnNewPushIdKeeps, OnNoErrorKeeps, ProcessDataKeeps, ReadFailsKeeps, OnCloseKeeps,
     OnNewKeeps, OnStartKeeps, OnAppendKeeps, OnFinishKeeps, PushKeeps, StreamKeeps, EndKeeps DEF Next

\* The variables keep their types, the ids on the wire the range that an answer can carry.
THEOREM TypeCorrect == Spec => []TypeOK
<1>1. Spec => []IInv
  BY InitHolds, NextKeeps, PTL DEF Spec
<1> QED
  BY <1>1, PTL DEF IInv

\* An unlink that came in time has removed the file; one that came too early is on record.
Unlinked == \A f \in Files : tmp[f] # "none" => early[f] \/ (path[f] /\ ~disposed[f])

Shapes ==
    /\ tmp \in [Files -> {"none", "opening", "there"}] /\ path \in [Files -> BOOLEAN]
    /\ early \in [Files -> BOOLEAN] /\ disposed \in [Files -> BOOLEAN]

\* release() takes the path away, with the file or with a record of it.
LEMMA ReleaseUnlinks ==
    ASSUME Shapes, Unlinked, NEW f \in Files, NEW answers, NEW how, Release(f, answers, how)
    PROVE  Unlinked'
<1>1. /\ tmp' = [tmp EXCEPT ![f] = IF path[f] /\ tmp[f] = "there" THEN "none" ELSE tmp[f]]
      /\ path' = [path EXCEPT ![f] = FALSE]
      /\ disposed' = [disposed EXCEPT ![f] = TRUE]
  BY DEF Release, CleanupTempFile
<1>2. early' = [early EXCEPT ![f] = early[f] \/ (path[f] /\ tmp[f] = "opening")]
  BY DEF Release, CleanupTempFile
<1> SUFFICES ASSUME NEW g \in Files, tmp'[g] # "none"
             PROVE  early'[g] \/ (path'[g] /\ ~disposed'[g])
  BY DEF Unlinked
<1>3. CASE g = f
  <2>1. tmp[f] # "none" /\ (path[f] => tmp[f] = "opening")
    BY <1>1, <1>3 DEF Shapes
  <2>2. early[f] \/ (path[f] /\ tmp[f] = "opening")
    BY <2>1 DEF Unlinked
  <2>3. early'[f]
    BY <1>2, <2>2, Zenon DEF Shapes
  <2> QED
    BY <1>3, <2>3
<1>4. CASE g # f
  <2>1. tmp'[g] = tmp[g] /\ path'[g] = path[g] /\ disposed'[g] = disposed[g]
    BY <1>1, <1>4 DEF Shapes
  <2>2. early'[g] = early[g]
    BY <1>2, <1>4, Zenon DEF Shapes
  <2>3. early[g] \/ (path[g] /\ ~disposed[g])
    BY <2>1 DEF Unlinked
  <2> QED
    BY <2>1, <2>2, <2>3, Zenon
<1> QED
  BY <1>3, <1>4

\* The other steps leave them alone, but for the creation of the file and the end of the socket.
LEMMA UnlinkedKeeps == TypeOK /\ Unlinked /\ [Next]_vars => Unlinked'
<1> SUFFICES ASSUME TypeOK, Unlinked, [Next]_vars PROVE Unlinked'
  OBVIOUS
<1>s. Shapes
  BY DEF TypeOK, Shapes
<1> DEFINE Same == tmp' = tmp /\ path' = path /\ early' = early /\ disposed' = disposed
<1>k. Same => Unlinked'
  BY Zenon DEF Unlinked
<1>r. ASSUME NEW f \in Files, NEW answers, NEW how, Release(f, answers, how) PROVE Unlinked'
  BY <1>r, <1>s, ReleaseUnlinks
<1>f. ASSUME NEW f \in Files, Refuse(f) PROVE Unlinked'
  BY <1>f, <1>r DEF Refuse
<1>2. ASSUME NEW f \in Files, PushFile(f) \/ ProcessData(f) \/ ReadFails(f) \/ OnNew(f) PROVE Unlinked'
  <2>1. Same
    BY <1>2 DEF PushFile, ProcessData, ReadFails, OnNew, reader, files
  <2> QED
    BY <2>1, <1>k
<1>3. ASSUME NEW f \in Files, OnStart(f) PROVE Unlinked'
  <2>1. CASE Refuse(f)
    BY <2>1, <1>f
  <2>2. CASE ~Refuse(f)
    <3>1. /\ ~disposed[f] /\ disposed' = disposed /\ early' = early
          /\ path' = [path EXCEPT ![f] = TRUE] /\ tmp' = [tmp EXCEPT ![f] = "opening"]
      BY <1>3, <2>2 DEF OnStart, Listening
    <3> SUFFICES ASSUME NEW g \in Files, tmp'[g] # "none"
                 PROVE  early'[g] \/ (path'[g] /\ ~disposed'[g])
      BY DEF Unlinked
    <3>2. CASE g = f
      BY <3>1, <3>2, <1>s DEF Shapes
    <3>3. CASE g # f
      BY <3>1, <3>3, <1>s DEF Shapes, Unlinked
    <3> QED
      BY <3>2, <3>3
  <2> QED
    BY <2>1, <2>2
<1>4. ASSUME NEW f \in Files, OnAppend(f) \/ OnFinish(f) PROVE Unlinked'
  <2>1. Refuse(f) \/ Same
    BY <1>4 DEF OnAppend, OnFinish, files
  <2> QED
    BY <2>1, <1>f, <1>k
<1>5. ASSUME NEW f \in Files, StreamEnded(f) PROVE Unlinked'
  <2>1. Same
    BY <1>5 DEF StreamEnded, files
  <2> QED
    BY <2>1, <1>k
<1>6. ASSUME NEW f \in Files, PushSucceeds(f) \/ PushFails(f) PROVE Unlinked'
  BY <1>6, <1>r DEF PushSucceeds, PushFails
<1>7. ASSUME NEW f \in Files, FileCreated(f) PROVE Unlinked'
  <2>1. /\ tmp[f] = "opening" /\ tmp' = [tmp EXCEPT ![f] = "there"]
        /\ path' = path /\ early' = early /\ disposed' = disposed
    BY <1>7 DEF FileCreated, reader
  <2>2. \A g \in Files : tmp'[g] # "none" => tmp[g] # "none"
    BY <2>1, <1>s DEF Shapes
  <2> QED
    BY <2>1, <2>2, Zenon DEF Unlinked
<1>8. ASSUME NEW f \in Files, ChunkWritten(f) PROVE Unlinked'
  <2>1. Same
    BY <1>8 DEF ChunkWritten, reader
  <2> QED
    BY <2>1, <1>k
<1>9. CASE OnNewPushId \/ OnNoError \/ OnClose \/ Leave \/ Break \/ UNCHANGED vars
  <2>1. Same
    BY <1>9 DEF OnNewPushId, OnNoError, OnClose, Leave, Break, vars, reader, files
  <2> QED
    BY <2>1, <1>k
<1>10. CASE ServerLoses
  <2> SUFFICES ASSUME NEW g \in Files, tmp'[g] # "none"
               PROVE  early'[g] \/ (path'[g] /\ ~disposed'[g])
    BY DEF Unlinked
  <2>1. tmp'[g] = IF chS[g] = "open" /\ path[g] /\ tmp[g] = "there" THEN "none" ELSE tmp[g]
    BY <1>10 DEF ServerLoses
  <2>2. /\ early'[g] <=> early[g] \/ (chS[g] = "open" /\ path[g] /\ tmp[g] = "opening")
        /\ path'[g] <=> path[g] /\ chS[g] # "open"
        /\ disposed'[g] <=> disposed[g] \/ chS[g] = "open"
    BY <1>10, Zenon DEF ServerLoses
  <2>3. tmp[g] # "none" /\ (chS[g] = "open" /\ path[g] => tmp[g] = "opening")
    BY <2>1, <1>s DEF Shapes
  <2>4. early[g] \/ (path[g] /\ ~disposed[g])
    BY <2>3 DEF Unlinked
  <2> QED
    BY <2>2, <2>3, <2>4, Zenon
<1> HIDE DEF Same
<1> QED
  BY <1>2, <1>3, <1>4, <1>5, <1>6, <1>7, <1>8, <1>9, <1>10 DEF Next

\* TempFilesGone: release() removes the temporary file, however the upload ends, unless its unlink
\* came before the file was created.
THEOREM NoTempFileLeft == Spec => []TempFilesGone
<1>1. Spec => []TypeOK
  BY TypeCorrect
<1>2. Init => Unlinked
  BY DEF Init, Unlinked
<1>3. Unlinked => TempFilesGone
  BY DEF Unlinked, TempFilesGone
<1> QED
  BY <1>1, <1>2, <1>3, UnlinkedKeeps, PTL DEF Spec

-----------------------------------------------------------------------------
(* What is under way for an upload, and who waits for an id.                *)

\* The end of a channel is no word of the conversation.
Speaks(m) == m.kind \notin {"CLEAN", "FAILED"}

\* One word at a time: at most one command or answer of a file is on the wire.
Alone(S, C) ==
    /\ \A j, k \in 1..Len(S) : S[j].file = S[k].file => j = k
    /\ \A j, k \in 1..Len(C) :
          Speaks(C[j]) /\ Speaks(C[k]) /\ C[j].file = C[k].file => j = k
    /\ \A j \in 1..Len(S), k \in 1..Len(C) : Speaks(C[k]) => S[j].file # C[k].file

\* Nothing of f is on the wire.
Silent(S, C, f) ==
    /\ \A k \in 1..Len(S) : S[k].file # f
    /\ \A k \in 1..Len(C) : Speaks(C[k]) => C[k].file # f

\* What may be on the wire for f, by the stage that pushFile(f) is in.
Fitting(f) ==
    CASE pc[f] = "new"   -> {"NEW", "NEW_PUSH_ID"}
      [] pc[f] = "start" -> {"START", "START_BAD", "NO_ERROR"}
      [] pc[f] = "append" /\ count[f] = written[f] + 1 -> {"APPEND"}
      [] pc[f] = "append" /\ count[f] = written[f]     -> {"NO_ERROR"}
      [] pc[f] = "finish" /\ stage[f] = "none" ->
             IF device[f] = Chunks THEN {"FINISH", "NO_ERROR"} ELSE {"FINISH"}
      [] OTHER -> {}
fitting == [f \in Files |-> Fitting(f)]

\* A word m fits the stages x, and the ids p of the readers.
Due(m, x, p) ==
    Speaks(m) => /\ m.kind \in x[m.file]
                 /\ m.kind \in {"NEW_PUSH_ID", "NO_ERROR"} => m.id = p[m.file] /\ m.id # 0

Talk(S, C, x, p) ==
    /\ Alone(S, C)
    /\ \A k \in 1..Len(S) : Speaks(S[k]) /\ Due(S[k], x, p)
    /\ \A k \in 1..Len(C) : Due(C[k], x, p)

\* The two ends count the same chunks, but for the one that is under way.
Levels ==
    \A f \in Files :
        /\ pc[f] \in {"idle", "new", "start", "go", "finish"} => count[f] = written[f]
        /\ pc[f] = "finish" => count[f] = Chunks
        /\ stage[f] # "none" => pc[f] = "finish"

\* W waits for ids, first come first served, and p are the readers' ids: the
\* readers come in the order of the waiters,
Distinct(W) == \A k, l \in 1..Len(W) : W[k] = W[l] => k = l
Ranked(W, p) ==
    \A k, l \in 1..Len(W) :
        k < l /\ p[W[l]] # 0 => p[W[k]] # 0 /\ p[W[k]] < p[W[l]]

\* so do the commands of those who have no reader yet,
Asks(m, f) == m.kind = "NEW" /\ m.file = f
Asking(W, S, p) ==
    /\ \A k \in 1..Len(W) : p[W[k]] = 0 => \E i \in 1..Len(S) : Asks(S[i], W[k])
    /\ \A k, l \in 1..Len(W), j \in 1..Len(S) :
          k < l /\ p[W[k]] = 0 /\ Asks(S[j], W[l]) => \E i \in 1..(j - 1) : Asks(S[i], W[k])

\* and the answers of the others, unless their ids are too big to be sent.
Gives(m, f) == m.kind = "NEW_PUSH_ID" /\ m.file = f
Giving(W, C, p) ==
    /\ \A k \in 1..Len(W) :
          p[W[k]] \in 1..MaxInt16 => \E i \in 1..Len(C) : Gives(C[i], W[k])
    /\ \A i, j \in 1..Len(C) :
          i < j /\ C[i].kind = "NEW_PUSH_ID" /\ C[j].kind = "NEW_PUSH_ID" => C[i].id < C[j].id

Line == /\ Distinct(waiters[0])
        /\ \A f \in Files : pc[f] = "new" <=> \E k \in 1..Len(waiters[0]) : waiters[0][k] = f
        /\ Ranked(waiters[0], pushId)
        /\ Asking(waiters[0], toS, pushId)
        /\ Giving(waiters[0], toC, pushId)

\* An id is one reader's, and who works with an id waits under that.
Ids ==
    /\ \A f \in Files : /\ pushId[f] <= fileId
                        /\ pushId[f] = 0 <=> rstate[f] = "INITIAL"
                        /\ pc[f] = "idle" => pushId[f] = 0
                        /\ pc[f] \in {"start", "go", "append", "finish"} => cid[f] # 0
    /\ \A f, g \in Files : pushId[f] = pushId[g] /\ pushId[f] # 0 => f = g
    /\ \A i \in PushId \ {0} : \A k \in 1..Len(waiters[i]) : cid[waiters[i][k]] = i

\* A reader past FINISH has all chunks, adb gets them once they are in the file.
Whole ==
    \A f \in Files : /\ rstate[f] = "FINISH" => written[f] = Chunks
                     /\ disk[f] <= written[f]
                     /\ stage[f] = "push" => disk[f] = written[f]

Apart == IInv /\ Ids /\ IdsMatch /\ Whole /\ WholeFile
Together == Talk(toS, toC, fitting, pushId) /\ Levels /\ Line
FInv == Apart /\ (net = "up" => Together)

-----------------------------------------------------------------------------
(* Sequences.                                                               *)

LEMMA Appended ==
    ASSUME NEW T, NEW P \in Seq(T), NEW m \in T
    PROVE  /\ Append(P, m) \in Seq(T) /\ Len(P) \in Nat /\ Len(Append(P, m)) = Len(P) + 1
           /\ Append(P, m)[Len(P) + 1] = m
           /\ \A k \in 1..Len(P) : Append(P, m)[k] = P[k]
           /\ \A k \in 1..Len(Append(P, m)) : k \in 1..Len(P) \/ k = Len(P) + 1
OBVIOUS

LEMMA Popped ==
    ASSUME NEW T, NEW P \in Seq(T), P # <<>>
    PROVE  /\ Tail(P) \in Seq(T) /\ Len(P) \in Nat \ {0} /\ Len(Tail(P)) = Len(P) - 1
           /\ Head(P) = P[1] /\ Head(P) \in T
           /\ \A k \in 1..Len(Tail(P)) : k + 1 \in 1..Len(P) /\ Tail(P)[k] = P[k + 1]
           /\ \A k \in 1..Len(P) : k = 1 \/ (k - 1 \in 1..Len(Tail(P)) /\ Tail(P)[k - 1] = P[k])
OBVIOUS

\* A word of a file of which nothing was on the wire is put on it.
LEMMA TalkSend ==
    ASSUME NEW S \in Seq(Frame), NEW C \in Seq(Frame), NEW x, NEW p, NEW m \in Frame,
           Talk(S, C, x, p), Silent(S, C, m.file), Speaks(m), Due(m, x, p)
    PROVE  Talk(Append(S, m), C, x, p)
<1>1. /\ Len(S) \in Nat /\ Len(Append(S, m)) = Len(S) + 1 /\ Append(S, m)[Len(S) + 1] = m
      /\ \A k \in 1..Len(S) : Append(S, m)[k] = S[k]
      /\ \A k \in 1..Len(Append(S, m)) : k \in 1..Len(S) \/ k = Len(S) + 1
  BY Appended
<1>2. Alone(Append(S, m), C)
  BY <1>1 DEF Talk, Alone, Silent
<1> QED
  BY <1>1, <1>2 DEF Talk

LEMMA TalkAnswer ==
    ASSUME NEW S \in Seq(Frame), NEW C \in Seq(Frame), NEW x, NEW p, NEW m \in Frame,
           Talk(S, C, x, p), Silent(S, C, m.file), Due(m, x, p)
    PROVE  Talk(S, Append(C, m), x, p)
<1>1. /\ Len(C) \in Nat /\ Len(Append(C, m)) = Len(C) + 1 /\ Append(C, m)[Len(C) + 1] = m
      /\ \A k \in 1..Len(C) : Append(C, m)[k] = C[k]
      /\ \A k \in 1..Len(Append(C, m)) : k \in 1..Len(C) \/ k = Len(C) + 1
  BY Appended
<1>2. Alone(S, Append(C, m))
  BY <1>1 DEF Talk, Alone, Silent
<1> QED
  BY <1>1, <1>2 DEF Talk

\* The end of a channel is put on the wire.
LEMMA TalkClose ==
    ASSUME NEW S \in Seq(Frame), NEW C \in Seq(Frame), NEW x, NEW p, NEW m \in Frame,
           Talk(S, C, x, p), ~Speaks(m)
    PROVE  Talk(S, Append(C, m), x, p)
<1>1. /\ Len(C) \in Nat /\ Len(Append(C, m)) = Len(C) + 1 /\ Append(C, m)[Len(C) + 1] = m
      /\ \A k \in 1..Len(C) : Append(C, m)[k] = C[k]
      /\ \A k \in 1..Len(Append(C, m)) : k \in 1..Len(C) \/ k = Len(C) + 1
  BY Appended
<1>2. Alone(S, Append(C, m))
  BY <1>1 DEF Talk, Alone
<1>3. Due(m, x, p)
  BY DEF Due
<1> QED
  BY <1>1, <1>2, <1>3 DEF Talk

\* A command is taken off the wire: nothing of its file is left there.
LEMMA TalkTaken ==
    ASSUME NEW S \in Seq(Frame), NEW C \in Seq(Frame), NEW x, NEW p,
           Talk(S, C, x, p), S # <<>>
    PROVE  /\ Talk(Tail(S), C, x, p) /\ Silent(Tail(S), C, Head(S).file)
           /\ Due(Head(S), x, p)
<1>1. /\ Len(S) \in Nat \ {0} /\ Len(Tail(S)) = Len(S) - 1 /\ Head(S) = S[1]
      /\ \A k \in 1..Len(Tail(S)) : k + 1 \in 1..Len(S) /\ Tail(S)[k] = S[k + 1]
  BY Popped
<1>2. Alone(Tail(S), C) /\ Silent(Tail(S), C, Head(S).file)
  BY <1>1 DEF Talk, Alone, Silent
<1> QED
  BY <1>1, <1>2 DEF Talk

\* So for an answer.
LEMMA TalkHeard ==
    ASSUME NEW S \in Seq(Frame), NEW C \in Seq(Frame), NEW x, NEW p,
           Talk(S, C, x, p), C # <<>>
    PROVE  /\ Talk(S, Tail(C), x, p) /\ Due(Head(C), x, p)
           /\ Speaks(Head(C)) => Silent(S, Tail(C), Head(C).file)
<1>1. /\ Len(C) \in Nat \ {0} /\ Len(Tail(C)) = Len(C) - 1 /\ Head(C) = C[1]
      /\ \A k \in 1..Len(Tail(C)) : k + 1 \in 1..Len(C) /\ Tail(C)[k] = C[k + 1]
  BY Popped
<1>2. Alone(S, Tail(C)) /\ (Speaks(Head(C)) => Silent(S, Tail(C), Head(C).file))
  BY <1>1 DEF Talk, Alone, Silent
<1> QED
  BY <1>1, <1>2 DEF Talk

\* A file of which nothing is on the wire gets into another stage.
LEMMA TalkTurns ==
    ASSUME NEW S \in Seq(Frame), NEW C \in Seq(Frame), NEW x, NEW p, NEW y, NEW q, NEW f \in Files,
           Talk(S, C, x, p), Silent(S, C, f),
           \A g \in Files \ {f} : y[g] = x[g] /\ q[g] = p[g]
    PROVE  Talk(S, C, y, q)
<1>1. \A m \in Frame : Due(m, x, p) /\ (Speaks(m) => m.file # f) => Due(m, y, q)
  BY DEF Due, Frame
<1>2. \A k \in 1..Len(S) : S[k] \in Frame /\ (Speaks(S[k]) => S[k].file # f)
  BY DEF Silent
<1>3. \A k \in 1..Len(C) : C[k] \in Frame /\ (Speaks(C[k]) => C[k].file # f)
  BY DEF Silent
<1> QED
  BY <1>1, <1>2, <1>3 DEF Talk

\* In a stage where nothing fits, nothing is on the wire.
LEMMA TalkQuiet ==
    ASSUME NEW S \in Seq(Frame), NEW C \in Seq(Frame), NEW x, NEW p, NEW f \in Files,
           Talk(S, C, x, p), x[f] = {}
    PROVE  Silent(S, C, f)
BY DEF Talk, Due, Silent

-----------------------------------------------------------------------------
(* The queue of those who wait for an id.                                   *)

\* Other commands come and go.
LEMMA AskingSend ==
    ASSUME NEW W, NEW S \in Seq(Frame), NEW p, NEW m \in Frame, Asking(W, S, p), m.kind # "NEW"
    PROVE  Asking(W, Append(S, m), p)
<1>1. /\ Len(S) \in Nat /\ Len(Append(S, m)) = Len(S) + 1 /\ Append(S, m)[Len(S) + 1] = m
      /\ \A k \in 1..Len(S) : Append(S, m)[k] = S[k]
      /\ \A k \in 1..Len(Append(S, m)) : k \in 1..Len(S) \/ k = Len(S) + 1
  BY Appended
<1>2. \A k \in 1..Len(S) : k \in 1..Len(Append(S, m)) /\ \A i \in 1..(k - 1) : i \in 1..Len(S)
  BY <1>1
<1> QED
  BY <1>1, <1>2 DEF Asking, Asks

LEMMA AskingNext ==
    ASSUME NEW W, NEW S \in Seq(Frame), NEW p, Asking(W, S, p), S # <<>>, Head(S).kind # "NEW"
    PROVE  Asking(W, Tail(S), p)
<1>1. /\ Len(S) \in Nat \ {0} /\ Len(Tail(S)) = Len(S) - 1 /\ Head(S) = S[1]
      /\ \A k \in 1..Len(Tail(S)) : k + 1 \in 1..Len(S) /\ Tail(S)[k] = S[k + 1]
      /\ \A k \in 1..Len(S) : k = 1 \/ (k - 1 \in 1..Len(Tail(S)) /\ Tail(S)[k - 1] = S[k])
  BY Popped
<1>2. \A g : ~Asks(S[1], g)
  BY <1>1 DEF Asks
<1>3. ASSUME NEW k \in 1..Len(W), p[W[k]] = 0
      PROVE  \E i \in 1..Len(Tail(S)) : Asks(Tail(S)[i], W[k])
  <2>1. PICK i \in 1..Len(S) : Asks(S[i], W[k])
    BY <1>3 DEF Asking
  <2> QED
    BY <1>1, <1>2, <2>1
<1>4. ASSUME NEW k \in 1..Len(W), NEW l \in 1..Len(W), NEW j \in 1..Len(Tail(S)),
             k < l, p[W[k]] = 0, Asks(Tail(S)[j], W[l])
      PROVE  \E i \in 1..(j - 1) : Asks(Tail(S)[i], W[k])
  <2>1. PICK i \in 1..((j + 1) - 1) : Asks(S[i], W[k])
    BY <1>1, <1>4 DEF Asking
  <2>2. i # 1 /\ i - 1 \in 1..(j - 1) /\ Tail(S)[i - 1] = S[i]
    BY <1>1, <1>2, <2>1
  <2> QED
    BY <2>1, <2>2
<1> QED
  BY <1>3, <1>4 DEF Asking

\* f joins the queue, with its command.
LEMMA AskingNew ==
    ASSUME NEW W \in Seq(Files), NEW S \in Seq(Frame), NEW p, NEW m \in Frame, NEW f \in Files,
           Asking(W, S, p), Asks(m, f), \A k \in 1..Len(S) : S[k].file # f
    PROVE  Asking(Append(W, f), Append(S, m), p)
<1>1. /\ Len(S) \in Nat /\ Len(Append(S, m)) = Len(S) + 1 /\ Append(S, m)[Len(S) + 1] = m
      /\ \A k \in 1..Len(S) : Append(S, m)[k] = S[k]
      /\ \A k \in 1..Len(Append(S, m)) : k \in 1..Len(S) \/ k = Len(S) + 1
  BY Appended
<1>2. /\ Len(W) \in Nat /\ Len(Append(W, f)) = Len(W) + 1 /\ Append(W, f)[Len(W) + 1] = f
      /\ \A k \in 1..Len(W) : Append(W, f)[k] = W[k]
      /\ \A k \in 1..Len(Append(W, f)) : k \in 1..Len(W) \/ k = Len(W) + 1
  BY Appended
<1> DEFINE V == Append(W, f)
           T == Append(S, m)
<1>3. ASSUME NEW k \in 1..Len(V), p[V[k]] = 0 PROVE \E i \in 1..Len(T) : Asks(T[i], V[k])
  <2>1. CASE k \in 1..Len(W)
    <3>1. PICK i \in 1..Len(S) : Asks(S[i], W[k])
      BY <1>2, <1>3, <2>1 DEF Asking
    <3> QED
      BY <1>1, <1>2, <2>1, <3>1
  <2>2. CASE k = Len(W) + 1
    BY <1>1, <1>2, <2>2
  <2> QED
    BY <1>2, <2>1, <2>2
<1>4. ASSUME NEW k \in 1..Len(V), NEW l \in 1..Len(V), NEW j \in 1..Len(T),
             k < l, p[V[k]] = 0, Asks(T[j], V[l])
      PROVE  \E i \in 1..(j - 1) : Asks(T[i], V[k])
  <2>1. k \in 1..Len(W) /\ V[k] = W[k]
    BY <1>2, <1>4
  <2>2. CASE j \in 1..Len(S)
    <3>1. Asks(S[j], V[l]) /\ V[l] # f
      BY <1>1, <1>4, <2>2 DEF Asks
    <3>2. l \in 1..Len(W) /\ V[l] = W[l]
      BY <1>2, <3>1
    <3>3. PICK i \in 1..(j - 1) : Asks(S[i], W[k])
      BY <1>4, <2>1, <2>2, <3>1, <3>2 DEF Asking
    <3>4. i \in 1..Len(S)
      BY <1>1, <2>2, <3>3
    <3> QED
      BY <1>1, <2>1, <3>3, <3>4
  <2>3. CASE j = Len(S) + 1
    <3>1. PICK i \in 1..Len(S) : Asks(S[i], W[k])
      BY <1>4, <2>1 DEF Asking
    <3> QED
      BY <1>1, <2>1, <2>3, <3>1
  <2> QED
    BY <1>1, <2>2, <2>3
<1> QED
  BY <1>3, <1>4 DEF Asking

\* The reader of f takes its command and has an id from now on.
LEMMA AskingTaken ==
    ASSUME NEW W \in Seq(Files), NEW S \in Seq(Frame), NEW p, NEW q, NEW f \in Files,
           Asking(W, S, p), S # <<>>, Asks(Head(S), f), q[f] # 0,
           \A g \in Files \ {f} : q[g] = p[g]
    PROVE  Asking(W, Tail(S), q)
<1>1. /\ Len(S) \in Nat \ {0} /\ Len(Tail(S)) = Len(S) - 1 /\ Head(S) = S[1]
      /\ \A k \in 1..Len(Tail(S)) : k + 1 \in 1..Len(S) /\ Tail(S)[k] = S[k + 1]
      /\ \A k \in 1..Len(S) : k = 1 \/ (k - 1 \in 1..Len(Tail(S)) /\ Tail(S)[k - 1] = S[k])
  BY Popped
<1>2. \A g : g # f => ~Asks(S[1], g)
  BY <1>1 DEF Asks
<1>3. \A k \in 1..Len(W) : q[W[k]] = 0 => W[k] # f /\ p[W[k]] = 0
  OBVIOUS
<1>4. ASSUME NEW k \in 1..Len(W), q[W[k]] = 0
      PROVE  \E i \in 1..Len(Tail(S)) : Asks(Tail(S)[i], W[k])
  <2>1. PICK i \in 1..Len(S) : Asks(S[i], W[k])
    BY <1>3, <1>4 DEF Asking
  <2> QED
    BY <1>1, <1>2, <1>3, <1>4, <2>1
<1>5. ASSUME NEW k \in 1..Len(W), NEW l \in 1..Len(W), NEW j \in 1..Len(Tail(S)),
             k < l, q[W[k]] = 0, Asks(Tail(S)[j], W[l])
      PROVE  \E i \in 1..(j - 1) : Asks(Tail(S)[i], W[k])
  <2>1. PICK i \in 1..((j + 1) - 1) : Asks(S[i], W[k])
    BY <1>1, <1>3, <1>5 DEF Asking
  <2>2. i # 1 /\ i - 1 \in 1..(j - 1) /\ Tail(S)[i - 1] = S[i]
    BY <1>1, <1>2, <1>3, <1>5, <2>1
  <2> QED
    BY <2>1, <2>2
<1> QED
  BY <1>4, <1>5 DEF Asking

\* The first of the queue is served.
LEMMA QueueServed ==
    ASSUME NEW W \in Seq(Files), NEW S, NEW p, W # <<>>, Distinct(W), Ranked(W, p), Asking(W, S, p)
    PROVE  Distinct(Tail(W)) /\ Ranked(Tail(W), p) /\ Asking(Tail(W), S, p)
<1>1. /\ Len(W) \in Nat \ {0} /\ Len(Tail(W)) = Len(W) - 1
      /\ \A k \in 1..Len(Tail(W)) : k + 1 \in 1..Len(W) /\ Tail(W)[k] = W[k + 1]
  BY Popped
<1>2. Distinct(Tail(W))
  BY <1>1 DEF Distinct
<1>3. Ranked(Tail(W), p)
  BY <1>1 DEF Ranked
<1>4. Asking(Tail(W), S, p)
  BY <1>1 DEF Asking
<1> QED
  BY <1>2, <1>3, <1>4

\* f joins the queue.
LEMMA QueueGrows ==
    ASSUME NEW W \in Seq(Files), NEW p, NEW f \in Files, Distinct(W), Ranked(W, p), p[f] = 0,
           \A k \in 1..Len(W) : W[k] # f
    PROVE  Distinct(Append(W, f)) /\ Ranked(Append(W, f), p)
<1>1. /\ Len(W) \in Nat /\ Len(Append(W, f)) = Len(W) + 1 /\ Append(W, f)[Len(W) + 1] = f
      /\ \A k \in 1..Len(W) : Append(W, f)[k] = W[k]
      /\ \A k \in 1..Len(Append(W, f)) : k \in 1..Len(W) \/ k = Len(W) + 1
  BY Appended
<1>2. Distinct(Append(W, f))
  BY <1>1 DEF Distinct
<1>3. Ranked(Append(W, f), p)
  BY <1>1 DEF Ranked
<1> QED
  BY <1>2, <1>3

\* f gets a reader, with a bigger id than the others: all before it have one.
LEMMA RankedTaken ==
    ASSUME NEW W \in Seq(Files), NEW S \in Seq(Frame), NEW p \in [Files -> Nat],
           NEW q \in [Files -> Nat], NEW f \in Files,
           Distinct(W), Ranked(W, p), Asking(W, S, p), S # <<>>, Asks(Head(S), f),
           p[f] = 0, \A g \in Files \ {f} : q[g] = p[g] /\ p[g] < q[f]
    PROVE  Ranked(W, q)
<1>1. Len(S) \in Nat \ {0} /\ Head(S) = S[1] /\ 1 \in 1..Len(S)
  BY Popped
<1>2. SUFFICES ASSUME NEW k \in 1..Len(W), NEW l \in 1..Len(W), k < l, q[W[l]] # 0
               PROVE  q[W[k]] # 0 /\ q[W[k]] < q[W[l]]
  BY DEF Ranked
<1>3. W[k] \in Files /\ W[l] \in Files /\ W[k] # W[l]
  BY <1>2 DEF Distinct
<1>4. CASE W[l] = f
  <2>1. p[W[k]] = 0 => \E i \in 1..(1 - 1) : Asks(S[i], W[k])
    BY <1>1, <1>2, <1>4, SMTT(40) DEF Asking
  <2>2. p[W[k]] # 0
    BY <2>1
  <2> QED
    BY <1>3, <1>4, <2>2
<1>5. CASE W[l] # f
  <2>1. p[W[l]] # 0
    BY <1>2, <1>3, <1>5
  <2>2. p[W[k]] # 0 /\ p[W[k]] < p[W[l]]
    BY <1>2, <2>1 DEF Ranked
  <2>3. W[k] # f
    BY <2>2
  <2> QED
    BY <1>3, <1>5, <2>2, <2>3
<1> QED
  BY <1>4, <1>5

\* Other frames come and go.
LEMMA GivingSend ==
    ASSUME NEW W, NEW C \in Seq(Frame), NEW p, NEW m \in Frame, Giving(W, C, p),
           m.kind # "NEW_PUSH_ID"
    PROVE  Giving(W, Append(C, m), p)
<1>1. /\ Len(C) \in Nat /\ Len(Append(C, m)) = Len(C) + 1 /\ Append(C, m)[Len(C) + 1] = m
      /\ \A k \in 1..Len(C) : Append(C, m)[k] = C[k]
      /\ \A k \in 1..Len(Append(C, m)) : k \in 1..Len(C) \/ k = Len(C) + 1
  BY Appended
<1>2. \A k \in 1..Len(C) : k \in 1..Len(Append(C, m))
  BY <1>1
<1> QED
  BY <1>1, <1>2 DEF Giving, Gives

LEMMA GivingNext ==
    ASSUME NEW W, NEW C \in Seq(Frame), NEW p, Giving(W, C, p), C # <<>>,
           Head(C).kind # "NEW_PUSH_ID"
    PROVE  Giving(W, Tail(C), p)
<1>1. /\ Len(C) \in Nat \ {0} /\ Len(Tail(C)) = Len(C) - 1 /\ Head(C) = C[1]
      /\ \A k \in 1..Len(Tail(C)) : k + 1 \in 1..Len(C) /\ Tail(C)[k] = C[k + 1]
      /\ \A k \in 1..Len(C) : k = 1 \/ (k - 1 \in 1..Len(Tail(C)) /\ Tail(C)[k - 1] = C[k])
  BY Popped
<1>2. ASSUME NEW k \in 1..Len(W), p[W[k]] \in 1..MaxInt16
      PROVE  \E i \in 1..Len(Tail(C)) : Gives(Tail(C)[i], W[k])
  <2>1. PICK i \in 1..Len(C) : Gives(C[i], W[k])
    BY <1>2 DEF Giving
  <2>2. i # 1
    BY <1>1, <2>1 DEF Gives
  <2> QED
    BY <1>1, <2>1, <2>2
<1> QED
  BY <1>1, <1>2 DEF Giving

\* f joins the queue, without an id.
LEMMA GivingWaits ==
    ASSUME NEW W \in Seq(Files), NEW C \in Seq(Frame), NEW p, NEW f \in Files, Giving(W, C, p),
           p[f] = 0
    PROVE  Giving(Append(W, f), C, p)
<1>1. /\ Len(W) \in Nat /\ Len(Append(W, f)) = Len(W) + 1 /\ Append(W, f)[Len(W) + 1] = f
      /\ \A k \in 1..Len(W) : Append(W, f)[k] = W[k]
      /\ \A k \in 1..Len(Append(W, f)) : k \in 1..Len(W) \/ k = Len(W) + 1
  BY Appended
<1> QED
  BY <1>1 DEF Giving

\* The reader of f sends its id, a bigger one than those on the wire, or has none to
\* send.
LEMMA GivingNew ==
    ASSUME NEW W \in Seq(Files), NEW C \in Seq(Frame), NEW p, NEW q, NEW f \in Files,
           NEW m \in Frame, Giving(W, C, p), Gives(m, f),
           \A g \in Files \ {f} : q[g] = p[g],
           \A i \in 1..Len(C) : C[i].kind = "NEW_PUSH_ID" => C[i].id < m.id
    PROVE  Giving(W, Append(C, m), q)
<1>1. /\ Len(C) \in Nat /\ Len(Append(C, m)) = Len(C) + 1 /\ Append(C, m)[Len(C) + 1] = m
      /\ \A k \in 1..Len(C) : Append(C, m)[k] = C[k]
      /\ \A k \in 1..Len(Append(C, m)) : k \in 1..Len(C) \/ k = Len(C) + 1
  BY Appended
<1>2. \A k \in 1..Len(C) : k \in 1..Len(Append(C, m))
  BY <1>1
<1>3. ASSUME NEW k \in 1..Len(W), q[W[k]] \in 1..MaxInt16
      PROVE  \E i \in 1..Len(Append(C, m)) : Gives(Append(C, m)[i], W[k])
  <2>1. CASE W[k] = f
    BY <1>1, <2>1
  <2>2. CASE W[k] # f
    <3>1. PICK i \in 1..Len(C) : Gives(C[i], W[k])
      BY <1>3, <2>2 DEF Giving
    <3> QED
      BY <1>1, <1>2, <3>1
  <2> QED
    BY <2>1, <2>2
<1>4. ASSUME NEW i \in 1..Len(Append(C, m)), NEW j \in 1..Len(Append(C, m)), i < j,
             Append(C, m)[i].kind = "NEW_PUSH_ID", Append(C, m)[j].kind = "NEW_PUSH_ID"
      PROVE  Append(C, m)[i].id < Append(C, m)[j].id
  <2>1. i \in 1..Len(C)
    BY <1>1, <1>4
  <2> QED
    BY <1>1, <1>4, <2>1 DEF Giving
<1> QED
  BY <1>3, <1>4 DEF Giving

LEMMA GivingNone ==
    ASSUME NEW W \in Seq(Files), NEW C \in Seq(Frame), NEW p, NEW q, NEW f \in Files,
           Giving(W, C, p), \A g \in Files \ {f} : q[g] = p[g], q[f] \notin 1..MaxInt16
    PROVE  Giving(W, C, q)
<1>1. \A k \in 1..Len(W) : q[W[k]] \in 1..MaxInt16 => p[W[k]] \in 1..MaxInt16
  OBVIOUS
<1> QED
  BY <1>1 DEF Giving

\* The answer that arrives is for the first of the queue.
LEMMA FirstServed ==
    ASSUME NEW W \in Seq(Files), NEW C \in Seq(Frame), NEW p \in [Files -> Nat],
           NEW g \in Files, Distinct(W), Ranked(W, p), Giving(W, C, p),
           C # <<>>, Gives(Head(C), g), p[g] # 0, \E k \in 1..Len(W) : W[k] = g,
           \A i \in 1..Len(C) : C[i].kind = "NEW_PUSH_ID" => C[i].id = p[C[i].file]
    PROVE  W # <<>> /\ Head(W) = g
<1>1. Len(C) \in Nat \ {0} /\ Head(C) = C[1] /\ 1 \in 1..Len(C) /\ C[1].id \in PushId
  <2>1. Len(C) \in Nat \ {0} /\ Head(C) = C[1] /\ Head(C) \in Frame
    BY Popped
  <2> QED
    BY <2>1 DEF Frame
<1>2. Len(W) \in Nat /\ W # <<>> /\ Head(W) = W[1] /\ 1 \in 1..Len(W) /\ W[1] \in Files
  OBVIOUS
<1>3. SUFFICES ASSUME W[1] # g PROVE FALSE
  BY <1>2
<1>4. PICK l \in 1..Len(W) : W[l] = g
  OBVIOUS
<1>5. p[W[1]] # 0 /\ p[W[1]] < p[g]
  BY <1>2, <1>3, <1>4 DEF Ranked
<1>6. p[g] = C[1].id /\ C[1].kind = "NEW_PUSH_ID"
  BY <1>1 DEF Gives
<1>7. p[W[1]] \in 1..MaxInt16
  BY <1>1, <1>2, <1>5, <1>6, FilesAssumption DEF FilesAssumption, PushId
<1>8. PICK i \in 1..Len(C) : Gives(C[i], W[1])
  BY <1>2, <1>7 DEF Giving
<1>9. i # 1 /\ C[i].kind = "NEW_PUSH_ID" /\ C[i].id = p[W[1]]
  BY <1>1, <1>3, <1>8 DEF Gives
<1>10. C[1].id < C[i].id
  BY <1>1, <1>6, <1>9 DEF Giving
<1> QED
  BY <1>2, <1>5, <1>6, <1>9, <1>10

LEMMA GivingServed ==
    ASSUME NEW W \in Seq(Files), NEW C \in Seq(Frame), NEW p, Distinct(W), Giving(W, C, p),
           W # <<>>, C # <<>>, Gives(Head(C), Head(W))
    PROVE  Giving(Tail(W), Tail(C), p)
<1>1. /\ Len(C) \in Nat \ {0} /\ Len(Tail(C)) = Len(C) - 1 /\ Head(C) = C[1]
      /\ \A k \in 1..Len(Tail(C)) : k + 1 \in 1..Len(C) /\ Tail(C)[k] = C[k + 1]
      /\ \A k \in 1..Len(C) : k = 1 \/ (k - 1 \in 1..Len(Tail(C)) /\ Tail(C)[k - 1] = C[k])
  BY Popped
<1>2. /\ Len(W) \in Nat \ {0} /\ Len(Tail(W)) = Len(W) - 1 /\ Head(W) = W[1]
      /\ \A k \in 1..Len(Tail(W)) : k + 1 \in 1..Len(W) /\ Tail(W)[k] = W[k + 1]
  BY Popped
<1>3. ASSUME NEW k \in 1..Len(Tail(W)), p[Tail(W)[k]] \in 1..MaxInt16
      PROVE  \E i \in 1..Len(Tail(C)) : Gives(Tail(C)[i], Tail(W)[k])
  <2>1. PICK i \in 1..Len(C) : Gives(C[i], W[k + 1])
    BY <1>2, <1>3 DEF Giving
  <2>2. W[k + 1] # W[1]
    BY <1>2 DEF Distinct
  <2>3. i # 1
    BY <1>1, <1>2, <2>1, <2>2 DEF Gives
  <2> QED
    BY <1>1, <1>2, <2>1, <2>3
<1> QED
  BY <1>1, <1>3 DEF Giving

-----------------------------------------------------------------------------
(* The invariant holds at first.                                            *)

LEMMA FInit == Init => FInv
<1> SUFFICES ASSUME Init PROVE FInv
  OBVIOUS
<1>1. IInv
  BY InitHolds
<1>2. Ids /\ IdsMatch
  <2>1. \A i \in PushId : waiters[i] = <<>>
    BY DEF Init
  <2>2. fileId \in Nat \ {0}
    BY FilesAssumption DEF FilesAssumption, Init
  <2> QED
    BY <2>1, <2>2 DEF Init, Ids, IdsMatch
<1>3. Whole /\ WholeFile
  BY DEF Init, Whole, WholeFile
<1>4. Talk(toS, toC, fitting, pushId)
  BY DEF Init, Talk, Alone
<1>5. Levels
  BY DEF Init, Levels
<1>6. Line
  <2>1. waiters[0] = <<>> /\ Len(waiters[0]) = 0
    BY Zero DEF Init
  <2> QED
    BY <2>1 DEF Init, Line, Distinct, Ranked, Asking, Giving
<1> QED
  BY <1>1, <1>2, <1>3, <1>4, <1>5, <1>6 DEF FInv, Apart, Together

-----------------------------------------------------------------------------
(* What a step leaves alone.                                                *)

\* The stage of a file is that of its own variables.
LEMMA FittingKept ==
    ASSUME NEW g \in Files, pc'[g] = pc[g], count'[g] = count[g], written'[g] = written[g],
           stage'[g] = stage[g], device'[g] = device[g]
    PROVE  fitting'[g] = fitting[g]
BY DEF fitting, Fitting

LEMMA LineKept ==
    ASSUME Line, waiters'[0] = waiters[0], pushId' = pushId,
           \A f \in Files : pc'[f] = "new" <=> pc[f] = "new",
           Asking(waiters[0], toS', pushId), Giving(waiters[0], toC', pushId)
    PROVE  Line'
BY DEF Line

\* The queue is a sequence of files.
LEMMA QueueTyped == ASSUME IInv PROVE waiters[0] \in Seq(Files)
BY Zero DEF IInv, TypeOK

LEMMA WireTyped == ASSUME IInv PROVE toS \in Seq(Frame) /\ toC \in Seq(Frame)
BY DEF IInv, Wire

\* The parts of the invariant, as the steps cite them.
LEMMA Facts ==
    ASSUME FInv
    PROVE  /\ IInv /\ TypeOK /\ Ids /\ IdsMatch /\ Whole /\ WholeFile
           /\ net = "up" => Talk(toS, toC, fitting, pushId) /\ Levels /\ Line
           /\ toS \in Seq(Frame) /\ toC \in Seq(Frame) /\ waiters[0] \in Seq(Files)
           /\ pushId \in [Files -> Nat]
BY QueueTyped, WireTyped DEF FInv, Apart, Together, IInv, TypeOK

-----------------------------------------------------------------------------
(* The browser.                                                             *)

LEMMA FPushFile == ASSUME FInv, NEW f \in Files, PushFile(f) PROVE FInv'
<1> DEFINE m == Msg(f, "NEW", RequestNewPushId)
           W == waiters[0]
<1>1. /\ pc[f] = "idle" /\ net = "up" /\ pc' = [pc EXCEPT ![f] = "new"] /\ toS' = Append(toS, m)
      /\ waiters' = [waiters EXCEPT ![0] = Append(@, f)] /\ shown' = [shown EXCEPT ![f] = "progress"]
      /\ UNCHANGED <<cid, count, toC, net, reader, files>>
  BY DEF PushFile, WaitFor, RequestNewPushId
<1>2. m \in Frame /\ m.kind = "NEW" /\ m.file = f
  <2>1. m \in Frame
    BY FrameTyped, Zero
  <2> QED
    BY <2>1 DEF Msg
<1> HIDE DEF m
<1>3. IInv'
  BY PushFileKeeps DEF FInv, Apart
<1>4. /\ pc'[f] = "new" /\ \A g \in Files \ {f} : pc'[g] = pc[g]
      /\ W' = Append(W, f) /\ \A i \in PushId \ {0} : waiters'[i] = waiters[i]
      /\ shown'[f] = "progress" /\ \A g \in Files \ {f} : shown'[g] = shown[g]
      /\ UNCHANGED <<fileId, rstate, pushId, stage, device, written, disk>>
  BY <1>1, Zero, Facts DEF TypeOK, reader, files
<1>5. Ids' /\ IdsMatch'
  <2>1. Ids'
    BY <1>1, <1>4, Facts DEF Ids
  <2>2. IdsMatch'
    BY <1>1, <1>4, Facts DEF IdsMatch
  <2> QED
    BY <2>1, <2>2
<1>6. Whole' /\ WholeFile'
  BY <1>4, Facts DEF Whole, WholeFile
<1>7. Talk(toS', toC', fitting', pushId')
  <2>1. fitting[f] = {} /\ fitting'[f] = {"NEW", "NEW_PUSH_ID"}
    BY <1>1, <1>4 DEF fitting, Fitting
  <2>2. Silent(toS, toC, f)
    BY <1>1, <2>1, Facts, TalkQuiet
  <2>3. \A g \in Files \ {f} : fitting'[g] = fitting[g]
    BY <1>1, <1>4, FittingKept
  <2>4. Talk(toS, toC, fitting', pushId)
    BY <1>1, <2>2, <2>3, Facts, TalkTurns
  <2>5. Speaks(m) /\ Due(m, fitting', pushId)
    BY <1>2, <2>1 DEF Speaks, Due
  <2>6. Talk(Append(toS, m), toC, fitting', pushId)
    BY <1>2, <2>2, <2>4, <2>5, Facts, TalkSend
  <2> QED
    BY <1>1, <1>4, <2>6
<1>8. Levels'
  BY <1>1, <1>4, Facts DEF Levels
<1>9. Line'
  <2>1. pushId[f] = 0 /\ Line
    BY <1>1, Facts DEF Ids
  <2>2. \A k \in 1..Len(W) : W[k] # f
    BY <1>1, <2>1 DEF Line
  <2>3. Distinct(Append(W, f)) /\ Ranked(Append(W, f), pushId)
    BY <2>1, <2>2, Facts, QueueGrows DEF Line
  <2>4. \A k \in 1..Len(toS) : toS[k].file # f
    <3>1. fitting[f] = {}
      BY <1>1 DEF fitting, Fitting
    <3>2. Silent(toS, toC, f)
      BY <1>1, <3>1, Facts, TalkQuiet
    <3> QED
      BY <3>2 DEF Silent
  <2>5. Asks(m, f)
    BY <1>2 DEF Asks
  <2>6. Asking(Append(W, f), Append(toS, m), pushId)
    BY <1>2, <2>1, <2>4, <2>5, Facts, AskingNew DEF Line
  <2>7. Giving(Append(W, f), toC, pushId)
    BY <2>1, Facts, GivingWaits DEF Line
  <2>8. \A g \in Files : pc'[g] = "new" <=> \E k \in 1..Len(Append(W, f)) : Append(W, f)[k] = g
    <3>1. /\ Len(W) \in Nat /\ Len(Append(W, f)) = Len(W) + 1 /\ Append(W, f)[Len(W) + 1] = f
          /\ \A k \in 1..Len(W) : Append(W, f)[k] = W[k]
          /\ \A k \in 1..Len(Append(W, f)) : k \in 1..Len(W) \/ k = Len(W) + 1
      BY Facts, Appended
    <3>2. \A g \in Files : pc[g] = "new" <=> \E k \in 1..Len(W) : W[k] = g
      BY <2>1 DEF Line
    <3> QED
      BY <1>1, <1>4, <3>1, <3>2
  <2> QED
    BY <1>1, <1>4, <2>3, <2>6, <2>7, <2>8 DEF Line
<1> QED
  BY <1>1, <1>3, <1>5, <1>6, <1>7, <1>8, <1>9 DEF FInv, Apart, Together

\* The id that arrives is for the first of the queue, and of its own reader.
LEMMA IdForFirst ==
    ASSUME FInv, net = "up", toC # <<>>, Head(toC).kind = "NEW_PUSH_ID"
    PROVE  LET g == Head(toC).file
           IN  /\ g \in Files /\ pc[g] = "new" /\ Head(toC).id = pushId[g] /\ pushId[g] # 0
               /\ waiters[0] # <<>> /\ Head(waiters[0]) = g
               /\ Answered = [id |-> 0, who |-> g]
<1> DEFINE m == Head(toC)
           g == m.file
<1>0. m \in Frame
  BY Facts, Popped
<1>1. m \in Frame /\ g \in Files
  BY <1>0 DEF Frame
<1>2. Due(m, fitting, pushId) /\ Speaks(m)
  BY Facts, TalkHeard DEF Speaks
<1>3. m.id = pushId[g] /\ pushId[g] # 0 /\ "NEW_PUSH_ID" \in fitting[g]
  BY <1>2 DEF Due
<1>4. pc[g] = "new"
  BY <1>1, <1>3 DEF fitting, Fitting
<1>5. \A i \in 1..Len(toC) : toC[i].kind = "NEW_PUSH_ID" => toC[i].id = pushId[toC[i].file]
  BY Facts DEF Talk, Due, Speaks
<1>6. Line /\ \E k \in 1..Len(waiters[0]) : waiters[0][k] = g
  BY <1>1, <1>4, Facts DEF Line
<1>7. Gives(m, g)
  BY DEF Gives
<1> HIDE DEF m, g
<1>8. waiters[0] # <<>> /\ Head(waiters[0]) = g
  <2>1. waiters[0] \in Seq(Files) /\ toC \in Seq(Frame) /\ pushId \in [Files -> Nat]
    BY Facts
  <2>2. Distinct(waiters[0]) /\ Ranked(waiters[0], pushId) /\ Giving(waiters[0], toC, pushId)
    BY <1>6 DEF Line
  <2>3. toC # <<>> /\ Gives(Head(toC), g) /\ g \in Files /\ pushId[g] # 0
    BY <1>1, <1>3, <1>7 DEF m
  <2> QED
    BY <1>5, <1>6, <2>1, <2>2, <2>3, FirstServed
<1>9. Answered = [id |-> 0, who |-> g]
  BY <1>8 DEF Answered, RequestNewPushId
<1> QED
  BY <1>1, <1>3, <1>4, <1>8, <1>9 DEF g, m

LEMMA FOnNewPushId == ASSUME FInv, OnNewPushId PROVE FInv'
<1> DEFINE m == Head(toC)
           g == m.file
           W == waiters[0]
           n == Msg(g, IF g \in Refused THEN "START_BAD" ELSE "START", m.id)
<1>1. net = "up" /\ toC # <<>> /\ m.kind = "NEW_PUSH_ID"
  BY DEF OnNewPushId
<1>2. /\ g \in Files /\ pc[g] = "new" /\ m.id = pushId[g] /\ pushId[g] # 0 /\ W # <<>>
      /\ Head(W) = g /\ Answered.who = g /\ Answered.id = 0
  BY <1>1, IdForFirst
<1>3. /\ cid' = [cid EXCEPT ![g] = pushId[g]] /\ pc' = [pc EXCEPT ![g] = "start"]
      /\ waiters' = [[waiters EXCEPT ![0] = Tail(@)] EXCEPT ![pushId[g]] = Append(@, g)]
      /\ toS' = Append(toS, n) \/ toS' = toS
      /\ toC' = Tail(toC) /\ UNCHANGED <<count, chC, shown, net, reader, files>>
  <2>1. /\ cid' = [cid EXCEPT ![g] = m.id] /\ pc' = [pc EXCEPT ![g] = "start"]
        /\ waiters' = [Settle EXCEPT ![m.id] = Append(@, g)]
        /\ toC' = Tail(toC) /\ UNCHANGED <<count, chC, shown, net, reader, files>>
    BY <1>2 DEF OnNewPushId
  <2>2. Settle = [waiters EXCEPT ![0] = Tail(@)]
    BY <1>2 DEF Settle
  <2>3. \/ toS' = Append(toS, [Msg(g, "START", m.id) EXCEPT !.kind =
                                  IF g \in Refused THEN "START_BAD" ELSE "START"])
        \/ toS' = toS
    BY <1>2 DEF OnNewPushId
  <2>4. [Msg(g, "START", m.id) EXCEPT !.kind = IF g \in Refused THEN "START_BAD" ELSE "START"] = n
    BY DEF Msg
  <2> QED
    BY <1>2, <2>1, <2>2, <2>3, <2>4
<1>4. n \in Frame /\ n.kind \in {"START", "START_BAD"} /\ n.file = g /\ pushId[g] \in PushId
  <2>1. m \in Frame
    BY <1>1, Facts, Popped
  <2>2. m.id \in PushId
    BY <2>1 DEF Frame
  <2>3. n \in Frame
    BY <1>2, <2>2, FrameTyped
  <2> QED
    BY <1>2, <2>2, <2>3 DEF Msg
<1>5. IInv'
  BY OnNewPushIdKeeps, Facts
<1> HIDE DEF n, g
<1>6. /\ pc'[g] = "start" /\ \A h \in Files \ {g} : pc'[h] = pc[h]
      /\ cid'[g] = pushId[g] /\ \A h \in Files \ {g} : cid'[h] = cid[h]
      /\ UNCHANGED <<fileId, rstate, pushId, stage, device, written, disk, shown, net, count>>
  BY <1>2, <1>3, Facts DEF TypeOK, reader, files
<1>7. /\ W' = Tail(W) /\ waiters'[pushId[g]] = Append(waiters[pushId[g]], g)
      /\ \A i \in PushId \ {0, pushId[g]} : waiters'[i] = waiters[i]
  BY <1>2, <1>3, <1>4, Zero, Facts DEF TypeOK
<1>8. Ids' /\ IdsMatch'
  <2>1. IdsMatch'
    BY <1>6, Facts DEF IdsMatch
  <2>2. /\ \A f \in Files : /\ pushId'[f] <= fileId'
                            /\ pushId'[f] = 0 <=> rstate'[f] = "INITIAL"
                            /\ pc'[f] = "idle" => pushId'[f] = 0
                            /\ pc'[f] \in {"start", "go", "append", "finish"} => cid'[f] # 0
        /\ \A f, h \in Files : pushId'[f] = pushId'[h] /\ pushId'[f] # 0 => f = h
    BY <1>2, <1>6, Facts DEF Ids
  <2>3. ASSUME NEW i \in PushId \ {0}, NEW k \in 1..Len(waiters'[i]) PROVE cid'[waiters'[i][k]] = i
    <3>1. ASSUME NEW h \in Files, cid[h] = i PROVE cid'[h] = i
      BY <1>2, <1>6, <3>1, Facts DEF IdsMatch
    <3>2. waiters[i] \in Seq(Files) /\ \A l \in 1..Len(waiters[i]) : cid[waiters[i][l]] = i
      BY Facts DEF Ids, TypeOK
    <3>3. CASE i = pushId[g]
      <4>1. waiters'[i] = Append(waiters[i], g)
        BY <1>7, <3>3
      <4>2. /\ Append(waiters[i], g)[Len(waiters[i]) + 1] = g
            /\ \A l \in 1..Len(waiters[i]) : Append(waiters[i], g)[l] = waiters[i][l]
            /\ k \in 1..Len(waiters[i]) \/ k = Len(waiters[i]) + 1
        BY <1>2, <2>3, <3>2, <4>1, Appended
      <4>3. CASE k = Len(waiters[i]) + 1
        BY <1>6, <3>3, <4>1, <4>2, <4>3
      <4>4. CASE k \in 1..Len(waiters[i])
        <5>1. waiters[i][k] \in Files
          BY <3>2, <4>4
        <5> QED
          BY <3>1, <3>2, <4>1, <4>2, <4>4, <5>1
      <4> QED
        BY <4>2, <4>3, <4>4
    <3>4. CASE i # pushId[g]
      <4>1. waiters'[i] = waiters[i] /\ k \in 1..Len(waiters[i])
        BY <1>7, <2>3, <3>4
      <4>2. waiters[i][k] \in Files
        BY <3>2, <4>1
      <4> QED
        BY <3>1, <3>2, <4>1, <4>2
    <3> QED
      BY <3>3, <3>4
  <2> QED
    BY <2>1, <2>2, <2>3 DEF Ids
<1>9. Whole' /\ WholeFile'
  BY <1>6, Facts DEF Whole, WholeFile
<1>10. Talk(toS', toC', fitting', pushId')
  <2>1. Talk(toS, Tail(toC), fitting, pushId) /\ Silent(toS, Tail(toC), g)
    <3>1. Speaks(m)
      BY <1>1 DEF Speaks
    <3> QED
      BY <1>1, <3>1, Facts, TalkHeard DEF g
  <2>2. Tail(toC) \in Seq(Frame)
    BY <1>1, Facts, Popped
  <2>3. \A h \in Files \ {g} : fitting'[h] = fitting[h]
    BY <1>6, FittingKept
  <2>4. Talk(toS, Tail(toC), fitting', pushId)
    <3>1. toS \in Seq(Frame)
      BY Facts
    <3>2. \A h \in Files \ {g} : fitting'[h] = fitting[h] /\ pushId[h] = pushId[h]
      BY <2>3
    <3>3. g \in Files
      BY <1>1, <1>2
    <3> QED
      BY <2>1, <2>2, <3>1, <3>2, <3>3, TalkTurns
  <2>5. fitting'[g] = {"START", "START_BAD", "NO_ERROR"}
    BY <1>2, <1>6 DEF fitting, Fitting
  <2>6. Speaks(n) /\ Due(n, fitting', pushId)
    BY <1>4, <2>5 DEF Speaks, Due
  <2>7. Talk(Append(toS, n), Tail(toC), fitting', pushId)
    BY <1>4, <2>1, <2>2, <2>4, <2>6, Facts, TalkSend
  <2> QED
    BY <1>3, <1>6, <2>4, <2>7
<1>11. Levels'
  BY <1>1, <1>2, <1>6, Facts DEF Levels
<1>12. Line'
  <2>1. Line
    BY <1>1, Facts
  <2>2. Distinct(Tail(W)) /\ Ranked(Tail(W), pushId) /\ Asking(Tail(W), toS, pushId)
    BY <1>2, <2>1, Facts, QueueServed DEF Line
  <2>3. Tail(W) \in Seq(Files)
    BY <1>2, Facts, Popped
  <2>4. Asking(Tail(W), toS', pushId)
    <3>1. n.kind # "NEW"
      BY <1>4
    <3>2. Asking(Tail(W), Append(toS, n), pushId)
      BY <1>4, <2>2, <3>1, Facts, AskingSend
    <3> QED
      BY <1>3, <2>2, <3>2
  <2>5. Gives(m, Head(W))
    BY <1>1, <1>2 DEF Gives, g
  <2>6. Giving(Tail(W), Tail(toC), pushId)
    BY <1>1, <1>2, <2>1, <2>5, Facts, GivingServed DEF Line
  <2>7. \A h \in Files : pc'[h] = "new" <=> \E k \in 1..Len(Tail(W)) : Tail(W)[k] = h
    <3>1. /\ Len(W) \in Nat \ {0} /\ Len(Tail(W)) = Len(W) - 1 /\ Head(W) = W[1]
          /\ \A k \in 1..Len(Tail(W)) : k + 1 \in 1..Len(W) /\ Tail(W)[k] = W[k + 1]
          /\ \A k \in 1..Len(W) : k = 1 \/ (k - 1 \in 1..Len(Tail(W)) /\ Tail(W)[k - 1] = W[k])
      BY <1>2, Facts, Popped
    <3>2. \A h \in Files : pc[h] = "new" <=> \E k \in 1..Len(W) : W[k] = h
      BY <2>1 DEF Line
    <3>3. \A k \in 1..Len(Tail(W)) : Tail(W)[k] # g
      BY <1>2, <2>1, <3>1 DEF Line, Distinct
    <3>4. ASSUME NEW h \in Files, h # g
          PROVE  pc[h] = "new" <=> \E k \in 1..Len(Tail(W)) : Tail(W)[k] = h
      BY <1>2, <3>1, <3>2, <3>4, SMTT(40)
    <3> QED
      BY <1>6, <3>3, <3>4
  <2>8. /\ Distinct(waiters'[0]) /\ Ranked(waiters'[0], pushId')
        /\ Asking(waiters'[0], toS', pushId') /\ Giving(waiters'[0], toC', pushId')
    BY <1>3, <1>6, <1>7, <2>2, <2>4, <2>6
  <2>9. \A h \in Files : pc'[h] = "new" <=> \E k \in 1..Len(waiters'[0]) : waiters'[0][k] = h
    BY <1>7, <2>7
  <2> QED
    BY <2>8, <2>9 DEF Line
<1> QED
  BY <1>5, <1>8, <1>9, <1>10, <1>11, <1>12 DEF FInv, Apart, Together

\* Other answers are for the file whose channel they come on.
LEMMA AnswerForOwn ==
    ASSUME FInv, net = "up", toC # <<>>, Head(toC).kind = "NO_ERROR", Answered.who # "nobody"
    PROVE  LET g == Head(toC).file
           IN  /\ g \in Files /\ Answered.who = g /\ Answered.id = pushId[g] /\ pushId[g] # 0
               /\ pushId[g] \in PushId /\ "NO_ERROR" \in fitting[g]
<1> DEFINE m == Head(toC)
           g == m.file
           f == Answered.who
<1>0. m \in Frame
  BY Facts, Popped
<1>1. m \in Frame /\ g \in Files /\ m.id \in PushId
  BY <1>0 DEF Frame
<1>2. Due(m, fitting, pushId) /\ Speaks(m)
  BY Facts, TalkHeard DEF Speaks
<1>3. m.id = pushId[g] /\ pushId[g] # 0 /\ "NO_ERROR" \in fitting[g]
  BY <1>2 DEF Due
<1>4. Answered.id = m.id /\ waiters[m.id] # <<>> /\ f = Head(waiters[m.id])
  BY DEF Answered
<1>5. waiters[m.id] \in Seq(Files)
  BY <1>1, Facts DEF TypeOK
<1>6. f = waiters[m.id][1] /\ 1 \in 1..Len(waiters[m.id]) /\ f \in Files
  BY <1>4, <1>5
<1>7. cid[f] = m.id
  BY <1>1, <1>3, <1>6, Facts DEF Ids
<1>8. pushId[f] = pushId[g]
  BY <1>3, <1>6, <1>7, Facts DEF IdsMatch
<1>9. f = g
  BY <1>1, <1>3, <1>6, <1>8, Facts DEF Ids
<1> QED
  BY <1>1, <1>3, <1>4, <1>9

\* Fewer wait, and nobody anew.
LEMMA IdsKept ==
    ASSUME FInv, UNCHANGED <<fileId, pushId, cid>>,
           \A f \in Files : rstate'[f] = "INITIAL" <=> rstate[f] = "INITIAL",
           \A f \in Files : pc'[f] = "idle" => pc[f] = "idle",
           \A f \in Files : pc'[f] \in {"start", "go", "append", "finish"} => cid[f] # 0,
           \A i \in PushId \ {0} : \A k \in 1..Len(waiters'[i]) :
               (\E l \in 1..Len(waiters[i]) : waiters'[i][k] = waiters[i][l]) \/ cid[waiters'[i][k]] = i
    PROVE  Ids' /\ IdsMatch'
<1>1. IdsMatch'
  BY Facts DEF IdsMatch
<1>2. \A i \in PushId \ {0} : \A k \in 1..Len(waiters'[i]) : cid'[waiters'[i][k]] = i
  BY Facts, SMTT(40) DEF Ids
<1>3. /\ \A f \in Files : /\ pushId'[f] <= fileId'
                          /\ pushId'[f] = 0 <=> rstate'[f] = "INITIAL"
                          /\ pc'[f] = "idle" => pushId'[f] = 0
                          /\ pc'[f] \in {"start", "go", "append", "finish"} => cid'[f] # 0
      /\ \A f, g \in Files : pushId'[f] = pushId'[g] /\ pushId'[f] # 0 => f = g
  BY Facts DEF Ids
<1> QED
  BY <1>1, <1>2, <1>3 DEF Ids

LEMMA FOnNoError == ASSUME FInv, OnNoError PROVE FInv'
<1> DEFINE m == Head(toC)
           g == m.file
           W == waiters[0]
<1>1. net = "up" /\ toC # <<>> /\ m.kind = "NO_ERROR" /\ Answered.who # "nobody"
  BY DEF OnNoError
<1>2. /\ g \in Files /\ Answered.who = g /\ Answered.id = pushId[g] /\ pushId[g] # 0
      /\ pushId[g] \in PushId /\ "NO_ERROR" \in fitting[g]
  BY <1>1, AnswerForOwn
<1>3. /\ waiters' = [waiters EXCEPT ![pushId[g]] = Tail(@)]
      /\ \/ /\ pc[g] = "finish" /\ pc' = [pc EXCEPT ![g] = "end"]
            /\ shown' = [shown EXCEPT ![g] = "success"]
         \/ pc[g] # "finish" /\ pc' = [pc EXCEPT ![g] = "go"] /\ shown' = shown
      /\ toC' = Tail(toC) /\ UNCHANGED <<cid, count, chC, toS, net, reader, files>>
  BY <1>2 DEF OnNoError, Settle
<1>4. IInv'
  BY OnNoErrorKeeps, Facts
<1> HIDE DEF g
<1>5. /\ pc[g] = "finish" => pc'[g] = "end" /\ shown'[g] = "success"
      /\ pc[g] # "finish" => pc'[g] = "go" /\ shown'[g] = shown[g]
      /\ \A h \in Files \ {g} : pc'[h] = pc[h] /\ shown'[h] = shown[h]
      /\ UNCHANGED <<cid, fileId, rstate, pushId, stage, device, written, disk, net, count, toS>>
  BY <1>2, <1>3, Facts DEF TypeOK, reader, files
<1>6. /\ pc[g] \in {"start", "append", "finish"}
      /\ pc[g] = "append" => count[g] = written[g]
      /\ pc[g] = "finish" => device[g] = Chunks
  <2>1. count[g] \in Nat /\ written[g] \in Nat
    BY <1>2, FilesAssumption, Facts DEF FilesAssumption, TypeOK
  <2> QED
    BY <1>2, <2>1 DEF fitting, Fitting
<1>7. W' = W /\ waiters'[pushId[g]] = Tail(waiters[pushId[g]])
      /\ \A i \in PushId \ {pushId[g]} : waiters'[i] = waiters[i]
  BY <1>2, <1>3, Zero, Facts DEF TypeOK
<1>8. Ids' /\ IdsMatch'
  <2>1. waiters[pushId[g]] # <<>> /\ waiters[pushId[g]] \in Seq(Files)
    <3>1. waiters[Answered.id] # <<>>
      BY <1>1 DEF Answered
    <3> QED
      BY <1>2, <3>1, Facts DEF TypeOK
  <2>2. \A k \in 1..Len(waiters'[pushId[g]]) :
           \E l \in 1..Len(waiters[pushId[g]]) : waiters'[pushId[g]][k] = waiters[pushId[g]][l]
    BY <1>7, <2>1, Popped
  <2>3. \A i \in PushId \ {0} : \A k \in 1..Len(waiters'[i]) :
           \E l \in 1..Len(waiters[i]) : waiters'[i][k] = waiters[i][l]
    BY <1>7, <2>2
  <2>4. \A f \in Files : pc'[f] = "idle" => pc[f] = "idle"
    BY <1>5
  <2>5. \A f \in Files : pc'[f] \in {"start", "go", "append", "finish"} => cid[f] # 0
    BY <1>5, <1>6, Facts DEF Ids
  <2> QED
    BY <1>5, <2>3, <2>4, <2>5, IdsKept
<1>9. Whole' /\ WholeFile'
  <2>1. Whole'
    BY <1>5, Facts DEF Whole
  <2>2. WholeFile'
    BY <1>5, <1>6, Facts DEF WholeFile
  <2> QED
    BY <2>1, <2>2
<1>10. Talk(toS', toC', fitting', pushId')
  <2>1. Talk(toS, Tail(toC), fitting, pushId) /\ Silent(toS, Tail(toC), g)
    <3>1. Speaks(m)
      BY <1>1 DEF Speaks
    <3> QED
      BY <1>1, <3>1, Facts, TalkHeard DEF g
  <2>2. Tail(toC) \in Seq(Frame)
    BY <1>1, Facts, Popped
  <2>3. \A h \in Files \ {g} : fitting'[h] = fitting[h]
    BY <1>5, FittingKept
  <2>4. Talk(toS, Tail(toC), fitting', pushId)
    BY <1>2, <2>1, <2>2, <2>3, Facts, TalkTurns
  <2> QED
    BY <1>3, <1>5, <2>4
<1>11. Levels'
  <2>1. Levels /\ (pc[g] = "start" => count[g] = written[g])
    BY <1>1, <1>2, Facts DEF Levels
  <2>2. SUFFICES ASSUME NEW h \in Files
                 PROVE  /\ pc'[h] \in {"idle", "new", "start", "go", "finish"}
                               => count[h] = written[h]
                        /\ pc'[h] = "finish" => count[h] = Chunks
                        /\ stage[h] # "none" => pc'[h] = "finish"
    BY <1>5 DEF Levels
  <2>3. CASE h = g
    <3>1. pc[g] = "finish" => stage[g] = "none"
      BY <1>2 DEF fitting, Fitting
    <3>2. stage[g] = "none"
      BY <1>2, <1>6, <2>1, <3>1 DEF Levels
    <3> QED
      BY <1>5, <1>6, <2>1, <2>3, <3>2
  <2>4. CASE h # g
    BY <1>5, <2>1, <2>4 DEF Levels
  <2> QED
    BY <2>3, <2>4
<1>12. Line'
  <2>1. Line
    BY <1>1, Facts
  <2>2. Giving(W, Tail(toC), pushId)
    BY <1>1, <2>1, Facts, GivingNext DEF Line
  <2>3. \A h \in Files : pc'[h] = "new" <=> pc[h] = "new"
    BY <1>5, <1>6
  <2> QED
    BY <1>3, <1>5, <1>7, <2>1, <2>2, <2>3, LineKept DEF Line
<1> QED
  BY <1>4, <1>8, <1>9, <1>10, <1>11, <1>12 DEF FInv, Apart, Together

LEMMA FProcessData == ASSUME FInv, NEW f \in Files, ProcessData(f) PROVE FInv'
<1>1. /\ pc[f] = "go" /\ UNCHANGED <<cid, chC, toC, net, reader, files>>
      /\ shown' = [shown EXCEPT ![f] = IF count[f] > 0 THEN "progress" ELSE @]
  BY DEF ProcessData
<1>2. UNCHANGED <<cid, toC, net, fileId, rstate, pushId, stage, device, written, disk>>
  BY <1>1 DEF reader, files
<1>3. IInv'
  BY ProcessDataKeeps, Facts
<1>4. cid[f] \in PushId /\ cid[f] # 0 /\ count[f] \in 0..Chunks /\ Chunks \in Nat
  BY <1>1, Facts, FilesAssumption DEF FilesAssumption, Ids, TypeOK
<1>5. \/ pc' = [pc EXCEPT ![f] = "end"] /\ UNCHANGED <<count, waiters, toS>>
      \/ /\ count[f] < Chunks /\ pc' = [pc EXCEPT ![f] = "append"]
         /\ count' = [count EXCEPT ![f] = @ + 1]
         /\ toS' = Append(toS, Msg(f, "APPEND", cid[f])) /\ WaitFor(f, cid[f])
      \/ /\ count[f] = Chunks /\ pc' = [pc EXCEPT ![f] = "finish"] /\ count' = count
         /\ toS' = Append(toS, Msg(f, "FINISH", cid[f])) /\ WaitFor(f, cid[f])
  <2>1. CASE chC[f] # "open"
    BY <2>1 DEF ProcessData
  <2>2. CASE chC[f] = "open" /\ count[f] < Chunks
    BY <2>2 DEF ProcessData
  <2>3. CASE chC[f] = "open" /\ ~(count[f] < Chunks)
    <3>1. /\ count' = [count EXCEPT ![f] = count[f]] /\ count[f] = Chunks
          /\ pc' = [pc EXCEPT ![f] = "finish"]
          /\ toS' = Append(toS, Msg(f, "FINISH", cid[f])) /\ WaitFor(f, cid[f])
      BY <1>4, <2>3 DEF ProcessData
    <3>2. count' = count
      BY <3>1, Facts DEF TypeOK
    <3> QED
      BY <3>1, <3>2
  <2> QED
    BY <2>1, <2>2, <2>3
<1>6. /\ pc'[f] \in {"end", "append", "finish"}
      /\ pc'[f] = "append" => count'[f] = count[f] + 1
      /\ pc'[f] = "finish" => count'[f] = count[f] /\ count[f] = Chunks
      /\ \A g \in Files \ {f} : pc'[g] = pc[g] /\ count'[g] = count[g] /\ shown'[g] = shown[g]
      /\ shown'[f] = "success" => shown[f] = "success"
  <2>1. pc'[f] \in {"end", "append", "finish"} /\ \A g \in Files \ {f} : pc'[g] = pc[g]
    BY <1>5, Facts DEF TypeOK
  <2>2. /\ pc'[f] = "append" => count'[f] = count[f] + 1
        /\ pc'[f] = "finish" => count'[f] = count[f] /\ count[f] = Chunks
        /\ \A g \in Files \ {f} : count'[g] = count[g]
    BY <1>4, <1>5, Facts DEF TypeOK
  <2>3. /\ \A g \in Files \ {f} : shown'[g] = shown[g]
        /\ shown'[f] = "success" => shown[f] = "success"
    BY <1>1, Facts DEF TypeOK
  <2> QED
    BY <2>1, <2>2, <2>3
<1>7. /\ waiters'[0] = waiters[0] /\ \A i \in PushId \ {cid[f]} : waiters'[i] = waiters[i]
      /\ waiters' = waiters \/ waiters'[cid[f]] = Append(waiters[cid[f]], f)
  <2>1. CASE waiters' = waiters
    BY <2>1
  <2>2. CASE waiters' = [waiters EXCEPT ![cid[f]] = Append(@, f)]
    <3>1. waiters \in [PushId -> Seq(Files)] /\ 0 \in PushId
      BY Zero, Facts DEF TypeOK
    <3>2. \A i \in PushId \ {cid[f]} : waiters'[i] = waiters[i]
      BY <2>2, <3>1
    <3>3. waiters'[cid[f]] = Append(waiters[cid[f]], f)
      BY <1>4, <2>2, <3>1
    <3> QED
      BY <1>4, <3>1, <3>2, <3>3
  <2> QED
    BY <1>5, <2>1, <2>2 DEF WaitFor
<1>8. Ids' /\ IdsMatch'
  <2>1. waiters[cid[f]] \in Seq(Files)
    BY <1>4, Facts DEF TypeOK
  <2>2. ASSUME NEW i \in PushId \ {0}, NEW k \in 1..Len(waiters'[i])
        PROVE  \/ \E l \in 1..Len(waiters[i]) : waiters'[i][k] = waiters[i][l]
               \/ cid[waiters'[i][k]] = i
    <3>1. CASE waiters'[i] = waiters[i]
      BY <2>2, <3>1
    <3>2. CASE i = cid[f] /\ waiters'[i] = Append(waiters[i], f)
      <4>1. /\ Append(waiters[i], f)[Len(waiters[i]) + 1] = f
            /\ \A l \in 1..Len(waiters[i]) : Append(waiters[i], f)[l] = waiters[i][l]
            /\ k \in 1..Len(waiters[i]) \/ k = Len(waiters[i]) + 1
        BY <2>1, <2>2, <3>2, Appended
      <4> QED
        BY <3>2, <4>1
    <3> QED
      BY <1>7, <3>1, <3>2
  <2>3. \A g \in Files : pc'[g] = "idle" => pc[g] = "idle"
    BY <1>6
  <2>4. \A g \in Files : pc'[g] \in {"start", "go", "append", "finish"} => cid[g] # 0
    BY <1>4, <1>6, Facts DEF Ids
  <2> QED
    BY <1>2, <2>2, <2>3, <2>4, IdsKept
<1>9. Whole' /\ WholeFile'
  <2>1. Whole'
    BY <1>2, Facts DEF Whole
  <2>2. WholeFile'
    BY <1>2, <1>6, Facts DEF WholeFile
  <2> QED
    BY <2>1, <2>2
<1>10. ASSUME net = "up" PROVE Together'
  <2>1. count[f] = written[f] /\ stage[f] = "none" /\ Line /\ Levels
    BY <1>1, <1>10, Facts DEF Levels
  <2>2. Levels'
    BY <1>2, <1>6, <2>1 DEF Levels
  <2>3. /\ pc'[f] = "append" => "APPEND" \in fitting'[f]
        /\ pc'[f] = "finish" => "FINISH" \in fitting'[f]
    <3>1. written'[f] = written[f] /\ stage'[f] = "none" /\ count'[f] \in Nat
      BY <1>2, <1>3, <2>1, FilesAssumption DEF FilesAssumption, IInv, TypeOK
    <3>2. CASE pc'[f] = "append"
      BY <1>6, <2>1, <3>1, <3>2 DEF fitting, Fitting
    <3>3. CASE pc'[f] = "finish"
      BY <3>1, <3>3 DEF fitting, Fitting
    <3> QED
      BY <3>2, <3>3
  <2>4. toS' = toS \/ \E m \in Frame : /\ toS' = Append(toS, m) /\ m.kind \in {"APPEND", "FINISH"}
                                       /\ m.file = f /\ m.kind \in fitting'[f]
    <3>1. /\ Msg(f, "APPEND", cid[f]) \in Frame /\ Msg(f, "FINISH", cid[f]) \in Frame
          /\ Msg(f, "APPEND", cid[f]).file = f /\ Msg(f, "FINISH", cid[f]).file = f
          /\ Msg(f, "APPEND", cid[f]).kind = "APPEND" /\ Msg(f, "FINISH", cid[f]).kind = "FINISH"
      <4>1. Msg(f, "APPEND", cid[f]) \in Frame /\ Msg(f, "FINISH", cid[f]) \in Frame
        BY <1>4, FrameTyped
      <4> QED
        BY <4>1 DEF Msg
    <3>2. \/ toS' = toS
          \/ pc'[f] = "append" /\ toS' = Append(toS, Msg(f, "APPEND", cid[f]))
          \/ pc'[f] = "finish" /\ toS' = Append(toS, Msg(f, "FINISH", cid[f]))
      BY <1>5, Facts DEF TypeOK
    <3> QED
      BY <2>3, <3>1, <3>2
  <2>5. Silent(toS, toC, f) /\ Talk(toS, toC, fitting', pushId)
    <3>1. fitting[f] = {}
      BY <1>1 DEF fitting, Fitting
    <3>2. Silent(toS, toC, f)
      BY <1>10, <3>1, Facts, TalkQuiet
    <3>3. \A g \in Files \ {f} : fitting'[g] = fitting[g]
      BY <1>2, <1>6, FittingKept
    <3> QED
      BY <1>10, <3>2, <3>3, Facts, TalkTurns
  <2>6. Talk(toS', toC, fitting', pushId) /\ Asking(waiters[0], toS', pushId)
    <3>1. CASE toS' = toS
      BY <2>1, <2>5, <3>1 DEF Line
    <3>2. ASSUME NEW m \in Frame, toS' = Append(toS, m), m.kind \in {"APPEND", "FINISH"},
                 m.file = f, m.kind \in fitting'[f]
          PROVE  Talk(toS', toC, fitting', pushId) /\ Asking(waiters[0], toS', pushId)
      <4>1. Speaks(m) /\ Due(m, fitting', pushId) /\ m.kind # "NEW"
        BY <3>2 DEF Speaks, Due
      <4>2. Talk(Append(toS, m), toC, fitting', pushId)
        BY <2>5, <3>2, <4>1, Facts, TalkSend
      <4>3. Asking(waiters[0], Append(toS, m), pushId)
        BY <2>1, <4>1, Facts, AskingSend DEF Line
      <4> QED
        BY <3>2, <4>2, <4>3
    <3> QED
      BY <2>4, <3>1, <3>2
  <2>7. \A g \in Files : pc'[g] = "new" <=> pc[g] = "new"
    BY <1>1, <1>6
  <2>8. Line'
    BY <1>2, <1>7, <2>1, <2>6, <2>7, LineKept DEF Line
  <2> QED
    BY <1>2, <2>2, <2>6, <2>8 DEF Together
<1> QED
  BY <1>2, <1>3, <1>8, <1>9, <1>10 DEF FInv, Apart

LEMMA FOnClose == ASSUME FInv, OnClose PROVE FInv'
<1> DEFINE m == Head(toC)
<1>1. /\ net = "up" /\ toC # <<>> /\ m.kind \in {"CLEAN", "FAILED"} /\ toC' = Tail(toC)
      /\ UNCHANGED <<pc, cid, count, waiters, toS, net, reader, files>>
      /\ shown' = [shown EXCEPT ![m.file] =
                      IF m.kind = "FAILED" /\ chC[m.file] = "open" THEN "error" ELSE @]
  BY DEF OnClose
<1>2. UNCHANGED <<fileId, rstate, pushId, stage, device, written, disk>>
  BY <1>1 DEF reader, files
<1>3. IInv'
  BY OnCloseKeeps, Facts
<1>4. Ids' /\ IdsMatch' /\ Whole'
  BY <1>1, <1>2, Facts DEF Ids, IdsMatch, Whole
<1>5. WholeFile'
  <2>1. \A f \in Files : shown'[f] = "success" => shown[f] = "success"
    BY <1>1, Facts DEF TypeOK
  <2> QED
    BY <1>2, <2>1, Facts DEF WholeFile
<1>6. Talk(toS, Tail(toC), fitting, pushId)
  BY <1>1, Facts, TalkHeard
<1>7. fitting' = fitting /\ Levels'
  <2>1. fitting' = fitting
    BY <1>1, <1>2 DEF fitting, Fitting
  <2> QED
    BY <1>1, <1>2, <2>1, Facts DEF Levels
<1>8. Line'
  <2>1. Line
    BY <1>1, Facts
  <2>2. Giving(waiters[0], Tail(toC), pushId)
    BY <1>1, <2>1, Facts, GivingNext DEF Line
  <2> QED
    BY <1>1, <1>2, <2>1, <2>2, LineKept DEF Line
<1> QED
  BY <1>1, <1>2, <1>3, <1>4, <1>5, <1>6, <1>7, <1>8 DEF FInv, Apart, Together

-----------------------------------------------------------------------------
(* The server.                                                              *)

\* The command that arrives fits the stage of its file.
LEMMA CommandFits ==
    ASSUME FInv, NEW f \in Files, NEW kind, Arrived(f, kind)
    PROVE  /\ net = "up" /\ toS # <<>> /\ Head(toS).file = f /\ Head(toS).kind = kind
           /\ toS' = Tail(toS) /\ toS' \in Seq(Frame) /\ kind \in fitting[f]
           /\ Talk(toS', toC, fitting, pushId) /\ Silent(toS', toC, f) /\ Levels /\ Line
           /\ kind # "NEW" => Asking(waiters[0], toS', pushId)
<1>1. /\ net = "up" /\ toS # <<>> /\ Head(toS).file = f /\ Head(toS).kind = kind
      /\ toS' = Tail(toS)
  BY DEF Arrived
<1>2. Talk(toS, toC, fitting, pushId) /\ Levels /\ Line
  BY <1>1, Facts
<1>3. /\ Talk(Tail(toS), toC, fitting, pushId) /\ Silent(Tail(toS), toC, Head(toS).file)
      /\ Due(Head(toS), fitting, pushId)
  BY <1>1, <1>2, Facts, TalkTaken
<1>4. Speaks(Head(toS))
  <2>1. Head(toS) = toS[1] /\ 1 \in 1..Len(toS)
    BY <1>1, Facts, Popped
  <2> QED
    BY <1>2, <2>1 DEF Talk
<1>5. Tail(toS) \in Seq(Frame)
  BY <1>1, Facts, Popped
<1>6. kind # "NEW" => Asking(waiters[0], Tail(toS), pushId)
  BY <1>1, <1>2, Facts, AskingNext DEF Line
<1>7. kind \in fitting[f]
  BY <1>1, <1>3, <1>4 DEF Due
<1> QED
  BY <1>1, <1>2, <1>3, <1>5, <1>6, <1>7

\* A reader that keeps its id and does not touch the browser keeps the line, as long
\* as what it sends is no id.
LEMMA ReaderLine ==
    ASSUME Line, UNCHANGED <<waiters, pc, pushId>>,
           Asking(waiters[0], toS', pushId), Giving(waiters[0], toC', pushId)
    PROVE  Line'
BY LineKept

\* Nobody gets an id, and no reader starts.
LEMMA IdsSame ==
    ASSUME Ids, IdsMatch, UNCHANGED <<pc, cid, waiters, fileId, pushId>>,
           \A g \in Files : rstate'[g] = "INITIAL" <=> rstate[g] = "INITIAL"
    PROVE  Ids' /\ IdsMatch'
<1>1. IdsMatch'
  BY DEF IdsMatch
<1>2. Ids'
  BY DEF Ids
<1> QED
  BY <1>1, <1>2

\* A reader starts and has an id.
LEMMA FOnNew == ASSUME FInv, NEW f \in Files, OnNew(f) PROVE FInv'
<1> DEFINE id == fileId + 1
           m == Msg(f, "NEW_PUSH_ID", id)
           W == waiters[0]
<1>1. /\ Arrived(f, "NEW") /\ rstate[f] = "INITIAL" /\ rstate' = [rstate EXCEPT ![f] = "NEW"]
      /\ fileId' = id /\ pushId' = [pushId EXCEPT ![f] = id]
      /\ toC' = IF id <= MaxInt16 THEN Append(toC, m) ELSE toC
      /\ UNCHANGED <<client, net, stage, source, disposed, device, files>>
  BY DEF OnNew
<1>2. /\ net = "up" /\ toS # <<>> /\ Head(toS).file = f /\ Head(toS).kind = "NEW"
      /\ toS' = Tail(toS) /\ toS' \in Seq(Frame) /\ "NEW" \in fitting[f]
      /\ Talk(toS', toC, fitting, pushId) /\ Silent(toS', toC, f) /\ Levels /\ Line
  BY <1>1, CommandFits
<1>3. pc[f] = "new"
  BY <1>2 DEF fitting, Fitting
<1>4. /\ UNCHANGED <<pc, cid, count, waiters, shown, net, stage, device, written, disk>>
      /\ rstate'[f] = "NEW" /\ \A g \in Files \ {f} : rstate'[g] = rstate[g]
      /\ pushId'[f] = id /\ \A g \in Files \ {f} : pushId'[g] = pushId[g]
      /\ pushId[f] = 0 /\ \A g \in Files : pushId[g] <= fileId
      /\ fileId \in Nat /\ MaxInt16 \in Nat
  <2>1. UNCHANGED <<pc, cid, count, waiters, shown, net, stage, device, written, disk>>
    BY <1>1 DEF client, files
  <2>2. fileId \in Nat /\ MaxInt16 \in Nat
    BY Facts, FilesAssumption DEF TypeOK, FilesAssumption
  <2>3. pushId[f] = 0 /\ \A g \in Files : pushId[g] <= fileId
    BY <1>1, Facts DEF Ids
  <2> QED
    BY <1>1, <2>1, <2>2, <2>3, Facts DEF TypeOK
<1>5. IInv'
  BY OnNewKeeps, Facts
<1>6. Ids' /\ IdsMatch'
  <2>1. IdsMatch'
    <3>1. cid[f] = 0
      <4>1. cid[f] # 0 => cid[f] = pushId[f]
        BY Facts DEF IdsMatch
      <4> QED
        BY <1>4, <4>1
    <3> QED
      BY <1>4, <3>1, Facts DEF IdsMatch
  <2>2. \A i \in PushId \ {0} : \A k \in 1..Len(waiters'[i]) : cid'[waiters'[i][k]] = i
    BY <1>4, Facts DEF Ids
  <2>3. \A g \in Files : /\ pushId'[g] <= fileId'
                         /\ pushId'[g] = 0 <=> rstate'[g] = "INITIAL"
                         /\ pc'[g] = "idle" => pushId'[g] = 0
                         /\ pc'[g] \in {"start", "go", "append", "finish"} => cid'[g] # 0
    <3>1. TAKE g \in Files
    <3>2. CASE g = f
      BY <1>1, <1>3, <1>4, <3>2
    <3>3. CASE g # f
      BY <1>1, <1>4, <3>3, Facts DEF Ids
    <3> QED
      BY <3>2, <3>3
  <2>4. \A g, h \in Files : pushId'[g] = pushId'[h] /\ pushId'[g] # 0 => g = h
    BY <1>4, Facts DEF Ids
  <2> QED
    BY <2>1, <2>2, <2>3, <2>4 DEF Ids
<1>7. Whole' /\ WholeFile'
  BY <1>4, Facts DEF Whole, WholeFile
<1>8. id <= MaxInt16 => m \in Frame
  <2>1. id <= MaxInt16 => id \in PushId
    BY <1>4 DEF PushId
  <2> QED
    BY <2>1, FrameTyped
<1>9. m.kind = "NEW_PUSH_ID" /\ m.file = f /\ m.id = id
  BY DEF Msg
<1> HIDE DEF m
<1>10. Talk(toS', toC', fitting', pushId')
  <2>1. fitting' = fitting
    BY <1>4 DEF fitting, Fitting
  <2>2. Talk(toS', toC, fitting, pushId')
    BY <1>2, <1>4, Facts, TalkTurns
  <2>3. Speaks(m) /\ Due(m, fitting, pushId')
    <3>1. fitting[f] = {"NEW", "NEW_PUSH_ID"}
      BY <1>3 DEF fitting, Fitting
    <3> QED
      BY <1>4, <1>9, <3>1 DEF Speaks, Due
  <2>4. CASE id <= MaxInt16
    <3>1. Talk(toS', Append(toC, m), fitting, pushId')
      BY <1>2, <1>8, <1>9, <2>2, <2>3, <2>4, Facts, TalkAnswer
    <3> QED
      BY <1>1, <2>1, <2>4, <3>1
  <2>5. CASE ~(id <= MaxInt16)
    BY <1>1, <2>1, <2>2, <2>5
  <2> QED
    BY <2>4, <2>5
<1>11. Levels'
  BY <1>2, <1>4 DEF Levels
<1>12. Line'
  <2>1. Asks(Head(toS), f)
    BY <1>2 DEF Asks
  <2>2. /\ Distinct(W) /\ Ranked(W, pushId) /\ Asking(W, toS, pushId) /\ Giving(W, toC, pushId)
        /\ W \in Seq(Files) /\ toS \in Seq(Frame) /\ toC \in Seq(Frame)
        /\ pushId \in [Files -> Nat] /\ pushId' \in [Files -> Nat]
    BY <1>1, <1>2, <1>4, Facts DEF Line
  <2>3. Ranked(W, pushId')
    <3>1. \A g \in Files \ {f} : pushId'[g] = pushId[g] /\ pushId[g] < pushId'[f]
      BY <1>4, Facts
    <3> QED
      BY <1>2, <1>4, <2>1, <2>2, <3>1, RankedTaken
  <2>4. Asking(W, toS', pushId')
    <3>1. pushId'[f] # 0
      BY <1>4
    <3> QED
      BY <1>2, <1>4, <2>1, <2>2, <3>1, AskingTaken
  <2>5. Giving(W, toC', pushId')
    <3>2. \A i \in 1..Len(toC) : toC[i].kind = "NEW_PUSH_ID" => toC[i].id < id
      <4>1. TAKE i \in 1..Len(toC)
      <4>2. toC[i] \in Frame
        BY Facts
      <4>3. toC[i].file \in Files
        BY <4>2 DEF Frame
      <4>4. toC[i].kind = "NEW_PUSH_ID" => toC[i].id = pushId[toC[i].file]
        BY <1>2 DEF Talk, Due, Speaks
      <4> QED
        BY <1>4, <4>3, <4>4, Facts
    <3>3. CASE id <= MaxInt16
      <4>1. Gives(m, f)
        BY <1>9 DEF Gives
      <4>2. Giving(W, Append(toC, m), pushId')
        <5>1. /\ m \in Frame
              /\ \A g \in Files \ {f} : pushId'[g] = pushId[g]
              /\ \A i \in 1..Len(toC) : toC[i].kind = "NEW_PUSH_ID" => toC[i].id < m.id
          BY <1>4, <1>8, <1>9, <3>2, <3>3
        <5>2. W \in Seq(Files) /\ toC \in Seq(Frame) /\ Giving(W, toC, pushId)
          BY <2>2
        <5> HIDE DEF W, id
        <5> QED
          BY <4>1, <5>1, <5>2, GivingNew
      <4> QED
        BY <1>1, <3>3, <4>2
    <3>4. CASE ~(id <= MaxInt16)
      <4>1. pushId'[f] \notin 1..MaxInt16
        BY <1>4, <3>4
      <4>2. Giving(W, toC, pushId')
        BY <1>4, <2>2, <4>1, GivingNone
      <4> QED
        BY <1>1, <3>4, <4>2
    <3> QED
      BY <3>3, <3>4
  <2> QED
    BY <1>2, <1>4, <2>3, <2>4, <2>5 DEF Line
<1> QED
  BY <1>5, <1>6, <1>7, <1>10, <1>11, <1>12 DEF FInv, Apart, Together

\* release() may add the end of the channel to what is on the wire, after the answer.
LEMMA ReleaseSends ==
    ASSUME NEW f \in Files, NEW how \in {"CLEAN", "FAILED"}, toC \in Seq(Frame)
    PROVE  /\ Release(f, <<>>, how) =>
                  \E m \in Frame : ~Speaks(m) /\ (toC' = toC \/ toC' = Append(toC, m))
           /\ \A a \in Frame : Release(f, <<a>>, how) =>
                  \E m \in Frame : ~Speaks(m) /\ (toC' = toC \/ toC' = Append(Append(toC, a), m))
<1> DEFINE m == Msg(f, how, 0)
<1>1. m \in Frame
  BY FrameTyped, Zero
<1>2. m.kind \in {"CLEAN", "FAILED"}
  BY DEF Msg
<1>3. Release(f, <<>>, how) => toC' = toC \/ toC' = toC \o <<>> \o <<m>>
  BY DEF Release
<1>4. \A a : Release(f, <<a>>, how) => toC' = toC \/ toC' = toC \o <<a>> \o <<m>>
  BY DEF Release
<1> HIDE DEF m
<1>5. toC \o <<>> \o <<m>> = Append(toC, m)
  BY <1>1
<1>6. \A a \in Frame : toC \o <<a>> \o <<m>> = Append(Append(toC, a), m)
  BY <1>1
<1>7. ~Speaks(m)
  BY <1>2 DEF Speaks
<1> QED
  BY <1>1, <1>3, <1>4, <1>5, <1>6, <1>7

\* The end of a channel changes nothing in the conversation.
LEMMA CloserKeeps ==
    ASSUME NEW S \in Seq(Frame), NEW C \in Seq(Frame), NEW D, NEW x, NEW p, NEW W,
           NEW m \in Frame, ~Speaks(m), D = C \/ D = Append(C, m),
           Talk(S, C, x, p), Giving(W, C, p)
    PROVE  Talk(S, D, x, p) /\ Giving(W, D, p)
<1>1. Talk(S, Append(C, m), x, p)
  BY TalkClose
<1>2. m.kind # "NEW_PUSH_ID"
  BY DEF Speaks
<1>3. Giving(W, Append(C, m), p)
  BY <1>2, GivingSend
<1> QED
  BY <1>1, <1>3

LEMMA FRefuse ==
    ASSUME FInv, NEW f \in Files, NEW kind, kind # "NEW", Arrived(f, kind), Refuse(f)
    PROVE  FInv'
<1>1. /\ Release(f, <<>>, "FAILED")
      /\ UNCHANGED <<client, net, fileId, rstate, pushId, stage, source, device, written, disk>>
  BY DEF Refuse
<1>2. UNCHANGED <<pc, cid, count, waiters, shown, net>>
  BY <1>1 DEF client
<1>3. /\ net = "up" /\ toS' \in Seq(Frame) /\ Talk(toS', toC, fitting, pushId) /\ Levels /\ Line
      /\ Asking(waiters[0], toS', pushId)
  BY CommandFits
<1>4. IInv'
  BY <1>3, RefuseKeeps, Facts
<1>5. Ids' /\ IdsMatch' /\ Whole' /\ WholeFile'
  BY <1>1, <1>2, Facts DEF Ids, IdsMatch, Whole, WholeFile
<1>6. PICK m \in Frame : ~Speaks(m) /\ (toC' = toC \/ toC' = Append(toC, m))
  BY <1>1, Facts, ReleaseSends
<1>7. Talk(toS', toC', fitting, pushId) /\ Giving(waiters[0], toC', pushId)
  <2>1. Giving(waiters[0], toC, pushId)
    BY <1>3 DEF Line
  <2> QED
    BY <1>3, <1>6, <2>1, Facts, CloserKeeps
<1>8. fitting' = fitting
  BY <1>1, <1>2 DEF fitting, Fitting
<1>9. Levels'
  BY <1>1, <1>2, <1>3 DEF Levels
<1>10. Line'
  BY <1>1, <1>2, <1>3, <1>7, ReaderLine
<1> QED
  BY <1>1, <1>4, <1>5, <1>7, <1>8, <1>9, <1>10 DEF FInv, Apart, Together

\* A command is answered: nothing else of its file was on the wire.
LEMMA AnswerFits ==
    ASSUME FInv, NEW f \in Files, toS' \in Seq(Frame), NEW x, Silent(toS', toC, f),
           Talk(toS', toC, x, pushId), "NO_ERROR" \in x[f], pushId[f] # 0, pushId[f] \in PushId,
           Giving(waiters[0], toC, pushId), toC' = Append(toC, Msg(f, "NO_ERROR", pushId[f]))
    PROVE  Talk(toS', toC', x, pushId) /\ Giving(waiters[0], toC', pushId)
<1> DEFINE m == Msg(f, "NO_ERROR", pushId[f])
<1>1. m \in Frame
  BY FrameTyped
<1>2. m.kind = "NO_ERROR" /\ m.file = f /\ m.id = pushId[f]
  BY DEF Msg
<1> HIDE DEF m
<1>3. Speaks(m) /\ Due(m, x, pushId) /\ m.kind # "NEW_PUSH_ID"
  BY <1>2 DEF Speaks, Due
<1>4. Talk(toS', Append(toC, m), x, pushId)
  BY <1>1, <1>2, <1>3, Facts, TalkAnswer
<1>5. Giving(waiters[0], Append(toC, m), pushId)
  BY <1>1, <1>3, Facts, GivingSend
<1> QED
  BY <1>4, <1>5 DEF m

LEMMA FOnStart == ASSUME FInv, NEW f \in Files, OnStart(f) PROVE FInv'
<1>1. PICK kind \in {"START", "START_BAD"} : Arrived(f, kind)
  BY DEF OnStart
<1>2. CASE Refuse(f)
  BY <1>1, <1>2, FRefuse
<1>3. CASE Expected(f, {"NEW"}) /\ ~Refuse(f)
  <2>1. /\ rstate' = [rstate EXCEPT ![f] = "START"] /\ rstate[f] = "NEW"
        /\ toC' = Append(toC, Msg(f, "NO_ERROR", pushId[f]))
        /\ UNCHANGED <<client, net, fileId, pushId, chS, stage, source, disposed, device,
                       written, disk, early>>
    BY <1>3 DEF OnStart, Expected
  <2>2. UNCHANGED <<pc, cid, count, waiters, shown, net, fileId, pushId, stage, device, written, disk>>
    BY <2>1 DEF client
  <2>3. rstate'[f] = "START" /\ \A g \in Files \ {f} : rstate'[g] = rstate[g]
    BY <2>1, Facts DEF TypeOK
  <2>4. /\ net = "up" /\ toS' \in Seq(Frame) /\ Talk(toS', toC, fitting, pushId) /\ Levels /\ Line
        /\ Asking(waiters[0], toS', pushId) /\ Silent(toS', toC, f) /\ kind \in fitting[f]
    BY <1>1, CommandFits
  <2>5. "NO_ERROR" \in fitting[f]
    <3>1. pc[f] = "start"
      BY <2>4 DEF fitting, Fitting
    <3> QED
      BY <3>1 DEF fitting, Fitting
  <2>6. pushId[f] # 0 /\ pushId[f] \in PushId
    <3>1. pushId[f] \in PushId
      BY <1>1, <1>3, AnswersKnown, Facts
    <3>2. pushId[f] # 0
      BY <2>1, Facts DEF Ids
    <3> QED
      BY <3>1, <3>2
  <2>7. Talk(toS', toC', fitting, pushId) /\ Giving(waiters[0], toC', pushId)
    <3>1. Giving(waiters[0], toC, pushId)
      BY <2>4 DEF Line
    <3> QED
      BY <2>1, <2>4, <2>5, <2>6, <3>1, AnswerFits
  <2>8. fitting' = fitting
    BY <2>2 DEF fitting, Fitting
  <2>9. Levels' /\ Line'
    <3>1. Levels'
      BY <2>2, <2>4 DEF Levels
    <3> QED
      BY <2>2, <2>4, <2>7, <3>1, ReaderLine
  <2>10. Ids' /\ IdsMatch' /\ Whole' /\ WholeFile'
    <3>1. \A g \in Files : /\ rstate'[g] = "INITIAL" <=> rstate[g] = "INITIAL"
                           /\ rstate'[g] = "FINISH" => rstate[g] = "FINISH"
      BY <2>1, <2>3
    <3>2. Ids' /\ IdsMatch'
      BY <2>2, <3>1, Facts, IdsSame
    <3>3. Whole' /\ WholeFile'
      BY <2>2, <3>1, Facts DEF Whole, WholeFile
    <3> QED
      BY <3>2, <3>3
  <2>11. IInv'
    BY OnStartKeeps, Facts
  <2> QED
    BY <2>2, <2>7, <2>8, <2>9, <2>10, <2>11 DEF FInv, Apart, Together
<1> QED
  BY <1>2, <1>3 DEF OnStart

LEMMA FOnAppend == ASSUME FInv, NEW f \in Files, OnAppend(f) PROVE FInv'
<1>1. Arrived(f, "APPEND")
  BY DEF OnAppend
<1>2. CASE Refuse(f)
  BY <1>1, <1>2, FRefuse
<1>3. CASE Expected(f, {"START", "APPEND"}) /\ ~Refuse(f)
  <2>1. /\ rstate' = [rstate EXCEPT ![f] = "APPEND"] /\ rstate[f] \in {"START", "APPEND"}
        /\ toC' = Append(toC, Msg(f, "NO_ERROR", pushId[f]))
        /\ written' = [written EXCEPT ![f] = @ + 1]
        /\ UNCHANGED <<client, net, fileId, pushId, chS, stage, source, disposed, device, disk>>
    BY <1>3 DEF OnAppend, Expected
  <2>2. UNCHANGED <<pc, cid, count, waiters, shown, net, fileId, pushId, stage, device, disk>>
    BY <2>1 DEF client
  <2>3. /\ rstate'[f] = "APPEND" /\ \A g \in Files \ {f} : rstate'[g] = rstate[g]
        /\ written'[f] = written[f] + 1 /\ \A g \in Files \ {f} : written'[g] = written[g]
    BY <2>1, Facts DEF TypeOK
  <2>4. /\ net = "up" /\ toS' \in Seq(Frame) /\ Talk(toS', toC, fitting, pushId) /\ Levels /\ Line
        /\ Asking(waiters[0], toS', pushId) /\ Silent(toS', toC, f) /\ "APPEND" \in fitting[f]
    BY <1>1, CommandFits
  <2>5. /\ pc[f] = "append" /\ count[f] = written[f] + 1 /\ stage[f] = "none"
        /\ count[f] \in Nat /\ written[f] \in Nat /\ disk[f] \in Nat
    <3>1. pc[f] = "append" /\ count[f] = written[f] + 1
      BY <2>4 DEF fitting, Fitting
    <3> QED
      BY <2>4, <3>1, Facts, FilesAssumption DEF FilesAssumption, Levels, TypeOK
  <2>6. pushId[f] # 0 /\ pushId[f] \in PushId
    <3>1. pushId[f] \in PushId
      BY <1>1, <1>3, AnswersKnown, Facts
    <3>2. pushId[f] # 0
      BY <2>1, Facts DEF Ids
    <3> QED
      BY <3>1, <3>2
  <2>7. Talk(toS', toC, fitting', pushId) /\ "NO_ERROR" \in fitting'[f]
    <3>1. \A g \in Files \ {f} : fitting'[g] = fitting[g]
      BY <2>2, <2>3, FittingKept
    <3>2. pc'[f] = "append" /\ count'[f] = written'[f] /\ count'[f] # written'[f] + 1
      BY <2>2, <2>3, <2>5
    <3>3. "NO_ERROR" \in fitting'[f]
      BY <3>2 DEF fitting, Fitting
    <3> QED
      BY <2>4, <3>1, <3>3, Facts, TalkTurns
  <2>8. Talk(toS', toC', fitting', pushId) /\ Giving(waiters[0], toC', pushId)
    <3>1. Giving(waiters[0], toC, pushId)
      BY <2>4 DEF Line
    <3> QED
      BY <2>1, <2>4, <2>6, <2>7, <3>1, AnswerFits
  <2>9. Levels' /\ Line'
    <3>1. Levels'
      BY <2>2, <2>3, <2>4, <2>5 DEF Levels
    <3> QED
      BY <2>2, <2>4, <2>8, <3>1, ReaderLine
  <2>10. Ids' /\ IdsMatch'
    <3>1. \A g \in Files : rstate'[g] = "INITIAL" <=> rstate[g] = "INITIAL"
      BY <2>1, <2>3
    <3> QED
      BY <2>2, <3>1, Facts, IdsSame
  <2>11. Whole' /\ WholeFile'
    <3>1. \A g \in Files : /\ rstate'[g] = "FINISH" => rstate[g] = "FINISH" /\ g # f
                           /\ stage'[g] = "push" => g # f
      BY <2>2, <2>3, <2>5
    <3>2. disk'[f] <= written'[f]
      BY <2>2, <2>3, <2>5, Facts DEF Whole
    <3>3. Whole'
      BY <2>2, <2>3, <3>1, <3>2, Facts DEF Whole
    <3> QED
      BY <2>2, <3>3, Facts DEF WholeFile
  <2>12. IInv'
    BY OnAppendKeeps, Facts
  <2> QED
    BY <2>2, <2>8, <2>9, <2>10, <2>11, <2>12 DEF FInv, Apart, Together
<1> QED
  BY <1>2, <1>3 DEF OnAppend

LEMMA FOnFinish == ASSUME FInv, NEW f \in Files, OnFinish(f) PROVE FInv'
<1>1. Arrived(f, "FINISH")
  BY DEF OnFinish
<1>2. CASE Refuse(f)
  BY <1>1, <1>2, FRefuse
<1>3. CASE Expected(f, {"APPEND"}) /\ ~Refuse(f)
  <2>1. /\ rstate' = [rstate EXCEPT ![f] = "FINISH"] /\ rstate[f] = "APPEND"
        /\ stage' = [stage EXCEPT ![f] = "end"]
        /\ UNCHANGED <<client, toC, net, fileId, pushId, chS, source, disposed, device, files>>
    BY <1>3 DEF OnFinish, Expected
  <2>2. UNCHANGED <<pc, cid, count, waiters, shown, net, toC, fileId, pushId, device, disk, written>>
    BY <2>1 DEF client, files
  <2>3. /\ rstate'[f] = "FINISH" /\ \A g \in Files \ {f} : rstate'[g] = rstate[g]
        /\ stage'[f] = "end" /\ \A g \in Files \ {f} : stage'[g] = stage[g]
    BY <2>1, Facts DEF TypeOK
  <2>4. /\ net = "up" /\ toS' \in Seq(Frame) /\ Talk(toS', toC, fitting, pushId) /\ Levels /\ Line
        /\ Asking(waiters[0], toS', pushId) /\ Silent(toS', toC, f) /\ "FINISH" \in fitting[f]
    BY <1>1, CommandFits
  <2>5. pc[f] = "finish" /\ written[f] = Chunks
    <3>1. pc[f] = "finish"
      BY <2>4 DEF fitting, Fitting
    <3> QED
      BY <2>4, <3>1 DEF Levels
  <2>6. Talk(toS', toC, fitting', pushId)
    <3>1. \A g \in Files \ {f} : fitting'[g] = fitting[g]
      BY <2>2, <2>3, FittingKept
    <3> QED
      BY <2>4, <3>1, Facts, TalkTurns
  <2>7. Levels' /\ Line'
    <3>1. Levels'
      BY <2>2, <2>3, <2>4, <2>5 DEF Levels
    <3>2. Giving(waiters[0], toC', pushId)
      BY <2>2, <2>4 DEF Line
    <3> QED
      BY <2>2, <2>4, <3>1, <3>2, ReaderLine
  <2>8. Ids' /\ IdsMatch'
    <3>1. \A g \in Files : rstate'[g] = "INITIAL" <=> rstate[g] = "INITIAL"
      BY <2>1, <2>3
    <3> QED
      BY <2>2, <3>1, Facts, IdsSame
  <2>9. Whole' /\ WholeFile'
    <3>1. Whole'
      BY <2>2, <2>3, <2>5, Facts DEF Whole
    <3> QED
      BY <2>2, <3>1, Facts DEF WholeFile
  <2>10. IInv'
    BY OnFinishKeeps, Facts
  <2> QED
    BY <2>2, <2>6, <2>7, <2>8, <2>9, <2>10 DEF FInv, Apart, Together
<1> QED
  BY <1>2, <1>3 DEF OnFinish

LEMMA FStreamEnded == ASSUME FInv, NEW f \in Files, StreamEnded(f) PROVE FInv'
<1>1. /\ stage[f] = "end" /\ disk[f] = written[f] /\ stage' = [stage EXCEPT ![f] = "push"]
      /\ UNCHANGED <<client, toS, toC, net, fileId, rstate, pushId, chS, disposed, device, files>>
  BY DEF StreamEnded
<1>2. UNCHANGED <<pc, cid, count, waiters, shown, net, toS, toC, fileId, rstate, pushId, device,
                  disk, written>>
  BY <1>1 DEF client, files
<1>3. stage'[f] = "push" /\ \A g \in Files \ {f} : stage'[g] = stage[g]
  BY <1>1, Facts DEF TypeOK
<1>4. IInv'
  BY PushKeeps, Facts
<1>5. Ids' /\ IdsMatch'
  BY <1>2, Facts, IdsSame
<1>6. Whole' /\ WholeFile'
  <2>1. Whole'
    BY <1>1, <1>2, <1>3, Facts DEF Whole
  <2> QED
    BY <1>2, <2>1, Facts DEF WholeFile
<1>7. ASSUME net = "up" PROVE Together'
  <2>1. pc[f] = "finish" /\ Levels /\ Line
    BY <1>1, <1>7, Facts DEF Levels
  <2>2. fitting' = fitting
    <3>1. fitting[f] = {} /\ fitting'[f] = {}
      BY <1>1, <1>2, <1>3, <2>1 DEF fitting, Fitting
    <3>2. \A g \in Files : fitting'[g] = fitting[g]
      BY <1>2, <1>3, <3>1, FittingKept
    <3> QED
      BY <3>2 DEF fitting
  <2>3. Levels' /\ Line'
    <3>1. Levels'
      BY <1>2, <1>3, <2>1 DEF Levels
    <3>2. Line'
      BY <1>2, <2>1 DEF Line
    <3> QED
      BY <3>1, <3>2
  <2> QED
    BY <1>2, <1>7, <2>2, <2>3, Facts DEF Together
<1> QED
  BY <1>2, <1>4, <1>5, <1>6, <1>7 DEF FInv, Apart

\* adb push is over, and what it leaves: the stage of the file, after the last word.
LEMMA FPushOver ==
    ASSUME FInv, NEW f \in Files, PushSucceeds(f) \/ PushFails(f)
    PROVE  FInv'
<1> DEFINE a == Msg(f, "NO_ERROR", pushId[f])
<1>1. /\ stage[f] = "push" /\ stage' = [stage EXCEPT ![f] = "none"]
      /\ UNCHANGED <<client, toS, net, fileId, rstate, pushId, source, written, disk>>
      /\ \/ device' = [device EXCEPT ![f] = disk[f]] /\ Release(f, <<a>>, "CLEAN")
         \/ device' = device /\ Release(f, <<>>, "FAILED")
  BY DEF PushSucceeds, PushFails
<1>2. UNCHANGED <<pc, cid, count, waiters, shown, net, toS, fileId, rstate, pushId, disk, written>>
  BY <1>1 DEF client
<1>3. rstate[f] = "FINISH" /\ disk[f] = Chunks /\ pushId[f] \in PushId /\ pushId[f] # 0
  <2>1. rstate[f] = "FINISH" /\ pushId[f] \in PushId
    BY <1>1, Facts DEF IInv, Asleep, Numbered
  <2> QED
    BY <1>1, <2>1, Facts DEF Whole, Ids
<1>4. /\ stage'[f] = "none" /\ \A g \in Files \ {f} : stage'[g] = stage[g]
      /\ \A g \in Files \ {f} : device'[g] = device[g]
      /\ device' = [device EXCEPT ![f] = Chunks] => device'[f] = Chunks
  BY <1>1, Facts DEF TypeOK
<1>5. IInv'
  BY PushKeeps, Facts
<1>6. Ids' /\ IdsMatch'
  BY <1>2, Facts, IdsSame
<1>7. Whole' /\ WholeFile'
  <2>1. Whole'
    BY <1>2, <1>4, Facts DEF Whole
  <2>2. device'[f] = Chunks \/ device' = device
    BY <1>1, <1>3, <1>4
  <2>3. WholeFile'
    BY <1>2, <1>4, <2>2, Facts DEF WholeFile
  <2> QED
    BY <2>1, <2>3
<1>8. a \in Frame /\ a.kind = "NO_ERROR" /\ a.file = f /\ a.id = pushId[f]
  <2>1. a \in Frame
    BY <1>3, FrameTyped
  <2> QED
    BY <2>1 DEF Msg
<1>9. \/ /\ device' = [device EXCEPT ![f] = Chunks]
         /\ \E m \in Frame : ~Speaks(m) /\ (toC' = toC \/ toC' = Append(Append(toC, a), m))
      \/ /\ device' = device
         /\ \E m \in Frame : ~Speaks(m) /\ (toC' = toC \/ toC' = Append(toC, m))
  BY <1>1, <1>3, <1>8, Facts, ReleaseSends
<1> HIDE DEF a
<1>10. ASSUME net = "up" PROVE Together'
  <2>1. pc[f] = "finish" /\ Levels /\ Line /\ Talk(toS, toC, fitting, pushId)
    BY <1>1, <1>10, Facts DEF Levels
  <2>2. fitting[f] = {} /\ \A g \in Files \ {f} : fitting'[g] = fitting[g]
    <3>1. fitting[f] = {}
      BY <1>1, <2>1 DEF fitting, Fitting
    <3> QED
      BY <1>2, <1>4, <3>1, FittingKept
  <2>3. Silent(toS, toC, f) /\ Talk(toS, toC, fitting', pushId)
    <3>1. Silent(toS, toC, f)
      BY <2>1, <2>2, Facts, TalkQuiet
    <3> QED
      BY <2>1, <2>2, <3>1, Facts, TalkTurns
  <2>4. Giving(waiters[0], toC, pushId)
    BY <2>1 DEF Line
  <2>5. ASSUME device' = [device EXCEPT ![f] = Chunks]
        PROVE  /\ Append(toC, a) \in Seq(Frame) /\ Talk(toS, Append(toC, a), fitting', pushId)
               /\ Giving(waiters[0], Append(toC, a), pushId)
    <3>1. pc'[f] = "finish" /\ stage'[f] = "none" /\ device'[f] = Chunks
      BY <1>2, <1>4, <2>1, <2>5
    <3>2. "NO_ERROR" \in fitting'[f]
      BY <3>1 DEF fitting, Fitting
    <3>3. Speaks(a) /\ Due(a, fitting', pushId) /\ a.kind # "NEW_PUSH_ID"
      BY <1>3, <1>8, <3>2 DEF Speaks, Due
    <3>4. Talk(toS, Append(toC, a), fitting', pushId)
      BY <1>8, <2>3, <3>3, Facts, TalkAnswer
    <3>5. Giving(waiters[0], Append(toC, a), pushId)
      BY <1>8, <2>4, <3>3, Facts, GivingSend
    <3> QED
      BY <1>8, <3>4, <3>5, Facts, Sends
  <2>6. Talk(toS, toC', fitting', pushId) /\ Giving(waiters[0], toC', pushId)
    <3>1. CASE toC' = toC
      BY <2>3, <2>4, <3>1
    <3>2. ASSUME NEW m \in Frame, ~Speaks(m), toC' = Append(toC, m)
          PROVE  Talk(toS, toC', fitting', pushId) /\ Giving(waiters[0], toC', pushId)
      BY <2>3, <2>4, <3>2, Facts, CloserKeeps
    <3>3. ASSUME device' = [device EXCEPT ![f] = Chunks], NEW m \in Frame, ~Speaks(m),
                 toC' = Append(Append(toC, a), m)
          PROVE  Talk(toS, toC', fitting', pushId) /\ Giving(waiters[0], toC', pushId)
      BY <2>5, <3>3, Facts, CloserKeeps
    <3> QED
      BY <1>9, <3>1, <3>2, <3>3
  <2>7. Levels'
    BY <1>2, <1>4, <2>1 DEF Levels
  <2>8. Line'
    <3>1. Asking(waiters[0], toS', pushId)
      BY <1>2, <2>1 DEF Line
    <3> QED
      BY <1>2, <2>1, <2>6, <3>1, ReaderLine
  <2> QED
    BY <1>2, <2>6, <2>7, <2>8 DEF Together
<1> QED
  BY <1>2, <1>5, <1>6, <1>7, <1>10 DEF FInv, Apart

\* The write stream works in the background.
LEMMA FStream == ASSUME FInv, NEW f \in Files, FileCreated(f) \/ ChunkWritten(f) PROVE FInv'
<1>1. /\ UNCHANGED <<client, toS, toC, net, reader, written>>
      /\ disk' = disk \/ (disk[f] < written[f] /\ disk' = [disk EXCEPT ![f] = @ + 1])
  BY DEF FileCreated, ChunkWritten
<1>2. UNCHANGED <<pc, cid, count, waiters, shown, net, toS, toC, fileId, rstate, pushId, stage,
                  device, written>>
  BY <1>1 DEF client, reader
<1>3. IInv'
  BY StreamKeeps, Facts
<1>4. Ids' /\ IdsMatch'
  BY <1>2, Facts, IdsSame
<1>5. Whole' /\ WholeFile'
  <2>1. /\ \A g \in Files \ {f} : disk'[g] = disk[g]
        /\ disk'[f] = disk[f] \/ (disk[f] < written[f] /\ disk'[f] = disk[f] + 1)
        /\ disk[f] \in Nat /\ written[f] \in Nat
    BY <1>1, Facts DEF TypeOK
  <2>2. disk'[f] <= written[f] /\ (stage[f] = "push" => disk'[f] = written[f])
    BY <2>1, Facts DEF Whole
  <2>3. Whole'
    BY <1>2, <2>1, <2>2, Facts DEF Whole
  <2> QED
    BY <1>2, <2>3, Facts DEF WholeFile
<1>6. net = "up" => Together'
  <2>1. fitting' = fitting
    BY <1>2 DEF fitting, Fitting
  <2>2. Levels => Levels'
    BY <1>2 DEF Levels
  <2>3. Line => Line'
    BY <1>2 DEF Line
  <2> QED
    BY <1>2, <2>1, <2>2, <2>3, Facts DEF Together
<1> QED
  BY <1>2, <1>3, <1>4, <1>5, <1>6 DEF FInv, Apart

-----------------------------------------------------------------------------
(* The end of the connection, and the theorems.                             *)

LEMMA FEnd == ASSUME FInv, Leave \/ Break \/ ServerLoses PROVE FInv'
<1>1. /\ net' # "up"
      /\ UNCHANGED <<pc, cid, count, waiters, fileId, rstate, pushId, stage, device, written, disk>>
      /\ \A f \in Files : shown'[f] = "success" => shown[f] = "success"
  <2>1. CASE Leave
    BY <2>1 DEF Leave, client, reader, files
  <2>2. CASE Break
    BY <2>2 DEF Break, reader, files
  <2>3. CASE ServerLoses
    BY <2>3 DEF ServerLoses, client
  <2> QED
    BY <2>1, <2>2, <2>3
<1>2. IInv'
  BY EndKeeps, Facts
<1>3. Ids' /\ IdsMatch'
  BY <1>1, Facts, IdsSame
<1>4. Whole' /\ WholeFile'
  BY <1>1, Facts DEF Whole, WholeFile
<1> QED
  BY <1>1, <1>2, <1>3, <1>4 DEF FInv, Apart

\* A read that fails changes nothing that the two ends talk about.
LEMMA FQuiet ==
    ASSUME FInv, IInv', UNCHANGED <<pc, cid, count, waiters, shown, net, toS, toC, fileId, rstate, pushId, stage,
                                    device, written, disk>>
    PROVE  FInv'
<1>1. Ids' /\ IdsMatch' /\ Whole' /\ WholeFile'
  BY Facts DEF Ids, IdsMatch, Whole, WholeFile
<1>2. fitting' = fitting
  BY DEF fitting, Fitting
<1>3. (Levels => Levels') /\ (Line => Line')
  BY DEF Levels, Line
<1> QED
  BY <1>1, <1>2, <1>3, Facts DEF FInv, Apart, Together

LEMMA FNext == FInv /\ [Next]_vars => FInv'
<1> SUFFICES ASSUME FInv, [Next]_vars PROVE FInv'
  OBVIOUS
<1>0. IInv'
  BY NextKeeps, Facts
<1>1. CASE UNCHANGED vars
  BY <1>0, <1>1, FQuiet DEF vars, client, reader, files
<1>2. ASSUME NEW f \in Files, ReadFails(f) PROVE FInv'
  BY <1>0, <1>2, FQuiet DEF ReadFails, reader, files
<1> QED
  BY <1>1, <1>2, FPushFile, FOnNewPushId, FOnNoError, FProcessData, FOnClose, FOnNew, FOnStart,
     FOnAppend, FOnFinish, FStreamEnded, FPushOver, FStream, FEnd DEF Next

LEMMA FAlways == Spec => []FInv
BY FInit, FNext, PTL DEF Spec

\* IdsMatch: although all uploads wait for their ids under one key, each gets that of the
\* reader on its own channel, even when the ids run out.
THEOREM IdsAlwaysMatch == Spec => []IdsMatch
<1>1. FInv => IdsMatch
  BY Facts
<1> QED
  BY <1>1, FAlways, PTL

\* WholeFile: a device gets all chunks of a file or nothing, and a success is shown only
\* when it has them.
THEOREM FilesArriveWhole == Spec => []WholeFile
<1>1. FInv => WholeFile
  BY Facts
<1> QED
  BY <1>1, FAlways, PTL
================================================================================
