--------------------------- MODULE MultiplexerProofs ---------------------------
(***************************************************************************)
(* The multiplexer for any number of channels, messages and waiting        *)
(* modals.  Part I, the root and its Map: TypeOK, ChannelsTracked and      *)
(* EmptyMeansUnused are invariants of Spec.  Part II, the streams of its   *)
(* channels: StreamsIntact and QuiescentAgreement are invariants of Spec,  *)
(* ClosedForGood holds of its steps, and Spec implements ChannelPipe.      *)
(***************************************************************************)
EXTENDS Multiplexer, FiniteSetTheorems, TLAPS

\* A channel that is to open in a microtask is still a key of the Map: nobody
\* closes a channel in the task that creates it, and socket events wait for the
\* microtasks.
OpensTracked ==
    \A e \in End : \A k \in 1..Len(micro[e]) :
        micro[e][k].kind = "open" => micro[e][k].id \in channels[e]

\* The root follows its socket: it is OPEN as long as frames may arrive and an
\* unused one has no channels.
RootFollows ==
    \A e \in End :
        /\ ws[e] = "none" => root[e] = "none" /\ channels[e] = {} /\ ~emptyDue[e]
        /\ ws[e] = "OPEN" => root[e] = "OPEN"
        /\ e = Server /\ ws[e] = "CLOSING" => root[e] = "OPEN"

\* No channel has an id that has not been given out or seen.
IdsKnown == \A e \in End : \A i \in channels[e] : i <= nextId[e]

IInv == /\ TypeOK /\ ChannelsTracked /\ EmptyMeansUnused
        /\ OpensTracked /\ RootFollows /\ IdsKnown

-----------------------------------------------------------------------------
\* Frames and tasks are records of their sets.
LEMMA FrameTypes ==
    /\ \A i \in Id : Create(i) \in Frame /\ Close(i) \in Frame
    /\ \A i \in Id, n \in 1..MaxMsgs : Data(i, n) \in Frame
    /\ WsClose \in Frame
    /\ \A f \in Frame : f.type \in {"CreateChannel", "CloseChannel"} => f.id \in Id
    /\ \A f \in Frame : f.type = "RawData" => f.id \in Id /\ f.n \in 1..MaxMsgs
<1>1. \A i \in Id : Create(i) \in Frame /\ Close(i) \in Frame
  BY DEF Frame
<1>2. \A i \in Id, n \in 1..MaxMsgs : Data(i, n) \in Frame
  BY DEF Frame
<1>3. WsClose \in Frame
  BY DEF Frame
<1>4. ASSUME NEW f \in Frame
      PROVE  /\ f.type \in {"CreateChannel", "CloseChannel"} => f.id \in Id
             /\ f.type = "RawData" => f.id \in Id /\ f.n \in 1..MaxMsgs
  <2>1. CASE f \in {Create(i) : i \in Id}
    BY <2>1 DEF Create
  <2>2. CASE f \in {Close(i) : i \in Id}
    BY <2>2 DEF Close
  <2>3. CASE f = WsClose
    BY <2>3 DEF WsClose
  <2>4. CASE f \in {Data(i, n) : i \in Id, n \in 1..MaxMsgs}
    BY <2>4 DEF Data
  <2>5. QED BY <2>1, <2>2, <2>3, <2>4 DEF Frame
<1>5. QED BY <1>1, <1>2, <1>3, <1>4

LEMMA TaskTypes ==
    /\ \A i \in Id : OpenTask(i) \in MicroTask /\ RelayTask(i) \in MicroTask
    /\ \A i \in Id : OpenTask(i).kind = "open" /\ OpenTask(i).id = i
    /\ \A i \in Id : RelayTask(i).kind = "relay" /\ RelayTask(i).id = i
    /\ EmptyTask \in MicroTask /\ EmptyTask.kind = "empty"
    /\ \A t \in MicroTask : t.kind \in {"open", "relay"} => t.id \in Id
<1>1. /\ \A i \in Id : OpenTask(i) \in MicroTask /\ RelayTask(i) \in MicroTask
      /\ EmptyTask \in MicroTask
  BY DEF MicroTask
<1>2. /\ \A i \in Id : OpenTask(i).kind = "open" /\ OpenTask(i).id = i
      /\ \A i \in Id : RelayTask(i).kind = "relay" /\ RelayTask(i).id = i
      /\ EmptyTask.kind = "empty"
  BY DEF OpenTask, RelayTask, EmptyTask
<1>3. ASSUME NEW t \in MicroTask, t.kind \in {"open", "relay"}
      PROVE  t.id \in Id
  <2>1. t # EmptyTask
    BY <1>2, <1>3
  <2>2. QED BY <1>2, <1>3, <2>1 DEF MicroTask
<1>4. QED BY <1>1, <1>2, <1>3

\* getNextId gives out the next number: no key of the Map is above nextId.
LEMMA NextIdIsNext ==
    ASSUME IInv, nextId[Client] < MaxId
    PROVE  NextId(Client) = nextId[Client] + 1 /\ NextId(Client) \in Id
<1>1. Client \in End /\ nextId[Client] \in 0..MaxId /\ channels[Client] \subseteq Id
  BY DEF IInv, TypeOK, End
<1>2. nextId[Client] + 1 \in Id /\ nextId[Client] + 1 \notin channels[Client]
  BY <1>1, BoundsAssumption DEF IInv, IdsKnown, Id
<1>3. \A m \in (nextId[Client] + 1)..(nextId[Client] + 1 - 1) : m \in channels[Client]
  BY <1>1
<1>4. ASSUME NEW n \in Id, n > nextId[Client],
             \A m \in (nextId[Client] + 1)..(n - 1) : m \in channels[Client]
      PROVE  n = nextId[Client] + 1
  <2>1. SUFFICES ASSUME n # nextId[Client] + 1 PROVE FALSE
    OBVIOUS
  <2>2. nextId[Client] + 1 \in (nextId[Client] + 1)..(n - 1)
    BY <1>1, <1>4, <2>1 DEF Id
  <2>3. QED BY <1>2, <1>4, <2>2
<1>5. QED BY <1>1, <1>2, <1>3, <1>4 DEF NextId

-----------------------------------------------------------------------------
\* What the shared helpers keep.
LEMMA RootSendTypes ==
    ASSUME TypeOK, NEW e \in End, NEW frames \in Seq(Frame), RootSend(e, frames)
    PROVE  wire' \in [End -> Seq(Frame)] /\ held' \in [End -> Seq(Frame)]
  BY DEF TypeOK, RootSend, OnWire

LEMMA ForgetKeeps ==
    ASSUME TypeOK, EmptyMeansUnused, NEW e \in End, NEW S \in SUBSET Id, Forget(e, S)
    PROVE  /\ channels' = [channels EXCEPT ![e] = @ \ S]
           /\ emptyDue' \in [End -> BOOLEAN] /\ micro' \in [End -> Seq(MicroTask)]
           /\ \A d \in End : emptyDue'[d] => channels'[d] = {}
           /\ \A d \in End \ {e} : emptyDue'[d] = emptyDue[d]
           /\ channels[e] = {} => emptyDue' = emptyDue
           /\ \A d \in End : micro'[d] = micro[d] \/ micro'[d] = Append(micro[d], EmptyTask)
<1>1. channels' = [channels EXCEPT ![e] = @ \ S]
  BY DEF Forget
<1>2. CASE channels[e] # {} /\ channels[e] \subseteq S
  <2>1. ScheduleEmpty(e) /\ channels'[e] = {}
    BY <1>1, <1>2 DEF Forget, TypeOK
  <2>2. emptyDue' = [emptyDue EXCEPT ![e] = TRUE]
    BY <2>1 DEF ScheduleEmpty
  <2>3. \/ micro' = micro \/ micro' = [micro EXCEPT ![e] = Append(@, EmptyTask)]
    BY <2>1 DEF ScheduleEmpty
  <2>4. emptyDue' \in [End -> BOOLEAN] /\ micro' \in [End -> Seq(MicroTask)]
    <3>1. emptyDue' \in [End -> BOOLEAN]
      BY <2>2 DEF TypeOK
    <3>2. EmptyTask \in MicroTask /\ micro \in [End -> Seq(MicroTask)]
      BY TaskTypes DEF TypeOK
    <3>3. CASE micro' = [micro EXCEPT ![e] = Append(@, EmptyTask)]
      <4>1. Append(micro[e], EmptyTask) \in Seq(MicroTask)
        BY <3>2
      <4>2. QED BY <3>1, <3>2, <3>3, <4>1
    <3>4. QED BY <2>3, <3>1, <3>2, <3>3
  <2>5. \A d \in End : emptyDue'[d] => channels'[d] = {}
    BY <1>1, <2>1, <2>2 DEF TypeOK, EmptyMeansUnused
  <2>6. \A d \in End \ {e} : emptyDue'[d] = emptyDue[d]
    BY <2>2 DEF TypeOK
  <2>7. \A d \in End : micro'[d] = micro[d] \/ micro'[d] = Append(micro[d], EmptyTask)
    BY <2>3 DEF TypeOK
  <2>8. QED BY <1>1, <1>2, <2>4, <2>5, <2>6, <2>7
<1>3. CASE ~(channels[e] # {} /\ channels[e] \subseteq S)
  <2>1. UNCHANGED <<emptyDue, micro>>
    BY <1>3 DEF Forget
  <2>2. QED BY <1>1, <2>1 DEF TypeOK, EmptyMeansUnused
<1>4. QED BY <1>2, <1>3

\* Appending the promise of 'empty' leaves the pending 'open's as they are.
LEMMA OpensKept ==
    ASSUME TypeOK, OpensTracked,
           \A d \in End : micro'[d] = micro[d] \/ micro'[d] = Append(micro[d], EmptyTask),
           \A d \in End : micro[d] # <<>> => channels[d] \subseteq channels'[d]
    PROVE  OpensTracked'
<1>1. SUFFICES ASSUME NEW d \in End, NEW k \in 1..Len(micro'[d]), micro'[d][k].kind = "open"
               PROVE  micro'[d][k].id \in channels'[d]
  BY DEF OpensTracked
<1>2. micro[d] \in Seq(MicroTask)
  BY DEF TypeOK
<1>3. CASE micro'[d] = micro[d]
  BY <1>1, <1>2, <1>3 DEF OpensTracked
<1>4. CASE micro'[d] = Append(micro[d], EmptyTask)
  <2>1. k \in 1..Len(micro[d]) /\ micro'[d][k] = micro[d][k]
    BY <1>1, <1>2, <1>4, TaskTypes
  <2>2. QED BY <1>1, <1>2, <2>1 DEF OpensTracked
<1>5. QED BY <1>3, <1>4

\* The browser's createChannel.
LEMMA CreateChannelKeeps ==
    ASSUME IInv, ws[Client] # "none", nextId[Client] < MaxId, CreateChannel(NextId(Client)),
           waiting' \in SUBSET Modals
    PROVE  IInv'
<1> DEFINE i == NextId(Client)
<1>1. i = nextId[Client] + 1 /\ i \in Id /\ Client \in End /\ Client # Server
  BY NextIdIsNext DEF End, Client, Server
<1>2. TypeOK
  BY DEF IInv
<1>3. wire' \in [End -> Seq(Frame)] /\ held' \in [End -> Seq(Frame)]
  <2>1. RootSend(Client, <<Create(i)>>) /\ <<Create(i)>> \in Seq(Frame)
    BY <1>1, FrameTypes DEF CreateChannel
  <2>2. QED BY <1>1, <1>2, <2>1, RootSendTypes
<1>4. TypeOK'
  <2>1. nextId' \in [End -> 0..MaxId] /\ channels' \in [End -> SUBSET Id]
    BY <1>1, <1>2 DEF TypeOK, CreateChannel, Id
  <2>2. chan' \in [End -> [Id -> ReadyState \cup {"none"}]]
    BY <1>1, <1>2 DEF TypeOK, CreateChannel, ReadyState
  <2>3. emptyDue' \in [End -> BOOLEAN]
    BY <1>2 DEF TypeOK, CreateChannel
  <2>4. micro' \in [End -> Seq(MicroTask)]
    BY <1>1, <1>2, TaskTypes DEF TypeOK, CreateChannel
  <2>5. QED BY <1>2, <1>3, <2>1, <2>2, <2>3, <2>4 DEF TypeOK, CreateChannel
<1>5. ChannelsTracked'
  BY <1>1, <1>2 DEF IInv, TypeOK, ChannelsTracked, CreateChannel
<1>6. EmptyMeansUnused'
  <2>1. /\ emptyDue' = [emptyDue EXCEPT ![Client] = FALSE]
        /\ channels' = [channels EXCEPT ![Client] = @ \cup {i}]
    BY DEF CreateChannel
  <2>2. SUFFICES ASSUME NEW d \in End, emptyDue'[d] PROVE channels'[d] = {}
    BY DEF EmptyMeansUnused
  <2>3. d # Client
    BY <1>2, <2>1, <2>2 DEF TypeOK
  <2>4. emptyDue[d] /\ channels'[d] = channels[d]
    BY <1>2, <2>1, <2>2, <2>3 DEF TypeOK
  <2>5. QED BY <2>4 DEF IInv, EmptyMeansUnused
<1>7. OpensTracked'
  <2>1. SUFFICES ASSUME NEW d \in End, NEW k \in 1..Len(micro'[d]), micro'[d][k].kind = "open"
                 PROVE  micro'[d][k].id \in channels'[d]
    BY DEF OpensTracked
  <2>2. micro[d] \in Seq(MicroTask) /\ channels[d] \subseteq channels'[d]
    BY <1>2, <1>1 DEF TypeOK, CreateChannel
  <2>3. CASE micro'[d] = micro[d]
    BY <2>1, <2>2, <2>3 DEF OpensTracked, IInv
  <2>4. CASE d = Client /\ micro'[d] = Append(micro[d], OpenTask(i))
    <3>1. i \in channels'[d]
      BY <1>1, <1>2, <2>4 DEF TypeOK, CreateChannel
    <3>2. QED BY <1>1, <2>1, <2>2, <2>4, <3>1, TaskTypes DEF OpensTracked, IInv
  <2>5. QED BY <1>1, <1>2, <2>3, <2>4 DEF CreateChannel, TypeOK
<1>8. RootFollows'
  BY <1>1 DEF IInv, TypeOK, RootFollows, CreateChannel
<1>9. IdsKnown'
  BY SMTT(30), <1>1 DEF IInv, TypeOK, IdsKnown, CreateChannel, Id
<1>10. QED BY <1>4, <1>5, <1>6, <1>7, <1>8, <1>9 DEF IInv

-----------------------------------------------------------------------------
\* One lemma for each group of actions.
LEMMA ConnectKeeps ==
    ASSUME IInv, Connect PROVE IInv'
<1>1. Client \in End /\ 1 \in Id /\ TypeOK /\ <<Create(1)>> \in Seq(Frame)
  BY BoundsAssumption, FrameTypes DEF End, Id, IInv
<1>2. TypeOK'
  <2>1. micro' \in [End -> Seq(MicroTask)] /\ held' \in [End -> Seq(Frame)]
    BY <1>1, TaskTypes DEF TypeOK, Connect
  <2>2. nextId' \in [End -> 0..MaxId] /\ channels' \in [End -> SUBSET Id]
    BY <1>1 DEF TypeOK, Connect, Id
  <2>3. QED BY <1>1, <2>1, <2>2 DEF TypeOK, Connect, ReadyState
<1>3. ChannelsTracked'
  BY <1>1 DEF IInv, TypeOK, ChannelsTracked, RootFollows, Connect
<1>4. EmptyMeansUnused'
  BY <1>1 DEF IInv, TypeOK, EmptyMeansUnused, RootFollows, Connect
<1>5. OpensTracked'
  <2>1. micro' = [micro EXCEPT ![Client] = <<EmptyTask>>] /\ micro \in [End -> Seq(MicroTask)]
    BY <1>1 DEF TypeOK, Connect
  <2>2. channels' = [channels EXCEPT ![Client] = {1}]
    BY DEF Connect
  <2>3. channels \in [End -> SUBSET Id]
    BY <1>1 DEF TypeOK
  <2>4. EmptyTask.kind # "open"
    BY TaskTypes
  <2>5. SUFFICES ASSUME NEW e \in End, NEW k \in 1..Len(micro'[e]), micro'[e][k].kind = "open"
                 PROVE  micro'[e][k].id \in channels'[e]
    BY DEF OpensTracked
  <2>6. CASE e = Client
    <3>1. micro'[e] = <<EmptyTask>>
      BY <1>1, <2>1, <2>6
    <3>2. k = 1
      BY <3>1
    <3> QED
      BY <2>4, <2>5, <3>1, <3>2
  <2>7. CASE e # Client
    <3>1. micro'[e] = micro[e] /\ channels'[e] = channels[e]
      BY <2>1, <2>2, <2>3, <2>7
    <3> QED
      BY <2>5, <3>1 DEF IInv, OpensTracked
  <2> QED
    BY <2>6, <2>7
<1>6. RootFollows'
  BY <1>1 DEF IInv, TypeOK, RootFollows, Connect, Client, Server
<1>7. IdsKnown'
  BY <1>1 DEF IInv, TypeOK, IdsKnown, Connect
<1>8. QED BY <1>2, <1>3, <1>4, <1>5, <1>6, <1>7 DEF IInv

LEMMA ConnectModalKeeps ==
    ASSUME IInv, NEW m \in Modals, ConnectModal(m) PROVE IInv'
<1>1. Client \in End /\ TypeOK
  BY DEF End, IInv
<1>2. TypeOK'
  <2>1. micro' \in [End -> Seq(MicroTask)] /\ waiting' \in SUBSET Modals
    BY <1>1, TaskTypes DEF TypeOK, ConnectModal
  <2>2. emptyDue' \in [End -> BOOLEAN]
    BY <1>1 DEF TypeOK, ConnectModal
  <2>3. QED BY <1>1, <2>1, <2>2 DEF TypeOK, ConnectModal, ReadyState
<1>3. ChannelsTracked'
  BY DEF IInv, ChannelsTracked, ConnectModal
<1>4. EmptyMeansUnused'
  BY <1>1 DEF IInv, TypeOK, EmptyMeansUnused, RootFollows, ConnectModal
<1>5. OpensTracked'
  BY <1>1, TaskTypes DEF IInv, TypeOK, OpensTracked, ConnectModal
<1>6. RootFollows'
  BY <1>1 DEF IInv, TypeOK, RootFollows, ConnectModal, Client, Server
<1>7. IdsKnown'
  BY DEF IInv, IdsKnown, ConnectModal
<1>8. QED BY <1>2, <1>3, <1>4, <1>5, <1>6, <1>7 DEF IInv

\* The bound of the model leaves an id for every createChannel.
LEMMA RoomForOne ==
    ASSUME TypeOK, Room PROVE nextId[Client] < MaxId
<1>1. IsFiniteSet(waiting)
  BY BoundsAssumption, FS_Subset DEF TypeOK
<1>2. Cardinality(waiting) \in Nat
  BY <1>1, FS_CardinalityType
<1>3. nextId[Client] \in Nat /\ MaxId \in Nat
  BY BoundsAssumption DEF TypeOK, End
<1>4. QED BY <1>2, <1>3 DEF Room

LEMMA OpenersKeep ==
    ASSUME IInv,
           OpenOnCached \/ \E m \in Modals : ModalOnCached(m) \/ ModalCreates(m)
    PROVE  IInv'
<1>1. TypeOK
  BY DEF IInv
<1>2. CASE OpenOnCached
  BY <1>1, <1>2, RoomForOne, CreateChannelKeeps DEF OpenOnCached, Cached, TypeOK
<1>3. ASSUME NEW m \in Modals, ModalOnCached(m) PROVE IInv'
  <2>1. CASE CreateChannel(NextId(Client)) /\ UNCHANGED waiting
    BY <1>1, <1>3, <2>1, RoomForOne, CreateChannelKeeps DEF ModalOnCached, Cached, TypeOK
  <2>2. CASE /\ waiting' = waiting \cup {m}
             /\ UNCHANGED <<ws, root, nextId, channels, chan, held, chHeld, wire,
                            micro, emptyDue, lost, sent, got>>
    BY <1>1, <2>2 DEF IInv, TypeOK, ChannelsTracked, EmptyMeansUnused, OpensTracked,
                      RootFollows, IdsKnown
  <2>3. QED BY <1>3, <2>1, <2>2 DEF ModalOnCached
<1>4. ASSUME NEW m \in Modals, ModalCreates(m) PROVE IInv'
  <2>1. ws[Client] # "none"
    BY <1>4 DEF ModalCreates, IInv, RootFollows, End
  <2>2. QED BY <1>1, <1>4, <2>1, CreateChannelKeeps DEF ModalCreates, TypeOK
<1>5. QED BY <1>2, <1>3, <1>4

LEMMA SendKeeps ==
    ASSUME IInv, NEW e \in End, NEW i \in Id, Send(e, i) PROVE IInv'
<1> DEFINE d == Data(i, sent[e][i] + 1)
<1>1. TypeOK /\ sent[e][i] \in 0..MaxMsgs /\ sent[e][i] < MaxMsgs
  BY DEF IInv, TypeOK, Send
<1>2. d \in Frame /\ <<d>> \in Seq(Frame)
  BY <1>1, FrameTypes, BoundsAssumption
<1>3. sent' \in [End -> [Id -> 0..MaxMsgs]]
  BY <1>1, BoundsAssumption DEF TypeOK, Send
<1>4. /\ wire' \in [End -> Seq(Frame)] /\ held' \in [End -> Seq(Frame)]
      /\ chHeld' \in [End -> [Id -> Seq(Frame)]]
  <2>1. CASE RootSend(e, <<d>>) /\ UNCHANGED chHeld
    BY <1>1, <1>2, <2>1, RootSendTypes DEF TypeOK
  <2>2. CASE /\ chHeld' = [chHeld EXCEPT ![e][i] = Append(@, d)]
             /\ UNCHANGED <<wire, held>>
    <3>1. Append(chHeld[e][i], d) \in Seq(Frame)
      BY <1>1, <1>2 DEF TypeOK
    <3>2. QED BY <1>1, <2>2, <3>1 DEF TypeOK
  <2>3. QED BY <2>1, <2>2 DEF Send
<1>5. TypeOK'
  BY <1>1, <1>3, <1>4 DEF TypeOK, Send
<1>6. QED BY <1>5 DEF IInv, ChannelsTracked, EmptyMeansUnused, OpensTracked,
                      RootFollows, IdsKnown, Send

\* Nothing happens to the sockets, but that the one of e may close.
SocketKept(e) ==
    \A d \in End : \/ ws'[d] = ws[d] /\ root'[d] = root[d]
                   \/ d = e /\ ws'[d] = "CLOSED"

\* A channel of the Map is closed and taken out of it.
LEMMA ForgettingKeeps ==
    ASSUME IInv, TypeOK', NEW e \in End, NEW S \in SUBSET Id, Forget(e, S),
           chan' = [chan EXCEPT ![e] = [j \in Id |-> IF j \in S THEN "CLOSED" ELSE @[j]]],
           \A k \in 1..Len(micro[e]) : micro[e][k].kind = "open" => micro[e][k].id \notin S,
           UNCHANGED nextId,
           ws[e] # "none",
           SocketKept(e)
    PROVE  IInv'
<1>1. TypeOK /\ EmptyMeansUnused
  BY DEF IInv
<1>2. /\ channels' = [channels EXCEPT ![e] = @ \ S]
      /\ \A d \in End : emptyDue'[d] => channels'[d] = {}
      /\ \A d \in End \ {e} : emptyDue'[d] = emptyDue[d]
      /\ \A d \in End : micro'[d] = micro[d] \/ micro'[d] = Append(micro[d], EmptyTask)
  BY <1>1, ForgetKeeps
<1>3. ChannelsTracked'
  BY <1>1, <1>2 DEF IInv, TypeOK, ChannelsTracked
<1>4. EmptyMeansUnused'
  BY <1>2 DEF EmptyMeansUnused
<1>5. OpensTracked'
  <2>1. SUFFICES ASSUME NEW d \in End, NEW k \in 1..Len(micro'[d]), micro'[d][k].kind = "open"
                 PROVE  micro'[d][k].id \in channels'[d]
    BY DEF OpensTracked
  <2>2. micro[d] \in Seq(MicroTask)
    BY <1>1 DEF TypeOK
  <2>3. k \in 1..Len(micro[d]) /\ micro'[d][k] = micro[d][k]
    <3>1. CASE micro'[d] = micro[d]
      BY <2>1, <2>2, <3>1
    <3>2. CASE micro'[d] = Append(micro[d], EmptyTask)
      BY <2>1, <2>2, <3>2, TaskTypes
    <3>3. QED BY <1>2, <3>1, <3>2
  <2>4. micro[d][k].id \in channels[d]
    BY <2>1, <2>3 DEF IInv, OpensTracked
  <2>5. d = e => micro[d][k].id \notin S
    BY <2>1, <2>3
  <2>6. channels'[d] = IF d = e THEN channels[d] \ S ELSE channels[d]
    BY <1>1, <1>2 DEF TypeOK
  <2>7. QED BY <2>3, <2>4, <2>5, <2>6
<1>6. RootFollows'
  <2>1. SUFFICES ASSUME NEW d \in End
                 PROVE  /\ ws'[d] = "none" => root'[d] = "none" /\ channels'[d] = {} /\ ~emptyDue'[d]
                        /\ ws'[d] = "OPEN" => root'[d] = "OPEN"
                        /\ d = Server /\ ws'[d] = "CLOSING" => root'[d] = "OPEN"
    BY DEF RootFollows
  <2> USE DEF SocketKept
  <2>2. CASE ws'[d] = "CLOSED"
    BY <2>2
  <2>3. CASE d = e /\ ws'[d] = ws[d] /\ root'[d] = root[d]
    BY <2>3 DEF IInv, RootFollows
  <2>4. CASE d # e /\ ws'[d] = ws[d] /\ root'[d] = root[d]
    BY <1>1, <1>2, <2>4 DEF IInv, RootFollows, TypeOK
  <2>5. QED BY <2>2, <2>3, <2>4
<1>7. IdsKnown'
  BY <1>1, <1>2 DEF IInv, TypeOK, IdsKnown
<1>8. QED BY <1>3, <1>4, <1>5, <1>6, <1>7 DEF IInv

LEMMA CloseByAppKeeps ==
    ASSUME IInv, NEW e \in End, NEW i \in Id, CloseByApp(e, i) PROVE IInv'
<1>1. TypeOK /\ EmptyMeansUnused /\ Forget(e, {i}) /\ {i} \in SUBSET Id
  BY DEF IInv, CloseByApp, CloseChannel
<1>2. TypeOK'
  <2>1. wire' \in [End -> Seq(Frame)] /\ held' \in [End -> Seq(Frame)]
    <3>1. RootSend(e, <<Close(i)>>) /\ <<Close(i)>> \in Seq(Frame)
      BY FrameTypes DEF CloseByApp
    <3>2. QED BY <1>1, <3>1, RootSendTypes
  <2>2. emptyDue' \in [End -> BOOLEAN] /\ micro' \in [End -> Seq(MicroTask)]
    BY <1>1, ForgetKeeps
  <2>3. channels' \in [End -> SUBSET Id]
    BY <1>1 DEF TypeOK, Forget
  <2>4. QED BY <1>1, <2>1, <2>2, <2>3 DEF TypeOK, CloseByApp, CloseChannel, ReadyState
<1>3. chan' = [chan EXCEPT ![e] = [j \in Id |-> IF j \in {i} THEN "CLOSED" ELSE @[j]]]
  BY <1>1 DEF TypeOK, CloseByApp, CloseChannel
<1>4. ASSUME NEW k \in 1..Len(micro[e]), micro[e][k].kind = "open"
      PROVE  micro[e][k].id \notin {i}
  <2>1. micro[e][k] \in MicroTask
    BY <1>1 DEF TypeOK
  <2>2. PICK j \in Id : micro[e][k] = OpenTask(j)
    BY <1>4, <2>1, TaskTypes DEF MicroTask
  <2>3. QED BY <1>4, <2>2, TaskTypes DEF CloseByApp
<1>5. ws[e] # "none"
  BY <1>1 DEF IInv, RootFollows, CloseByApp, CloseChannel, ChannelsTracked
<1>6. /\ UNCHANGED nextId
      /\ SocketKept(e)
  BY DEF CloseByApp, SocketKept
<1>7. QED BY <1>1, <1>2, <1>3, <1>4, <1>5, <1>6, ForgettingKeeps

LEMMA RecvCloseKeeps ==
    ASSUME IInv, NEW e \in End, RecvClose(e) PROVE IInv'
<1> DEFINE f == Head(wire[Peer(e)])
<1>1. /\ TypeOK /\ EmptyMeansUnused /\ Peer(e) \in End /\ f \in Frame /\ f.id \in Id
      /\ Tail(wire[Peer(e)]) \in Seq(Frame)
  <2>1. TypeOK /\ EmptyMeansUnused /\ Peer(e) \in End
    BY DEF IInv, Peer, End
  <2>2. wire[Peer(e)] \in Seq(Frame) /\ wire[Peer(e)] # <<>> /\ f.type = "CloseChannel"
    BY <2>1 DEF TypeOK, RecvClose, Arrives
  <2>3. f \in Frame /\ Tail(wire[Peer(e)]) \in Seq(Frame)
    BY <2>2
  <2>4. QED BY <2>1, <2>2, <2>3, FrameTypes
<1>2. wire' \in [End -> Seq(Frame)]
  BY <1>1 DEF TypeOK, RecvClose, Rest
<1>3. CASE f.id \in channels[e]
  <2>1. Forget(e, {f.id}) /\ chan' = [chan EXCEPT ![e][f.id] = "CLOSED"]
    BY <1>3 DEF RecvClose
  <2>2. TypeOK'
    <3>1. emptyDue' \in [End -> BOOLEAN] /\ micro' \in [End -> Seq(MicroTask)]
      BY <1>1, <2>1, ForgetKeeps
    <3>2. channels' \in [End -> SUBSET Id]
      BY <1>1, <2>1 DEF TypeOK, Forget
    <3>3. QED BY <1>1, <1>2, <2>1, <3>1, <3>2 DEF TypeOK, RecvClose, ReadyState
  <2>3. chan' = [chan EXCEPT ![e] = [j \in Id |-> IF j \in {f.id} THEN "CLOSED" ELSE @[j]]]
    BY <1>1, <2>1 DEF TypeOK
  <2>4. micro[e] = <<>> /\ ws[e] # "none"
    BY DEF RecvClose, Arrives, Quiet
  <2>5. /\ UNCHANGED nextId
        /\ SocketKept(e)
    BY DEF RecvClose, SocketKept
  <2>6. {f.id} \in SUBSET Id
    BY <1>1
  <2>7. \A k \in 1..Len(micro[e]) : micro[e][k].kind = "open" => micro[e][k].id \notin {f.id}
    BY <2>4
  <2>8. QED BY <2>1, <2>2, <2>3, <2>4, <2>5, <2>6, <2>7, ForgettingKeeps
<1>4. CASE f.id \notin channels[e]
  <2>1. UNCHANGED <<ws, root, nextId, channels, chan, held, chHeld, micro, emptyDue, lost,
                    waiting, sent, got>>
    BY <1>4 DEF RecvClose
  <2>2. TypeOK'
    BY <1>1, <1>2, <2>1 DEF TypeOK
  <2>3. QED BY <2>1, <2>2 DEF IInv, ChannelsTracked, EmptyMeansUnused, OpensTracked,
                              RootFollows, IdsKnown
<1>5. QED BY <1>3, <1>4

LEMMA SocketCloseKeeps ==
    ASSUME IInv, NEW e \in End, SocketClose(e) PROVE IInv'
<1>1. TypeOK /\ EmptyMeansUnused /\ Peer(e) \in End /\ channels[e] \in SUBSET Id
  BY DEF IInv, Peer, End, TypeOK
<1>2. Forget(e, channels[e])
  BY DEF SocketClose
<1>3. TypeOK'
  <2>1. emptyDue' \in [End -> BOOLEAN] /\ micro' \in [End -> Seq(MicroTask)]
    BY <1>1, <1>2, ForgetKeeps
  <2>2. channels' \in [End -> SUBSET Id]
    BY <1>1, <1>2 DEF TypeOK, Forget
  <2>3. QED BY SMTT(30), <1>1, <2>1, <2>2 DEF TypeOK, SocketClose, ReadyState
<1>4. micro[e] = <<>> /\ ws[e] # "none"
  BY DEF SocketClose, Quiet
<1>5. chan' = [chan EXCEPT ![e] = [j \in Id |-> IF j \in channels[e] THEN "CLOSED" ELSE @[j]]]
  BY DEF SocketClose
<1>6. SocketKept(e)
  BY <1>1 DEF TypeOK, SocketClose, SocketKept
<1>7. \A k \in 1..Len(micro[e]) : micro[e][k].kind = "open" => micro[e][k].id \notin channels[e]
  BY <1>4
<1>8. UNCHANGED nextId
  BY DEF SocketClose
<1>9. QED BY <1>1, <1>2, <1>3, <1>4, <1>5, <1>6, <1>7, <1>8, ForgettingKeeps

LEMMA TailElements ==
    ASSUME NEW S, NEW s \in Seq(S), s # <<>>, NEW k \in 1..Len(Tail(s))
    PROVE  k + 1 \in 1..Len(s) /\ Tail(s)[k] = s[k + 1]
<1>1. Len(s) \in Nat /\ Len(s) # 0
  OBVIOUS
<1>2. Len(Tail(s)) = Len(s) - 1
  OBVIOUS
<1>3. k + 1 \in 1..Len(s)
  BY <1>1, <1>2
<1>4. QED BY <1>1, <1>2, <1>3

\* Taking the first microtask leaves the other pending 'open's as they are.
LEMMA OpensAfterRun ==
    ASSUME TypeOK, OpensTracked, NEW e \in End, micro[e] # <<>>,
           micro' = [micro EXCEPT ![e] = Tail(@)], UNCHANGED channels
    PROVE  OpensTracked' /\ micro' \in [End -> Seq(MicroTask)]
<1>1. micro[e] \in Seq(MicroTask) /\ Tail(micro[e]) \in Seq(MicroTask)
  BY DEF TypeOK
<1>2. micro' \in [End -> Seq(MicroTask)]
  BY <1>1 DEF TypeOK
<1>3. ASSUME NEW d \in End, NEW k \in 1..Len(micro'[d]), micro'[d][k].kind = "open"
      PROVE  micro'[d][k].id \in channels'[d]
  <2>1. CASE d = e
    <3>1. micro'[d] = Tail(micro[e])
      BY <2>1 DEF TypeOK
    <3>2. k \in 1..Len(Tail(micro[e]))
      BY <1>3, <3>1
    <3>3. k + 1 \in 1..Len(micro[e]) /\ micro'[d][k] = micro[e][k + 1]
      BY <1>1, <3>1, <3>2, TailElements
    <3>4. QED BY <1>3, <2>1, <3>3 DEF OpensTracked
  <2>2. CASE d # e
    BY <1>3, <2>2 DEF TypeOK, OpensTracked
  <2>3. QED BY <2>1, <2>2
<1>4. QED BY <1>2, <1>3 DEF OpensTracked

LEMMA RunOpenKeeps ==
    ASSUME IInv, NEW e \in End, RunOpen(e) PROVE IInv'
<1> DEFINE t == Head(micro[e])
<1>1. TypeOK /\ OpensTracked /\ micro[e] \in Seq(MicroTask) /\ micro[e] # <<>>
  BY DEF IInv, TypeOK, RunOpen
<1>2. t = micro[e][1] /\ 1 \in 1..Len(micro[e]) /\ t \in MicroTask
  BY <1>1
<1>3. t.id \in Id /\ (t.kind = "open" => t.id \in channels[e])
  BY <1>1, <1>2, TaskTypes DEF OpensTracked, RunOpen
<1>4. OpensTracked' /\ micro' \in [End -> Seq(MicroTask)]
  BY <1>1, OpensAfterRun DEF RunOpen
<1>5. CASE OpenChannel(e, t.id) /\ t.id \in channels[e]
  <2>1. chHeld[e][t.id] \in Seq(Frame)
    BY <1>1, <1>3 DEF TypeOK
  <2>2. wire' \in [End -> Seq(Frame)] /\ held' \in [End -> Seq(Frame)]
    BY <1>1, <1>5, <2>1, RootSendTypes DEF OpenChannel
  <2>3. TypeOK'
    <3>1. chan' \in [End -> [Id -> ReadyState \cup {"none"}]]
      BY <1>1, <1>3, <1>5 DEF TypeOK, OpenChannel, ReadyState
    <3>2. chHeld' \in [End -> [Id -> Seq(Frame)]]
      BY <1>1, <1>3, <1>5 DEF TypeOK, OpenChannel
    <3>3. QED BY <1>1, <1>4, <2>2, <3>1, <3>2 DEF TypeOK, RunOpen
  <2>4. ChannelsTracked'
    BY <1>1, <1>3, <1>5 DEF IInv, TypeOK, ChannelsTracked, RunOpen, OpenChannel
  <2>5. QED BY <1>4, <2>3, <2>4 DEF IInv, EmptyMeansUnused, RootFollows, IdsKnown, RunOpen
<1>6. CASE UNCHANGED <<chan, chHeld, wire, held>>
  <2>1. TypeOK'
    BY <1>1, <1>4, <1>6 DEF TypeOK, RunOpen
  <2>2. QED BY <1>4, <1>6, <2>1 DEF IInv, ChannelsTracked, EmptyMeansUnused, RootFollows,
                                    IdsKnown, RunOpen
<1>7. QED BY <1>3, <1>5, <1>6 DEF RunOpen

LEMMA RunEmptyKeeps ==
    ASSUME IInv, NEW e \in End, RunEmpty(e) PROVE IInv'
<1>1. TypeOK /\ OpensTracked
  BY DEF IInv
<1>2. OpensTracked' /\ micro' \in [End -> Seq(MicroTask)]
  BY <1>1, OpensAfterRun DEF RunEmpty
<1>3. emptyDue' = [emptyDue EXCEPT ![e] = FALSE] /\ UNCHANGED <<channels, chan, root, nextId>>
  BY DEF RunEmpty
<1>4. emptyDue' \in [End -> BOOLEAN]
  BY <1>1, <1>3 DEF TypeOK
<1>5. ASSUME NEW d \in End, emptyDue'[d] PROVE emptyDue[d]
  BY <1>1, <1>3, <1>5 DEF TypeOK
<1>6. \/ UNCHANGED <<ws, lost, wire>>
      \/ /\ e = Client /\ ws[e] # "none"
         /\ ws' = [ws EXCEPT ![e] = "CLOSING"]
         /\ lost' \in BOOLEAN
         /\ wire' = [wire EXCEPT ![e] = OnWire(e, <<WsClose>>)]
  BY DEF RunEmpty
<1>7. TypeOK'
  <2>1. OnWire(e, <<WsClose>>) \in Seq(Frame)
    BY <1>1, FrameTypes DEF TypeOK, OnWire
  <2>2. /\ wire \in [End -> Seq(Frame)] /\ ws \in [End -> ReadyState \cup {"none"}]
        /\ "CLOSING" \in ReadyState \cup {"none"}
    BY <1>1 DEF TypeOK, ReadyState
  <2>3. wire' \in [End -> Seq(Frame)]
    BY <1>6, <2>1, <2>2
  <2>4. ws' \in [End -> ReadyState \cup {"none"}]
    BY <1>6, <2>2
  <2>5. lost' \in BOOLEAN
    BY <1>1, <1>6 DEF TypeOK
  <2>6. QED BY <1>1, <1>2, <1>4, <2>3, <2>4, <2>5 DEF TypeOK, RunEmpty
<1>8. ChannelsTracked' /\ EmptyMeansUnused' /\ IdsKnown'
  BY <1>3, <1>5 DEF IInv, ChannelsTracked, EmptyMeansUnused, IdsKnown
<1>9. RootFollows'
  <2>1. ASSUME NEW d \in End
        PROVE  \/ ws'[d] = ws[d]
               \/ d = Client /\ ws[d] # "none" /\ ws'[d] = "CLOSING"
    BY <1>1, <1>6 DEF TypeOK
  <2>2. QED BY <1>3, <1>5, <2>1 DEF IInv, RootFollows, Client, Server
<1>10. QED BY <1>2, <1>7, <1>8, <1>9 DEF IInv

LEMMA AcceptKeeps ==
    ASSUME IInv, Accept PROVE IInv'
<1>1. /\ TypeOK /\ Server \in End /\ channels[Server] = {} /\ ~emptyDue[Server]
      /\ OpensTracked
  BY DEF IInv, End, Accept, RootFollows
<1>2. /\ emptyDue' = [emptyDue EXCEPT ![Server] = TRUE]
      /\ micro' = [micro EXCEPT ![Server] = Append(@, EmptyTask)]
      /\ UNCHANGED <<nextId, channels, chan>>
  BY <1>1 DEF Accept, ScheduleEmpty
<1>3. TypeOK'
  <2>1. emptyDue' \in [End -> BOOLEAN]
    BY <1>1, <1>2 DEF TypeOK
  <2>2. micro' \in [End -> Seq(MicroTask)]
    BY <1>1, <1>2, TaskTypes DEF TypeOK
  <2>3. QED BY <1>1, <2>1, <2>2 DEF TypeOK, Accept, ReadyState
<1>4. OpensTracked'
  <2>1. \A d \in End : micro'[d] = micro[d] \/ micro'[d] = Append(micro[d], EmptyTask)
    BY <1>1, <1>2 DEF TypeOK
  <2>2. QED BY <1>1, <1>2, <2>1, OpensKept
<1>5. ASSUME NEW d \in End, emptyDue'[d] PROVE d = Server \/ emptyDue[d]
  BY <1>1, <1>2, <1>5 DEF TypeOK
<1>6. ChannelsTracked' /\ EmptyMeansUnused' /\ IdsKnown'
  BY <1>1, <1>2, <1>5 DEF IInv, ChannelsTracked, EmptyMeansUnused, IdsKnown
<1>7. RootFollows'
  BY <1>1, <1>2, <1>5 DEF IInv, RootFollows, Accept, TypeOK
<1>8. QED BY <1>3, <1>4, <1>6, <1>7 DEF IInv

LEMMA SocketOpenKeeps ==
    ASSUME IInv, SocketOpen PROVE IInv'
<1>1. TypeOK /\ Client \in End /\ nextId[Client] \in 0..MaxId /\ MaxId \in Nat
  BY BoundsAssumption DEF IInv, End, TypeOK
<1> DEFINE relays == [k \in 1..nextId[Client] |-> RelayTask(k)]
<1>2. /\ \A k \in 1..nextId[Client] : RelayTask(k) \in MicroTask /\ RelayTask(k).kind = "relay"
      /\ relays \in Seq(MicroTask) /\ Len(relays) = nextId[Client]
  BY <1>1, TaskTypes DEF Id
<1>3. micro' = [micro EXCEPT ![Client] = relays]
  BY DEF SocketOpen
<1>4. TypeOK'
  <2>1. micro' \in [End -> Seq(MicroTask)]
    BY <1>1, <1>2, <1>3 DEF TypeOK
  <2>2. wire' \in [End -> Seq(Frame)] /\ held' \in [End -> Seq(Frame)]
    BY <1>1 DEF TypeOK, SocketOpen
  <2>3. QED BY <1>1, <2>1, <2>2 DEF TypeOK, SocketOpen, ReadyState
<1>5. OpensTracked'
  <2>1. SUFFICES ASSUME NEW d \in End, NEW k \in 1..Len(micro'[d]), micro'[d][k].kind = "open"
                 PROVE  micro'[d][k].id \in channels'[d]
    BY DEF OpensTracked
  <2>2. CASE d = Client
    BY <1>1, <1>2, <1>3, <2>1, <2>2 DEF TypeOK
  <2>3. CASE d # Client
    BY <1>1, <1>3, <2>1, <2>3 DEF TypeOK, OpensTracked, IInv, SocketOpen
  <2>4. QED BY <2>2, <2>3
<1>6. ChannelsTracked' /\ EmptyMeansUnused' /\ IdsKnown'
  BY DEF IInv, ChannelsTracked, EmptyMeansUnused, IdsKnown, SocketOpen
<1>7. RootFollows'
  BY <1>1 DEF IInv, RootFollows, SocketOpen, TypeOK, Client, Server
<1>8. QED BY <1>4, <1>5, <1>6, <1>7 DEF IInv

\* Receiving a frame takes it off the wire.
LEMMA ArrivesTypes ==
    ASSUME TypeOK, NEW e \in End, NEW type, Arrives(e, type)
    PROVE  /\ Peer(e) \in End /\ Peer(e) # e
           /\ Head(wire[Peer(e)]) \in Frame /\ Head(wire[Peer(e)]).type = type
           /\ Rest(e) \in [End -> Seq(Frame)]
<1>1. Peer(e) \in End /\ Peer(e) # e
  BY DEF Peer, End, Client, Server
<1>2. wire[Peer(e)] \in Seq(Frame) /\ wire[Peer(e)] # <<>>
  BY <1>1 DEF TypeOK, Arrives
<1>3. Head(wire[Peer(e)]) \in Frame /\ Tail(wire[Peer(e)]) \in Seq(Frame)
  BY <1>2
<1>4. Rest(e) \in [End -> Seq(Frame)]
  BY <1>1, <1>3 DEF TypeOK, Rest
<1>5. QED BY <1>1, <1>3, <1>4 DEF Arrives

LEMMA UpdateTypes ==
    ASSUME NEW S, NEW f \in [End -> [Id -> S]], NEW e \in End, NEW i \in Id, NEW v \in S
    PROVE  [f EXCEPT ![e][i] = v] \in [End -> [Id -> S]]
  OBVIOUS

LEMMA RecvDataKeeps ==
    ASSUME IInv, NEW e \in End, RecvData(e) PROVE IInv'
<1>0. PICK i \in Id, n \in 1..MaxMsgs : Head(wire[Peer(e)]).id = i /\ Head(wire[Peer(e)]).n = n
  BY ArrivesTypes, FrameTypes DEF IInv, RecvData
<1>1. TypeOK /\ Rest(e) \in [End -> Seq(Frame)]
  BY ArrivesTypes DEF IInv, RecvData
<1>2. got' \in [End -> [Id -> Seq(1..MaxMsgs)]]
  <2>1. Append(got[e][i], n) \in Seq(1..MaxMsgs)
    BY <1>1 DEF TypeOK
  <2>2. got' = got \/ got' = [got EXCEPT ![e][i] = Append(got[e][i], n)]
    BY <1>0 DEF RecvData
  <2>3. got \in [End -> [Id -> Seq(1..MaxMsgs)]]
    BY <1>1 DEF TypeOK
  <2>4. [got EXCEPT ![e][i] = Append(got[e][i], n)] \in [End -> [Id -> Seq(1..MaxMsgs)]]
    <3> DEFINE S == Seq(1..MaxMsgs)
             v == Append(got[e][i], n)
    <3>1. v \in S /\ got \in [End -> [Id -> S]]
      BY <2>1, <2>3
    <3> HIDE DEF S, v
    <3>2. [got EXCEPT ![e][i] = v] \in [End -> [Id -> S]]
      BY <3>1, UpdateTypes
    <3>3. QED BY <3>2 DEF S, v
  <2>5. QED BY <2>2, <2>3, <2>4
<1>3. TypeOK'
  BY <1>1, <1>2 DEF TypeOK, RecvData
<1>4. QED BY <1>3 DEF IInv, ChannelsTracked, EmptyMeansUnused, OpensTracked,
                      RootFollows, IdsKnown, RecvData

\* The three actions that touch nothing but the wire, the sockets and lost.
LEMMA WireOnlyKeeps ==
    ASSUME IInv, RecvWsClose \/ DropFrame \/ Lose PROVE IInv'
<1>1. TypeOK /\ Client \in End /\ Server \in End
  BY DEF IInv, End
<1>2. wire' \in [End -> Seq(Frame)] /\ ws' \in [End -> ReadyState \cup {"none"}] /\ lost' \in BOOLEAN
  <2>1. CASE RecvWsClose
    <3>1. Rest(Server) \in [End -> Seq(Frame)]
      BY <1>1, <2>1, ArrivesTypes DEF RecvWsClose
    <3>2. OnWire(Server, <<WsClose>>) \in Seq(Frame)
      BY <1>1, FrameTypes DEF TypeOK, OnWire
    <3>3. QED BY <1>1, <2>1, <3>1, <3>2 DEF TypeOK, RecvWsClose, ReadyState
  <2>2. CASE DropFrame
    <3>1. wire[Server] \in Seq(Frame) /\ wire[Server] # <<>> /\ Peer(Client) = Server
      BY <1>1, <2>2 DEF TypeOK, DropFrame, Peer
    <3>2. Tail(wire[Server]) \in Seq(Frame)
      BY <3>1
    <3>3. QED BY <1>1, <2>2, <3>1, <3>2 DEF TypeOK, DropFrame, Rest
  <2>3. CASE Lose
    BY <1>1, <2>3 DEF TypeOK, Lose
  <2>4. QED BY <2>1, <2>2, <2>3
<1>3. UNCHANGED <<root, nextId, channels, chan, held, chHeld, micro, emptyDue, waiting, sent, got>>
  BY DEF RecvWsClose, DropFrame, Lose
<1>4. TypeOK'
  BY <1>1, <1>2, <1>3 DEF TypeOK
<1>5. RootFollows'
  <2>1. CASE RecvWsClose
    <3>1. ws[Server] \in {"OPEN", "CLOSING"} /\ ws' = [ws EXCEPT ![Server] = "CLOSING"]
      BY <2>1 DEF RecvWsClose, Arrives
    <3>2. QED BY <1>1, <1>3, <3>1 DEF IInv, RootFollows, TypeOK
  <2>2. CASE UNCHANGED ws
    BY <1>3, <2>2 DEF IInv, RootFollows
  <2>3. QED BY <2>1, <2>2 DEF DropFrame, Lose
<1>6. QED BY <1>3, <1>4, <1>5 DEF IInv, ChannelsTracked, EmptyMeansUnused, OpensTracked, IdsKnown

LEMMA RecvCreateKeeps ==
    ASSUME IInv, NEW e \in End, RecvCreate(e) PROVE IInv'
<1>0. PICK i \in Id : i = Head(wire[Peer(e)]).id
  BY ArrivesTypes, FrameTypes DEF IInv, RecvCreate
<1>1. TypeOK /\ Peer(e) \in End /\ Peer(e) # e /\ Rest(e) \in [End -> Seq(Frame)]
  BY ArrivesTypes DEF IInv, RecvCreate
<1>2. micro[e] = <<>> /\ ws[e] # "none" /\ root[e] = "OPEN"
  BY DEF IInv, RootFollows, RecvCreate, Arrives, Quiet
<1>3. nextId' = [nextId EXCEPT ![e] = IF @ < i THEN i ELSE @]
  BY <1>0 DEF RecvCreate
<1>4. PICK v \in 0..MaxId : /\ nextId' = [nextId EXCEPT ![e] = v]
                            /\ v >= i /\ v >= nextId[e] /\ nextId[e] \in Nat /\ i \in Nat
  <2>1. nextId[e] \in 0..MaxId /\ i \in 0..MaxId /\ i \in Nat /\ nextId[e] \in Nat
    BY <1>1, BoundsAssumption DEF TypeOK, Id
  <2>2. CASE nextId[e] < i
    <3>1. nextId' = [nextId EXCEPT ![e] = i]
      BY <1>3, <2>2
    <3>2. i >= i /\ i >= nextId[e]
      BY <2>1, <2>2
    <3>3. QED BY <2>1, <3>1, <3>2
  <2>3. CASE ~(nextId[e] < i)
    <3>1. nextId' = [nextId EXCEPT ![e] = nextId[e]]
      BY <1>3, <2>3
    <3>2. nextId[e] >= i /\ nextId[e] >= nextId[e]
      BY <2>1, <2>3
    <3>3. QED BY <2>1, <3>1, <3>2
  <2>4. QED BY <2>2, <2>3
<1>5. /\ nextId' \in [End -> 0..MaxId]
      /\ \A d \in End : nextId'[d] = IF d = e THEN v ELSE nextId[d]
  BY <1>1, <1>4 DEF TypeOK
<1>6. CASE /\ channels' = [channels EXCEPT ![e] = @ \cup {i}]
           /\ chan' = [chan EXCEPT ![e][i] = root[e]]
           /\ emptyDue' = [emptyDue EXCEPT ![e] = FALSE]
           /\ wire' = Rest(e) /\ UNCHANGED micro
  <2>1. emptyDue' \in [End -> BOOLEAN]
    BY <1>1, <1>6 DEF TypeOK
  <2>2. TypeOK'
    <3>1. root[e] \in ReadyState \cup {"none"}
      BY <1>2 DEF ReadyState
    <3>2. chan' \in [End -> [Id -> ReadyState \cup {"none"}]]
      BY <1>1, <1>6, <3>1, UpdateTypes DEF TypeOK
    <3>3. channels' \in [End -> SUBSET Id]
      BY <1>1, <1>6 DEF TypeOK
    <3>4. QED BY <1>1, <1>5, <1>6, <2>1, <3>2, <3>3 DEF TypeOK, RecvCreate
  <2>3. ChannelsTracked'
    <3>1. \A d \in End, j \in Id :
            /\ j \in channels'[d] <=> j \in channels[d] \/ (d = e /\ j = i)
            /\ chan'[d][j] = IF d = e /\ j = i THEN "OPEN" ELSE chan[d][j]
      BY <1>1, <1>2, <1>6 DEF TypeOK
    <3>2. QED BY <3>1 DEF IInv, ChannelsTracked
  <2>4. ASSUME NEW d \in End, emptyDue'[d] PROVE d # e /\ emptyDue[d]
    BY <1>1, <1>6, <2>4 DEF TypeOK
  <2>5. \A d \in End : channels'[d] = IF d = e THEN channels[d] \cup {i} ELSE channels[d]
    BY <1>1, <1>6 DEF TypeOK
  <2>6. EmptyMeansUnused'
    BY <2>4, <2>5 DEF IInv, EmptyMeansUnused
  <2>7. OpensTracked'
    BY <1>6, <2>5 DEF IInv, OpensTracked
  <2>8. RootFollows'
    BY <1>2, <2>4, <2>5 DEF IInv, RootFollows, RecvCreate
  <2>9. IdsKnown'
    <3>1. ASSUME NEW d \in End, NEW j \in channels'[d] PROVE j <= nextId'[d]
      <4>1. CASE j = i /\ d = e
        BY <1>4, <1>5, <4>1
      <4>2. CASE j \in channels[d]
        <5>1. j <= nextId[d] /\ j \in Id
          BY <1>1, <4>2 DEF IInv, IdsKnown, TypeOK
        <5>2. QED BY <1>4, <1>5, <5>1 DEF Id
      <4>3. QED BY <2>5, <4>1, <4>2
    <3>2. QED BY <3>1 DEF IdsKnown
  <2>10. QED BY <2>2, <2>3, <2>6, <2>7, <2>8, <2>9 DEF IInv
<1>7. CASE /\ channels' = [channels EXCEPT ![e] = @ \ {i}]
           /\ chan' = [chan EXCEPT ![e][i] = "CLOSED"]
           /\ emptyDue' = [emptyDue EXCEPT ![e] = (channels[e] \subseteq {i})]
           /\ micro' = micro \/ micro' = [micro EXCEPT ![e] = Append(@, EmptyTask)]
           /\ wire' = [Rest(e) EXCEPT ![e] = OnWire(e, <<Close(i)>>)]
  <2>1. emptyDue' \in [End -> BOOLEAN]
    BY <1>1, <1>7 DEF TypeOK
  <2>2. micro' \in [End -> Seq(MicroTask)]
    <3>1. micro[e] \in Seq(MicroTask) /\ Append(micro[e], EmptyTask) \in Seq(MicroTask)
      BY <1>1, TaskTypes DEF TypeOK
    <3>2. QED BY <1>1, <1>7, <3>1 DEF TypeOK
  <2>3. wire' \in [End -> Seq(Frame)]
    <3>1. OnWire(e, <<Close(i)>>) \in Seq(Frame)
      BY <1>1, FrameTypes DEF TypeOK, OnWire
    <3>2. QED BY <1>1, <1>7, <3>1
  <2>4. TypeOK'
    <3>1. chan' \in [End -> [Id -> ReadyState \cup {"none"}]]
      BY <1>1, <1>7, UpdateTypes DEF TypeOK, ReadyState
    <3>2. channels' \in [End -> SUBSET Id]
      BY <1>1, <1>7 DEF TypeOK
    <3>3. QED BY <1>1, <1>5, <1>7, <2>1, <2>2, <2>3, <3>1, <3>2 DEF TypeOK, RecvCreate
  <2>5. ChannelsTracked'
    <3>1. \A d \in End, j \in Id :
            /\ j \in channels'[d] <=> j \in channels[d] /\ ~(d = e /\ j = i)
            /\ chan'[d][j] = IF d = e /\ j = i THEN "CLOSED" ELSE chan[d][j]
      BY <1>1, <1>7 DEF TypeOK
    <3>2. QED BY <3>1 DEF IInv, ChannelsTracked
  <2>6. \A d \in End : channels'[d] = IF d = e THEN channels[d] \ {i} ELSE channels[d]
    BY <1>1, <1>7 DEF TypeOK
  <2>7. ASSUME NEW d \in End, emptyDue'[d]
        PROVE  IF d = e THEN channels[e] \subseteq {i} ELSE emptyDue[d]
    BY <1>1, <1>7, <2>7 DEF TypeOK
  <2>8. EmptyMeansUnused'
    BY <2>6, <2>7 DEF IInv, EmptyMeansUnused
  <2>9. OpensTracked'
    <3>1. \A d \in End : micro'[d] = micro[d] \/ micro'[d] = Append(micro[d], EmptyTask)
      BY <1>1, <1>7 DEF TypeOK
    <3>2. \A d \in End : micro[d] # <<>> => channels[d] \subseteq channels'[d]
      BY <1>2, <2>6
    <3>3. QED BY <1>1, <3>1, <3>2, OpensKept DEF IInv
  <2>10. RootFollows'
    BY <1>2, <2>6, <2>7 DEF IInv, RootFollows, RecvCreate
  <2>11. IdsKnown'
    <3>1. ASSUME NEW d \in End, NEW j \in channels'[d] PROVE j <= nextId'[d]
      <4>1. j \in channels[d]
        BY <2>6
      <4>2. j <= nextId[d] /\ j \in Id
        BY <1>1, <4>1 DEF IInv, IdsKnown, TypeOK
      <4>3. QED BY <1>4, <1>5, <4>2 DEF Id
    <3>2. QED BY <3>1 DEF IdsKnown
  <2>12. QED BY <2>4, <2>5, <2>8, <2>9, <2>10, <2>11 DEF IInv
<1>8. QED BY <1>0, <1>6, <1>7 DEF RecvCreate

-----------------------------------------------------------------------------
LEMMA InitIInv == Init => IInv
<1> SUFFICES ASSUME Init PROVE IInv
  OBVIOUS
<1>1. TypeOK
  <2>1. 0 \in 0..MaxId /\ 0 \in 0..MaxMsgs
    BY BoundsAssumption
  <2>2. nextId \in [End -> 0..MaxId] /\ sent \in [End -> [Id -> 0..MaxMsgs]]
    BY <2>1 DEF Init
  <2>3. /\ ws \in [End -> ReadyState \cup {"none"}]
        /\ root \in [End -> ReadyState \cup {"none"}]
        /\ chan \in [End -> [Id -> ReadyState \cup {"none"}]]
    BY DEF Init
  <2>4. /\ held \in [End -> Seq(Frame)] /\ wire \in [End -> Seq(Frame)]
        /\ chHeld \in [End -> [Id -> Seq(Frame)]]
        /\ micro \in [End -> Seq(MicroTask)]
        /\ got \in [End -> [Id -> Seq(1..MaxMsgs)]]
    BY DEF Init
  <2>5. QED BY <2>2, <2>3, <2>4 DEF Init, TypeOK
<1>2. QED BY <1>1 DEF Init, IInv, ChannelsTracked, EmptyMeansUnused, OpensTracked,
                      RootFollows, IdsKnown, End, Client, Server

LEMMA StepIInv == IInv /\ [Next]_vars => IInv'
<1> SUFFICES ASSUME IInv, [Next]_vars PROVE IInv'
  OBVIOUS
<1>1. CASE Connect
  BY <1>1, ConnectKeeps
<1>2. ASSUME NEW m \in Modals, ConnectModal(m) PROVE IInv'
  BY <1>2, ConnectModalKeeps
<1>3. CASE OpenOnCached \/ \E m \in Modals : ModalOnCached(m) \/ ModalCreates(m)
  BY <1>3, OpenersKeep
<1>4. ASSUME NEW e \in End, NEW i \in Id, Send(e, i) \/ CloseByApp(e, i) PROVE IInv'
  BY <1>4, SendKeeps, CloseByAppKeeps
<1>5. ASSUME NEW e \in End, RunOpen(e) \/ RunEmpty(e) PROVE IInv'
  BY <1>5, RunOpenKeeps, RunEmptyKeeps
<1>6. ASSUME NEW e \in End,
             RecvCreate(e) \/ RecvData(e) \/ RecvClose(e) \/ SocketClose(e)
      PROVE  IInv'
  BY <1>6, RecvCreateKeeps, RecvDataKeeps, RecvCloseKeeps, SocketCloseKeeps
<1>7. CASE Accept \/ SocketOpen
  BY <1>7, AcceptKeeps, SocketOpenKeeps
<1>8. CASE RecvWsClose \/ DropFrame \/ Lose
  BY <1>8, WireOnlyKeeps
<1>9. CASE UNCHANGED vars
  BY <1>9 DEF vars, IInv, TypeOK, ChannelsTracked, EmptyMeansUnused, OpensTracked,
              RootFollows, IdsKnown
<1>10. QED BY <1>1, <1>2, <1>3, <1>4, <1>5, <1>6, <1>7, <1>8, <1>9 DEF Next

LEMMA IInvAlways == Spec => []IInv
  BY InitIInv, StepIInv, PTL DEF Spec

\* Every variable keeps its type, whatever the number of channels: in particular
\* getNextId always finds an id that no channel has.
THEOREM TypeCorrect == Spec => []TypeOK
  BY IInvAlways, PTL DEF IInv

\* The readyState of a channel and its entry in the root's Map never part.
THEOREM ChannelsAlwaysTracked == Spec => []ChannelsTracked
  BY IInvAlways, PTL DEF IInv

\* 'empty' never fires while a channel is in use.
THEOREM EmptyNeverCutsOff == Spec => []EmptyMeansUnused
  BY IInvAlways, PTL DEF IInv

-----------------------------------------------------------------------------
(* Part II: the streams.                                                    *)

\* The frames that e has handed to its root and its peer has not taken yet: the
\* root's storage until the root opens, the socket from then on.
Path(e) == IF root[e] = "CONNECTING" THEN held[e] ELSE wire[e]

\* What e hands to its root gets on the path.
Transmits(e) == root[e] = "CONNECTING" \/ (ws[e] = "OPEN" /\ ~lost)

\* Frames for e may still reach it.
Hears(e) == ws[e] \in {"none", "CONNECTING", "OPEN"} \/ (e = Server /\ ws[e] = "CLOSING")

Rank == 1..MaxMsgs

\* A single frame, as what is sent at once.
One(f) == <<f>>

\* About a sequence P of frames: it holds f; it holds f once at most; on
\* channel i, nothing precedes the frame that creates it; the data of channel i
\* are in the order of their ranks.
Has(P, f) == \E k \in 1..Len(P) : P[k] = f
Once(P, f) == \A j, k \in 1..Len(P) : P[j] = f /\ P[k] = f => j = k
After(P, i) ==
    \A k \in 1..Len(P) :
        P[k] = Close(i) \/ (\E n \in Rank : P[k] = Data(i, n))
            => \E j \in 1..(k - 1) : P[j] = Create(i)
Ordered(P, i) ==
    \A j, k \in 1..Len(P) : \A m, n \in Rank :
        j < k /\ P[j] = Data(i, m) /\ P[k] = Data(i, n) => m < n

-----------------------------------------------------------------------------
(* Lemmas about sequences of frames.                                        *)

\* The frames of two channels, of two ranks or of two types differ.
LEMMA FramesDiffer ==
    /\ \A i, j : Create(i) # Close(j)
    /\ \A i, j, n : Create(i) # Data(j, n) /\ Close(i) # Data(j, n)
    /\ \A i : WsClose # Create(i) /\ WsClose # Close(i)
    /\ \A i, n : WsClose # Data(i, n)
    /\ \A i, j : Create(i) = Create(j) => i = j
    /\ \A i, j : Close(i) = Close(j) => i = j
    /\ \A i, j, m, n : Data(i, m) = Data(j, n) => i = j /\ m = n
<1>1. /\ \A i : Create(i).type = "CreateChannel" /\ Create(i).id = i
      /\ \A i : Close(i).type = "CloseChannel" /\ Close(i).id = i
      /\ \A i, n : Data(i, n).type = "RawData" /\ Data(i, n).id = i /\ Data(i, n).n = n
      /\ WsClose.type = "wsClose"
  BY DEF Create, Close, Data, WsClose
<1> QED
  BY <1>1

LEMMA HasAppend ==
    ASSUME NEW S, NEW P \in Seq(S), NEW Q \in Seq(S), NEW f
    PROVE  Has(P \o Q, f) <=> Has(P, f) \/ Has(Q, f)
<1>1. /\ Len(P) \in Nat /\ Len(Q) \in Nat /\ Len(P \o Q) = Len(P) + Len(Q)
      /\ \A k \in 1..Len(P) : (P \o Q)[k] = P[k]
      /\ \A k \in 1..Len(Q) : (P \o Q)[Len(P) + k] = Q[k]
  OBVIOUS
<1>2. ASSUME Has(P \o Q, f) PROVE Has(P, f) \/ Has(Q, f)
  <2>1. PICK k \in 1..Len(P \o Q) : (P \o Q)[k] = f
    BY <1>2 DEF Has
  <2>2. CASE k <= Len(P)
    BY <1>1, <2>1, <2>2 DEF Has
  <2>3. CASE k > Len(P)
    <3>1. k - Len(P) \in 1..Len(Q) /\ Len(P) + (k - Len(P)) = k
      BY <1>1, <2>3
    <3> QED
      BY <1>1, <2>1, <3>1 DEF Has
  <2> QED
    BY <1>1, <2>2, <2>3
<1>3. ASSUME Has(P, f) PROVE Has(P \o Q, f)
  <2>1. PICK k \in 1..Len(P) : P[k] = f
    BY <1>3 DEF Has
  <2> QED
    BY <1>1, <2>1 DEF Has
<1>4. ASSUME Has(Q, f) PROVE Has(P \o Q, f)
  <2>1. PICK k \in 1..Len(Q) : Q[k] = f
    BY <1>4 DEF Has
  <2>2. Len(P) + k \in 1..Len(P \o Q)
    BY <1>1
  <2> QED
    BY <1>1, <2>1, <2>2 DEF Has
<1> QED
  BY <1>2, <1>3, <1>4

LEMMA HasOne == ASSUME NEW g, NEW f PROVE Has(<<g>>, f) <=> f = g
  BY DEF Has

LEMMA HasLast ==
    ASSUME NEW S, NEW P \in Seq(S), NEW x \in S
    PROVE  \A f : Has(P \o <<x>>, f) <=> Has(P, f) \/ f = x
<1>1. <<x>> \in Seq(S)
  OBVIOUS
<1>2. \A f : Has(P \o <<x>>, f) <=> Has(P, f) \/ Has(<<x>>, f)
  BY <1>1, HasAppend
<1> QED
  BY <1>2, HasOne

LEMMA OneFrame ==
    ASSUME NEW f
    PROVE  /\ \A g : Has(One(f), g) <=> g = f
           /\ f \in Frame => One(f) \in Seq(Frame)
           /\ \A S : f \in S => \A P \in Seq(S) : \A g : Has(P \o One(f), g) <=> Has(P, g) \/ g = f
           /\ \A g : Once(One(f), g)
  BY HasOne, HasLast DEF One, Once

LEMMA HasNone == ASSUME NEW f PROVE ~Has(<<>>, f)
  BY DEF Has

\* What is left when the first frame has been taken.
LEMMA TailPlaces ==
    ASSUME NEW S, NEW P \in Seq(S), P # <<>>
    PROVE  /\ Len(P) \in Nat \ {0} /\ Len(Tail(P)) = Len(P) - 1
           /\ Head(P) = P[1] /\ Tail(P) \in Seq(S)
           /\ \A k \in 1..Len(Tail(P)) : k + 1 \in 2..Len(P) /\ Tail(P)[k] = P[k + 1]
  OBVIOUS

LEMMA HasTail ==
    ASSUME NEW S, NEW P \in Seq(S), P # <<>>, NEW f
    PROVE  Has(P, f) <=> Head(P) = f \/ Has(Tail(P), f)
<1>1. /\ Len(P) \in Nat \ {0} /\ Len(Tail(P)) = Len(P) - 1 /\ Head(P) = P[1]
      /\ \A k \in 1..Len(Tail(P)) : k + 1 \in 2..Len(P) /\ Tail(P)[k] = P[k + 1]
  BY TailPlaces
<1>2. ASSUME Has(P, f) PROVE Head(P) = f \/ Has(Tail(P), f)
  <2>1. PICK k \in 1..Len(P) : P[k] = f
    BY <1>2 DEF Has
  <2>2. CASE k = 1
    BY <1>1, <2>1, <2>2
  <2>3. CASE k # 1
    <3>1. k - 1 \in 1..Len(Tail(P)) /\ Tail(P)[k - 1] = P[k]
      BY <1>1, <2>3
    <3> QED
      BY <2>1, <3>1 DEF Has
  <2> QED
    BY <2>2, <2>3
<1>3. ASSUME Head(P) = f PROVE Has(P, f)
  BY <1>1, <1>3 DEF Has
<1>4. ASSUME Has(Tail(P), f) PROVE Has(P, f)
  BY <1>1, <1>4 DEF Has
<1> QED
  BY <1>2, <1>3, <1>4

LEMMA OnceAppend ==
    ASSUME NEW S, NEW P \in Seq(S), NEW Q \in Seq(S), NEW f, Once(P, f), Once(Q, f),
           ~Has(P, f) \/ ~Has(Q, f)
    PROVE  Once(P \o Q, f)
<1>1. /\ Len(P) \in Nat /\ Len(Q) \in Nat /\ Len(P \o Q) = Len(P) + Len(Q)
      /\ \A k \in 1..Len(P \o Q) :
            IF k <= Len(P) THEN (P \o Q)[k] = P[k]
            ELSE k - Len(P) \in 1..Len(Q) /\ (P \o Q)[k] = Q[k - Len(P)]
  OBVIOUS
<1>2. SUFFICES ASSUME NEW j \in 1..Len(P \o Q), NEW k \in 1..Len(P \o Q),
                      (P \o Q)[j] = f, (P \o Q)[k] = f
               PROVE  j = k
  BY DEF Once
<1>3. CASE j <= Len(P) /\ k <= Len(P)
  BY <1>1, <1>2, <1>3 DEF Once
<1>4. CASE j > Len(P) /\ k > Len(P)
  <2>1. j - Len(P) = k - Len(P)
    BY <1>1, <1>2, <1>4 DEF Once
  <2> QED
    BY <1>1, <2>1
<1>5. CASE (j <= Len(P) /\ k > Len(P)) \/ (j > Len(P) /\ k <= Len(P))
  <2>1. Has(P, f) /\ Has(Q, f)
    BY <1>1, <1>2, <1>5 DEF Has
  <2> QED
    BY <2>1
<1> QED
  BY <1>1, <1>3, <1>4, <1>5

LEMMA OnceTail ==
    ASSUME NEW S, NEW P \in Seq(S), P # <<>>, NEW f, Once(P, f)
    PROVE  Once(Tail(P), f) /\ (Head(P) = f => ~Has(Tail(P), f))
<1>1. /\ Len(P) \in Nat \ {0} /\ Head(P) = P[1]
      /\ \A k \in 1..Len(Tail(P)) : k + 1 \in 2..Len(P) /\ Tail(P)[k] = P[k + 1]
  BY TailPlaces
<1>2. Once(Tail(P), f)
  <2>1. SUFFICES ASSUME NEW j \in 1..Len(Tail(P)), NEW k \in 1..Len(Tail(P)),
                        Tail(P)[j] = f, Tail(P)[k] = f
                 PROVE  j = k
    BY DEF Once
  <2>2. j + 1 = k + 1
    BY <1>1, <2>1 DEF Once
  <2> QED
    BY <2>2
<1>3. ASSUME Head(P) = f, Has(Tail(P), f) PROVE FALSE
  <2>1. PICK k \in 1..Len(Tail(P)) : Tail(P)[k] = f
    BY <1>3 DEF Has
  <2>2. 1 = k + 1
    BY <1>1, <1>3, <2>1 DEF Once
  <2> QED
    BY <2>2
<1> QED
  BY <1>2, <1>3

\* What follows a creation, or brings its own, may be appended.
LEMMA AfterAppend ==
    ASSUME NEW S, NEW P \in Seq(S), NEW Q \in Seq(S), NEW i, After(P, i),
           Has(P, Create(i)) \/ After(Q, i)
    PROVE  After(P \o Q, i)
<1>1. /\ Len(P) \in Nat /\ Len(Q) \in Nat /\ Len(P \o Q) = Len(P) + Len(Q)
      /\ \A k \in 1..Len(P) : (P \o Q)[k] = P[k]
      /\ \A k \in 1..Len(Q) : (P \o Q)[Len(P) + k] = Q[k]
      /\ \A k \in 1..Len(P \o Q) : k <= Len(P) \/ k - Len(P) \in 1..Len(Q)
  OBVIOUS
<1>2. SUFFICES ASSUME NEW k \in 1..Len(P \o Q),
                      (P \o Q)[k] = Close(i) \/ (\E n \in Rank : (P \o Q)[k] = Data(i, n))
               PROVE  \E j \in 1..(k - 1) : (P \o Q)[j] = Create(i)
  BY DEF After
<1>3. CASE k <= Len(P)
  <2>1. PICK j \in 1..(k - 1) : P[j] = Create(i)
    BY <1>1, <1>2, <1>3 DEF After
  <2> QED
    BY <1>1, <1>3, <2>1
<1>4. CASE k > Len(P) /\ Has(P, Create(i))
  <2>1. PICK j \in 1..Len(P) : P[j] = Create(i)
    BY <1>4 DEF Has
  <2> QED
    BY <1>1, <1>4, <2>1
<1>5. CASE k > Len(P) /\ After(Q, i)
  <2>1. k - Len(P) \in 1..Len(Q) /\ (P \o Q)[k] = Q[k - Len(P)]
    BY <1>1, <1>5
  <2>2. PICK j \in 1..(k - Len(P) - 1) : Q[j] = Create(i)
    BY <1>2, <1>5, <2>1 DEF After
  <2>3. Len(P) + j \in 1..(k - 1) /\ (P \o Q)[Len(P) + j] = Q[j]
    BY <1>1, <2>1, <2>2
  <2> QED
    BY <2>2, <2>3
<1> QED
  BY <1>1, <1>3, <1>4, <1>5

\* The first frame is not one that follows, and if it does not create the
\* channel the others still find their creation.
LEMMA AfterTail ==
    ASSUME NEW S, NEW P \in Seq(S), P # <<>>, NEW i, After(P, i)
    PROVE  /\ Head(P) # Close(i) /\ \A n \in Rank : Head(P) # Data(i, n)
           /\ Head(P) # Create(i) => After(Tail(P), i)
<1>1. /\ Len(P) \in Nat \ {0} /\ Head(P) = P[1] /\ Len(Tail(P)) = Len(P) - 1
      /\ \A k \in 1..Len(Tail(P)) : k + 1 \in 2..Len(P) /\ Tail(P)[k] = P[k + 1]
  BY TailPlaces
<1>2. Head(P) # Close(i) /\ \A n \in Rank : Head(P) # Data(i, n)
  <2>1. 1 \in 1..Len(P) /\ \A j : j \notin 1..(1 - 1)
    BY <1>1
  <2> QED
    BY <1>1, <2>1 DEF After
<1>3. ASSUME Head(P) # Create(i) PROVE After(Tail(P), i)
  <2>1. SUFFICES ASSUME NEW k \in 1..Len(Tail(P)),
                        Tail(P)[k] = Close(i) \/ (\E n \in Rank : Tail(P)[k] = Data(i, n))
                 PROVE  \E j \in 1..(k - 1) : Tail(P)[j] = Create(i)
    BY DEF After
  <2>2. PICK j \in 1..(k + 1 - 1) : P[j] = Create(i)
    BY <1>1, <2>1 DEF After
  <2>3. j # 1
    BY <1>1, <1>3, <2>2
  <2>4. j - 1 \in 1..(k - 1) /\ Tail(P)[j - 1] = P[j]
    BY <1>1, <2>1, <2>2, <2>3
  <2> QED
    BY <2>2, <2>4
<1> QED
  BY <1>2, <1>3

LEMMA OrderedAppend ==
    ASSUME NEW S, NEW P \in Seq(S), NEW Q \in Seq(S), NEW i, Ordered(P, i), Ordered(Q, i),
           \A m, n \in Rank : Has(P, Data(i, m)) /\ Has(Q, Data(i, n)) => m < n
    PROVE  Ordered(P \o Q, i)
<1>1. /\ Len(P) \in Nat /\ Len(Q) \in Nat /\ Len(P \o Q) = Len(P) + Len(Q)
      /\ \A k \in 1..Len(P \o Q) :
            IF k <= Len(P) THEN (P \o Q)[k] = P[k]
            ELSE k - Len(P) \in 1..Len(Q) /\ (P \o Q)[k] = Q[k - Len(P)]
  OBVIOUS
<1>2. SUFFICES ASSUME NEW j \in 1..Len(P \o Q), NEW k \in 1..Len(P \o Q),
                      NEW m \in Rank, NEW n \in Rank,
                      j < k, (P \o Q)[j] = Data(i, m), (P \o Q)[k] = Data(i, n)
               PROVE  m < n
  BY DEF Ordered
<1>3. CASE k <= Len(P)
  BY <1>1, <1>2, <1>3 DEF Ordered
<1>4. CASE j > Len(P)
  <2>1. /\ j - Len(P) \in 1..Len(Q) /\ k - Len(P) \in 1..Len(Q) /\ j - Len(P) < k - Len(P)
        /\ Q[j - Len(P)] = Data(i, m) /\ Q[k - Len(P)] = Data(i, n)
    BY <1>1, <1>2, <1>4
  <2> QED
    BY <2>1 DEF Ordered
<1>5. CASE j <= Len(P) /\ k > Len(P)
  <2>1. Has(P, Data(i, m)) /\ Has(Q, Data(i, n))
    BY <1>1, <1>2, <1>5 DEF Has
  <2> QED
    BY <2>1
<1> QED
  BY <1>1, <1>3, <1>4, <1>5

LEMMA OrderedTail ==
    ASSUME NEW S, NEW P \in Seq(S), P # <<>>, NEW i, Ordered(P, i)
    PROVE  /\ Ordered(Tail(P), i)
           /\ \A m, n \in Rank : Head(P) = Data(i, m) /\ Has(Tail(P), Data(i, n)) => m < n
<1>1. /\ Len(P) \in Nat \ {0} /\ Head(P) = P[1]
      /\ \A k \in 1..Len(Tail(P)) : k + 1 \in 2..Len(P) /\ Tail(P)[k] = P[k + 1]
  BY TailPlaces
<1>2. Ordered(Tail(P), i)
  <2>1. SUFFICES ASSUME NEW j \in 1..Len(Tail(P)), NEW k \in 1..Len(Tail(P)),
                        NEW m \in Rank, NEW n \in Rank,
                        j < k, Tail(P)[j] = Data(i, m), Tail(P)[k] = Data(i, n)
                 PROVE  m < n
    BY DEF Ordered
  <2>2. j + 1 < k + 1
    BY <2>1
  <2> QED
    BY <1>1, <2>1, <2>2 DEF Ordered
<1>3. ASSUME NEW m \in Rank, NEW n \in Rank, Head(P) = Data(i, m), Has(Tail(P), Data(i, n))
      PROVE  m < n
  <2>1. PICK k \in 1..Len(Tail(P)) : Tail(P)[k] = Data(i, n)
    BY <1>3 DEF Has
  <2>2. 1 \in 1..Len(P) /\ k + 1 \in 1..Len(P) /\ 1 < k + 1 /\ P[k + 1] = Data(i, n)
    BY <1>1, <2>1
  <2> QED
    BY <1>1, <1>3, <2>2 DEF Ordered
<1> QED
  BY <1>2, <1>3

-----------------------------------------------------------------------------
(* The life of channel i: PC and PS are the paths of the browser and of the *)
(* server, C and S the states of their channel objects, tC and tS tell      *)
(* whether they transmit, hC and hS whether they hear.                      *)

Life(i, PC, PS, C, S, tC, tS, hC, hS) ==
    /\ C \in {"none", "CONNECTING", "OPEN", "CLOSED"} /\ S \in {"none", "OPEN", "CLOSED"}
    \* the server knows a channel only from the frame that creates it, which is
    \* sent once and comes first
    /\ C = "none" => S = "none" /\ ~Has(PC, Create(i))
    /\ Has(PC, Create(i)) => S = "none"
    /\ Once(PC, Create(i))
    /\ hS /\ S = "none" => After(PC, i)
    /\ tC /\ hS /\ S = "none" /\ C # "none" => Has(PC, Create(i))
    /\ ~Has(PS, Create(i))
    \* an end that has closed the channel tells the other
    /\ Has(PC, Close(i)) => C = "CLOSED"
    /\ Has(PS, Close(i)) => S = "CLOSED"
    /\ tC /\ hS /\ C = "CLOSED" /\ S # "CLOSED" => Has(PC, Close(i))
    /\ tS /\ hC /\ S = "CLOSED" /\ C # "CLOSED" => Has(PS, Close(i))

\* Frames that say nothing of the life of the channel, or only that an end that
\* is closed has closed it.
LEMMA LifeSends ==
    ASSUME NEW i, NEW PC \in Seq(Frame), NEW PS \in Seq(Frame), NEW C, NEW S,
           NEW tC, NEW tS, NEW hC, NEW hS, Life(i, PC, PS, C, S, tC, tS, hC, hS),
           NEW Q \in Seq(Frame), ~Has(Q, Create(i)),
           Has(Q, Close(i)) => C = "CLOSED",
           (tC /\ C # "none") \/ After(Q, i)
    PROVE  Life(i, PC \o Q, PS, C, S, tC, tS, hC, hS)
<1>1. \A f : Has(PC \o Q, f) <=> Has(PC, f) \/ Has(Q, f)
  BY HasAppend
<1>2. Once(PC \o Q, Create(i))
  <2>1. Once(PC, Create(i)) /\ Once(Q, Create(i))
    BY DEF Life, Once, Has
  <2> QED
    BY <2>1, OnceAppend
<1>3. ASSUME hS, S = "none" PROVE After(PC \o Q, i)
  <2>1. After(PC, i) /\ (Has(PC, Create(i)) \/ After(Q, i))
    BY <1>3 DEF Life
  <2> QED
    BY <2>1, AfterAppend
<1> QED
  BY <1>1, <1>2, <1>3 DEF Life

LEMMA LifeAnswers ==
    ASSUME NEW i, NEW PC, NEW PS \in Seq(Frame), NEW C, NEW S,
           NEW tC, NEW tS, NEW hC, NEW hS, Life(i, PC, PS, C, S, tC, tS, hC, hS),
           NEW Q \in Seq(Frame), ~Has(Q, Create(i)),
           Has(Q, Close(i)) => S = "CLOSED"
    PROVE  Life(i, PC, PS \o Q, C, S, tC, tS, hC, hS)
<1>1. \A f : Has(PS \o Q, f) <=> Has(PS, f) \/ Has(Q, f)
  BY HasAppend
<1> QED
  BY <1>1 DEF Life

\* Ends fall silent or deaf, for good; one that starts to transmit has no channel.
LEMMA LifeQuiets ==
    ASSUME NEW i, NEW PC, NEW PS, NEW C, NEW S,
           NEW tC, NEW tS, NEW hC, NEW hS, Life(i, PC, PS, C, S, tC, tS, hC, hS),
           NEW tC1, NEW tS1, NEW hC1, NEW hS1,
           tC1 => tC \/ C = "none", tS1 => tS \/ S = "none", hC1 => hC, hS1 => hS
    PROVE  Life(i, PC, PS, C, S, tC1, tS1, hC1, hS1)
  BY DEF Life

\* The browser's channel is created; when it could not be told to the server,
\* nothing can.
LEMMA LifeBegins ==
    ASSUME NEW i, NEW PC \in Seq(Frame), NEW PS, NEW S,
           NEW tC, NEW tS, NEW hC, NEW hS, Life(i, PC, PS, "none", S, tC, tS, hC, hS),
           NEW tC1, NEW P1, P1 = PC \o One(Create(i)) \/ (P1 = PC /\ ~tC1),
           Create(i) \in Frame
    PROVE  Life(i, P1, PS, "CONNECTING", S, tC1, tS, hC, hS)
<1>1. S = "none" /\ ~Has(PC, Create(i))
  BY DEF Life
<1>2. CASE P1 = PC /\ ~tC1
  BY <1>1, <1>2 DEF Life
<1>3. CASE P1 = PC \o One(Create(i))
  <2>1. One(Create(i)) \in Seq(Frame)
    BY OneFrame
  <2>2. \A f : Has(P1, f) <=> Has(PC, f) \/ f = Create(i)
    BY <1>3, OneFrame
  <2>3. Once(P1, Create(i))
    <3>1. Once(PC, Create(i)) /\ Once(One(Create(i)), Create(i))
      BY OneFrame DEF Life
    <3> QED
      BY <1>1, <1>3, <2>1, <3>1, OnceAppend
  <2>4. ASSUME hS PROVE After(P1, i)
    <3>1. After(PC, i)
      BY <1>1, <2>4 DEF Life
    <3>2. After(One(Create(i)), i)
      BY FramesDiffer DEF After, One
    <3> QED
      BY <1>3, <2>1, <3>1, <3>2, AfterAppend
  <2>5. Create(i) # Close(i)
    BY FramesDiffer
  <2> QED
    BY <1>1, <2>2, <2>3, <2>4, <2>5 DEF Life
<1> QED
  BY <1>2, <1>3

\* The frame that creates the channel reaches the server, which accepts it or
\* closes it and says so.
LEMMA LifeAnswered ==
    ASSUME NEW i, NEW PC \in Seq(Frame), NEW PS \in Seq(Frame), NEW C, NEW S,
           NEW tC, NEW tS, NEW hC, NEW hS, Life(i, PC, PS, C, S, tC, tS, hC, hS),
           PC # <<>>, Head(PC) = Create(i), Close(i) \in Frame,
           NEW S1, NEW P1,
           \/ S1 = "OPEN" /\ P1 = PS
           \/ S1 = "CLOSED" /\ (P1 = PS \o One(Close(i)) \/ (P1 = PS /\ ~tS))
    PROVE  Life(i, Tail(PC), P1, C, S1, tC, tS, hC, hS)
<1>1. \A f : Has(PC, f) <=> Head(PC) = f \/ Has(Tail(PC), f)
  BY HasTail
<1>2. S = "none" /\ C # "none" /\ ~Has(PS, Close(i))
  BY <1>1 DEF Life
<1>3. ~Has(Tail(PC), Create(i)) /\ Once(Tail(PC), Create(i))
  BY OnceTail DEF Life
<1>4. Create(i) # Close(i)
  BY FramesDiffer
<1>5. \A f : Has(PS \o One(Close(i)), f) <=> Has(PS, f) \/ f = Close(i)
  BY OneFrame
<1>6. ~Has(P1, Create(i)) /\ (Has(P1, Close(i)) => S1 = "CLOSED")
  BY <1>2, <1>4, <1>5 DEF Life
<1>7. tS /\ S1 = "CLOSED" => Has(P1, Close(i))
  BY <1>5
<1> QED
  BY <1>1, <1>2, <1>3, <1>4, <1>6, <1>7 DEF Life

\* The server takes a frame that does not create the channel: if it closes the
\* channel, the channel is closed then, and it had been created.
LEMMA LifeServerTakes ==
    ASSUME NEW i, NEW PC \in Seq(Frame), NEW PS, NEW C, NEW S,
           NEW tC, NEW tS, NEW hC, NEW hS, Life(i, PC, PS, C, S, tC, tS, hC, hS),
           PC # <<>>, Head(PC) # Create(i), hS,
           NEW S1, S1 = IF Head(PC) = Close(i) /\ S = "OPEN" THEN "CLOSED" ELSE S
    PROVE  Life(i, Tail(PC), PS, C, S1, tC, tS, hC, hS) /\ (Head(PC) = Close(i) => S # "none")
<1>1. \A f : Has(PC, f) <=> Head(PC) = f \/ Has(Tail(PC), f)
  BY HasTail
<1>2. Once(Tail(PC), Create(i))
  BY OnceTail DEF Life
<1>3. S = "none" => After(Tail(PC), i) /\ Head(PC) # Close(i)
  BY AfterTail DEF Life
<1> QED
  BY <1>1, <1>2, <1>3 DEF Life

\* A frame on the server's path is taken: if it closes the channel the browser's
\* is closed then, or the browser no longer hears.
LEMMA LifeBrowserTakes ==
    ASSUME NEW i, NEW PC, NEW PS \in Seq(Frame), NEW C, NEW S,
           NEW tC, NEW tS, NEW hC, NEW hS, Life(i, PC, PS, C, S, tC, tS, hC, hS),
           PS # <<>>,
           NEW C1,
           \/ C1 = C /\ ~hC
           \/ C1 = IF Head(PS) = Close(i) /\ C \in {"CONNECTING", "OPEN"} THEN "CLOSED" ELSE C
    PROVE  Life(i, PC, Tail(PS), C1, S, tC, tS, hC, hS) /\ Head(PS) # Create(i)
<1>1. \A f : Has(PS, f) <=> Head(PS) = f \/ Has(Tail(PS), f)
  BY HasTail
<1> QED
  BY <1>1 DEF Life

\* The application closes the channel at the browser or at the server.
LEMMA LifeClosesHere ==
    ASSUME NEW i, NEW PC \in Seq(Frame), NEW PS, NEW C, NEW S,
           NEW tC, NEW tS, NEW hC, NEW hS, Life(i, PC, PS, C, S, tC, tS, hC, hS),
           C \in {"CONNECTING", "OPEN"}, Close(i) \in Frame,
           NEW P1, P1 = IF tC THEN PC \o One(Close(i)) ELSE PC
    PROVE  Life(i, P1, PS, "CLOSED", S, tC, tS, hC, hS)
<1>1. One(Close(i)) \in Seq(Frame) /\ Create(i) # Close(i)
  BY FramesDiffer, OneFrame
<1>2. CASE ~tC
  BY <1>2 DEF Life
<1>3. CASE tC
  <2>1. \A f : Has(P1, f) <=> Has(PC, f) \/ f = Close(i)
    BY <1>3, OneFrame
  <2>2. Once(P1, Create(i))
    <3>1. Once(PC, Create(i)) /\ Once(One(Close(i)), Create(i)) /\ ~Has(One(Close(i)), Create(i))
      BY <1>1, OneFrame DEF Life
    <3> QED
      BY <1>1, <1>3, <3>1, OnceAppend
  <2>3. hS /\ S = "none" => After(P1, i)
    BY <1>1, <1>3, AfterAppend DEF Life
  <2> QED
    BY <1>1, <2>1, <2>2, <2>3 DEF Life
<1> QED
  BY <1>2, <1>3

LEMMA LifeClosesThere ==
    ASSUME NEW i, NEW PC, NEW PS \in Seq(Frame), NEW C,
           NEW tC, NEW tS, NEW hC, NEW hS, Life(i, PC, PS, C, "OPEN", tC, tS, hC, hS),
           Close(i) \in Frame,
           NEW P1, P1 = IF tS THEN PS \o One(Close(i)) ELSE PS
    PROVE  Life(i, PC, P1, C, "CLOSED", tC, tS, hC, hS)
<1>1. One(Close(i)) \in Seq(Frame) /\ Create(i) # Close(i)
  BY FramesDiffer, OneFrame
<1>2. CASE ~tS
  BY <1>2 DEF Life
<1>3. CASE tS
  <2>1. \A f : Has(P1, f) <=> Has(PS, f) \/ f = Close(i)
    BY <1>3, OneFrame
  <2> QED
    BY <1>1, <2>1 DEF Life
<1> QED
  BY <1>2, <1>3

\* An end's socket closes: it neither hears nor transmits any more, what was on
\* its way to it is gone, and so may be what the browser kept in its storage.
LEMMA LifeGoneHere ==
    ASSUME NEW i, NEW PC, NEW PS, NEW C, NEW S,
           NEW tC, NEW tS, NEW hC, NEW hS, Life(i, PC, PS, C, S, tC, tS, hC, hS),
           NEW C1, C1 = C \/ (C \in {"CONNECTING", "OPEN"} /\ C1 = "CLOSED"),
           NEW P1, P1 = PC \/ P1 = <<>>, NEW P2, P2 = <<>>,
           NEW tC1, NEW tS1, NEW hC1, NEW hS1, ~tC1, tS1 => tS, ~hC1, hS1 => hS
    PROVE  Life(i, P1, P2, C1, S, tC1, tS1, hC1, hS1)
<1>1. Once(<<>>, Create(i)) /\ After(<<>>, i) /\ \A f : ~Has(<<>>, f)
  BY DEF Once, After, Has
<1> QED
  BY <1>1 DEF Life

LEMMA LifeGoneThere ==
    ASSUME NEW i, NEW PC, NEW PS, NEW C, NEW S,
           NEW tC, NEW tS, NEW hC, NEW hS, Life(i, PC, PS, C, S, tC, tS, hC, hS),
           NEW S1, S1 = S \/ (S = "OPEN" /\ S1 = "CLOSED"),
           NEW P1, P1 = PC \/ P1 = <<>>,
           NEW tC1, NEW tS1, NEW hC1, NEW hS1, tC1 => tC, ~tS1, hC1 => hC, ~hS1
    PROVE  Life(i, P1, PS, C, S1, tC1, tS1, hC1, hS1)
<1>1. Once(<<>>, Create(i)) /\ \A f : ~Has(<<>>, f)
  BY DEF Once, Has
<1> QED
  BY <1>1 DEF Life

-----------------------------------------------------------------------------
(* The data of channel i from one end to the other: P is the path of the    *)
(* sender, t and h tell whether it transmits and whether the receiver hears, *)
(* ce and cp are the states of their channel objects, s of the messages were *)
(* sent, g were delivered, and hold is the storage of the sender's channel.  *)

Flow(i, P, t, h, ce, cp, s, g, hold) ==
    /\ Ordered(P, i)
    /\ \A n \in Rank : Has(P, Data(i, n)) => n <= s
    \* what follows the last message delivered is on the path, without a gap
    /\ h /\ cp # "CLOSED" =>
          \A n \in Rank : Has(P, Data(i, n)) =>
              Len(g) < n /\ \A m \in (Len(g) + 1)..n : Has(P, Data(i, m))
    /\ t /\ h /\ cp # "CLOSED" /\ ce = "OPEN" =>
          \A m \in (Len(g) + 1)..s : Has(P, Data(i, m))
    \* a channel keeps what it is given until it opens
    /\ ce \in {"none", "CONNECTING"} =>
          (\A n \in Rank : ~Has(P, Data(i, n))) /\ g = <<>> /\ hold = [k \in 1..s |-> Data(i, k)]
    /\ ce = "OPEN" => hold = <<>>
    /\ ce = "none" => s = 0
    /\ Len(g) <= s /\ \A k \in 1..Len(g) : g[k] = k

\* The sockets fall silent or deaf, a channel is created or closed.
LEMMA FlowRests ==
    ASSUME NEW i, NEW P, NEW t, NEW h, NEW ce, NEW cp, NEW s, NEW g, NEW hold,
           Flow(i, P, t, h, ce, cp, s, g, hold),
           NEW t1, NEW h1, NEW ce1, NEW cp1,
           t1 => t \/ ce = "none", h1 => h,
           ce1 = ce \/ ce1 = "CLOSED" \/ (ce = "none" /\ ce1 \in {"CONNECTING", "OPEN"}),
           cp1 = cp \/ cp1 = "CLOSED" \/ cp # "CLOSED"
    PROVE  Flow(i, P, t1, h1, ce1, cp1, s, g, hold)
<1>1. CASE ce = "none" /\ ce1 = "OPEN"
  <2>1. s = 0 /\ g = <<>> /\ hold = [k \in 1..0 |-> Data(i, k)]
    BY <1>1 DEF Flow
  <2>2. hold = <<>>
    BY <2>1
  <2> QED
    BY <1>1, <2>1, <2>2 DEF Flow
<1>2. CASE ~(ce = "none" /\ ce1 = "OPEN")
  BY <1>2 DEF Flow
<1> QED
  BY <1>1, <1>2

\* Frames that are no data of this channel come and go.
LEMMA FlowSends ==
    ASSUME NEW i, NEW P \in Seq(Frame), NEW t, NEW h, NEW ce, NEW cp, NEW s, NEW g, NEW hold,
           Flow(i, P, t, h, ce, cp, s, g, hold),
           NEW Q \in Seq(Frame), \A n \in Rank : ~Has(Q, Data(i, n))
    PROVE  Flow(i, P \o Q, t, h, ce, cp, s, g, hold)
<1>1. \A f : Has(P \o Q, f) <=> Has(P, f) \/ Has(Q, f)
  BY HasAppend
<1>2. Ordered(P \o Q, i)
  <2>1. Ordered(P, i) /\ Ordered(Q, i)
    BY DEF Flow, Ordered, Has
  <2> QED
    BY <2>1, OrderedAppend
<1> QED
  BY <1>1, <1>2 DEF Flow

LEMMA FlowTakes ==
    ASSUME NEW i, NEW P \in Seq(Frame), NEW t, NEW h, NEW ce, NEW cp,
           NEW s \in 0..MaxMsgs, NEW g \in Seq(Rank), NEW hold,
           Flow(i, P, t, h, ce, cp, s, g, hold),
           P # <<>>, \/ \A n \in Rank : Head(P) # Data(i, n)
                     \/ cp = "CLOSED" \/ ~h
    PROVE  Flow(i, Tail(P), t, h, ce, cp, s, g, hold)
<1>1. \A f : Has(P, f) <=> Head(P) = f \/ Has(Tail(P), f)
  BY HasTail
<1>2. Ordered(Tail(P), i)
  BY OrderedTail DEF Flow
<1>3. CASE \A n \in Rank : Head(P) # Data(i, n)
  <2>1. \A n \in Rank : Has(P, Data(i, n)) <=> Has(Tail(P), Data(i, n))
    BY <1>1, <1>3
  <2>2. /\ \A n \in Rank : \A m \in (Len(g) + 1)..n : m \in Rank
        /\ \A m \in (Len(g) + 1)..s : m \in Rank
    BY BoundsAssumption DEF Rank
  <2> QED
    BY <1>2, <2>1, <2>2 DEF Flow
<1>4. CASE cp = "CLOSED" \/ ~h
  BY <1>1, <1>2, <1>4 DEF Flow
<1> QED
  BY <1>3, <1>4

LEMMA FlowGone ==
    ASSUME NEW i, NEW P, NEW t, NEW h, NEW ce, NEW cp, NEW s, NEW g, NEW hold,
           Flow(i, P, t, h, ce, cp, s, g, hold), ~t \/ ~h
    PROVE  Flow(i, <<>>, t, h, ce, cp, s, g, hold)
<1>1. Ordered(<<>>, i) /\ \A f : ~Has(<<>>, f)
  BY DEF Ordered, Has
<1> QED
  BY <1>1 DEF Flow

\* A message is sent on an open channel.
LEMMA FlowSent ==
    ASSUME NEW i \in Id, NEW P \in Seq(Frame), NEW t, NEW h, NEW cp,
           NEW s \in 0..MaxMsgs, s < MaxMsgs, NEW g \in Seq(Rank), NEW hold,
           Flow(i, P, t, h, "OPEN", cp, s, g, hold),
           NEW P1, P1 = IF t THEN P \o One(Data(i, s + 1)) ELSE P
    PROVE  Flow(i, P1, t, h, "OPEN", cp, s + 1, g, hold)
<1>1. /\ MaxMsgs \in Nat /\ s + 1 \in Rank /\ Data(i, s + 1) \in Frame
      /\ Len(g) \in Nat
  BY BoundsAssumption, FrameTypes DEF Rank
<1>2. CASE ~t
  BY <1>1, <1>2 DEF Flow, Rank
<1>3. CASE t
  <2>1. \A f : Has(P1, f) <=> Has(P, f) \/ f = Data(i, s + 1)
    BY <1>1, <1>3, OneFrame
  <2>2. \A n : Has(P1, Data(i, n)) <=> Has(P, Data(i, n)) \/ n = s + 1
    BY <2>1, FramesDiffer
  <2>3. Ordered(P1, i)
    <3>1. Ordered(P, i) /\ Ordered(One(Data(i, s + 1)), i)
      BY DEF Flow, Ordered, One
    <3>2. \A m, n \in Rank : Has(P, Data(i, m)) /\ Has(One(Data(i, s + 1)), Data(i, n)) => m < n
      <4>1. \A n \in Rank : Has(One(Data(i, s + 1)), Data(i, n)) => n = s + 1
        BY OneFrame, FramesDiffer
      <4>2. \A m \in Rank : Has(P, Data(i, m)) => m <= s
        BY DEF Flow
      <4> QED
        BY <1>1, <4>1, <4>2 DEF Rank
    <3>3. One(Data(i, s + 1)) \in Seq(Frame)
      BY <1>1, OneFrame
    <3> QED
      BY <1>1, <1>3, <3>1, <3>2, <3>3, OrderedAppend
  <2>4. ASSUME h, cp # "CLOSED"
        PROVE  /\ \A m \in (Len(g) + 1)..(s + 1) : Has(P1, Data(i, m))
               /\ \A n \in Rank : Has(P1, Data(i, n)) => Len(g) < n /\ n <= s + 1
    <3>1. \A m \in (Len(g) + 1)..s : Has(P, Data(i, m))
      BY <1>3, <2>4 DEF Flow
    <3>2. \A n \in Rank : Has(P, Data(i, n)) => Len(g) < n /\ n <= s
      BY <2>4 DEF Flow
    <3>3. Len(g) <= s
      BY DEF Flow
    <3> QED
      BY <1>1, <2>2, <3>1, <3>2, <3>3 DEF Rank
  <2>5. \A n \in Rank : Has(P1, Data(i, n)) => n <= s + 1
    BY <1>1, <2>2 DEF Flow, Rank
  <2>6. /\ hold = <<>> /\ Len(g) <= s + 1
        /\ \A k \in 1..Len(g) : g[k] = k
    BY <1>1 DEF Flow
  <2> QED
    BY <1>1, <2>3, <2>4, <2>5, <2>6 DEF Flow, Rank
<1> QED
  BY <1>2, <1>3

\* A message is given to a channel that has not opened.
LEMMA FlowHeld ==
    ASSUME NEW i \in Id, NEW P, NEW t, NEW h, NEW cp,
           NEW s \in 0..MaxMsgs, s < MaxMsgs, NEW g, NEW hold,
           Flow(i, P, t, h, "CONNECTING", cp, s, g, hold)
    PROVE  Flow(i, P, t, h, "CONNECTING", cp, s + 1, g, Append(hold, Data(i, s + 1)))
<1>1. g = <<>> /\ hold = [k \in 1..s |-> Data(i, k)] /\ \A n \in Rank : ~Has(P, Data(i, n))
  BY DEF Flow
<1>2. Append(hold, Data(i, s + 1)) = [k \in 1..(s + 1) |-> Data(i, k)]
  <2>1. s \in Nat /\ Len(hold) = s /\ hold \in Seq({Data(i, k) : k \in 1..s})
    BY <1>1
  <2> QED
    BY <1>1, <2>1
<1> QED
  BY <1>1, <1>2 DEF Flow

\* A channel opens: what it kept goes out, in the order it was given.
LEMMA FlowOpens ==
    ASSUME NEW i \in Id, NEW P \in Seq(Frame), NEW t, NEW h, NEW ce, NEW cp,
           NEW s \in 0..MaxMsgs, NEW g, NEW hold \in Seq(Frame),
           ce \in {"CONNECTING", "OPEN"},
           Flow(i, P, t, h, ce, cp, s, g, hold),
           NEW P1, P1 = IF t THEN P \o hold ELSE P
    PROVE  Flow(i, P1, t, h, "OPEN", cp, s, g, <<>>)
<1>1. CASE ce = "OPEN"
  <2>1. P1 = P
    <3>1. hold = <<>>
      BY <1>1 DEF Flow
    <3> QED
      BY <3>1
  <2> QED
    BY <1>1, <2>1 DEF Flow
<1>2. CASE ce = "CONNECTING"
  <2>1. g = <<>> /\ hold = [k \in 1..s |-> Data(i, k)] /\ \A n \in Rank : ~Has(P, Data(i, n))
    BY <1>2 DEF Flow
  <2>2. CASE ~t
    BY <2>1, <2>2 DEF Flow
  <2>3. CASE t
    <3>1. s \in Nat /\ Len(hold) = s /\ s <= MaxMsgs /\ MaxMsgs \in Nat
      BY <2>1, BoundsAssumption
    <3>2. \A n \in Rank : Has(hold, Data(i, n)) <=> n <= s
      <4>1. ASSUME NEW n \in Rank, Has(hold, Data(i, n)) PROVE n <= s
        <5>1. PICK k \in 1..s : Data(i, k) = Data(i, n)
          BY <2>1, <3>1, <4>1 DEF Has
        <5> QED
          BY <5>1, FramesDiffer
      <4>2. ASSUME NEW n \in Rank, n <= s PROVE Has(hold, Data(i, n))
        BY <2>1, <3>1, <4>2 DEF Has, Rank
      <4> QED
        BY <4>1, <4>2
    <3>3. \A n \in Rank : Has(P1, Data(i, n)) <=> n <= s
      <4>1. \A f : Has(P1, f) <=> Has(P, f) \/ Has(hold, f)
        BY <2>3, HasAppend
      <4> QED
        BY <2>1, <3>2, <4>1
    <3>4. Ordered(P1, i)
      <4>1. Ordered(hold, i)
        <5>1. SUFFICES ASSUME NEW j \in 1..s, NEW k \in 1..s, NEW m \in Rank, NEW n \in Rank,
                              j < k, Data(i, j) = Data(i, m), Data(i, k) = Data(i, n)
                       PROVE  m < n
          BY <2>1, <3>1 DEF Ordered
        <5>2. j = m /\ k = n
          BY <5>1, FramesDiffer
        <5> QED
          BY <5>1, <5>2
      <4>2. Ordered(P, i)
        BY DEF Flow
      <4> QED
        BY <2>1, <2>3, <4>1, <4>2, OrderedAppend
    <3>5. \A m \in 1..s : m \in Rank
      BY <3>1 DEF Rank
    <3>6. Len(g) = 0
      BY <2>1
    <3>7. \A n \in Rank : Has(P1, Data(i, n)) =>
              Len(g) < n /\ \A m \in (Len(g) + 1)..n : Has(P1, Data(i, m))
      BY <3>1, <3>3, <3>6 DEF Rank
    <3>8. \A m \in (Len(g) + 1)..s : Has(P1, Data(i, m))
      BY <3>1, <3>3, <3>5, <3>6
    <3>9. Len(g) <= s /\ \A k \in 1..Len(g) : g[k] = k
      BY <3>1, <3>6
    <3> QED
      BY <3>3, <3>4, <3>7, <3>8, <3>9 DEF Flow
  <2> QED
    BY <2>2, <2>3
<1> QED
  BY <1>1, <1>2

\* The next message is delivered.
LEMMA FlowDelivers ==
    ASSUME NEW i \in Id, NEW P \in Seq(Frame), NEW t, NEW h, NEW ce, NEW cp,
           NEW s \in 0..MaxMsgs, NEW g \in Seq(Rank), NEW hold,
           Flow(i, P, t, h, ce, cp, s, g, hold),
           h, cp # "CLOSED", P # <<>>, NEW n \in Rank, Head(P) = Data(i, n)
    PROVE  n = Len(g) + 1 /\ Flow(i, Tail(P), t, h, ce, cp, s, Append(g, n), hold)
<1>1. \A f : Has(P, f) <=> Head(P) = f \/ Has(Tail(P), f)
  BY HasTail
<1>2. /\ Ordered(Tail(P), i)
      /\ \A m \in Rank : Has(Tail(P), Data(i, m)) => n < m
  <2>1. Ordered(P, i)
    BY DEF Flow
  <2> QED
    BY <2>1, OrderedTail
<1>3. Len(g) \in Nat /\ n \in Nat /\ MaxMsgs \in Nat /\ n <= MaxMsgs
  BY BoundsAssumption DEF Rank
<1>4. /\ \A m \in Rank : Has(P, Data(i, m)) =>
            Len(g) < m /\ \A l \in (Len(g) + 1)..m : Has(P, Data(i, l))
      /\ \A m \in Rank : Has(P, Data(i, m)) => m <= s
      /\ Len(g) <= s /\ \A k \in 1..Len(g) : g[k] = k
      /\ ce \notin {"none", "CONNECTING"} /\ (ce = "OPEN" => hold = <<>>)
      /\ t /\ ce = "OPEN" => \A m \in (Len(g) + 1)..s : Has(P, Data(i, m))
  BY <1>1 DEF Flow
<1>5. Len(g) < n /\ n <= s /\ \A m \in (Len(g) + 1)..n : Has(P, Data(i, m))
  BY <1>1, <1>4
<1>6. n = Len(g) + 1
  <2>1. SUFFICES ASSUME n # Len(g) + 1 PROVE FALSE
    OBVIOUS
  <2>2. Len(g) + 1 \in Rank /\ Len(g) + 1 < n
    BY <1>3, <1>5, <2>1 DEF Rank
  <2>3. Has(P, Data(i, Len(g) + 1)) /\ Data(i, Len(g) + 1) # Data(i, n)
    BY <1>5, <2>2, FramesDiffer DEF Rank
  <2>4. Has(Tail(P), Data(i, Len(g) + 1))
    BY <1>1, <2>3
  <2> QED
    BY <1>2, <1>3, <2>2, <2>4
<1>7. /\ Len(Append(g, n)) = n
      /\ \A k \in 1..n : Append(g, n)[k] = k
  BY <1>3, <1>4, <1>6
<1>8. \A m \in Rank : Has(P, Data(i, m)) /\ m # n => Has(Tail(P), Data(i, m))
  BY <1>1, FramesDiffer
<1>9. \A m \in Rank : Has(Tail(P), Data(i, m)) =>
         n < m /\ \A l \in (n + 1)..m : Has(Tail(P), Data(i, l))
  <2>1. SUFFICES ASSUME NEW m \in Rank, Has(Tail(P), Data(i, m)), NEW l \in (n + 1)..m
                 PROVE  Has(Tail(P), Data(i, l))
    BY <1>2
  <2>2. Has(P, Data(i, l)) /\ l \in Rank /\ l # n
    BY <1>1, <1>3, <1>4, <1>6, <2>1 DEF Rank
  <2> QED
    BY <1>8, <2>2
<1>10. t /\ ce = "OPEN" => \A m \in (n + 1)..s : Has(Tail(P), Data(i, m))
  <2>1. SUFFICES ASSUME t, ce = "OPEN", NEW m \in (n + 1)..s PROVE Has(Tail(P), Data(i, m))
    OBVIOUS
  <2>2. Has(P, Data(i, m)) /\ m \in Rank /\ m # n
    BY <1>3, <1>4, <1>6, <2>1 DEF Rank
  <2> QED
    BY <1>8, <2>2
<1> QED
  BY <1>1, <1>2, <1>4, <1>5, <1>6, <1>7, <1>9, <1>10 DEF Flow

-----------------------------------------------------------------------------
(* The inductive invariant.                                                 *)

LifeOf(i) == Life(i, Path(Client), Path(Server), chan[Client][i], chan[Server][i],
                  Transmits(Client), Transmits(Server), Hears(Client), Hears(Server))

FlowOf(e, i) == Flow(i, Path(e), Transmits(e), Hears(Peer(e)), chan[e][i], chan[Peer(e)][i],
                     sent[e][i], got[Peer(e)][i], chHeld[e][i])

\* The root and its socket: there are no channels and no frames before the root,
\* and no frames on the socket before the root is open.
Sockets ==
    \A e \in End :
        /\ root[e] = "none" => held[e] = <<>> /\ \A i \in Id : chan[e][i] = "none"
        /\ root[e] = "CONNECTING" => e = Client /\ ws[e] \in {"CONNECTING", "CLOSING"}
        /\ root[e] \in {"none", "CONNECTING"} => wire[e] = <<>>
        /\ ws[e] = "CONNECTING" => root[e] = "CONNECTING"

\* The browser's ids are used up in order, and a channel that has not opened on
\* an open root is about to.
Openings ==
    \A i \in Id :
        /\ chan[Client][i] # "none" => i <= nextId[Client]
        /\ chan[Client][i] = "CONNECTING" /\ root[Client] = "OPEN" =>
              \E k \in 1..Len(micro[Client]) :
                  micro[Client][k].kind \in {"open", "relay"} /\ micro[Client][k].id = i

Lives == \A i \in Id : LifeOf(i)
Flows == \A e \in End, i \in Id : FlowOf(e, i)

Streams == Sockets /\ Openings /\ Lives /\ Flows

SInv == IInv /\ Streams

LEMMA TwoEnds ==
    /\ Client \in End /\ Server \in End /\ Client # Server
    /\ Peer(Client) = Server /\ Peer(Server) = Client
    /\ \A e \in End : e = Client \/ e = Server
    /\ \A e \in End : Peer(e) \in End /\ Peer(e) # e /\ Peer(Peer(e)) = e
  BY DEF End, Client, Server, Peer

\* What the parts of Life and Flow are.
LEMMA PathTypes ==
    ASSUME TypeOK, NEW e \in End
    PROVE  /\ Path(e) \in Seq(Frame) /\ wire[e] \in Seq(Frame) /\ held[e] \in Seq(Frame)
           /\ \A i \in Id : /\ chHeld[e][i] \in Seq(Frame) /\ sent[e][i] \in 0..MaxMsgs
                            /\ got[e][i] \in Seq(Rank)
  BY DEF TypeOK, Path, Rank

LEMMA FrameForms ==
    ASSUME NEW f \in Frame
    PROVE  /\ f.type = "CreateChannel" => f = Create(f.id) /\ f.id \in Id
           /\ f.type = "CloseChannel" => f = Close(f.id) /\ f.id \in Id
           /\ f.type = "RawData" => f = Data(f.id, f.n) /\ f.id \in Id /\ f.n \in Rank
           /\ f.type = "wsClose" => f = WsClose
<1>1. CASE f \in {Create(i) : i \in Id}
  BY <1>1 DEF Create
<1>2. CASE f \in {Close(i) : i \in Id}
  BY <1>2 DEF Close
<1>3. CASE f = WsClose
  BY <1>3 DEF WsClose
<1>4. CASE f \in {Data(i, n) : i \in Id, n \in 1..MaxMsgs}
  BY <1>4 DEF Data, Rank
<1> QED
  BY <1>1, <1>2, <1>3, <1>4 DEF Frame

\* What a root is given gets on the path, or nothing ever will.
LEMMA RootSendPath ==
    ASSUME TypeOK, RootFollows, Sockets, NEW e \in End, NEW Q \in Seq(Frame), RootSend(e, Q),
           UNCHANGED root
    PROVE  /\ Path(e)' = IF Transmits(e) THEN Path(e) \o Q ELSE Path(e)
           /\ Path(Peer(e))' = Path(Peer(e))
           /\ root[e] # "none"
           /\ \A d \in End : wire'[d] # wire[d] => d = e /\ root[e] = "OPEN"
           /\ \A d \in End : held'[d] # held[d] => d = e /\ root[e] = "CONNECTING"
<1>1. CASE root[e] = "OPEN"
  BY <1>1, TwoEnds DEF RootSend, OnWire, Path, Transmits, TypeOK
<1>2. CASE root[e] = "CONNECTING"
  BY <1>2, TwoEnds DEF RootSend, Path, Transmits, TypeOK
<1> QED
  BY <1>1, <1>2 DEF RootSend

-----------------------------------------------------------------------------
(* One lemma for each group of actions.                                     *)

\* What goes on a path that has nothing to do with channel i.
Foreign(Q, i) == /\ ~Has(Q, Create(i)) /\ ~Has(Q, Close(i))
                 /\ \A n \in Rank : ~Has(Q, Data(i, n))
Grows(P, P1, i) == P1 = P \/ \E Q \in Seq(Frame) : P1 = P \o Q /\ Foreign(Q, i)

Spares(P, P1, i) ==
    P1 = P \/ \E Q \in Seq(Frame) : P1 = P \o Q /\ \A n \in Rank : ~Has(Q, Data(i, n))

LEMMA FrameGrows ==
    ASSUME NEW P, NEW P1, NEW i, NEW f \in Frame, P1 = P \/ P1 = P \o One(f)
    PROVE  /\ f = WsClose => Grows(P, P1, i) /\ Spares(P, P1, i)
           /\ \A j : f = Create(j) \/ f = Close(j) => Spares(P, P1, i)
           /\ \A j : (f = Create(j) \/ f = Close(j)) /\ j # i => Grows(P, P1, i)
           /\ \A j, n : f = Data(j, n) /\ j # i => Grows(P, P1, i) /\ Spares(P, P1, i)
<1>1. One(f) \in Seq(Frame) /\ \A g : Has(One(f), g) <=> g = f
  BY OneFrame
<1>2. (\A n \in Rank : f # Data(i, n)) => Spares(P, P1, i)
  BY <1>1 DEF Spares
<1>3. f # Create(i) /\ f # Close(i) /\ (\A n \in Rank : f # Data(i, n)) => Grows(P, P1, i)
  BY <1>1 DEF Grows, Foreign
<1>4. ASSUME f = WsClose PROVE Grows(P, P1, i) /\ Spares(P, P1, i)
  BY <1>2, <1>3, <1>4, FramesDiffer
<1>5. ASSUME NEW j, f = Create(j) \/ f = Close(j) PROVE Spares(P, P1, i)
  BY <1>2, <1>5, FramesDiffer
<1>6. ASSUME NEW j, f = Create(j) \/ f = Close(j), j # i PROVE Grows(P, P1, i)
  BY <1>3, <1>6, FramesDiffer
<1>7. ASSUME NEW j, NEW n, f = Data(j, n), j # i PROVE Grows(P, P1, i) /\ Spares(P, P1, i)
  BY <1>2, <1>3, <1>7, FramesDiffer
<1> QED
  BY <1>4, <1>5, <1>6, <1>7

LEMMA ForeignAfter == ASSUME NEW Q, NEW i, Foreign(Q, i) PROVE After(Q, i)
  BY DEF Foreign, After, Has

\* An end does not become able to hear, and to transmit only before it has channels.
Quieter(i) == \A e \in End : /\ Transmits(e)' => Transmits(e) \/ chan[e][i] = "none"
                             /\ Hears(e)' => Hears(e)

\* A channel that others' frames pass by.
LEMMA LifeKept ==
    ASSUME TypeOK, NEW i \in Id, LifeOf(i), Quieter(i),
           chan'[Client][i] = chan[Client][i], chan'[Server][i] = chan[Server][i],
           Grows(Path(Client), Path(Client)', i), Grows(Path(Server), Path(Server)', i)
    PROVE  LifeOf(i)'
<1>1. Path(Client) \in Seq(Frame) /\ Path(Server) \in Seq(Frame)
  BY PathTypes, TwoEnds
<1>2. Life(i, Path(Client)', Path(Server), chan[Client][i], chan[Server][i],
           Transmits(Client), Transmits(Server), Hears(Client), Hears(Server))
  BY <1>1, LifeSends, ForeignAfter DEF LifeOf, Grows, Foreign
<1>3. Life(i, Path(Client)', Path(Server)', chan[Client][i], chan[Server][i],
           Transmits(Client), Transmits(Server), Hears(Client), Hears(Server))
  BY <1>1, <1>2, LifeAnswers DEF Grows, Foreign
<1>4. /\ Transmits(Client)' => Transmits(Client) \/ chan[Client][i] = "none"
      /\ Transmits(Server)' => Transmits(Server) \/ chan[Server][i] = "none"
      /\ Hears(Client)' => Hears(Client)
      /\ Hears(Server)' => Hears(Server)
  BY TwoEnds DEF Quieter
<1>5. Life(i, Path(Client)', Path(Server)', chan[Client][i], chan[Server][i],
           Transmits(Client)', Transmits(Server)', Hears(Client)', Hears(Server)')
  BY <1>3, <1>4, LifeQuiets
<1> QED
  BY <1>5 DEF LifeOf

\* The data of a channel stay where they are, while its ends may be created or
\* closed and other frames pass by.
LEMMA FlowKept ==
    ASSUME TypeOK, NEW e \in End, NEW i \in Id, FlowOf(e, i), Quieter(i),
           Spares(Path(e), Path(e)', i),
           \/ chan'[e][i] = chan[e][i] \/ chan'[e][i] = "CLOSED"
           \/ chan[e][i] = "none" /\ chan'[e][i] \in {"CONNECTING", "OPEN"},
           \/ chan'[Peer(e)][i] = chan[Peer(e)][i] \/ chan'[Peer(e)][i] = "CLOSED"
           \/ chan[Peer(e)][i] # "CLOSED",
           sent'[e][i] = sent[e][i], got'[Peer(e)][i] = got[Peer(e)][i],
           chHeld'[e][i] = chHeld[e][i]
    PROVE  FlowOf(e, i)'
<1>1. Path(e) \in Seq(Frame) /\ Peer(e) \in End /\ Peer(e)' = Peer(e)
  BY PathTypes, TwoEnds DEF Peer
<1>2. Flow(i, Path(e)', Transmits(e), Hears(Peer(e)), chan[e][i], chan[Peer(e)][i],
           sent[e][i], got[Peer(e)][i], chHeld[e][i])
  BY <1>1, FlowSends DEF FlowOf, Spares
<1>3. /\ Transmits(e)' => Transmits(e) \/ chan[e][i] = "none"
      /\ Hears(Peer(e))' => Hears(Peer(e))
  BY <1>1 DEF Quieter
<1>4. Flow(i, Path(e)', Transmits(e)', Hears(Peer(e))', chan'[e][i], chan'[Peer(e)][i],
           sent[e][i], got[Peer(e)][i], chHeld[e][i])
  BY <1>2, <1>3, FlowRests
<1> QED
  BY <1>1, <1>4 DEF FlowOf

\* A frame is taken off a path that is not about the channel, or for nothing.
LEMMA FlowPassed ==
    ASSUME TypeOK, NEW e \in End, NEW i \in Id, FlowOf(e, i), Quieter(i),
           Path(e) # <<>>, Path(e)' = Tail(Path(e)),
           \/ \A n \in Rank : Head(Path(e)) # Data(i, n)
           \/ chan[Peer(e)][i] = "CLOSED" \/ ~Hears(Peer(e)),
           chan'[e][i] = chan[e][i] \/ chan'[e][i] = "CLOSED",
           \/ chan'[Peer(e)][i] = chan[Peer(e)][i] \/ chan'[Peer(e)][i] = "CLOSED"
           \/ chan[Peer(e)][i] # "CLOSED",
           sent'[e][i] = sent[e][i], got'[Peer(e)][i] = got[Peer(e)][i],
           chHeld'[e][i] = chHeld[e][i]
    PROVE  FlowOf(e, i)'
<1>1. /\ Path(e) \in Seq(Frame) /\ Peer(e) \in End /\ Peer(e)' = Peer(e)
      /\ sent[e][i] \in 0..MaxMsgs /\ got[Peer(e)][i] \in Seq(Rank)
  BY PathTypes, TwoEnds DEF Peer
<1>2. Flow(i, Path(e)', Transmits(e), Hears(Peer(e)), chan[e][i], chan[Peer(e)][i],
           sent[e][i], got[Peer(e)][i], chHeld[e][i])
  BY <1>1, FlowTakes DEF FlowOf
<1>3. /\ Transmits(e)' => Transmits(e) \/ chan[e][i] = "none"
      /\ Hears(Peer(e))' => Hears(Peer(e))
  BY <1>1 DEF Quieter
<1>4. Flow(i, Path(e)', Transmits(e)', Hears(Peer(e))', chan'[e][i], chan'[Peer(e)][i],
           sent[e][i], got[Peer(e)][i], chHeld[e][i])
  BY <1>2, <1>3, FlowRests
<1> QED
  BY <1>1, <1>4 DEF FlowOf

\* The parts of Sockets and Openings that most steps leave alone.
LEMMA SocketsKept ==
    ASSUME Sockets, UNCHANGED root,
           \A d \in End : root[d] = "none" => held'[d] = held[d] /\ chan'[d] = chan[d],
           \A d \in End : root[d] \in {"none", "CONNECTING"} => wire'[d] = wire[d],
           \A d \in End : ws'[d] = ws[d] \/ ws'[d] = "CLOSING"
    PROVE  Sockets'
  BY DEF Sockets

LEMMA OpeningsKept ==
    ASSUME TypeOK, Openings,
           \A i \in Id : chan'[Client][i] = chan[Client][i] \/ chan'[Client][i] = "CLOSED",
           \A i \in Id : chan[Client][i] = "none" => chan'[Client][i] = "none",
           nextId'[Client] = nextId[Client],
           root'[Client] = "OPEN" => root[Client] = "OPEN",
           micro'[Client] = micro[Client] \/ micro'[Client] = Append(micro[Client], EmptyTask)
    PROVE  Openings'
<1>1. SUFFICES ASSUME NEW i \in Id
               PROVE  /\ chan'[Client][i] # "none" => i <= nextId'[Client]
                      /\ chan'[Client][i] = "CONNECTING" /\ root'[Client] = "OPEN" =>
                            \E k \in 1..Len(micro'[Client]) :
                                /\ micro'[Client][k].kind \in {"open", "relay"}
                                /\ micro'[Client][k].id = i
  BY DEF Openings
<1>2. chan'[Client][i] # "none" => i <= nextId'[Client]
  BY DEF Openings
<1>3. ASSUME chan'[Client][i] = "CONNECTING", root'[Client] = "OPEN"
      PROVE  \E k \in 1..Len(micro'[Client]) :
                 micro'[Client][k].kind \in {"open", "relay"} /\ micro'[Client][k].id = i
  <2>1. PICK k \in 1..Len(micro[Client]) :
                 micro[Client][k].kind \in {"open", "relay"} /\ micro[Client][k].id = i
    BY <1>3 DEF Openings
  <2>2. micro[Client] \in Seq(MicroTask)
    BY TwoEnds DEF TypeOK
  <2>3. k \in 1..Len(micro'[Client]) /\ micro'[Client][k] = micro[Client][k]
    BY <2>1, <2>2
  <2> QED
    BY <2>1, <2>3
<1> QED
  BY <1>2, <1>3

\* The sockets stay as they are.
LEMMA SameSockets ==
    ASSUME UNCHANGED <<ws, root, lost>>
    PROVE  /\ \A e \in End : (Transmits(e)' <=> Transmits(e)) /\ (Hears(e)' <=> Hears(e))
           /\ \A i \in Id : Quieter(i)
  BY DEF Transmits, Hears, Quieter

LEMMA LifeThen ==
    ASSUME UNCHANGED <<ws, root, lost>>, NEW i \in Id,
           Life(i, Path(Client)', Path(Server)', chan'[Client][i], chan'[Server][i],
                Transmits(Client), Transmits(Server), Hears(Client), Hears(Server))
    PROVE  LifeOf(i)'
<1>1. /\ Transmits(Client)' => Transmits(Client)
      /\ Transmits(Server)' => Transmits(Server)
      /\ Hears(Client)' => Hears(Client)
      /\ Hears(Server)' => Hears(Server)
  BY DEF Transmits, Hears
<1>2. Life(i, Path(Client)', Path(Server)', chan'[Client][i], chan'[Server][i],
           Transmits(Client)', Transmits(Server)', Hears(Client)', Hears(Server)')
  BY <1>1, LifeQuiets
<1> QED
  BY <1>2 DEF LifeOf

LEMMA FlowThen ==
    ASSUME UNCHANGED <<ws, root, lost>>, NEW e \in End, NEW i \in Id,
           Flow(i, Path(e)', Transmits(e), Hears(Peer(e)), chan'[e][i], chan'[Peer(e)][i],
                sent'[e][i], got'[Peer(e)][i], chHeld'[e][i])
    PROVE  FlowOf(e, i)'
<1>1. /\ Transmits(e)' => Transmits(e)
      /\ Hears(Peer(e))' => Hears(Peer(e))
      /\ Peer(e)' = Peer(e)
  BY DEF Transmits, Hears, Peer
<1>2. Flow(i, Path(e)', Transmits(e)', Hears(Peer(e))', chan'[e][i], chan'[Peer(e)][i],
           sent'[e][i], got'[Peer(e)][i], chHeld'[e][i])
  BY <1>1, FlowRests
<1> QED
  BY <1>1, <1>2 DEF FlowOf

\* A frame that reaches e is the first on the path of its peer.
LEMMA Arrival ==
    ASSUME IInv, Sockets, NEW e \in End, NEW type, Arrives(e, type)
    PROVE  /\ Path(Peer(e)) # <<>> /\ Head(Path(Peer(e))) \in Frame
           /\ Head(Path(Peer(e))).type = type
           /\ Path(Peer(e)) = wire[Peer(e)] /\ root[Peer(e)] \notin {"none", "CONNECTING"}
           /\ Hears(e) /\ root[e] = "OPEN" /\ micro[e] = <<>>
<1>1. TypeOK /\ wire[Peer(e)] # <<>> /\ Head(wire[Peer(e)]).type = type /\ micro[e] = <<>>
  BY DEF IInv, Arrives, Quiet
<1>2. root[Peer(e)] \notin {"none", "CONNECTING"}
  BY <1>1, TwoEnds DEF Sockets
<1>3. Path(Peer(e)) = wire[Peer(e)]
  BY <1>2 DEF Path
<1>4. Head(wire[Peer(e)]) \in Frame
  BY <1>1, ArrivesTypes
<1>5. Hears(e) /\ root[e] = "OPEN"
  BY DEF Arrives, Hears, IInv, RootFollows
<1> QED
  BY <1>1, <1>2, <1>3, <1>4, <1>5

\* Taking it leaves the rest, and nothing of the other path.
LEMMA Taken ==
    ASSUME TypeOK, NEW e \in End, wire' = Rest(e), UNCHANGED <<root, held>>,
           root[Peer(e)] # "CONNECTING"
    PROVE  Path(Peer(e))' = Tail(Path(Peer(e))) /\ Path(e)' = Path(e) /\ wire'[e] = wire[e]
  BY TwoEnds DEF TypeOK, Rest, Path, Peer

\* A frame for e is taken that does not create channel i: if it closes the
\* channel at e, the channel is closed now.
LEMMA LifePassed ==
    ASSUME TypeOK, NEW e \in End, NEW i \in Id, LifeOf(i), Quieter(i),
           Path(Peer(e)) # <<>>, Path(Peer(e))' = Tail(Path(Peer(e))),
           Head(Path(Peer(e))) # Create(i), Grows(Path(e), Path(e)', i),
           chan'[Peer(e)][i] = chan[Peer(e)][i],
           \/ /\ Hears(e)
              /\ chan'[e][i] = IF Head(Path(Peer(e))) = Close(i)
                                   /\ chan[e][i] \in {"CONNECTING", "OPEN"}
                                 THEN "CLOSED" ELSE chan[e][i]
           \/ e = Client /\ ~Hears(e) /\ chan'[e][i] = chan[e][i]
    PROVE  LifeOf(i)' /\ (Hears(e) /\ e = Server /\ Head(Path(Peer(e))) = Close(i)
                              => chan[e][i] # "none")
<1>1. Path(Client) \in Seq(Frame) /\ Path(Server) \in Seq(Frame)
  BY PathTypes, TwoEnds
<1>2. /\ Transmits(Client)' => Transmits(Client) \/ chan[Client][i] = "none"
      /\ Transmits(Server)' => Transmits(Server) \/ chan[Server][i] = "none"
      /\ Hears(Client)' => Hears(Client)
      /\ Hears(Server)' => Hears(Server)
  BY TwoEnds DEF Quieter
<1>3. Life(i, Path(Client), Path(Server), chan[Client][i], chan[Server][i],
           Transmits(Client), Transmits(Server), Hears(Client), Hears(Server))
  BY DEF LifeOf
<1>4. CASE e = Server
  <2>1. /\ Path(Client) # <<>> /\ Path(Client)' = Tail(Path(Client))
        /\ Head(Path(Client)) # Create(i) /\ Hears(Server)
        /\ chan'[Client][i] = chan[Client][i] /\ Grows(Path(Server), Path(Server)', i)
        /\ chan'[Server][i] = IF Head(Path(Client)) = Close(i)
                                  /\ chan[Server][i] \in {"CONNECTING", "OPEN"}
                                THEN "CLOSED" ELSE chan[Server][i]
    BY <1>4, TwoEnds
  <2>2. chan[Server][i] # "CONNECTING"
    BY <1>3 DEF Life
  <2>3. /\ Life(i, Path(Client)', Path(Server), chan[Client][i], chan'[Server][i],
                Transmits(Client), Transmits(Server), Hears(Client), Hears(Server))
        /\ Head(Path(Client)) = Close(i) => chan[Server][i] # "none"
    BY <1>1, <1>3, <2>1, <2>2, LifeServerTakes
  <2>4. Life(i, Path(Client)', Path(Server)', chan[Client][i], chan'[Server][i],
             Transmits(Client), Transmits(Server), Hears(Client), Hears(Server))
    BY <1>1, <2>1, <2>3, LifeAnswers DEF Grows, Foreign
  <2>5. chan[Server][i] = "none" => chan'[Server][i] = "none"
    BY <2>1
  <2>6. Life(i, Path(Client)', Path(Server)', chan[Client][i], chan'[Server][i],
             Transmits(Client)', Transmits(Server)', Hears(Client)', Hears(Server)')
    BY <1>2, <2>4, <2>5, LifeQuiets
  <2> QED
    BY <1>4, <2>1, <2>3, <2>6, TwoEnds DEF LifeOf
<1>5. CASE e = Client
  <2>1. /\ Path(Server) # <<>> /\ Path(Server)' = Tail(Path(Server))
        /\ chan'[Server][i] = chan[Server][i] /\ Grows(Path(Client), Path(Client)', i)
        /\ \/ chan'[Client][i] = chan[Client][i] /\ ~Hears(Client)
           \/ chan'[Client][i] = IF Head(Path(Server)) = Close(i)
                                    /\ chan[Client][i] \in {"CONNECTING", "OPEN"}
                                  THEN "CLOSED" ELSE chan[Client][i]
    BY <1>5, TwoEnds
  <2>2. Life(i, Path(Client), Path(Server)', chan'[Client][i], chan[Server][i],
             Transmits(Client), Transmits(Server), Hears(Client), Hears(Server))
    BY <1>1, <1>3, <2>1, LifeBrowserTakes
  <2>3. Life(i, Path(Client)', Path(Server)', chan'[Client][i], chan[Server][i],
             Transmits(Client), Transmits(Server), Hears(Client), Hears(Server))
    <3>1. CASE Path(Client)' = Path(Client)
      BY <2>2, <3>1
    <3>2. ASSUME NEW Q \in Seq(Frame), Path(Client)' = Path(Client) \o Q, Foreign(Q, i)
          PROVE  Life(i, Path(Client) \o Q, Path(Server)', chan'[Client][i], chan[Server][i],
                      Transmits(Client), Transmits(Server), Hears(Client), Hears(Server))
      <4>1. After(Q, i) /\ ~Has(Q, Create(i)) /\ ~Has(Q, Close(i))
        BY <3>2, ForeignAfter DEF Foreign
      <4>2. Path(Server)' \in Seq(Frame)
        BY <1>1, <2>1
      <4> QED
        BY <1>1, <2>2, <3>2, <4>1, <4>2, LifeSends
    <3> QED
      BY <2>1, <3>1, <3>2 DEF Grows
  <2>4. chan[Client][i] = "none" => chan'[Client][i] = "none"
    BY <2>1
  <2>5. Life(i, Path(Client)', Path(Server)', chan'[Client][i], chan[Server][i],
             Transmits(Client)', Transmits(Server)', Hears(Client)', Hears(Server)')
    BY <1>2, <2>3, <2>4, LifeQuiets
  <2> QED
    BY <1>5, <2>1, <2>5, TwoEnds DEF LifeOf
<1> QED
  BY <1>4, <1>5, TwoEnds

LEMMA ConnectStreams == ASSUME SInv, Connect PROVE Streams'
<1>1. /\ TypeOK /\ RootFollows /\ Sockets /\ 1 \in Id /\ Create(1) \in Frame
      /\ root[Client] = "none" /\ wire[Client] = <<>>
      /\ \A i \in Id : chan[Client][i] = "none"
  BY BoundsAssumption, TwoEnds, FrameTypes DEF SInv, Streams, IInv, Id, Sockets, RootFollows, Connect
<1>2. /\ Path(Client)' = Path(Client) \o One(Create(1)) /\ Path(Server)' = Path(Server)
      /\ One(Create(1)) \in Seq(Frame)
  <2>1. root'[Client] = "CONNECTING" /\ held'[Client] = One(Create(1))
    BY <1>1, TwoEnds DEF TypeOK, Connect, One
  <2>2. root'[Server] = root[Server] /\ held'[Server] = held[Server] /\ wire' = wire
    BY <1>1, TwoEnds DEF TypeOK, Connect
  <2>3. Path(Client) = <<>>
    BY <1>1 DEF Path
  <2>4. One(Create(1)) \in Seq(Frame)
    BY <1>1, OneFrame
  <2>5. <<>> \o One(Create(1)) = One(Create(1))
    BY <2>4
  <2>6. Path(Client)' = One(Create(1)) /\ Path(Server)' = Path(Server)
    BY <2>1, <2>2 DEF Path
  <2> QED
    BY <2>3, <2>4, <2>5, <2>6
<1>3. /\ Transmits(Server)' = Transmits(Server) /\ Hears(Server)' = Hears(Server)
      /\ Hears(Client)' = Hears(Client)
  BY <1>1, TwoEnds DEF TypeOK, Connect, Transmits, Hears
<1>4. /\ chan'[Client][1] = "CONNECTING"
      /\ \A i \in Id \ {1} : chan'[Client][i] = chan[Client][i]
      /\ chan'[Server] = chan[Server]
  BY <1>1, TwoEnds DEF TypeOK, Connect
<1>6. \A i \in Id : Quieter(i)
  BY <1>1, <1>3, TwoEnds DEF Quieter
<1>5. Lives'
  <2>1. SUFFICES ASSUME NEW i \in Id PROVE LifeOf(i)'
    BY DEF Lives
  <2>2. LifeOf(i)
    BY DEF SInv, Streams, Lives
  <2>3. CASE i = 1
    <3>1. Life(1, Path(Client), Path(Server), "none", chan[Server][1],
               Transmits(Client), Transmits(Server), Hears(Client), Hears(Server))
      BY <1>1, <2>2, <2>3 DEF LifeOf
    <3>2. Life(1, Path(Client)', Path(Server), "CONNECTING", chan[Server][1],
               Transmits(Client)', Transmits(Server), Hears(Client), Hears(Server))
      BY <1>1, <1>2, <3>1, LifeBegins, PathTypes, TwoEnds
    <3> QED
      BY <1>2, <1>3, <1>4, <2>3, <3>2 DEF LifeOf
  <2>4. CASE i # 1
    <3>1. Grows(Path(Client), Path(Client)', i) /\ Grows(Path(Server), Path(Server)', i)
      BY <1>1, <1>2, <2>4, FrameGrows DEF Grows
    <3> QED
      BY <1>1, <1>4, <1>6, <2>2, <2>4, <3>1, LifeKept
  <2> QED
    BY <2>3, <2>4
<1>7. Flows'
  <2>1. SUFFICES ASSUME NEW e \in End, NEW i \in Id PROVE FlowOf(e, i)'
    BY DEF Flows
  <2>2. FlowOf(e, i)
    BY DEF SInv, Streams, Flows
  <2>3. /\ sent'[e][i] = sent[e][i] /\ got'[Peer(e)][i] = got[Peer(e)][i]
        /\ chHeld'[e][i] = chHeld[e][i]
    BY DEF Connect
  <2>4. /\ chan[Client][i] = "none" /\ chan'[Client][i] \in {"none", "CONNECTING"}
        /\ chan'[Server][i] = chan[Server][i]
    BY <1>1, <1>4
  <2>5. Spares(Path(e), Path(e)', i)
    <3>1. Spares(Path(Client), Path(Client)', i)
      <4>1. Create(1) \in Frame /\ Path(Client)' = Path(Client) \o One(Create(1))
        BY <1>1, <1>2
      <4> QED
        BY <4>1, FrameGrows
    <3>2. Spares(Path(Server), Path(Server)', i)
      BY <1>2 DEF Spares
    <3> QED
      BY <3>1, <3>2, TwoEnds
  <2>6. CASE e = Server
    BY <1>1, <1>6, <2>2, <2>3, <2>4, <2>5, <2>6, FlowKept, TwoEnds
  <2>7. CASE e = Client
    BY <1>1, <1>6, <2>2, <2>3, <2>4, <2>5, <2>7, FlowKept, TwoEnds
  <2> QED
    BY <2>6, <2>7, TwoEnds
<1>8. Sockets'
  BY SMTT(30), <1>1, <1>4, TwoEnds DEF Sockets, SInv, Streams, Connect, TypeOK
<1>9. Openings'
  <2>1. nextId'[Client] = 1 /\ root'[Client] = "CONNECTING"
    BY <1>1, TwoEnds DEF Connect, TypeOK
  <2> QED
    BY <1>1, <1>4, <2>1 DEF Openings
<1> QED
  BY <1>5, <1>7, <1>8, <1>9 DEF Streams

\* Nothing happens to the channels, to what they send or to what is on its way.
LEMMA IdleStreams ==
    ASSUME SInv, \A i \in Id : Quieter(i),
           Path(Client)' = Path(Client) \/ Path(Client)' = Path(Client) \o One(WsClose),
           Path(Server)' = Path(Server) \/ Path(Server)' = Path(Server) \o One(WsClose),
           UNCHANGED <<chan, chHeld, sent, got>>
    PROVE  Lives' /\ Flows'
<1>1. TypeOK /\ WsClose \in Frame
  BY FrameTypes DEF SInv, IInv
<1>2. \A i \in Id, e \in End : Grows(Path(e), Path(e)', i) /\ Spares(Path(e), Path(e)', i)
  <2>1. \A i \in Id : /\ Grows(Path(Client), Path(Client)', i) /\ Spares(Path(Client), Path(Client)', i)
                      /\ Grows(Path(Server), Path(Server)', i) /\ Spares(Path(Server), Path(Server)', i)
    BY <1>1, FrameGrows
  <2> QED
    BY <2>1, TwoEnds
<1>3. ASSUME NEW i \in Id PROVE LifeOf(i)'
  <2>1. LifeOf(i) /\ Quieter(i)
    BY DEF SInv, Streams, Lives
  <2> QED
    BY <1>1, <1>2, <2>1, LifeKept, TwoEnds
<1>4. ASSUME NEW e \in End, NEW i \in Id PROVE FlowOf(e, i)'
  <2>1. FlowOf(e, i) /\ Quieter(i)
    BY DEF SInv, Streams, Flows
  <2> QED
    BY <1>1, <1>2, <2>1, FlowKept
<1> QED
  BY <1>3, <1>4 DEF Lives, Flows

LEMMA ConnectModalStreams ==
    ASSUME SInv, NEW m \in Modals, ConnectModal(m) PROVE Streams'
<1>1. /\ TypeOK /\ root[Client] = "none" /\ wire[Client] = <<>> /\ held[Client] = <<>>
      /\ \A i \in Id : chan[Client][i] = "none"
  BY TwoEnds DEF SInv, Streams, IInv, Sockets, RootFollows, ConnectModal
<1>2. /\ UNCHANGED <<chan, chHeld, sent, got, held, wire, lost, nextId>>
      /\ ws'[Server] = ws[Server] /\ root'[Server] = root[Server]
      /\ ws[Client] = "none" /\ ws'[Client] = "CONNECTING" /\ root'[Client] = "CONNECTING"
  BY <1>1, TwoEnds DEF TypeOK, ConnectModal
<1>3. Path(Client)' = Path(Client) /\ Path(Server)' = Path(Server)
  BY <1>1, <1>2 DEF Path
<1>4. /\ Transmits(Server)' = Transmits(Server) /\ Hears(Server)' = Hears(Server)
      /\ Hears(Client)' = Hears(Client)
  BY <1>2 DEF Transmits, Hears
<1>5. \A i \in Id : Quieter(i)
  BY <1>1, <1>4, TwoEnds DEF Quieter
<1>6. Lives' /\ Flows'
  BY <1>2, <1>3, <1>5, IdleStreams
<1>7. Sockets'
  BY <1>1, <1>2, TwoEnds DEF Sockets, SInv, Streams
<1>8. Openings'
  BY <1>1, <1>2 DEF Openings
<1> QED
  BY <1>6, <1>7, <1>8 DEF Streams

LEMMA CreateChannelStreams ==
    ASSUME SInv, nextId[Client] < MaxId, CreateChannel(NextId(Client))
    PROVE  Streams'
<1> DEFINE i == NextId(Client)
<1>1. TypeOK /\ RootFollows /\ Sockets /\ Openings /\ i \in Id /\ i = nextId[Client] + 1
  BY NextIdIsNext DEF SInv, Streams, IInv
<1>2. Create(i) \in Frame /\ One(Create(i)) \in Seq(Frame)
  BY <1>1, FrameTypes, OneFrame
<1>3. RootSend(Client, One(Create(i))) /\ UNCHANGED <<ws, root, lost, chHeld, sent, got>>
  BY DEF CreateChannel, One
<1>4. chan[Client][i] = "none" /\ nextId[Client] \in Nat
  BY <1>1, TwoEnds DEF Openings, TypeOK, Id
<1>5. /\ nextId'[Client] = i
      /\ chan'[Client][i] = "CONNECTING" /\ chan'[Server] = chan[Server]
      /\ \A j \in Id \ {i} : chan'[Client][j] = chan[Client][j]
  BY <1>1, TwoEnds DEF TypeOK, CreateChannel
<1> HIDE DEF i
<1>6. /\ Path(Client)' = IF Transmits(Client) THEN Path(Client) \o One(Create(i)) ELSE Path(Client)
      /\ Path(Server)' = Path(Server) /\ root[Client] # "none"
      /\ \A d \in End : wire'[d] # wire[d] => d = Client /\ root[Client] = "OPEN"
      /\ \A d \in End : held'[d] # held[d] => d = Client /\ root[Client] = "CONNECTING"
  BY <1>1, <1>2, <1>3, RootSendPath, TwoEnds
<1>7. /\ \A j \in Id : Quieter(j)
      /\ \A e \in End : (Transmits(e)' <=> Transmits(e)) /\ (Hears(e)' <=> Hears(e))
  BY <1>3, SameSockets
<1>8. ASSUME NEW j \in Id
      PROVE  /\ Spares(Path(Client), Path(Client)', j) /\ Spares(Path(Server), Path(Server)', j)
             /\ j # i => Grows(Path(Client), Path(Client)', j) /\ Grows(Path(Server), Path(Server)', j)
  BY <1>2, <1>6, FrameGrows
<1>9. Lives'
  <2>1. SUFFICES ASSUME NEW j \in Id PROVE LifeOf(j)'
    BY DEF Lives
  <2>2. LifeOf(j)
    BY DEF SInv, Streams, Lives
  <2>3. CASE j = i
    <3>1. Life(i, Path(Client), Path(Server), "none", chan[Server][i],
               Transmits(Client), Transmits(Server), Hears(Client), Hears(Server))
      BY <1>4, <2>2, <2>3 DEF LifeOf
    <3>2. Life(i, Path(Client)', Path(Server), "CONNECTING", chan[Server][i],
               Transmits(Client), Transmits(Server), Hears(Client), Hears(Server))
      BY <1>1, <1>2, <1>6, <3>1, LifeBegins, PathTypes, TwoEnds
    <3> QED
      BY <1>5, <1>6, <1>7, <2>3, <3>2, LifeQuiets, TwoEnds DEF LifeOf
  <2>4. CASE j # i
    BY <1>1, <1>5, <1>7, <1>8, <2>2, <2>4, LifeKept
  <2> QED
    BY <2>3, <2>4
<1>10. Flows'
  <2>1. SUFFICES ASSUME NEW e \in End, NEW j \in Id PROVE FlowOf(e, j)'
    BY DEF Flows
  <2>2. FlowOf(e, j)
    BY DEF SInv, Streams, Flows
  <2>3. /\ \/ chan'[Client][j] = chan[Client][j]
           \/ chan[Client][j] = "none" /\ chan'[Client][j] = "CONNECTING"
        /\ chan'[Server][j] = chan[Server][j]
    BY <1>4, <1>5
  <2>4. /\ sent'[e][j] = sent[e][j] /\ got'[Peer(e)][j] = got[Peer(e)][j]
        /\ chHeld'[e][j] = chHeld[e][j]
    BY <1>3
  <2>5. CASE e = Client
    BY <1>1, <1>7, <1>8, <2>2, <2>3, <2>4, <2>5, FlowKept, TwoEnds
  <2>6. CASE e = Server
    BY <1>1, <1>7, <1>8, <2>2, <2>3, <2>4, <2>6, FlowKept, TwoEnds
  <2> QED
    BY <2>5, <2>6, TwoEnds
<1>11. Sockets'
  <2>1. \A d \in End : root[d] = "none" => chan'[d] = chan[d]
    BY <1>5, <1>6, TwoEnds
  <2> QED
    BY <1>1, <1>3, <1>6, <2>1, SocketsKept
<1>12. Openings'
  <2>1. micro[Client] \in Seq(MicroTask)
    BY <1>1, TwoEnds DEF TypeOK
  <2>2. micro'[Client] = IF root[Client] = "OPEN" THEN Append(micro[Client], OpenTask(i))
                         ELSE micro[Client]
    BY <1>1, TwoEnds DEF TypeOK, CreateChannel, i
  <2>3. SUFFICES ASSUME NEW j \in Id
                 PROVE  /\ chan'[Client][j] # "none" => j <= nextId'[Client]
                        /\ chan'[Client][j] = "CONNECTING" /\ root'[Client] = "OPEN" =>
                              \E k \in 1..Len(micro'[Client]) :
                                  /\ micro'[Client][k].kind \in {"open", "relay"}
                                  /\ micro'[Client][k].id = j
    BY DEF Openings
  <2>4. chan'[Client][j] # "none" => j <= nextId'[Client]
    BY <1>1, <1>4, <1>5 DEF Openings, Id
  <2>5. ASSUME chan'[Client][j] = "CONNECTING", root'[Client] = "OPEN"
        PROVE  \E k \in 1..Len(micro'[Client]) :
                   micro'[Client][k].kind \in {"open", "relay"} /\ micro'[Client][k].id = j
    <3>1. micro'[Client] = Append(micro[Client], OpenTask(i))
      BY <1>3, <2>2, <2>5
    <3>2. CASE j = i
      <4>1. /\ Len(micro[Client]) + 1 \in 1..Len(micro'[Client])
            /\ micro'[Client][Len(micro[Client]) + 1] = OpenTask(i)
        BY <2>1, <3>1
      <4> QED
        BY <1>1, <3>2, <4>1, TaskTypes
    <3>3. CASE j # i
      <4>1. PICK k \in 1..Len(micro[Client]) :
                     micro[Client][k].kind \in {"open", "relay"} /\ micro[Client][k].id = j
        BY <1>1, <1>3, <1>5, <2>5, <3>3 DEF Openings
      <4>2. k \in 1..Len(micro'[Client]) /\ micro'[Client][k] = micro[Client][k]
        BY <2>1, <3>1, <4>1
      <4> QED
        BY <4>1, <4>2
    <3> QED
      BY <3>2, <3>3
  <2> QED
    BY <2>4, <2>5
<1> QED
  BY <1>9, <1>10, <1>11, <1>12 DEF Streams

LEMMA OpenersStreams ==
    ASSUME SInv, OpenOnCached \/ \E m \in Modals : ModalOnCached(m) \/ ModalCreates(m)
    PROVE  Streams'
<1>1. TypeOK
  BY DEF SInv, IInv
<1>2. CASE CreateChannel(NextId(Client))
  <2>1. nextId[Client] < MaxId
    BY <1>1, RoomForOne, <1>2 DEF OpenOnCached, ModalOnCached, ModalCreates
  <2> QED
    BY <1>2, <2>1, CreateChannelStreams
<1>3. CASE UNCHANGED <<ws, root, nextId, channels, chan, held, chHeld, wire,
                       micro, emptyDue, lost, sent, got>>
  <2>1. Path(Client)' = Path(Client) /\ Path(Server)' = Path(Server)
    BY <1>3 DEF Path
  <2>2. Lives' /\ Flows'
    BY <1>3, <2>1, SameSockets, IdleStreams
  <2>3. Sockets' /\ Openings'
    BY <1>3 DEF SInv, Streams, Sockets, Openings
  <2> QED
    BY <2>2, <2>3 DEF Streams
<1> QED
  BY <1>2, <1>3 DEF OpenOnCached, ModalOnCached, ModalCreates

\* What Life says of the states of the channels.
LEMMA ChannelStates ==
    ASSUME SInv, NEW i \in Id
    PROVE  /\ LifeOf(i) /\ \A e \in End : FlowOf(e, i)
           /\ \A e \in End : chan[e][i] \in {"none", "CONNECTING", "OPEN", "CLOSED"}
           /\ chan[Server][i] # "CONNECTING"
           /\ chan[Client][i] = "none" => chan[Server][i] = "none"
           /\ ~Has(Path(Server), Create(i))
           /\ Has(Path(Client), Create(i)) => chan[Server][i] = "none"
  BY TwoEnds DEF SInv, Streams, Lives, Flows, LifeOf, Life

LEMMA SendStreams ==
    ASSUME SInv, NEW e \in End, NEW i \in Id, Send(e, i) PROVE Streams'
<1> DEFINE d == Data(i, sent[e][i] + 1)
<1>1. /\ TypeOK /\ RootFollows /\ Sockets /\ sent[e][i] \in 0..MaxMsgs /\ sent[e][i] < MaxMsgs
      /\ UNCHANGED <<ws, root, nextId, channels, chan, micro, emptyDue, lost, waiting, got>>
  BY DEF SInv, Streams, IInv, TypeOK, Send
<1>2. d \in Frame /\ One(d) \in Seq(Frame)
  <2>1. sent[e][i] + 1 \in 1..MaxMsgs
    BY <1>1, BoundsAssumption
  <2>2. d \in Frame
    BY <2>1, FrameTypes
  <2> QED
    BY <2>2, OneFrame
<1>3. /\ \A k \in End : \A j \in Id : ~(k = e /\ j = i) => sent'[k][j] = sent[k][j]
      /\ sent'[e][i] = sent[e][i] + 1
  BY <1>1 DEF TypeOK, Send
<1>4. /\ \A j \in Id : Quieter(j)
      /\ \A k \in End : (Transmits(k)' <=> Transmits(k)) /\ (Hears(k)' <=> Hears(k))
  BY <1>1, SameSockets
<1> HIDE DEF d
<1>5. CASE chan[e][i] = "OPEN" /\ RootSend(e, One(d)) /\ UNCHANGED chHeld
  <2>1. /\ Path(e)' = IF Transmits(e) THEN Path(e) \o One(d) ELSE Path(e)
        /\ Path(Peer(e))' = Path(Peer(e)) /\ root[e] # "none"
        /\ \A k \in End : wire'[k] # wire[k] => k = e /\ root[e] = "OPEN"
        /\ \A k \in End : held'[k] # held[k] => k = e /\ root[e] = "CONNECTING"
    BY <1>1, <1>2, <1>5, RootSendPath
  <2>2. Sockets' /\ Openings'
    BY <1>1, <2>1, SocketsKept DEF SInv, Streams, Openings
  <2>3. /\ \A j \in Id : ~Has(One(d), Create(j)) /\ ~Has(One(d), Close(j))
        /\ \A j \in Id \ {i} : Grows(Path(e), Path(e)', j) /\ Spares(Path(e), Path(e)', j)
        /\ \A j \in Id : Grows(Path(Peer(e)), Path(Peer(e))', j) /\ Spares(Path(Peer(e)), Path(Peer(e))', j)
    <3>1. \A j \in Id : ~Has(One(d), Create(j)) /\ ~Has(One(d), Close(j))
      BY OneFrame, FramesDiffer DEF d
    <3>2. \A j \in Id \ {i} : Grows(Path(e), Path(e)', j) /\ Spares(Path(e), Path(e)', j)
      BY <1>2, <2>1, FrameGrows DEF d
    <3> QED
      BY <2>1, <3>1, <3>2 DEF Grows, Spares
  <2>4. Lives'
    <3>1. SUFFICES ASSUME NEW j \in Id PROVE LifeOf(j)'
      BY DEF Lives
    <3>2. LifeOf(j)
      BY ChannelStates
    <3>3. CASE j # i
      BY <1>1, <1>4, <2>3, <3>2, <3>3, LifeKept, TwoEnds
    <3>4. CASE j = i /\ ~Transmits(e)
      <4>1. Path(Client)' = Path(Client) /\ Path(Server)' = Path(Server)
        BY <2>1, <3>4, TwoEnds
      <4> QED
        BY <1>1, <1>4, <3>2, <4>1, LifeKept DEF Grows
    <3>5. CASE j = i /\ Transmits(e) /\ e = Client
      <4>1. Life(i, Path(Client) \o One(d), Path(Server), chan[Client][i], chan[Server][i],
                 Transmits(Client), Transmits(Server), Hears(Client), Hears(Server))
        <5>1. Path(Client) \in Seq(Frame) /\ Path(Server) \in Seq(Frame) /\ chan[Client][i] # "none"
          BY <1>1, <1>5, <3>5, PathTypes, TwoEnds
        <5> QED
          BY <1>2, <2>3, <3>2, <3>5, <5>1, LifeSends DEF LifeOf
      <4>2. Path(Client)' = Path(Client) \o One(d) /\ Path(Server)' = Path(Server) /\ chan' = chan
        BY <1>1, <2>1, <3>5, TwoEnds
      <4> QED
        BY <1>1, <3>5, <4>1, <4>2, LifeThen
    <3>6. CASE j = i /\ Transmits(e) /\ e = Server
      <4>1. Life(i, Path(Client), Path(Server) \o One(d), chan[Client][i], chan[Server][i],
                 Transmits(Client), Transmits(Server), Hears(Client), Hears(Server))
        BY <1>1, <1>2, <2>3, <3>2, <3>6, LifeAnswers, PathTypes, TwoEnds DEF LifeOf
      <4>2. Path(Server)' = Path(Server) \o One(d) /\ Path(Client)' = Path(Client) /\ chan' = chan
        BY <1>1, <2>1, <3>6, TwoEnds
      <4> QED
        BY <1>1, <3>6, <4>1, <4>2, LifeThen
    <3> QED
      BY <3>3, <3>4, <3>5, <3>6, TwoEnds
  <2>5. Flows'
    <3>1. SUFFICES ASSUME NEW k \in End, NEW j \in Id PROVE FlowOf(k, j)'
      BY DEF Flows
    <3>2. FlowOf(k, j)
      BY ChannelStates
    <3>3. CASE k = e /\ j = i
      <4>1. Flow(i, Path(e)', Transmits(e), Hears(Peer(e)), "OPEN", chan[Peer(e)][i],
                 sent[e][i] + 1, got[Peer(e)][i], chHeld[e][i])
        <5>1. Path(e) \in Seq(Frame) /\ got[Peer(e)][i] \in Seq(Rank)
          BY <1>1, PathTypes, TwoEnds
        <5>2. Flow(i, Path(e), Transmits(e), Hears(Peer(e)), "OPEN", chan[Peer(e)][i],
                   sent[e][i], got[Peer(e)][i], chHeld[e][i])
          BY <1>5, <3>2, <3>3 DEF FlowOf
        <5>3. Path(e)' = IF Transmits(e) THEN Path(e) \o One(Data(i, sent[e][i] + 1)) ELSE Path(e)
          BY <2>1 DEF d
        <5> QED
          BY <1>1, <5>1, <5>2, <5>3, FlowSent
      <4> QED
        BY <1>1, <1>3, <1>5, <3>3, <4>1, FlowThen
    <3>4. CASE ~(k = e /\ j = i)
      <4>1. Spares(Path(k), Path(k)', j)
        BY <2>3, <3>4, TwoEnds
      <4> QED
        BY <1>1, <1>3, <1>4, <1>5, <3>2, <3>4, <4>1, FlowKept
    <3> QED
      BY <3>3, <3>4
  <2> QED
    BY <2>2, <2>4, <2>5 DEF Streams
<1>6. CASE /\ chan[e][i] = "CONNECTING" /\ UNCHANGED <<wire, held>>
           /\ chHeld' = [chHeld EXCEPT ![e][i] = Append(@, d)]
  <2>1. Path(Client)' = Path(Client) /\ Path(Server)' = Path(Server)
    BY <1>1, <1>6 DEF Path
  <2>2. Sockets' /\ Openings'
    BY <1>1, <1>6 DEF SInv, Streams, Openings, Sockets
  <2>3. Lives'
    <3>1. SUFFICES ASSUME NEW j \in Id PROVE LifeOf(j)'
      BY DEF Lives
    <3>2. LifeOf(j)
      BY ChannelStates
    <3> QED
      BY <1>1, <1>4, <2>1, <3>2, LifeKept DEF Grows
  <2>4. Flows'
    <3>1. SUFFICES ASSUME NEW k \in End, NEW j \in Id PROVE FlowOf(k, j)'
      BY DEF Flows
    <3>2. FlowOf(k, j)
      BY ChannelStates
    <3>3. Path(k)' = Path(k) /\ Peer(e)' = Peer(e)
      BY <2>1, TwoEnds DEF Peer
    <3>4. chHeld'[k][j] = IF k = e /\ j = i THEN Append(chHeld[e][i], d) ELSE chHeld[k][j]
      BY <1>1, <1>6 DEF TypeOK
    <3>5. CASE k = e /\ j = i
      <4>1. Flow(i, Path(e), Transmits(e), Hears(Peer(e)), "CONNECTING", chan[Peer(e)][i],
                 sent[e][i] + 1, got[Peer(e)][i], Append(chHeld[e][i], d))
        BY <1>1, <1>6, <3>2, <3>5, FlowHeld DEF FlowOf, d
      <4> QED
        BY <1>1, <1>3, <1>6, <3>3, <3>4, <3>5, <4>1, FlowThen
    <3>6. CASE ~(k = e /\ j = i)
      BY <1>1, <1>3, <1>4, <3>2, <3>3, <3>4, <3>6, FlowKept DEF Spares
    <3> QED
      BY <3>5, <3>6
  <2> QED
    BY <2>2, <2>3, <2>4 DEF Streams
<1> QED
  BY <1>5, <1>6 DEF Send, d, One

LEMMA CloseByAppStreams ==
    ASSUME SInv, NEW e \in End, NEW i \in Id, CloseByApp(e, i) PROVE Streams'
<1>1. /\ TypeOK /\ RootFollows /\ Sockets /\ EmptyMeansUnused /\ Openings
      /\ chan[e][i] \in {"CONNECTING", "OPEN"} /\ RootSend(e, One(Close(i)))
      /\ UNCHANGED <<ws, root, nextId, chHeld, lost, sent, got>>
      /\ Close(i) \in Frame /\ One(Close(i)) \in Seq(Frame)
  BY FrameTypes, OneFrame DEF SInv, Streams, IInv, CloseByApp, CloseChannel, One
<1>2. /\ chan'[e][i] = "CLOSED"
      /\ \A k \in End, j \in Id : ~(k = e /\ j = i) => chan'[k][j] = chan[k][j]
      /\ \A k \in End : k # e => chan'[k] = chan[k]
  BY <1>1 DEF TypeOK, CloseByApp, CloseChannel
<1>3. /\ Path(e)' = IF Transmits(e) THEN Path(e) \o One(Close(i)) ELSE Path(e)
      /\ Path(Peer(e))' = Path(Peer(e)) /\ root[e] # "none"
      /\ \A k \in End : wire'[k] # wire[k] => k = e /\ root[e] = "OPEN"
      /\ \A k \in End : held'[k] # held[k] => k = e /\ root[e] = "CONNECTING"
  BY <1>1, RootSendPath
<1>4. \A j \in Id : Quieter(j)
  BY <1>1, SameSockets
<1>5. /\ \A k \in End, j \in Id : Spares(Path(k), Path(k)', j)
      /\ \A k \in End, j \in Id : j # i => Grows(Path(k), Path(k)', j)
  <2>1. /\ \A j \in Id : Spares(Path(e), Path(e)', j) /\ (j # i => Grows(Path(e), Path(e)', j))
    BY <1>1, <1>3, FrameGrows
  <2>2. /\ \A j \in Id : /\ Spares(Path(Peer(e)), Path(Peer(e))', j)
                         /\ Grows(Path(Peer(e)), Path(Peer(e))', j)
    BY <1>3 DEF Spares, Grows
  <2> QED
    BY <2>1, <2>2, TwoEnds
<1>6. Lives'
  <2>1. SUFFICES ASSUME NEW j \in Id PROVE LifeOf(j)'
    BY DEF Lives
  <2>2. LifeOf(j)
    BY ChannelStates
  <2>3. CASE j # i
    BY <1>1, <1>2, <1>4, <1>5, <2>2, <2>3, LifeKept, TwoEnds
  <2>4. CASE j = i /\ e = Client
    <3>1. /\ Path(Client) \in Seq(Frame) /\ chan[Client][i] \in {"CONNECTING", "OPEN"}
          /\ Path(Client)' = IF Transmits(Client) THEN Path(Client) \o One(Close(i)) ELSE Path(Client)
          /\ Path(Server)' = Path(Server)
          /\ chan'[Client][i] = "CLOSED" /\ chan'[Server][i] = chan[Server][i]
      BY <1>1, <1>2, <1>3, <2>4, PathTypes, TwoEnds
    <3>2. Life(i, Path(Client)', Path(Server), "CLOSED", chan[Server][i],
               Transmits(Client), Transmits(Server), Hears(Client), Hears(Server))
      BY <1>1, <2>2, <2>4, <3>1, LifeClosesHere DEF LifeOf
    <3> QED
      BY <1>1, <2>4, <3>1, <3>2, LifeThen
  <2>5. CASE j = i /\ e = Server
    <3>1. /\ Path(Server) \in Seq(Frame) /\ chan[Server][i] = "OPEN"
          /\ Path(Server)' = IF Transmits(Server) THEN Path(Server) \o One(Close(i)) ELSE Path(Server)
          /\ Path(Client)' = Path(Client)
          /\ chan'[Server][i] = "CLOSED" /\ chan'[Client][i] = chan[Client][i]
      BY <1>1, <1>2, <1>3, <2>5, PathTypes, TwoEnds, ChannelStates
    <3>2. Life(i, Path(Client), Path(Server)', chan[Client][i], "CLOSED",
               Transmits(Client), Transmits(Server), Hears(Client), Hears(Server))
      BY <1>1, <2>2, <2>5, <3>1, LifeClosesThere DEF LifeOf
    <3> QED
      BY <1>1, <2>5, <3>1, <3>2, LifeThen
  <2> QED
    BY <2>3, <2>4, <2>5, TwoEnds
<1>7. Flows'
  <2>1. SUFFICES ASSUME NEW k \in End, NEW j \in Id PROVE FlowOf(k, j)'
    BY DEF Flows
  <2>2. FlowOf(k, j) /\ Peer(k) \in End
    BY ChannelStates, TwoEnds
  <2>3. /\ chan'[k][j] = chan[k][j] \/ chan'[k][j] = "CLOSED"
        /\ chan'[Peer(k)][j] = chan[Peer(k)][j] \/ chan'[Peer(k)][j] = "CLOSED"
    BY <1>2, <2>2
  <2> QED
    BY <1>1, <1>4, <1>5, <2>2, <2>3, FlowKept
<1>8. Sockets'
  <2>1. \A k \in End : root[k] = "none" => held'[k] = held[k] /\ chan'[k] = chan[k]
    BY <1>2, <1>3
  <2> QED
    BY <1>1, <1>3, <2>1, SocketsKept
<1>9. Openings'
  <2>1. micro'[Client] = micro[Client] \/ micro'[Client] = Append(micro[Client], EmptyTask)
    BY <1>1, ForgetKeeps, TwoEnds DEF CloseByApp, CloseChannel
  <2>2. /\ \A j \in Id : chan'[Client][j] = chan[Client][j] \/ chan'[Client][j] = "CLOSED"
        /\ \A j \in Id : chan[Client][j] = "none" => chan'[Client][j] = "none"
    BY <1>1, <1>2, TwoEnds
  <2> QED
    BY <1>1, <2>1, <2>2, OpeningsKept
<1> QED
  BY <1>6, <1>7, <1>8, <1>9 DEF Streams

\* A task of the server leaves the openings of the client alone.
LEMMA OpeningsAlone ==
    ASSUME Openings, UNCHANGED <<root, nextId>>, micro'[Client] = micro[Client],
           chan'[Client] = chan[Client]
    PROVE  Openings'
  BY DEF Openings

\* The first microtask has been run: the others are still to come.
LEMMA OpeningsAfterRun ==
    ASSUME TypeOK, Openings, UNCHANGED <<root, nextId>>, micro[Client] # <<>>,
           micro'[Client] = Tail(micro[Client]),
           \A j \in Id : chan'[Client][j] = "none" <=> chan[Client][j] = "none",
           \A j \in Id : chan'[Client][j] = "CONNECTING" =>
               /\ chan[Client][j] = "CONNECTING"
               /\ ~(Head(micro[Client]).kind \in {"open", "relay"} /\ Head(micro[Client]).id = j)
    PROVE  Openings'
<1>1. SUFFICES ASSUME NEW j \in Id, chan'[Client][j] = "CONNECTING", root'[Client] = "OPEN"
               PROVE  \E k \in 1..Len(micro'[Client]) :
                          micro'[Client][k].kind \in {"open", "relay"} /\ micro'[Client][k].id = j
  BY DEF Openings
<1>2. PICK k \in 1..Len(micro[Client]) :
               micro[Client][k].kind \in {"open", "relay"} /\ micro[Client][k].id = j
  BY <1>1 DEF Openings
<1>3. /\ Len(micro[Client]) \in Nat /\ Head(micro[Client]) = micro[Client][1]
      /\ Len(Tail(micro[Client])) = Len(micro[Client]) - 1
      /\ \A l \in 1..Len(Tail(micro[Client])) : Tail(micro[Client])[l] = micro[Client][l + 1]
  <2>1. micro[Client] \in Seq(MicroTask)
    BY TwoEnds DEF TypeOK
  <2> QED
    BY <2>1, TailPlaces
<1>4. k # 1
  BY <1>1, <1>2, <1>3
<1>5. k - 1 \in 1..Len(micro'[Client]) /\ micro'[Client][k - 1] = micro[Client][k]
  BY <1>2, <1>3, <1>4
<1> QED
  BY <1>2, <1>5

LEMMA RunEmptyStreams ==
    ASSUME SInv, NEW e \in End, RunEmpty(e) PROVE Streams'
<1>1. /\ TypeOK /\ RootFollows /\ Sockets /\ Openings
      /\ UNCHANGED <<root, nextId, channels, chan, held, chHeld, sent, got>>
      /\ micro' = [micro EXCEPT ![e] = Tail(@)] /\ micro[e] # <<>> /\ Head(micro[e]) = EmptyTask
  BY DEF SInv, Streams, IInv, RunEmpty
<1>2. /\ Path(Client)' = Path(Client) \/ Path(Client)' = Path(Client) \o One(WsClose)
      /\ Path(Server)' = Path(Server)
      /\ \A i \in Id : Quieter(i)
      /\ Sockets'
  <2>1. CASE UNCHANGED <<ws, lost, wire>>
    <3>1. Path(Client)' = Path(Client) /\ Path(Server)' = Path(Server)
      BY <1>1, <2>1 DEF Path
    <3> QED
      BY <1>1, <2>1, <3>1, SameSockets DEF Sockets
  <2>2. CASE /\ e = Client /\ root[e] \in {"CONNECTING", "OPEN"} /\ ws[e] \in {"CONNECTING", "OPEN"}
             /\ ws' = [ws EXCEPT ![e] = "CLOSING"]
             /\ lost' = (lost \/ ws[e] = "CONNECTING")
             /\ wire' = [wire EXCEPT ![e] = OnWire(e, <<WsClose>>)]
    <3>1. /\ ws'[Client] = "CLOSING" /\ ws'[Server] = ws[Server] /\ wire'[Server] = wire[Server]
          /\ wire'[Client] = wire[Client] \/ wire'[Client] = wire[Client] \o One(WsClose)
          /\ root[Client] = "CONNECTING" => wire'[Client] = wire[Client]
          /\ lost => lost'
      BY <1>1, <2>2, TwoEnds DEF TypeOK, OnWire, One, RootFollows
    <3>2. Path(Client)' = Path(Client) \/ Path(Client)' = Path(Client) \o One(WsClose)
      BY <1>1, <3>1 DEF Path
    <3>3. Path(Server)' = Path(Server)
      BY <1>1, <3>1 DEF Path
    <3>4. ASSUME NEW i \in Id PROVE Quieter(i)
      BY <1>1, <2>2, <3>1, TwoEnds DEF Quieter, Transmits, Hears
    <3>5. Sockets'
      <4>1. \A d \in End : root[d] \in {"none", "CONNECTING"} => wire'[d] = wire[d]
        BY <1>1, <2>2, <3>1, TwoEnds
      <4> QED
        BY <1>1, <3>1, <4>1, SocketsKept, TwoEnds
    <3> QED
      BY <3>2, <3>3, <3>4, <3>5
  <2> QED
    BY <2>1, <2>2 DEF RunEmpty
<1>3. Lives' /\ Flows'
  BY <1>1, <1>2, IdleStreams
<1>4. Openings'
  <2>1. CASE e = Client
    <3>1. micro'[Client] = Tail(micro[Client])
      BY <1>1, <2>1 DEF TypeOK
    <3> QED
      BY <1>1, <2>1, <3>1, OpeningsAfterRun, TaskTypes
  <2>2. CASE e # Client
    <3>1. micro'[Client] = micro[Client]
      BY <1>1, <2>2, TwoEnds DEF TypeOK
    <3>2. Openings /\ chan' = chan /\ root' = root /\ nextId' = nextId
      BY <1>1
    <3> QED
      BY <3>1, <3>2 DEF Openings
  <2> QED
    BY <2>1, <2>2
<1> QED
  BY <1>2, <1>3, <1>4 DEF Streams

LEMMA AcceptStreams == ASSUME SInv, Accept PROVE Streams'
<1>1. /\ TypeOK /\ RootFollows /\ Sockets /\ Openings
      /\ UNCHANGED <<nextId, channels, chan, held, chHeld, wire, lost, sent, got>>
      /\ ws[Server] = "none" /\ root[Server] = "none"
      /\ \A i \in Id : chan[Server][i] = "none"
  BY TwoEnds DEF SInv, Streams, IInv, Accept, Sockets, RootFollows
<1>2. /\ ws'[Server] = "OPEN" /\ ws'[Client] = ws[Client]
      /\ root'[Server] = "OPEN" /\ root'[Client] = root[Client]
      /\ micro'[Client] = micro[Client]
  BY <1>1, TwoEnds DEF TypeOK, Accept, ScheduleEmpty
<1>3. Path(Client)' = Path(Client) /\ Path(Server)' = Path(Server)
  BY <1>1, <1>2 DEF Path
<1>4. ASSUME NEW i \in Id PROVE Quieter(i)
  BY <1>1, <1>2, TwoEnds DEF Quieter, Transmits, Hears
<1>5. Lives' /\ Flows'
  BY <1>1, <1>3, <1>4, IdleStreams
<1>6. Sockets'
  BY <1>1, <1>2, TwoEnds DEF Sockets
<1>7. Openings'
  BY <1>1, <1>2 DEF Openings
<1> QED
  BY <1>5, <1>6, <1>7 DEF Streams

LEMMA SocketOpenStreams == ASSUME SInv, SocketOpen PROVE Streams'
<1>1. /\ TypeOK /\ Sockets /\ Openings
      /\ UNCHANGED <<nextId, channels, chan, chHeld, lost, sent, got>>
      /\ ws[Client] = "CONNECTING" /\ root[Client] = "CONNECTING" /\ ~lost
      /\ wire[Client] = <<>> /\ held[Client] \in Seq(Frame)
  BY TwoEnds DEF SInv, Streams, IInv, SocketOpen, Sockets, TypeOK
<1>2. /\ ws'[Client] = "OPEN" /\ ws'[Server] = ws[Server]
      /\ root'[Client] = "OPEN" /\ root'[Server] = root[Server]
      /\ wire'[Client] = <<>> \o held[Client] /\ wire'[Server] = wire[Server]
      /\ held'[Server] = held[Server]
      /\ micro'[Client] = [k \in 1..nextId[Client] |-> RelayTask(k)]
  BY <1>1, TwoEnds DEF TypeOK, SocketOpen
<1>3. Path(Client)' = Path(Client) /\ Path(Server)' = Path(Server)
  <2>1. <<>> \o held[Client] = held[Client]
    BY <1>1
  <2> QED
    BY <1>1, <1>2, <2>1 DEF Path
<1>4. ASSUME NEW i \in Id PROVE Quieter(i)
  BY <1>1, <1>2, TwoEnds DEF Quieter, Transmits, Hears
<1>5. Lives' /\ Flows'
  BY <1>1, <1>3, <1>4, IdleStreams
<1>6. Sockets'
  BY <1>1, <1>2, TwoEnds DEF Sockets
<1>7. Openings'
  <2>0. \A i \in Id : chan'[Client][i] # "none" => i <= nextId'[Client]
    BY <1>1 DEF Openings
  <2>1. SUFFICES ASSUME NEW i \in Id, chan'[Client][i] = "CONNECTING"
                 PROVE  \E k \in 1..Len(micro'[Client]) :
                            micro'[Client][k].kind \in {"open", "relay"} /\ micro'[Client][k].id = i
    BY <2>0 DEF Openings
  <2>2. i \in 1..nextId[Client] /\ nextId[Client] \in Nat
    BY <1>1, <2>1, TwoEnds DEF Openings, Id, TypeOK
  <2>3. i \in 1..Len(micro'[Client]) /\ micro'[Client][i] = RelayTask(i)
    BY <1>2, <2>2
  <2> QED
    BY <2>3, TaskTypes
<1> QED
  BY <1>5, <1>6, <1>7 DEF Streams

LEMMA LoseStreams == ASSUME SInv, Lose PROVE Streams'
<1>1. /\ UNCHANGED <<ws, root, nextId, channels, chan, held, chHeld, wire, micro, sent, got>>
      /\ lost'
  BY DEF Lose
<1>2. Path(Client)' = Path(Client) /\ Path(Server)' = Path(Server)
  BY <1>1 DEF Path
<1>3. ASSUME NEW i \in Id PROVE Quieter(i)
  BY <1>1 DEF Quieter, Transmits, Hears
<1>4. Lives' /\ Flows'
  BY <1>1, <1>2, <1>3, IdleStreams
<1>5. Sockets' /\ Openings'
  BY <1>1 DEF SInv, Streams, Sockets, Openings
<1> QED
  BY <1>4, <1>5 DEF Streams

\* What a channel has kept is its own data, and nothing when it is open.
LEMMA HoldIsData ==
    ASSUME SInv, NEW e \in End, NEW i \in Id, chan[e][i] \in {"CONNECTING", "OPEN"}
    PROVE  /\ chHeld[e][i] \in Seq(Frame)
           /\ \A f : Has(chHeld[e][i], f) => \E n : f = Data(i, n)
           /\ chan[e][i] = "OPEN" => chHeld[e][i] = <<>>
<1>1. chHeld[e][i] \in Seq(Frame) /\ sent[e][i] \in Nat
  BY PathTypes DEF SInv, IInv
<1>2. /\ chan[e][i] = "CONNECTING" => chHeld[e][i] = [k \in 1..sent[e][i] |-> Data(i, k)]
      /\ chan[e][i] = "OPEN" => chHeld[e][i] = <<>>
  BY DEF SInv, Streams, Flows, FlowOf, Flow
<1>3. ASSUME chan[e][i] = "CONNECTING", NEW f, Has(chHeld[e][i], f)
      PROVE  \E n : f = Data(i, n)
  BY <1>1, <1>2, <1>3 DEF Has
<1>4. ASSUME chan[e][i] = "OPEN", NEW f, Has(chHeld[e][i], f)
      PROVE  FALSE
  BY <1>2, <1>4, HasNone
<1> QED
  BY <1>1, <1>2, <1>3, <1>4

LEMMA OpenChannelStreams ==
    ASSUME SInv, NEW e \in End, NEW i \in Id, chan[e][i] \in {"CONNECTING", "OPEN"},
           OpenChannel(e, i), UNCHANGED <<ws, root, lost, sent, got>>
    PROVE  Lives' /\ Flows'
<1> DEFINE Q == chHeld[e][i]
<1>1. /\ TypeOK /\ RootFollows /\ Sockets /\ Q \in Seq(Frame) /\ RootSend(e, Q)
      /\ \A f : Has(Q, f) => \E n : f = Data(i, n)
      /\ chan[e][i] = "OPEN" => Q = <<>>
  BY HoldIsData DEF SInv, Streams, IInv, OpenChannel
<1>2. /\ chan'[e][i] = "OPEN"
      /\ \A k \in End, j \in Id : ~(k = e /\ j = i) => chan'[k][j] = chan[k][j]
      /\ chHeld'[e][i] = <<>>
      /\ \A k \in End, j \in Id : ~(k = e /\ j = i) => chHeld'[k][j] = chHeld[k][j]
  BY <1>1 DEF TypeOK, OpenChannel
<1> HIDE DEF Q
<1>3. /\ Path(e)' = IF Transmits(e) THEN Path(e) \o Q ELSE Path(e)
      /\ Path(Peer(e))' = Path(Peer(e))
  BY <1>1, RootSendPath
<1>4. /\ \A j \in Id : Quieter(j)
      /\ \A j : ~Has(Q, Create(j)) /\ ~Has(Q, Close(j))
      /\ \A j : j # i => \A n : ~Has(Q, Data(j, n))
  BY <1>1, SameSockets, FramesDiffer
<1>5. \A k \in End, j \in Id : ~(k = e /\ j = i) =>
          Spares(Path(k), Path(k)', j)
  <2>1. \A j \in Id : j # i => Spares(Path(e), Path(e)', j)
    BY <1>1, <1>3, <1>4 DEF Spares
  <2>2. \A j \in Id : Spares(Path(Peer(e)), Path(Peer(e))', j)
    BY <1>3 DEF Spares
  <2> QED
    BY <2>1, <2>2, TwoEnds
<1>6. \A k \in End, j \in Id : j # i => Grows(Path(k), Path(k)', j)
  <2>1. \A j \in Id : j # i => Grows(Path(e), Path(e)', j)
    BY <1>1, <1>3, <1>4 DEF Grows, Foreign
  <2>2. \A j \in Id : Grows(Path(Peer(e)), Path(Peer(e))', j)
    BY <1>3 DEF Grows
  <2> QED
    BY <2>1, <2>2, TwoEnds
<1>7. ASSUME NEW j \in Id PROVE LifeOf(j)'
  <2>1. LifeOf(j)
    BY ChannelStates
  <2>2. CASE j # i
    BY <1>1, <1>2, <1>4, <1>6, <2>1, <2>2, LifeKept, TwoEnds
  <2>3. CASE j = i /\ e = Client
    <3>1. /\ Path(Client) \in Seq(Frame) /\ Path(Server) \in Seq(Frame)
          /\ Path(Client)' = IF Transmits(Client) THEN Path(Client) \o Q ELSE Path(Client)
          /\ Path(Server)' = Path(Server) /\ chan[Client][i] \in {"CONNECTING", "OPEN"}
          /\ chan'[Client][i] = "OPEN" /\ chan'[Server][i] = chan[Server][i]
      BY <1>1, <1>2, <1>3, <2>3, PathTypes, TwoEnds
    <3>2. Life(i, Path(Client), Path(Server), chan[Client][i], chan[Server][i],
               Transmits(Client), Transmits(Server), Hears(Client), Hears(Server))
      BY <2>1, <2>3 DEF LifeOf
    <3>3. Life(i, Path(Client)', Path(Server), chan[Client][i], chan[Server][i],
               Transmits(Client), Transmits(Server), Hears(Client), Hears(Server))
      <4>1. CASE Transmits(Client)
        <5>1. Transmits(Client) /\ chan[Client][i] # "none"
          BY <3>1, <4>1
        <5>2. Life(i, Path(Client) \o Q, Path(Server), chan[Client][i], chan[Server][i],
                   Transmits(Client), Transmits(Server), Hears(Client), Hears(Server))
          BY <1>1, <1>4, <3>1, <3>2, <5>1, LifeSends
        <5> QED
          BY <3>1, <4>1, <5>2
      <4> QED
        BY <3>1, <3>2, <4>1
    <3>4. Life(i, Path(Client)', Path(Server), "OPEN", chan[Server][i],
               Transmits(Client), Transmits(Server), Hears(Client), Hears(Server))
      BY <3>1, <3>3 DEF Life
    <3> QED
      BY <2>3, <3>1, <3>4, LifeThen
  <2>4. CASE j = i /\ e = Server
    <3>1. Path(Client)' = Path(Client) /\ Path(Server)' = Path(Server) /\ chan[Server][i] = "OPEN"
      <4>1. chan[Server][i] = "OPEN" /\ Q = <<>> /\ Path(Server) \in Seq(Frame)
        BY <1>1, <2>4, ChannelStates, PathTypes, TwoEnds
      <4>2. Path(Server) \o Q = Path(Server)
        BY <4>1
      <4> QED
        BY <1>3, <2>4, <4>1, <4>2, TwoEnds
    <3>2. chan'[Client][i] = chan[Client][i] /\ chan'[Server][i] = chan[Server][i]
      BY <1>2, <2>4, <3>1, TwoEnds
    <3> QED
      BY <1>1, <1>4, <2>1, <2>4, <3>1, <3>2, LifeKept DEF Grows
  <2> QED
    BY <2>2, <2>3, <2>4, TwoEnds
<1>8. ASSUME NEW k \in End, NEW j \in Id PROVE FlowOf(k, j)'
  <2>1. FlowOf(k, j) /\ Peer(k) \in End
    BY ChannelStates, TwoEnds
  <2>2. CASE k = e /\ j = i
    <3>1. /\ Path(e) \in Seq(Frame) /\ sent[e][i] \in 0..MaxMsgs
          /\ chan'[Peer(e)][i] = chan[Peer(e)][i]
      BY <1>1, <1>2, PathTypes, TwoEnds
    <3>2. Flow(i, Path(e), Transmits(e), Hears(Peer(e)), chan[e][i], chan[Peer(e)][i],
               sent[e][i], got[Peer(e)][i], Q)
      BY <2>1, <2>2 DEF FlowOf, Q
    <3>3. Flow(i, Path(e)', Transmits(e), Hears(Peer(e)), "OPEN", chan[Peer(e)][i],
               sent[e][i], got[Peer(e)][i], <<>>)
      BY <1>1, <1>3, <3>1, <3>2, FlowOpens
    <3> QED
      BY <1>2, <2>2, <3>1, <3>3, FlowThen
  <2>3. CASE ~(k = e /\ j = i)
    <3>1. /\ chan'[k][j] = chan[k][j] /\ chHeld'[k][j] = chHeld[k][j]
          /\ \/ chan'[Peer(k)][j] = chan[Peer(k)][j]
             \/ chan[Peer(k)][j] # "CLOSED"
      BY <1>2, <2>1, <2>3
    <3> QED
      BY <1>1, <1>4, <1>5, <2>1, <2>3, <3>1, FlowKept
  <2> QED
    BY <2>2, <2>3
<1> QED
  BY <1>7, <1>8 DEF Lives, Flows

LEMMA RunOpenStreams ==
    ASSUME SInv, NEW e \in End, RunOpen(e) PROVE Streams'
<1> DEFINE i == Head(micro[e]).id
<1>1. /\ TypeOK /\ RootFollows /\ Sockets /\ Openings /\ ChannelsTracked /\ OpensTracked
      /\ UNCHANGED <<ws, root, nextId, channels, emptyDue, lost, waiting, sent, got>>
      /\ micro[e] # <<>> /\ Head(micro[e]).kind \in {"open", "relay"}
      /\ micro' = [micro EXCEPT ![e] = Tail(@)] /\ micro[e] \in Seq(MicroTask)
  BY DEF SInv, Streams, IInv, RunOpen, TypeOK
<1>2. /\ Head(micro[e]) = micro[e][1] /\ 1 \in 1..Len(micro[e]) /\ Head(micro[e]) \in MicroTask
  BY <1>1
<1>3. i \in Id /\ (Head(micro[e]).kind = "open" => i \in channels[e])
  BY <1>1, <1>2, TaskTypes DEF OpensTracked
<1>4. CASE i \in channels[e] /\ OpenChannel(e, i)
  <2>1. chan[e][i] \in {"CONNECTING", "OPEN"}
    BY <1>1, <1>3, <1>4 DEF ChannelsTracked
  <2>2. Lives' /\ Flows'
    BY <1>1, <1>3, <1>4, <2>1, OpenChannelStreams
  <2>3. /\ chan'[e][i] = "OPEN"
        /\ \A k \in End, j \in Id : ~(k = e /\ j = i) => chan'[k][j] = chan[k][j]
        /\ \A k \in End : k # e => chan'[k] = chan[k]
    BY <1>1, <1>3, <1>4 DEF TypeOK, OpenChannel
  <2>4. Sockets'
    <3>1. /\ root[e] # "none"
          /\ \A k \in End : wire'[k] # wire[k] => k = e /\ root[e] = "OPEN"
          /\ \A k \in End : held'[k] # held[k] => k = e /\ root[e] = "CONNECTING"
      BY <1>1, <1>3, <1>4, <2>1, HoldIsData, RootSendPath DEF OpenChannel
    <3>2. \A k \in End : root[k] = "none" => held'[k] = held[k] /\ chan'[k] = chan[k]
      BY <2>3, <3>1
    <3> QED
      BY <1>1, <3>1, <3>2, SocketsKept
  <2>5. Openings'
    <3>1. CASE e = Client
      <4>1. micro'[Client] = Tail(micro[Client])
        BY <1>1, <3>1 DEF TypeOK
      <4>2. /\ \A j \in Id : chan'[Client][j] = "none" <=> chan[Client][j] = "none"
            /\ \A j \in Id : chan'[Client][j] = "CONNECTING" => chan[Client][j] = "CONNECTING" /\ j # i
        BY <1>3, <2>1, <2>3, <3>1
      <4> QED
        BY <1>1, <3>1, <4>1, <4>2, OpeningsAfterRun
    <3>2. CASE e # Client
      <4>1. micro'[Client] = micro[Client] /\ chan'[Client] = chan[Client]
        BY <1>1, <2>3, <3>2, TwoEnds DEF TypeOK
      <4> QED
        BY <1>1, <4>1, OpeningsAlone
    <3> QED
      BY <3>1, <3>2
  <2> QED
    BY <2>2, <2>4, <2>5 DEF Streams
<1>5. CASE i \notin channels[e] /\ UNCHANGED <<chan, chHeld, wire, held>>
  <2>1. Path(Client)' = Path(Client) /\ Path(Server)' = Path(Server)
    BY <1>1, <1>5 DEF Path
  <2>2. Lives' /\ Flows'
    BY <1>1, <1>5, <2>1, SameSockets, IdleStreams
  <2>3. Sockets'
    BY <1>1, <1>5 DEF Sockets
  <2>4. Openings'
    <3>1. CASE e = Client
      <4>1. micro'[Client] = Tail(micro[Client])
        BY <1>1, <3>1 DEF TypeOK
      <4>2. chan[Client][i] # "CONNECTING"
        BY <1>1, <1>3, <1>5, <3>1 DEF ChannelsTracked
      <4>3. /\ \A j \in Id : chan'[Client][j] = "none" <=> chan[Client][j] = "none"
            /\ \A j \in Id : chan'[Client][j] = "CONNECTING" => chan[Client][j] = "CONNECTING" /\ j # i
        BY <1>5, <4>2
      <4> QED
        BY <1>1, <3>1, <4>1, <4>3, OpeningsAfterRun
    <3>2. CASE e # Client
      <4>1. micro'[Client] = micro[Client] /\ chan'[Client] = chan[Client]
        BY <1>1, <1>5, <3>2, TwoEnds DEF TypeOK
      <4> QED
        BY <1>1, <4>1, OpeningsAlone
    <3> QED
      BY <3>1, <3>2
  <2> QED
    BY <2>2, <2>3, <2>4 DEF Streams
<1> QED
  BY <1>3, <1>4, <1>5 DEF RunOpen

-----------------------------------------------------------------------------
(* Frames arrive.                                                           *)

LEMMA RecvDataStreams ==
    ASSUME SInv, NEW e \in End, RecvData(e) PROVE Streams'
<1> DEFINE q == Peer(e)
           f == Head(Path(q))
           i == f.id
<1>1. /\ TypeOK /\ RootFollows /\ Sockets /\ Openings /\ ChannelsTracked
      /\ UNCHANGED <<ws, root, nextId, channels, chan, held, chHeld, micro, emptyDue,
                     lost, waiting, sent>>
      /\ wire' = Rest(e) /\ q \in End
  BY TwoEnds DEF SInv, Streams, IInv, RecvData
<1>2. /\ Path(q) # <<>> /\ f \in Frame /\ f.type = "RawData" /\ Path(q) = wire[q]
      /\ root[q] \notin {"none", "CONNECTING"} /\ Hears(e)
  BY Arrival DEF SInv, Streams, RecvData
<1>3. Path(q)' = Tail(Path(q)) /\ Path(e)' = Path(e) /\ wire'[e] = wire[e]
  BY <1>1, <1>2, Taken
<1>4. i \in Id /\ f.n \in Rank /\ f = Data(i, f.n)
  BY <1>2, FrameForms
<1>5. /\ got' = IF i \in channels[e] THEN [got EXCEPT ![e][i] = Append(@, f.n)] ELSE got
  BY <1>2 DEF RecvData
<1>6. /\ \A j \in Id : Quieter(j)
      /\ \A j : f # Create(j) /\ f # Close(j)
      /\ \A j : j # i => \A n : f # Data(j, n)
  BY <1>1, <1>4, SameSockets, FramesDiffer
<1> HIDE DEF q, f, i
<1>7. Lives'
  <2>1. SUFFICES ASSUME NEW j \in Id PROVE LifeOf(j)'
    BY DEF Lives
  <2>2. LifeOf(j)
    BY ChannelStates
  <2> QED
    BY <1>1, <1>2, <1>3, <1>6, <2>2, LifePassed DEF Grows, f, q
<1>8. Flows'
  <2>1. SUFFICES ASSUME NEW k \in End, NEW j \in Id PROVE FlowOf(k, j)'
    BY DEF Flows
  <2>2. FlowOf(k, j) /\ Peer(k) \in End
    BY ChannelStates, TwoEnds
  <2>3. \A d \in End, l \in Id : ~(d = e /\ l = i) => got'[d][l] = got[d][l]
    BY <1>1, <1>4, <1>5 DEF TypeOK
  <2>4. CASE k = e
    <3>1. got'[Peer(k)][j] = got[Peer(k)][j]
      BY <2>2, <2>3, <2>4, TwoEnds
    <3> QED
      BY <1>1, <1>3, <1>6, <2>2, <2>4, <3>1, FlowKept DEF Spares
  <2>5. CASE k = q /\ j # i
    <3>1. got'[Peer(k)][j] = got[Peer(k)][j]
      BY <2>2, <2>3, <2>5
    <3> QED
      BY <1>1, <1>2, <1>3, <1>6, <2>2, <2>5, <3>1, FlowPassed DEF f
  <2>6. CASE k = q /\ j = i /\ i \in channels[e]
    <3>1. /\ chan[e][i] # "CLOSED" /\ Peer(q) = e
          /\ Path(q) \in Seq(Frame) /\ sent[q][i] \in 0..MaxMsgs /\ got[e][i] \in Seq(Rank)
      BY <1>1, <1>4, <2>6, TwoEnds, PathTypes DEF ChannelsTracked, q
    <3>2. Flow(i, Path(q), Transmits(q), Hears(e), chan[q][i], chan[e][i],
               sent[q][i], got[e][i], chHeld[q][i])
      BY <2>2, <2>6, <3>1 DEF FlowOf
    <3>3. Flow(i, Tail(Path(q)), Transmits(q), Hears(e), chan[q][i], chan[e][i],
               sent[q][i], Append(got[e][i], f.n), chHeld[q][i])
      BY <1>2, <1>4, <3>1, <3>2, FlowDelivers DEF f
    <3>4. got'[e][i] = Append(got[e][i], f.n)
      BY <1>1, <1>4, <1>5, <2>6 DEF TypeOK
    <3>5. Flow(i, Path(q)', Transmits(q), Hears(Peer(q)), chan'[q][i], chan'[Peer(q)][i],
               sent'[q][i], got'[Peer(q)][i], chHeld'[q][i])
      BY <1>1, <1>3, <3>1, <3>3, <3>4
    <3> QED
      BY <1>1, <2>6, <3>5, FlowThen
  <2>7. CASE k = q /\ j = i /\ i \notin channels[e]
    <3>1. chan[e][i] \in {"none", "CLOSED"} /\ Peer(q) = e
      BY <1>1, <1>4, <2>7, ChannelStates, TwoEnds DEF ChannelsTracked, q
    <3>2. got' = got
      BY <1>5, <2>7
    <3>3. CASE chan[e][i] = "CLOSED"
      BY <1>1, <1>2, <1>3, <1>6, <2>2, <2>7, <3>1, <3>2, <3>3, FlowPassed
    <3>4. CASE chan[e][i] = "none" /\ e = Client
      <4>1. chan[Server][i] = "none" /\ q = Server
        BY <1>4, <3>4, ChannelStates, TwoEnds DEF q
      <4>2. ~Has(Path(q), Data(i, f.n))
        BY <1>4, <2>2, <2>7, <4>1 DEF FlowOf, Flow
      <4>3. Path(q) \in Seq(Frame)
        BY <1>1, PathTypes
      <4>4. Has(Path(q), f)
        BY <1>2, <4>3, HasTail DEF f
      <4> QED
        BY <1>4, <4>2, <4>4
    <3>5. CASE chan[e][i] = "none" /\ e = Server
      <4>1. q = Client /\ Path(q) \in Seq(Frame)
        BY <1>1, <3>5, PathTypes, TwoEnds DEF q
      <4>2. After(Path(q), i)
        BY <1>2, <1>4, <3>5, <4>1, ChannelStates DEF LifeOf, Life
      <4>3. f # Data(i, f.n)
        BY <1>2, <1>4, <4>1, <4>2, AfterTail DEF f
      <4> QED
        BY <1>4, <4>3
    <3> QED
      BY <3>1, <3>3, <3>4, <3>5, TwoEnds
  <2> QED
    BY <2>4, <2>5, <2>6, <2>7, TwoEnds DEF q
<1>9. Sockets'
  <2>1. \A d \in End : root[d] \in {"none", "CONNECTING"} => wire'[d] = wire[d]
    BY <1>2, <1>3, TwoEnds DEF q
  <2> QED
    BY <1>1, <2>1, SocketsKept
<1>10. Openings'
  <2>1. Openings /\ chan' = chan /\ root' = root /\ nextId' = nextId /\ micro' = micro
    BY <1>1
  <2> QED
    BY <2>1 DEF Openings
<1> QED
  BY <1>7, <1>8, <1>9, <1>10 DEF Streams

LEMMA RecvCloseStreams ==
    ASSUME SInv, NEW e \in End, RecvClose(e) PROVE Streams'
<1> DEFINE q == Peer(e)
           f == Head(Path(q))
           i == f.id
<1>1. /\ TypeOK /\ EmptyMeansUnused /\ RootFollows /\ Sockets /\ Openings /\ ChannelsTracked
      /\ UNCHANGED <<ws, root, nextId, held, chHeld, lost, waiting, sent, got>>
      /\ wire' = Rest(e) /\ q \in End
  BY TwoEnds DEF SInv, Streams, IInv, RecvClose
<1>2. /\ Path(q) # <<>> /\ f \in Frame /\ f.type = "CloseChannel" /\ Path(q) = wire[q]
      /\ root[q] \notin {"none", "CONNECTING"} /\ Hears(e) /\ root[e] = "OPEN"
  BY Arrival DEF SInv, Streams, RecvClose
<1>3. Path(q)' = Tail(Path(q)) /\ Path(e)' = Path(e) /\ wire'[e] = wire[e]
  BY <1>1, <1>2, Taken
<1>4. i \in Id /\ f = Close(i)
  BY <1>2, FrameForms
<1>5. IF i \in channels[e]
        THEN chan' = [chan EXCEPT ![e][i] = "CLOSED"] /\ Forget(e, {i})
        ELSE UNCHANGED <<chan, channels, emptyDue, micro>>
  BY <1>2 DEF RecvClose
<1>6. /\ \A j \in Id : Quieter(j)
      /\ \A j : f # Create(j) /\ \A n : f # Data(j, n)
      /\ \A j : j # i => f # Close(j)
  BY <1>1, <1>4, SameSockets, FramesDiffer
<1> HIDE DEF q, f, i
<1>7. /\ \A j \in Id : chan'[e][j] = IF f = Close(j) /\ chan[e][j] \in {"CONNECTING", "OPEN"}
                                     THEN "CLOSED" ELSE chan[e][j]
      /\ \A k \in End : k # e => chan'[k] = chan[k]
  <2>1. i \in channels[e] <=> chan[e][i] \in {"CONNECTING", "OPEN"}
    BY <1>1, <1>4 DEF ChannelsTracked
  <2>2. CASE i \in channels[e]
    BY SMTT(30), <1>1, <1>4, <1>5, <1>6, <2>1, <2>2 DEF TypeOK
  <2>3. CASE i \notin channels[e]
    BY <1>4, <1>5, <1>6, <2>1, <2>3
  <2> QED
    BY <2>2, <2>3
<1>8. Lives'
  <2>1. SUFFICES ASSUME NEW j \in Id PROVE LifeOf(j)'
    BY DEF Lives
  <2>2. LifeOf(j) /\ chan'[q][j] = chan[q][j]
    BY <1>7, ChannelStates, TwoEnds DEF q
  <2> QED
    BY <1>1, <1>2, <1>3, <1>6, <1>7, <2>2, LifePassed DEF Grows, f, q
<1>9. Flows'
  <2>1. SUFFICES ASSUME NEW k \in End, NEW j \in Id PROVE FlowOf(k, j)'
    BY DEF Flows
  <2>2. FlowOf(k, j) /\ Peer(k) \in End
    BY ChannelStates, TwoEnds
  <2>3. /\ chan'[k][j] = chan[k][j] \/ chan'[k][j] = "CLOSED"
        /\ chan'[Peer(k)][j] = chan[Peer(k)][j] \/ chan'[Peer(k)][j] = "CLOSED"
    BY <1>7, <2>2
  <2>4. CASE k = e
    BY <1>1, <1>3, <1>6, <2>2, <2>3, <2>4, FlowKept DEF Spares
  <2>5. CASE k = q
    BY <1>1, <1>2, <1>3, <1>6, <2>2, <2>3, <2>5, FlowPassed DEF f
  <2> QED
    BY <2>4, <2>5, TwoEnds DEF q
<1>10. Sockets'
  <2>1. \A d \in End : root[d] \in {"none", "CONNECTING"} => wire'[d] = wire[d]
    BY <1>2, <1>3, TwoEnds DEF q
  <2>2. \A d \in End : root[d] = "none" => chan'[d] = chan[d]
    BY <1>2, <1>7
  <2> QED
    BY <1>1, <2>1, <2>2, SocketsKept
<1>11. Openings'
  <2>1. micro'[Client] = micro[Client] \/ micro'[Client] = Append(micro[Client], EmptyTask)
    BY <1>1, <1>4, <1>5, ForgetKeeps, TwoEnds
  <2>2. /\ \A j \in Id : chan'[Client][j] = chan[Client][j] \/ chan'[Client][j] = "CLOSED"
        /\ \A j \in Id : chan[Client][j] = "none" => chan'[Client][j] = "none"
    BY <1>7, TwoEnds
  <2> QED
    BY <1>1, <2>1, <2>2, OpeningsKept
<1> QED
  BY <1>8, <1>9, <1>10, <1>11 DEF Streams

LEMMA RecvWsCloseStreams == ASSUME SInv, RecvWsClose PROVE Streams'
<1> DEFINE f == Head(Path(Client))
<1>1. /\ TypeOK /\ RootFollows /\ Sockets /\ Openings
      /\ UNCHANGED <<root, nextId, channels, chan, held, chHeld, micro, emptyDue,
                     lost, waiting, sent, got>>
      /\ wire' = [Rest(Server) EXCEPT ![Server] = OnWire(Server, <<WsClose>>)]
      /\ WsClose \in Frame
  BY FrameTypes DEF SInv, Streams, IInv, RecvWsClose
<1>2. /\ Path(Client) # <<>> /\ f \in Frame /\ f.type = "wsClose" /\ Path(Client) = wire[Client]
      /\ root[Client] \notin {"none", "CONNECTING"} /\ Hears(Server) /\ root[Server] = "OPEN"
  BY Arrival, TwoEnds DEF SInv, Streams, RecvWsClose
<1>3. /\ ws[Server] \in {"OPEN", "CLOSING"} /\ ws'[Server] = "CLOSING" /\ ws'[Client] = ws[Client]
      /\ wire'[Client] = Tail(wire[Client])
      /\ wire'[Server] = wire[Server] \/ wire'[Server] = wire[Server] \o One(WsClose)
  BY <1>1, TwoEnds DEF TypeOK, RecvWsClose, Arrives, Rest, OnWire, One
<1>4. /\ Path(Client)' = Tail(Path(Client))
      /\ Path(Server)' = Path(Server) \/ Path(Server)' = Path(Server) \o One(WsClose)
  BY <1>1, <1>2, <1>3 DEF Path
<1>5. f = WsClose
  BY <1>2, FrameForms
<1>6. /\ \A j : f # Create(j) /\ f # Close(j) /\ \A n : f # Data(j, n)
      /\ \A j : Grows(Path(Server), Path(Server)', j) /\ Spares(Path(Server), Path(Server)', j)
  BY <1>1, <1>4, <1>5, FramesDiffer, FrameGrows
<1>7. ASSUME NEW j \in Id PROVE Quieter(j)
  BY <1>1, <1>3, TwoEnds DEF Quieter, Transmits, Hears
<1> HIDE DEF f
<1>8. Lives'
  <2>1. SUFFICES ASSUME NEW j \in Id PROVE LifeOf(j)'
    BY DEF Lives
  <2>2. LifeOf(j) /\ chan' = chan
    BY <1>1, ChannelStates
  <2> QED
    BY <1>1, <1>2, <1>4, <1>6, <1>7, <2>2, LifePassed, TwoEnds DEF f
<1>9. Flows'
  <2>1. SUFFICES ASSUME NEW k \in End, NEW j \in Id PROVE FlowOf(k, j)'
    BY DEF Flows
  <2>2. FlowOf(k, j) /\ Quieter(j)
    BY <1>7, ChannelStates
  <2>3. CASE k = Server
    BY <1>1, <1>6, <2>2, <2>3, FlowKept
  <2>4. CASE k = Client
    BY <1>1, <1>2, <1>4, <1>6, <2>2, <2>4, FlowPassed DEF f
  <2> QED
    BY <2>3, <2>4, TwoEnds
<1>10. Sockets'
  <2>1. \A d \in End : root[d] \notin {"none", "CONNECTING"}
    BY <1>2, TwoEnds
  <2>2. \A d \in End : ws'[d] = ws[d] \/ ws'[d] = "CLOSING"
    BY <1>3, TwoEnds
  <2> QED
    BY <1>1, <2>1, <2>2, SocketsKept
<1>11. Openings'
  <2>1. Openings /\ chan' = chan /\ root' = root /\ nextId' = nextId /\ micro' = micro
    BY <1>1
  <2> QED
    BY <2>1 DEF Openings
<1> QED
  BY <1>8, <1>9, <1>10, <1>11 DEF Streams

LEMMA DropFrameStreams == ASSUME SInv, DropFrame PROVE Streams'
<1>1. /\ TypeOK /\ Sockets /\ Openings
      /\ UNCHANGED <<ws, root, nextId, channels, chan, held, chHeld, micro, emptyDue,
                     lost, waiting, sent, got>>
      /\ wire' = Rest(Client) /\ wire[Server] # <<>> /\ ws[Client] = "CLOSING"
  BY DEF SInv, Streams, IInv, DropFrame
<1>2. /\ root[Server] \notin {"none", "CONNECTING"} /\ Path(Server) = wire[Server]
      /\ ~Hears(Client)
  BY <1>1, TwoEnds DEF Sockets, Path, Hears
<1>3. /\ Path(Server)' = Tail(Path(Server)) /\ Path(Client)' = Path(Client)
      /\ wire'[Client] = wire[Client] /\ Path(Server) # <<>>
  BY <1>1, <1>2, Taken, TwoEnds
<1>4. \A j \in Id : Quieter(j)
  BY <1>1, SameSockets
<1>5. \A j \in Id : Head(Path(Server)) # Create(j)
  <2>1. SUFFICES ASSUME NEW j \in Id PROVE Head(Path(Server)) # Create(j)
    OBVIOUS
  <2>2. ~Has(Path(Server), Create(j)) /\ Path(Server) \in Seq(Frame)
    BY <1>1, ChannelStates, PathTypes, TwoEnds
  <2> QED
    BY <1>3, <2>2, HasTail
<1>6. Lives'
  <2>1. SUFFICES ASSUME NEW j \in Id PROVE LifeOf(j)'
    BY DEF Lives
  <2>2. LifeOf(j) /\ chan' = chan
    BY <1>1, ChannelStates
  <2> QED
    BY <1>1, <1>2, <1>3, <1>4, <1>5, <2>2, LifePassed, TwoEnds DEF Grows
<1>7. Flows'
  <2>1. SUFFICES ASSUME NEW k \in End, NEW j \in Id PROVE FlowOf(k, j)'
    BY DEF Flows
  <2>2. FlowOf(k, j) /\ Quieter(j)
    BY <1>4, ChannelStates
  <2>3. CASE k = Client
    BY <1>1, <1>3, <2>2, <2>3, FlowKept DEF Spares
  <2>4. CASE k = Server
    BY <1>1, <1>2, <1>3, <2>2, <2>4, FlowPassed, TwoEnds
  <2> QED
    BY <2>3, <2>4, TwoEnds
<1>8. Sockets'
  <2>1. \A d \in End : root[d] \in {"none", "CONNECTING"} => wire'[d] = wire[d]
    BY <1>2, <1>3, TwoEnds
  <2> QED
    BY <1>1, <2>1, SocketsKept
<1>9. Openings'
  <2>1. Openings /\ chan' = chan /\ root' = root /\ nextId' = nextId /\ micro' = micro
    BY <1>1
  <2> QED
    BY <2>1 DEF Openings
<1> QED
  BY <1>6, <1>7, <1>8, <1>9 DEF Streams

LEMMA RecvCreateStreams ==
    ASSUME SInv, NEW e \in End, RecvCreate(e)
    PROVE  /\ Streams' /\ e = Server
           /\ chan[Server][Head(wire[Client]).id] = "none"
           /\ chan[Client][Head(wire[Client]).id] # "none"
<1> DEFINE f == Head(Path(Peer(e)))
           i == f.id
<1>1. /\ TypeOK /\ RootFollows /\ Sockets /\ Openings
      /\ UNCHANGED <<ws, root, held, chHeld, lost, waiting, sent, got>>
  BY DEF SInv, Streams, IInv, RecvCreate
<1>2. /\ Path(Peer(e)) # <<>> /\ f \in Frame /\ f.type = "CreateChannel"
      /\ Path(Peer(e)) = wire[Peer(e)]
      /\ root[Peer(e)] \notin {"none", "CONNECTING"} /\ Hears(e) /\ root[e] = "OPEN"
  BY Arrival DEF SInv, Streams, RecvCreate
<1>3. i \in Id /\ f = Create(i)
  BY <1>2, FrameForms
<1>4. e = Server
  <2>1. SUFFICES ASSUME e = Client PROVE FALSE
    BY TwoEnds
  <2>2. ~Has(Path(Server), Create(i)) /\ Path(Server) \in Seq(Frame)
    BY <1>1, <1>3, ChannelStates, PathTypes, TwoEnds
  <2>3. Path(Server) # <<>> /\ Head(Path(Server)) = Create(i)
    BY <1>2, <1>3, <2>1, TwoEnds
  <2> QED
    BY <2>2, <2>3, HasTail
<1>5. /\ Path(Client) # <<>> /\ Head(Path(Client)) = Create(i) /\ Path(Client) = wire[Client]
      /\ root[Client] \notin {"none", "CONNECTING"} /\ Hears(Server) /\ root[Server] = "OPEN"
      /\ i = Head(wire[Client]).id
  BY <1>2, <1>3, <1>4, TwoEnds
<1> HIDE DEF f, i
<1>6. chan[Server][i] = "none" /\ chan[Client][i] # "none"
  <2>1. Has(Path(Client), Create(i))
    BY <1>1, <1>5, HasTail, PathTypes, TwoEnds
  <2> QED
    BY <1>3, <2>1, ChannelStates DEF LifeOf, Life
<1>7. /\ wire'[Client] = Tail(wire[Client])
      /\ \/ chan' = [chan EXCEPT ![Server][i] = "OPEN"] /\ wire'[Server] = wire[Server]
         \/ /\ chan' = [chan EXCEPT ![Server][i] = "CLOSED"]
            /\ wire'[Server] = OnWire(Server, One(Close(i)))
      /\ micro'[Client] = micro[Client] /\ nextId'[Client] = nextId[Client]
  <2>1. \/ wire' = Rest(Server) /\ chan' = [chan EXCEPT ![Server][i] = "OPEN"] /\ UNCHANGED micro
        \/ /\ chan' = [chan EXCEPT ![Server][i] = "CLOSED"]
           /\ wire' = [Rest(Server) EXCEPT ![Server] = OnWire(Server, One(Close(i)))]
           /\ micro' = micro \/ micro' = [micro EXCEPT ![Server] = Append(@, EmptyTask)]
    BY <1>4, <1>5, TwoEnds DEF RecvCreate, One
  <2>2. nextId'[Client] = nextId[Client]
    BY <1>1, <1>4, TwoEnds DEF RecvCreate, TypeOK
  <2>3. Rest(Server) \in [End -> Seq(Frame)] /\ Rest(Server)[Client] = Tail(wire[Client])
        /\ Rest(Server)[Server] = wire[Server]
    <3>1. Rest(Server) \in [End -> Seq(Frame)]
      BY <1>1, <1>4, ArrivesTypes DEF RecvCreate
    <3> QED
      BY <1>1, <3>1, TwoEnds DEF Rest, TypeOK
  <2>4. micro'[Client] = micro[Client]
    BY <1>1, <2>1, TwoEnds DEF TypeOK
  <2> QED
    BY <2>1, <2>2, <2>3, <2>4, TwoEnds
<1>8. /\ chan'[Client] = chan[Client]
      /\ \A j \in Id : j # i => chan'[Server][j] = chan[Server][j]
      /\ chan'[Server][i] \in {"OPEN", "CLOSED"}
  <2>1. \/ chan' = [chan EXCEPT ![Server][i] = "OPEN"]
        \/ chan' = [chan EXCEPT ![Server][i] = "CLOSED"]
    BY <1>7
  <2>2. chan \in [End -> [Id -> ReadyState \cup {"none"}]]
    BY <1>1 DEF TypeOK
  <2> QED
    BY <1>3, <2>1, <2>2, TwoEnds
<1>9. /\ Path(Client)' = Tail(Path(Client))
      /\ \/ chan'[Server][i] = "OPEN" /\ Path(Server)' = Path(Server)
         \/ /\ chan'[Server][i] = "CLOSED"
            /\ \/ Path(Server)' = Path(Server) \o One(Close(i))
               \/ Path(Server)' = Path(Server) /\ ~Transmits(Server)
  <2>1. chan \in [End -> [Id -> ReadyState \cup {"none"}]]
    BY <1>1 DEF TypeOK
  <2>2. \/ chan'[Server][i] = "OPEN" /\ wire'[Server] = wire[Server]
        \/ chan'[Server][i] = "CLOSED" /\ wire'[Server] = OnWire(Server, One(Close(i)))
    BY <1>3, <1>7, <2>1, TwoEnds
  <2>3. /\ Path(Client)' = wire'[Client] /\ Path(Server)' = wire'[Server]
        /\ Path(Server) = wire[Server]
    BY <1>1, <1>5 DEF Path
  <2>4. OnWire(Server, One(Close(i))) = IF Transmits(Server) THEN Path(Server) \o One(Close(i))
                                        ELSE Path(Server)
    BY <1>5, <2>3 DEF OnWire, Transmits
  <2> QED
    BY <1>5, <1>7, <2>2, <2>3, <2>4
<1>10. /\ \A j \in Id : Quieter(j)
       /\ \A j : \A n : Create(i) # Data(j, n)
       /\ \A j : j # i => Create(i) # Create(j)
       /\ \A j : Spares(Path(Server), Path(Server)', j)
       /\ \A j : j # i => Grows(Path(Server), Path(Server)', j)
  <2>1. Close(i) \in Frame
    BY <1>3, FrameTypes
  <2> QED
    BY <1>1, <1>9, <2>1, SameSockets, FramesDiffer, FrameGrows
<1>11. Lives'
  <2>1. SUFFICES ASSUME NEW j \in Id PROVE LifeOf(j)'
    BY DEF Lives
  <2>2. LifeOf(j)
    BY ChannelStates
  <2>3. CASE j = i
    <3>1. /\ Path(Client) \in Seq(Frame) /\ Path(Server) \in Seq(Frame) /\ Close(i) \in Frame
      BY <1>1, <1>3, PathTypes, TwoEnds, FrameTypes
    <3>2. Life(i, Path(Client), Path(Server), chan[Client][i], chan[Server][i],
               Transmits(Client), Transmits(Server), Hears(Client), Hears(Server))
      BY <2>2, <2>3 DEF LifeOf
    <3>3. Life(i, Tail(Path(Client)), Path(Server)', chan[Client][i], chan'[Server][i],
               Transmits(Client), Transmits(Server), Hears(Client), Hears(Server))
      BY <1>5, <1>9, <3>1, <3>2, LifeAnswered
    <3>4. Path(Client)' = Tail(Path(Client)) /\ chan'[Client][i] = chan[Client][i]
      BY <1>8, <1>9
    <3> QED
      BY <1>1, <1>3, <2>3, <3>3, <3>4, LifeThen
  <2>4. CASE j # i
    <3>1. /\ chan'[Client][j] = chan[Client][j] /\ chan'[Server][j] = chan[Server][j]
          /\ Head(Path(Client)) # Close(j) /\ Head(Path(Client)) # Create(j)
      BY <1>5, <1>8, <1>10, <2>4, FramesDiffer
    <3> QED
      BY <1>1, <1>5, <1>9, <1>10, <2>2, <2>4, <3>1, LifePassed, TwoEnds
  <2> QED
    BY <2>3, <2>4
<1>12. Flows'
  <2>1. SUFFICES ASSUME NEW k \in End, NEW j \in Id PROVE FlowOf(k, j)'
    BY DEF Flows
  <2>2. FlowOf(k, j) /\ Quieter(j)
    BY <1>10, ChannelStates
  <2>3. /\ chan'[Client][j] = chan[Client][j]
        /\ \/ chan'[Server][j] = chan[Server][j]
           \/ chan[Server][j] = "none" /\ chan'[Server][j] \in {"OPEN", "CLOSED"}
    BY <1>6, <1>8
  <2>4. CASE k = Server
    <3>1. Spares(Path(Server), Path(Server)', j)
      BY <1>10
    <3>2. \/ chan'[Server][j] = chan[Server][j] \/ chan'[Server][j] = "CLOSED"
          \/ chan[Server][j] = "none" /\ chan'[Server][j] \in {"CONNECTING", "OPEN"}
      BY <2>3
    <3> QED
      BY <1>1, <2>2, <2>3, <2>4, <3>1, <3>2, FlowKept, TwoEnds
  <2>5. CASE k = Client
    <3>1. \A n \in Rank : Head(Path(Client)) # Data(j, n)
      BY <1>5, <1>10
    <3> QED
      BY <1>1, <1>5, <1>9, <2>2, <2>3, <2>5, <3>1, FlowPassed, TwoEnds
  <2> QED
    BY <2>4, <2>5, TwoEnds
<1>13. Sockets'
  <2>1. \A d \in End : root[d] \notin {"none", "CONNECTING"}
    BY <1>5, TwoEnds
  <2> QED
    BY <1>1, <2>1, SocketsKept
<1>14. Openings'
  <2>1. Openings /\ chan'[Client] = chan[Client] /\ root' = root /\ nextId'[Client] = nextId[Client]
        /\ micro'[Client] = micro[Client]
    BY <1>1, <1>7, <1>8
  <2> QED
    BY <2>1 DEF Openings
<1> QED
  BY <1>4, <1>5, <1>6, <1>11, <1>12, <1>13, <1>14 DEF Streams

\* The socket of an end closes.
LEMMA SocketCloseStreams ==
    ASSUME SInv, NEW e \in End, SocketClose(e) PROVE Streams'
<1>1. /\ TypeOK /\ EmptyMeansUnused /\ ChannelsTracked /\ Sockets /\ Openings
      /\ UNCHANGED <<nextId, held, chHeld, lost, waiting, sent, got>>
      /\ ws[e] \in {"CONNECTING", "OPEN", "CLOSING"} /\ Forget(e, channels[e])
      /\ Peer(e) \in End /\ Peer(e) # e
  BY TwoEnds DEF SInv, Streams, IInv, SocketClose
<1>2. /\ ws'[e] = "CLOSED" /\ ws'[Peer(e)] = ws[Peer(e)]
      /\ root'[e] = "CLOSED" /\ root'[Peer(e)] = root[Peer(e)]
      /\ wire'[e] = wire[e] /\ wire'[Peer(e)] = <<>>
  BY <1>1 DEF TypeOK, SocketClose
<1>3. /\ \A k \in End : k # e => chan'[k] = chan[k]
      /\ \A j \in Id : IF chan[e][j] \in {"CONNECTING", "OPEN"} THEN chan'[e][j] = "CLOSED"
                      ELSE chan'[e][j] = chan[e][j]
  <2>1. /\ chan' = [chan EXCEPT ![e] = [j \in Id |-> IF j \in channels[e] THEN "CLOSED" ELSE @[j]]]
        /\ chan \in [End -> [Id -> ReadyState \cup {"none"}]]
    BY <1>1 DEF TypeOK, SocketClose
  <2>2. \A k \in End : k # e => chan'[k] = chan[k]
    BY <2>1
  <2>3. \A j \in Id : chan'[e][j] = IF j \in channels[e] THEN "CLOSED" ELSE chan[e][j]
    BY <2>1
  <2> QED
    BY <1>1, <2>2, <2>3 DEF ChannelsTracked
<1>4. /\ Path(e)' \in {Path(e), <<>>}
      /\ Path(Peer(e))' \in {Path(Peer(e)), <<>>}
      /\ e = Client => Path(Peer(e))' = <<>>
      /\ e = Server => Path(e)' = Path(e)
  <2>1. Path(e)' = wire[e]
    BY <1>2 DEF Path
  <2>2. root[e] = "CONNECTING" => wire[e] = <<>> /\ e = Client
    BY <1>1 DEF Sockets
  <2>3. Path(Peer(e))' = IF root[Peer(e)] = "CONNECTING" THEN held[Peer(e)] ELSE <<>>
    BY <1>1, <1>2 DEF Path
  <2>4. root[Peer(e)] = "CONNECTING" => Peer(e) = Client
    BY <1>1 DEF Sockets
  <2> QED
    BY <2>1, <2>2, <2>3, <2>4, TwoEnds DEF Path
<1>5. /\ ~Transmits(e)' /\ ~Hears(e)'
      /\ Transmits(Peer(e))' <=> Transmits(Peer(e))
      /\ Hears(Peer(e))' <=> Hears(Peer(e))
  BY <1>1, <1>2 DEF Transmits, Hears
<1>6. Lives'
  <2>1. SUFFICES ASSUME NEW i \in Id PROVE LifeOf(i)'
    BY DEF Lives
  <2>2. Life(i, Path(Client), Path(Server), chan[Client][i], chan[Server][i],
             Transmits(Client), Transmits(Server), Hears(Client), Hears(Server))
    BY ChannelStates DEF LifeOf
  <2>3. CASE e = Client
    <3>1. /\ Path(Client)' = Path(Client) \/ Path(Client)' = <<>>
          /\ Path(Server)' = <<>>
          /\ chan'[Server][i] = chan[Server][i]
          /\ \/ chan'[Client][i] = chan[Client][i]
             \/ chan[Client][i] \in {"CONNECTING", "OPEN"} /\ chan'[Client][i] = "CLOSED"
      BY <1>3, <1>4, <2>3, TwoEnds
    <3>2. /\ ~Transmits(Client)' /\ ~Hears(Client)'
          /\ Transmits(Server)' => Transmits(Server)
          /\ Hears(Server)' => Hears(Server)
      BY <1>5, <2>3, TwoEnds
    <3>3. Life(i, Path(Client)', Path(Server)', chan'[Client][i], chan'[Server][i],
               Transmits(Client)', Transmits(Server)', Hears(Client)', Hears(Server)')
      BY <2>2, <3>1, <3>2, LifeGoneHere
    <3> QED
      BY <3>3 DEF LifeOf
  <2>4. CASE e = Server
    <3>1. /\ Path(Client)' = Path(Client) \/ Path(Client)' = <<>>
          /\ Path(Server)' = Path(Server)
          /\ chan'[Client][i] = chan[Client][i]
          /\ \/ chan'[Server][i] = chan[Server][i]
             \/ chan[Server][i] = "OPEN" /\ chan'[Server][i] = "CLOSED"
      BY <1>3, <1>4, <2>4, TwoEnds, ChannelStates
    <3>2. /\ ~Transmits(Server)' /\ ~Hears(Server)'
          /\ Transmits(Client)' => Transmits(Client)
          /\ Hears(Client)' => Hears(Client)
      BY <1>5, <2>4, TwoEnds
    <3>3. Life(i, Path(Client)', Path(Server)', chan'[Client][i], chan'[Server][i],
               Transmits(Client)', Transmits(Server)', Hears(Client)', Hears(Server)')
      BY <2>2, <3>1, <3>2, LifeGoneThere
    <3> QED
      BY <3>3 DEF LifeOf
  <2> QED
    BY <2>3, <2>4, TwoEnds
<1>7. Flows'
  <2>1. SUFFICES ASSUME NEW k \in End, NEW i \in Id PROVE FlowOf(k, i)'
    BY DEF Flows
  <2>2. Flow(i, Path(k), Transmits(k), Hears(Peer(k)), chan[k][i], chan[Peer(k)][i],
             sent[k][i], got[Peer(k)][i], chHeld[k][i])
    BY ChannelStates DEF FlowOf
  <2>3. /\ Transmits(k)' => Transmits(k)
        /\ Hears(Peer(k))' => Hears(Peer(k))
        /\ ~Transmits(k)' \/ ~Hears(Peer(k))'
    BY <1>5, TwoEnds
  <2>4. /\ chan'[k][i] = chan[k][i] \/ chan'[k][i] = "CLOSED"
        /\ chan'[Peer(k)][i] = chan[Peer(k)][i] \/ chan'[Peer(k)][i] = "CLOSED"
    BY <1>3, TwoEnds
  <2>5. Flow(i, Path(k), Transmits(k)', Hears(Peer(k))', chan'[k][i], chan'[Peer(k)][i],
             sent[k][i], got[Peer(k)][i], chHeld[k][i])
    BY <2>2, <2>3, <2>4, FlowRests
  <2>6. Path(k)' \in {Path(k), <<>>} /\ Peer(k)' = Peer(k)
    BY <1>4, TwoEnds DEF Peer
  <2>7. Flow(i, Path(k)', Transmits(k)', Hears(Peer(k))', chan'[k][i], chan'[Peer(k)][i],
             sent[k][i], got[Peer(k)][i], chHeld[k][i])
    BY <2>3, <2>5, <2>6, FlowGone
  <2> QED
    BY <1>1, <2>6, <2>7 DEF FlowOf
<1>8. Sockets'
  BY <1>1, <1>2, <1>3, TwoEnds DEF Sockets
<1>9. Openings'
  <2>1. micro'[Client] = micro[Client] \/ micro'[Client] = Append(micro[Client], EmptyTask)
    <3>1. channels[e] \in SUBSET Id
      BY <1>1 DEF TypeOK
    <3> QED
      BY <1>1, <3>1, ForgetKeeps, TwoEnds
  <2>2. /\ \A j \in Id : chan'[Client][j] = chan[Client][j] \/ chan'[Client][j] = "CLOSED"
        /\ \A j \in Id : chan[Client][j] = "none" => chan'[Client][j] = "none"
    BY <1>3, TwoEnds
  <2>3. root'[Client] = "OPEN" => root[Client] = "OPEN"
    BY <1>2, TwoEnds
  <2> QED
    BY <1>1, <2>1, <2>2, <2>3, OpeningsKept
<1> QED
  BY <1>6, <1>7, <1>8, <1>9 DEF Streams

-----------------------------------------------------------------------------
LEMMA InitSInv == Init => SInv
<1> SUFFICES ASSUME Init PROVE SInv
  OBVIOUS
<1>1. IInv
  BY InitIInv
<1>2. /\ \A e \in End : ws[e] = "none" /\ root[e] = "none" /\ wire[e] = <<>> /\ held[e] = <<>>
      /\ \A e \in End, i \in Id : /\ chan[e][i] = "none" /\ chHeld[e][i] = <<>>
                                  /\ sent[e][i] = 0 /\ got[e][i] = <<>>
  BY DEF Init
<1>3. Sockets /\ Openings
  BY <1>2, TwoEnds DEF Sockets, Openings
<1>4. \A e \in End : Path(e) = <<>>
  BY <1>2 DEF Path
<1>5. \A f : ~Has(<<>>, f) /\ Once(<<>>, f)
  BY DEF Has, Once
<1>6. \A i : After(<<>>, i) /\ Ordered(<<>>, i)
  BY DEF After, Ordered
<1>7. ASSUME NEW i \in Id PROVE LifeOf(i)
  BY <1>2, <1>4, <1>5, <1>6, TwoEnds DEF LifeOf, Life
<1>8. ASSUME NEW e \in End, NEW i \in Id PROVE FlowOf(e, i)
  <2>1. <<>> = [k \in 1..0 |-> Data(i, k)] /\ Len(<<>>) = 0
    OBVIOUS
  <2> QED
    BY <1>2, <1>4, <1>5, <1>6, <2>1, TwoEnds DEF FlowOf, Flow
<1> QED
  BY <1>1, <1>3, <1>7, <1>8 DEF SInv, Streams, Lives, Flows

LEMMA StepSInv == SInv /\ [Next]_vars => SInv'
<1> SUFFICES ASSUME SInv, [Next]_vars PROVE Streams'
  BY StepIInv DEF SInv
<1>1. CASE Connect
  BY <1>1, ConnectStreams
<1>2. ASSUME NEW m \in Modals, ConnectModal(m) PROVE Streams'
  BY <1>2, ConnectModalStreams
<1>3. CASE OpenOnCached \/ \E m \in Modals : ModalOnCached(m) \/ ModalCreates(m)
  BY <1>3, OpenersStreams
<1>4. ASSUME NEW e \in End, NEW i \in Id, Send(e, i) \/ CloseByApp(e, i) PROVE Streams'
  BY <1>4, SendStreams, CloseByAppStreams
<1>5. ASSUME NEW e \in End, RunOpen(e) \/ RunEmpty(e) PROVE Streams'
  BY <1>5, RunOpenStreams, RunEmptyStreams
<1>6. ASSUME NEW e \in End,
             RecvCreate(e) \/ RecvData(e) \/ RecvClose(e) \/ SocketClose(e)
      PROVE  Streams'
  BY <1>6, RecvCreateStreams, RecvDataStreams, RecvCloseStreams, SocketCloseStreams
<1>7. CASE Accept \/ SocketOpen
  BY <1>7, AcceptStreams, SocketOpenStreams
<1>8. CASE RecvWsClose \/ DropFrame \/ Lose
  BY <1>8, RecvWsCloseStreams, DropFrameStreams, LoseStreams
<1>9. CASE UNCHANGED vars
  <2>1. Path(Client)' = Path(Client) /\ Path(Server)' = Path(Server)
    BY <1>9 DEF vars, Path
  <2>2. UNCHANGED <<ws, root, lost, chan, chHeld, sent, got>>
    BY <1>9 DEF vars
  <2>3. Lives' /\ Flows'
    BY <2>1, <2>2, SameSockets, IdleStreams
  <2>4. Sockets' /\ Openings'
    BY <1>9 DEF vars, SInv, Streams, Sockets, Openings
  <2> QED
    BY <2>3, <2>4 DEF Streams
<1> QED
  BY <1>1, <1>2, <1>3, <1>4, <1>5, <1>6, <1>7, <1>8, <1>9 DEF Next

LEMMA SInvAlways == Spec => []SInv
  BY InitSInv, StepSInv, PTL DEF Spec

\* What a channel delivers is what its peer sent on it: in order, without a gap,
\* nothing twice and nothing of another channel.
THEOREM StreamsAlwaysIntact == Spec => []StreamsIntact
<1>1. SInv => StreamsIntact
  <2>1. SUFFICES ASSUME SInv, NEW e \in End, NEW i \in Id
                 PROVE  /\ Len(got[e][i]) <= sent[Peer(e)][i]
                        /\ \A k \in 1..Len(got[e][i]) : got[e][i][k] = k
    BY DEF StreamsIntact
  <2>2. FlowOf(Peer(e), i) /\ Peer(Peer(e)) = e
    BY <2>1, ChannelStates, TwoEnds
  <2> QED
    BY <2>2 DEF FlowOf, Flow
<1> QED
  BY <1>1, SInvAlways, PTL

\* When the connection is up and nothing is pending or on its way, the two ends
\* agree on which channels are open: nobody forgot to tell the other.
THEOREM QuiescentEndsAgree == Spec => []QuiescentAgreement
<1>1. SInv => QuiescentAgreement
  <2>1. SUFFICES ASSUME SInv, Settled, NEW i \in Id
                 PROVE  chan[Client][i] = "OPEN" <=> chan[Server][i] = "OPEN"
    BY DEF QuiescentAgreement
  <2>2. \A e \in End : /\ root[e] = "OPEN" /\ Path(e) = <<>> /\ micro[e] = <<>>
                       /\ Transmits(e) /\ Hears(e)
    BY <2>1 DEF Settled, SInv, IInv, RootFollows, Path, Transmits, Hears
  <2>3. Life(i, <<>>, <<>>, chan[Client][i], chan[Server][i], TRUE, TRUE, TRUE, TRUE)
    <3>1. LifeOf(i)
      BY <2>1, ChannelStates
    <3>2. /\ Path(Client) = <<>> /\ Path(Server) = <<>>
          /\ Transmits(Client) /\ Transmits(Server) /\ Hears(Client) /\ Hears(Server)
      BY <2>2, TwoEnds
    <3> QED
      BY <3>1, <3>2 DEF LifeOf, Life
  <2>4. \A f : ~Has(<<>>, f)
    BY HasNone
  <2>5. chan[Client][i] # "CONNECTING"
    <3>1. root[Client] = "OPEN" /\ Len(micro[Client]) = 0
      BY <2>2, TwoEnds
    <3> QED
      BY <2>1, <3>1 DEF SInv, Streams, Openings
  <2> QED
    BY <2>3, <2>4, <2>5 DEF Life
<1> QED
  BY <1>1, SInvAlways, PTL

\* What one end knows of a channel and the other does not is on its way, as long as the sockets carry
\* frames from the one to the other: a creation the server has yet to hear of, a close.
NewsUnderWay ==
    /\ \A i \in Id : Transmits(Client) /\ Hears(Server) /\ chan[Client][i] # "none" /\ chan[Server][i] = "none"
                      => Has(Path(Client), Create(i))
    /\ \A e \in End, i \in Id : Transmits(e) /\ Hears(Peer(e)) /\ chan[e][i] = "CLOSED" /\ chan[Peer(e)][i] # "CLOSED"
                                => Has(Path(e), Close(i))

\* No opening and no close is forgotten, whatever calls, closes and refusals crossed: with the fairness of
\* the event loops that is CloseSpreads.
THEOREM NewsAlwaysUnderWay == Spec => []NewsUnderWay
<1>1. SInv => NewsUnderWay
  <2>1. ASSUME SInv, NEW i \in Id, Transmits(Client), Hears(Server), chan[Client][i] # "none", chan[Server][i] = "none"
        PROVE  Has(Path(Client), Create(i))
    BY <2>1, ChannelStates DEF LifeOf, Life
  <2>2. ASSUME SInv, NEW e \in End, NEW i \in Id, Transmits(e), Hears(Peer(e)), chan[e][i] = "CLOSED",
               chan[Peer(e)][i] # "CLOSED"
        PROVE  Has(Path(e), Close(i))
    <3>1. CASE e = Client
      BY <2>2, <3>1, ChannelStates, TwoEnds DEF LifeOf, Life
    <3>2. CASE e = Server
      BY <2>2, <3>2, ChannelStates, TwoEnds DEF LifeOf, Life
    <3> QED
      BY <3>1, <3>2, TwoEnds
  <2> QED
    BY <2>1, <2>2 DEF NewsUnderWay
<1> QED
  BY <1>1, SInvAlways, PTL

-----------------------------------------------------------------------------
(* What a step does to the channels and their messages.                     *)

Live == {"CONNECTING", "OPEN"}

Opens(i) == /\ chan[Client][i] = "none"
            /\ chan' = [chan EXCEPT ![Client][i] = "CONNECTING"]
            /\ UNCHANGED <<sent, got>>
Answers(i) == /\ chan[Client][i] # "none" /\ chan[Server][i] = "none"
              /\ \E s \in {"OPEN", "CLOSED"} : chan' = [chan EXCEPT ![Server][i] = s]
              /\ UNCHANGED <<sent, got>>
Puts(e, i) == /\ chan[e][i] \in Live /\ sent[e][i] < MaxMsgs
              /\ sent' = [sent EXCEPT ![e][i] = @ + 1]
              /\ UNCHANGED <<chan, got>>
Takes(e, i) == /\ chan[e][i] \in Live /\ Len(got[e][i]) < sent[Peer(e)][i]
               /\ got' = [got EXCEPT ![e][i] = Append(@, Len(@) + 1)]
               /\ UNCHANGED <<chan, sent>>
Shuts(e, C) == /\ C # {} /\ \A i \in C : chan[e][i] \in Live
               /\ chan' = [chan EXCEPT ![e] = [i \in Id |-> IF i \in C THEN "CLOSED" ELSE @[i]]]
               /\ UNCHANGED <<sent, got>>
Readies(e, i) == /\ chan[e][i] \in Live
                 /\ chan' = [chan EXCEPT ![e][i] = "OPEN"]
                 /\ UNCHANGED <<sent, got>>

StepKind ==
    \/ \E i \in Id : Opens(i) \/ Answers(i)
    \/ \E e \in End, i \in Id : Puts(e, i) \/ Takes(e, i) \/ Readies(e, i)
    \/ \E e \in End, C \in SUBSET Id : Shuts(e, C)
    \/ UNCHANGED <<chan, sent, got>>

LEMMA RecvDataTakes == ASSUME SInv, NEW e \in End, RecvData(e) PROVE StepKind
<1> DEFINE q == Peer(e)
           f == Head(Path(q))
           i == f.id
<1>1. TypeOK /\ ChannelsTracked /\ q \in End /\ Peer(q) = e
  BY TwoEnds DEF SInv, IInv
<1>2. /\ Path(q) # <<>> /\ f \in Frame /\ f.type = "RawData" /\ Path(q) = wire[q] /\ Hears(e)
  BY Arrival DEF SInv, Streams, RecvData
<1>3. i \in Id /\ f.n \in Rank /\ f = Data(i, f.n)
  BY <1>2, FrameForms
<1>4. /\ got' = IF i \in channels[e] THEN [got EXCEPT ![e][i] = Append(@, f.n)] ELSE got
      /\ UNCHANGED <<chan, sent>>
  BY <1>2 DEF RecvData
<1> HIDE DEF q, f, i
<1>5. CASE i \in channels[e]
  <2>1. /\ chan[e][i] \in Live /\ chan[e][i] # "CLOSED" /\ Path(q) \in Seq(Frame)
        /\ sent[q][i] \in 0..MaxMsgs /\ got[e][i] \in Seq(Rank)
    BY <1>1, <1>3, <1>5, PathTypes DEF ChannelsTracked, Live
  <2>2. Flow(i, Path(q), Transmits(q), Hears(e), chan[q][i], chan[e][i],
             sent[q][i], got[e][i], chHeld[q][i])
    BY <1>1, <1>3, ChannelStates DEF FlowOf
  <2>3. /\ f.n = Len(got[e][i]) + 1
        /\ Flow(i, Tail(Path(q)), Transmits(q), Hears(e), chan[q][i], chan[e][i],
                sent[q][i], Append(got[e][i], f.n), chHeld[q][i])
    BY <1>2, <1>3, <2>1, <2>2, FlowDelivers DEF f
  <2>4. f.n <= sent[q][i]
    <3>1. Has(Path(q), Data(i, f.n))
      BY <1>2, <1>3, <2>1, HasTail DEF f
    <3> QED
      BY <1>3, <2>2, <3>1 DEF Flow
  <2>5. Len(got[e][i]) < sent[q][i]
    BY <2>1, <2>3, <2>4
  <2>6. got' = [got EXCEPT ![e][i] = Append(@, Len(@) + 1)]
    BY <1>4, <1>5, <2>3
  <2>7. Takes(e, i)
    BY <1>4, <2>1, <2>5, <2>6 DEF Takes, q
  <2> QED
    BY <1>3, <2>7 DEF StepKind
<1>6. CASE i \notin channels[e]
  BY <1>4, <1>6 DEF StepKind
<1> QED
  BY <1>5, <1>6

LEMMA OneClosed ==
    ASSUME TypeOK, NEW e \in End, NEW i \in Id, chan[e][i] \in Live,
           chan' = [chan EXCEPT ![e][i] = "CLOSED"], UNCHANGED <<sent, got>>
    PROVE  StepKind
<1>1. {i} \in SUBSET Id /\ {i} # {} /\ \A j \in {i} : chan[e][j] \in Live
  OBVIOUS
<1>2. chan' = [chan EXCEPT ![e] = [j \in Id |-> IF j \in {i} THEN "CLOSED" ELSE @[j]]]
  BY DEF TypeOK
<1>3. Shuts(e, {i})
  BY <1>1, <1>2 DEF Shuts
<1> QED
  BY <1>1, <1>3 DEF StepKind

LEMMA StepKinds == SInv /\ [Next]_vars => StepKind
<1> SUFFICES ASSUME SInv, [Next]_vars PROVE StepKind
  OBVIOUS
<1>1. TypeOK /\ ChannelsTracked /\ OpensTracked /\ Openings /\ Sockets
  BY DEF SInv, IInv, Streams
<1>2. CASE Connect
  <2>1. 1 \in Id /\ root[Client] = "none"
    BY <1>2, BoundsAssumption, TwoEnds DEF SInv, IInv, RootFollows, Connect, Id
  <2>2. chan[Client][1] = "none"
    BY <1>1, <2>1, TwoEnds DEF Sockets
  <2>3. Opens(1)
    BY <1>2, <2>2 DEF Connect, Opens
  <2> QED
    BY <2>1, <2>3 DEF StepKind
<1>3. ASSUME NEW m \in Modals, ConnectModal(m) PROVE StepKind
  BY <1>3 DEF ConnectModal, StepKind
<1>4. CASE OpenOnCached \/ \E m \in Modals : ModalOnCached(m) \/ ModalCreates(m)
  <2>1. CASE CreateChannel(NextId(Client))
    <3>1. nextId[Client] < MaxId
      BY <1>1, <1>4, <2>1, RoomForOne DEF OpenOnCached, ModalOnCached, ModalCreates
    <3>2. NextId(Client) \in Id /\ NextId(Client) = nextId[Client] + 1 /\ nextId[Client] \in Nat
      BY <1>1, <3>1, NextIdIsNext, TwoEnds DEF SInv, TypeOK
    <3>3. chan[Client][NextId(Client)] = "none"
      BY <1>1, <3>2 DEF Openings
    <3>4. Opens(NextId(Client))
      BY <2>1, <3>3 DEF CreateChannel, Opens
    <3> QED
      BY <3>2, <3>4 DEF StepKind
  <2>2. CASE UNCHANGED <<chan, sent, got>>
    BY <2>2 DEF StepKind
  <2> QED
    BY <1>4, <2>1, <2>2 DEF OpenOnCached, ModalOnCached, ModalCreates
<1>5. ASSUME NEW e \in End, NEW i \in Id, Send(e, i) PROVE StepKind
  <2>1. Puts(e, i)
    BY <1>5 DEF Send, Puts, Live
  <2> QED
    BY <2>1 DEF StepKind
<1>6. ASSUME NEW e \in End, NEW i \in Id, CloseByApp(e, i) PROVE StepKind
  BY <1>1, <1>6, OneClosed DEF CloseByApp, CloseChannel, Live
<1>7. ASSUME NEW e \in End, RunOpen(e) PROVE StepKind
  <2> DEFINE t == Head(micro[e])
  <2>1. /\ micro[e] \in Seq(MicroTask) /\ micro[e] # <<>> /\ t.kind \in {"open", "relay"}
        /\ UNCHANGED <<sent, got>>
    BY <1>1, <1>7 DEF RunOpen, TypeOK
  <2>2. t = micro[e][1] /\ 1 \in 1..Len(micro[e]) /\ t \in MicroTask
    BY <2>1
  <2>3. t.id \in Id /\ (t.kind = "open" => t.id \in channels[e])
    BY <1>1, <2>1, <2>2, TaskTypes DEF OpensTracked
  <2>4. CASE t.id \in channels[e] /\ chan' = [chan EXCEPT ![e][t.id] = "OPEN"]
    <3>1. Readies(e, t.id)
      BY <1>1, <2>1, <2>3, <2>4 DEF Readies, ChannelsTracked, Live
    <3> QED
      BY <2>3, <3>1 DEF StepKind
  <2>5. CASE UNCHANGED chan
    BY <2>1, <2>5 DEF StepKind
  <2> QED
    BY <1>7, <2>3, <2>4, <2>5 DEF RunOpen, OpenChannel
<1>8. ASSUME NEW e \in End, RunEmpty(e) PROVE StepKind
  BY <1>8 DEF RunEmpty, StepKind
<1>9. ASSUME NEW e \in End, RecvCreate(e) PROVE StepKind
  <2> DEFINE i == Head(wire[Client]).id
  <2>1. e = Server /\ chan[Server][i] = "none" /\ chan[Client][i] # "none"
    BY <1>9, RecvCreateStreams
  <2>2. i \in Id /\ root[Server] = "OPEN"
    <3>1. /\ Head(Path(Client)) \in Frame /\ Head(Path(Client)).type = "CreateChannel"
          /\ Path(Client) = wire[Client] /\ root[Server] = "OPEN"
      BY <1>9, <2>1, Arrival, TwoEnds DEF SInv, Streams, RecvCreate
    <3> QED
      BY <3>1, FrameForms
  <2>3. \/ chan' = [chan EXCEPT ![Server][i] = "OPEN"]
        \/ chan' = [chan EXCEPT ![Server][i] = "CLOSED"]
    BY <1>9, <2>1, <2>2, TwoEnds DEF RecvCreate
  <2>4. UNCHANGED <<sent, got>>
    BY <1>9 DEF RecvCreate
  <2>5. Answers(i)
    BY <2>1, <2>3, <2>4 DEF Answers
  <2> QED
    BY <2>2, <2>5 DEF StepKind
<1>10. ASSUME NEW e \in End, RecvData(e) PROVE StepKind
  BY <1>10, RecvDataTakes
<1>11. ASSUME NEW e \in End, RecvClose(e) PROVE StepKind
  <2> DEFINE i == Head(wire[Peer(e)]).id
  <2>1. i \in Id
    <3>1. /\ Head(Path(Peer(e))) \in Frame /\ Head(Path(Peer(e))).type = "CloseChannel"
          /\ Path(Peer(e)) = wire[Peer(e)]
      BY <1>11, Arrival DEF SInv, Streams, RecvClose
    <3> QED
      BY <3>1, FrameForms
  <2>2. CASE i \in channels[e]
    <3>1. /\ chan' = [chan EXCEPT ![e][i] = "CLOSED"] /\ UNCHANGED <<sent, got>>
      BY <1>11, <2>2 DEF RecvClose
    <3>2. chan[e][i] \in Live
      BY <1>1, <2>1, <2>2 DEF ChannelsTracked, Live
    <3> QED
      BY <1>1, <2>1, <3>1, <3>2, OneClosed
  <2>3. CASE i \notin channels[e]
    BY <1>11, <2>3 DEF RecvClose, StepKind
  <2> QED
    BY <2>2, <2>3
<1>12. ASSUME NEW e \in End, SocketClose(e) PROVE StepKind
  <2>1. /\ chan' = [chan EXCEPT ![e] = [i \in Id |-> IF i \in channels[e] THEN "CLOSED" ELSE @[i]]]
        /\ UNCHANGED <<sent, got>>
    BY <1>12 DEF SocketClose
  <2>2. channels[e] \in SUBSET Id /\ \A i \in channels[e] : chan[e][i] \in Live
    BY <1>1 DEF TypeOK, ChannelsTracked, Live
  <2>3. CASE channels[e] # {}
    <3>1. Shuts(e, channels[e])
      BY <2>1, <2>2, <2>3 DEF Shuts
    <3> QED
      BY <2>2, <3>1 DEF StepKind
  <2>4. CASE channels[e] = {}
    <3>1. chan' = chan
      BY <1>1, <2>1, <2>4 DEF TypeOK
    <3> QED
      BY <2>1, <3>1 DEF StepKind
  <2> QED
    BY <2>3, <2>4
<1>13. CASE Accept \/ SocketOpen \/ RecvWsClose \/ DropFrame \/ Lose
  BY <1>13 DEF Accept, SocketOpen, RecvWsClose, DropFrame, Lose, StepKind
<1>14. CASE UNCHANGED vars
  BY <1>14 DEF vars, StepKind
<1> QED
  BY <1>2, <1>3, <1>4, <1>5, <1>6, <1>7, <1>8, <1>9, <1>10, <1>11, <1>12, <1>13, <1>14 DEF Next

\* A channel that is closed stays closed and gets nothing more: its id is not
\* given out again on this connection.
THEOREM ClosedStaysClosed == Spec => ClosedForGood
<1> DEFINE Kept == \A e \in End, i \in Id :
                      chan[e][i] = "CLOSED" => chan'[e][i] = "CLOSED" /\ got'[e][i] = got[e][i]
<1>1. SInv /\ [Next]_vars => Kept
  <2> SUFFICES ASSUME SInv, [Next]_vars PROVE Kept
    OBVIOUS
  <2>1. TypeOK
    BY DEF SInv, IInv
  <2>2. StepKind
    BY StepKinds
  <2>3. ASSUME NEW i \in Id, Opens(i) \/ Answers(i) PROVE Kept
    <3>1. PICK d \in End, s \in ReadyState : /\ chan[d][i] = "none" /\ UNCHANGED got
                                             /\ chan' = [chan EXCEPT ![d][i] = s]
      BY <2>3, TwoEnds DEF Opens, Answers, ReadyState
    <3>2. \A e \in End, j \in Id : chan[e][j] # "none" => chan'[e][j] = chan[e][j]
      BY <2>1, <3>1 DEF TypeOK
    <3> QED
      BY <3>1, <3>2
  <2>4. ASSUME NEW e \in End, NEW i \in Id, Puts(e, i) PROVE Kept
    BY <2>4 DEF Puts
  <2>5. ASSUME NEW e \in End, NEW i \in Id, Takes(e, i) PROVE Kept
    <3>1. chan[e][i] # "CLOSED" /\ chan' = chan
      BY <2>5 DEF Takes, Live
    <3>2. \A d \in End, j \in Id : ~(d = e /\ j = i) => got'[d][j] = got[d][j]
      BY <2>1, <2>5 DEF Takes, TypeOK
    <3> QED
      BY <3>1, <3>2
  <2>6. ASSUME NEW e \in End, NEW i \in Id, Readies(e, i) PROVE Kept
    BY <2>1, <2>6 DEF Readies, TypeOK, Live
  <2>7. ASSUME NEW e \in End, NEW C \in SUBSET Id, Shuts(e, C) PROVE Kept
    BY <2>1, <2>7 DEF Shuts, TypeOK, Live
  <2>8. CASE UNCHANGED <<chan, sent, got>>
    BY <2>8
  <2> QED
    BY <2>2, <2>3, <2>4, <2>5, <2>6, <2>7, <2>8 DEF StepKind
<1> QED
  BY <1>1, SInvAlways, PTL DEF Spec, ClosedForGood

-----------------------------------------------------------------------------
(* The refinement: a channel is open from its creation until it is closed.  *)

PipeState == [e \in End |-> [i \in Id |->
                CASE chan[e][i] = "none"   -> "none"
                  [] chan[e][i] = "CLOSED" -> "closed"
                  [] OTHER                 -> "open"]]

LEMMA PipeStates ==
    ASSUME NEW e \in End, NEW i \in Id
    PROVE  /\ chan[e][i] = "none" <=> PipeState[e][i] = "none"
           /\ chan[e][i] = "CLOSED" <=> PipeState[e][i] = "closed"
           /\ chan[e][i] \notin {"none", "CLOSED"} <=> PipeState[e][i] = "open"
  BY DEF PipeState

LEMMA PipeEnds ==
    /\ Pipe!End = End /\ \A e \in End : Pipe!Other(e) = Peer(e)
  BY DEF Pipe!End, Pipe!Other, End, Peer

LEMMA PipeStep == ASSUME TypeOK, StepKind PROVE [Pipe!Next]_(Pipe!pipeVars)
<1>1. ASSUME NEW i \in Id, Opens(i) PROVE Pipe!Open(i)
  <2>1. PipeState' = [PipeState EXCEPT ![Client][i] = "open"]
    BY <1>1, TwoEnds DEF Opens, PipeState, TypeOK
  <2>2. PipeState[Client][i] = "none"
    BY <1>1, PipeStates, TwoEnds DEF Opens
  <2> QED
    BY <1>1, <2>1, <2>2 DEF Opens, Pipe!Open, PipeState
<1>2. ASSUME NEW i \in Id, Answers(i) PROVE Pipe!Answer(i)
  <2>1. \/ PipeState' = [PipeState EXCEPT ![Server][i] = "open"]
        \/ PipeState' = [PipeState EXCEPT ![Server][i] = "closed"]
    <3>1. \/ chan' = [chan EXCEPT ![Server][i] = "OPEN"]
          \/ chan' = [chan EXCEPT ![Server][i] = "CLOSED"]
      BY <1>2 DEF Answers
    <3>2. chan \in [End -> [Id -> ReadyState \cup {"none"}]]
      BY DEF TypeOK
    <3>3. CASE chan' = [chan EXCEPT ![Server][i] = "OPEN"]
      BY <3>2, <3>3, TwoEnds DEF PipeState
    <3>4. CASE chan' = [chan EXCEPT ![Server][i] = "CLOSED"]
      BY <3>2, <3>4, TwoEnds DEF PipeState
    <3> QED
      BY <3>1, <3>3, <3>4
  <2>2. PipeState[Client][i] # "none" /\ PipeState[Server][i] = "none"
    BY <1>2, PipeStates, TwoEnds DEF Answers
  <2> QED
    BY <1>2, <2>1, <2>2 DEF Answers, Pipe!Answer, PipeState
<1>3. ASSUME NEW e \in End, NEW i \in Id, Puts(e, i) PROVE Pipe!Put(e, i)
  <2>1. PipeState[e][i] = "open" /\ PipeState' = PipeState
    BY <1>3, PipeStates DEF Puts, Live, PipeState
  <2> QED
    BY <1>3, <2>1 DEF Puts, Pipe!Put, PipeState
<1>4. ASSUME NEW e \in End, NEW i \in Id, Takes(e, i) PROVE Pipe!Take(e, i)
  <2>1. PipeState[e][i] = "open" /\ PipeState' = PipeState
    BY <1>4, PipeStates DEF Takes, Live, PipeState
  <2> QED
    BY <1>4, <2>1, PipeEnds DEF Takes, Pipe!Take, PipeState
<1>5. ASSUME NEW e \in End, NEW C \in SUBSET Id, Shuts(e, C) PROVE Pipe!Shut(e, C)
  <2>1. \A i \in C : PipeState[e][i] = "open"
    BY <1>5, PipeStates DEF Shuts, Live
  <2>2. PipeState' = [PipeState EXCEPT ![e] = [i \in Id |-> IF i \in C THEN "closed" ELSE @[i]]]
    BY <1>5 DEF Shuts, PipeState, TypeOK
  <2> QED
    BY <1>5, <2>1, <2>2 DEF Shuts, Pipe!Shut, PipeState
<1>6. ASSUME NEW e \in End, NEW i \in Id, Readies(e, i) PROVE UNCHANGED Pipe!pipeVars
  <2>1. PipeState' = PipeState
    BY <1>6 DEF Readies, Live, PipeState, TypeOK
  <2> QED
    BY <1>6, <2>1 DEF Readies, Pipe!pipeVars, PipeState
<1>7. CASE UNCHANGED <<chan, sent, got>>
  <2>1. PipeState' = PipeState
    BY <1>7 DEF PipeState
  <2> QED
    BY <1>7, <2>1 DEF Pipe!pipeVars, PipeState
<1> QED
  BY <1>1, <1>2, <1>3, <1>4, <1>5, <1>6, <1>7, PipeEnds DEF StepKind, Pipe!Next

\* Seen from the application every channel is a pair of FIFO pipes, whatever
\* happens to the socket: the multiplexer implements ChannelPipe.
THEOREM PipeImplemented == Spec => ImplementsPipe
<1>1. Init => Pipe!Init
  <2>1. SUFFICES ASSUME Init PROVE Pipe!Init
    OBVIOUS
  <2>2. PipeState = [e \in End |-> [i \in Id |-> "none"]]
    BY <2>1 DEF Init, PipeState
  <2> QED
    BY <2>1, <2>2, PipeEnds DEF Init, Pipe!Init, PipeState
<1>2. SInv /\ [Next]_vars => [Pipe!Next]_(Pipe!pipeVars)
  BY StepKinds, PipeStep DEF SInv, IInv
<1> QED
  BY <1>1, <1>2, SInvAlways, PTL DEF Spec, ImplementsPipe, Pipe!Spec
=============================================================================
