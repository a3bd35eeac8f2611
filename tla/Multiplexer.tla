------------------------------ MODULE Multiplexer ------------------------------
(***************************************************************************)
(* Many channels over one WebSocket: the two ends of a Multiplexer         *)
(* connection, the browser's (which opens every channel) and the server's. *)
(*                                                                         *)
(* An end owns a WebSocket, the root multiplexer wrapped around it and one *)
(* channel object per channel id.  JavaScript runs one task at a time and  *)
(* drains its microtasks before the next event, so socket events wait for  *)
(* an empty micro queue; calls of the application may come at any moment,  *)
(* because a pending microtask means that the current task is still        *)
(* running.                                                                *)
(***************************************************************************)
EXTENDS Naturals, Sequences, FiniteSets

CONSTANTS MaxId,    \* bound: channels opened on one connection
          MaxMsgs,  \* bound: messages sent per channel and direction
          Modals    \* openers that wait for the root's 'open' event: a set

ASSUME BoundsAssumption ==
    /\ MaxId \in Nat \ {0}
    /\ MaxMsgs \in Nat
    /\ IsFiniteSet(Modals)

Client == "client"
Server == "server"
End    == {Client, Server}
Id     == 1..MaxId
Peer(e) == IF e = Client THEN Server ELSE Client

ReadyState == {"CONNECTING", "OPEN", "CLOSING", "CLOSED"}

\* What travels in one WebSocket frame.  "wsClose" is the close frame of the
\* WebSocket itself, the others are Message.ts types; a payload is abstracted
\* to its rank among the messages its sender sent on that channel.
Create(i)  == [type |-> "CreateChannel", id |-> i, n |-> 0]
Data(i, n) == [type |-> "RawData",       id |-> i, n |-> n]
Close(i)   == [type |-> "CloseChannel",  id |-> i, n |-> 0]
WsClose    == [type |-> "wsClose",       id |-> 0, n |-> 0]

Frame == {Create(i) : i \in Id} \cup {Close(i) : i \in Id} \cup {WsClose}
            \cup {Data(i, n) : i \in Id, n \in 1..MaxMsgs}

\* What an end still has to run before its next event: the setImmediate of
\* _createChannel, the root's 'open' event on its way to channel i, and the
\* promise of scheduleEmptyEvent.
OpenTask(i)  == [kind |-> "open",  id |-> i]
RelayTask(i) == [kind |-> "relay", id |-> i]
EmptyTask    == [kind |-> "empty", id |-> 0]
MicroTask    == {OpenTask(i) : i \in Id} \cup {RelayTask(i) : i \in Id}
                   \cup {EmptyTask}

VARIABLES
    ws,        \* ws[e]: readyState of the WebSocket, "none" before it exists
    root,      \* root[e]: readyState of the root multiplexer
    nextId,    \* nextId[e]: the last id given out or seen
    channels,  \* channels[e]: keys of the root's channels Map
    chan,      \* chan[e][i]: readyState of channel i's object, or "none"
    held,      \* held[e]: the root's storage, frames kept until it opens
    chHeld,    \* chHeld[e][i]: channel i's storage
    wire,      \* wire[e]: frames on their way from e to its peer
    micro,     \* micro[e]: pending microtasks
    emptyDue,  \* emptyDue[e]: emptyTimerScheduled
    lost,      \* the TCP connection is gone
    waiting,   \* modals that wait for the root's 'open' event
    sent,      \* sent[e][i]: messages the application sent (history)
    got        \* got[e][i]: ranks delivered to the application (history)

vars == <<ws, root, nextId, channels, chan, held, chHeld, wire, micro,
          emptyDue, lost, waiting, sent, got>>

TypeOK ==
    /\ ws       \in [End -> ReadyState \cup {"none"}]
    /\ root     \in [End -> ReadyState \cup {"none"}]
    /\ nextId   \in [End -> 0..MaxId]
    /\ channels \in [End -> SUBSET Id]
    /\ chan     \in [End -> [Id -> ReadyState \cup {"none"}]]
    /\ held     \in [End -> Seq(Frame)]
    /\ chHeld   \in [End -> [Id -> Seq(Frame)]]
    /\ wire     \in [End -> Seq(Frame)]
    /\ micro    \in [End -> Seq(MicroTask)]
    /\ emptyDue \in [End -> BOOLEAN]
    /\ lost     \in BOOLEAN
    /\ waiting  \in SUBSET Modals
    /\ sent     \in [End -> [Id -> 0..MaxMsgs]]
    /\ got      \in [End -> [Id -> Seq(1..MaxMsgs)]]

Init ==
    /\ ws       = [e \in End |-> "none"]
    /\ root     = [e \in End |-> "none"]
    /\ nextId   = [e \in End |-> 0]
    /\ channels = [e \in End |-> {}]
    /\ chan     = [e \in End |-> [i \in Id |-> "none"]]
    /\ held     = [e \in End |-> <<>>]
    /\ chHeld   = [e \in End |-> [i \in Id |-> <<>>]]
    /\ wire     = [e \in End |-> <<>>]
    /\ micro    = [e \in End |-> <<>>]
    /\ emptyDue = [e \in End |-> FALSE]
    /\ lost     = FALSE
    /\ waiting  = {}
    /\ sent     = [e \in End |-> [i \in Id |-> 0]]
    /\ got      = [e \in End |-> [i \in Id |-> <<>>]]

-----------------------------------------------------------------------------
(* Helpers: the private methods the handlers share.                        *)

\* A socket that is not OPEN discards what it is given.
OnWire(e, frames) ==
    IF ws[e] = "OPEN" /\ ~lost THEN wire[e] \o frames ELSE wire[e]

\* _send of the root: transmit when OPEN, keep while CONNECTING.
RootSend(e, frames) ==
    /\ root[e] \in {"OPEN", "CONNECTING"}
    /\ wire' = IF root[e] = "OPEN" THEN [wire EXCEPT ![e] = OnWire(e, frames)] ELSE wire
    /\ held' = IF root[e] = "CONNECTING" THEN [held EXCEPT ![e] = @ \o frames] ELSE held

\* scheduleEmptyEvent: at most one is scheduled at a time.
ScheduleEmpty(e) ==
    /\ emptyDue' = [emptyDue EXCEPT ![e] = TRUE]
    /\ micro' = IF emptyDue[e] THEN micro ELSE [micro EXCEPT ![e] = Append(@, EmptyTask)]

\* Mutant of Forget: the closed channels stay in the Map.
Forget_NoDelete(e, S) ==
    /\ channels' = channels
    /\ UNCHANGED <<emptyDue, micro>>

\* Mutant of Forget: 'empty' is scheduled without a look at the Map's size.
Forget_NoSizeCheck(e, S) ==
    /\ channels' = [channels EXCEPT ![e] = @ \ S]
    /\ ScheduleEmpty(e)

\* The 'close' listener of _createChannel, for the channels in S.
Forget(e, S) ==
    /\ channels' = [channels EXCEPT ![e] = @ \ S]
    /\ IF channels[e] # {} /\ channels[e] \subseteq S
         THEN ScheduleEmpty(e)
         ELSE UNCHANGED <<emptyDue, micro>>

\* Mutant of NextId: the search starts at 1 each time.
NextId_Lowest(e) ==
    CHOOSE n \in Id : n \notin channels[e] /\ \A m \in 1..(n - 1) : m \in channels[e]

\* getNextId: the first id after the last one that is not a key of the Map.
NextId(e) ==
    CHOOSE n \in Id : /\ n > nextId[e]
                      /\ n \notin channels[e]
                      /\ \A m \in (nextId[e] + 1)..(n - 1) : m \in channels[e]

\* createChannel of the browser's root: the channel opens in a microtask when
\* the root is OPEN, and together with the root otherwise.
CreateChannel(i) ==
    /\ nextId'   = [nextId EXCEPT ![Client] = i]
    /\ channels' = [channels EXCEPT ![Client] = @ \cup {i}]
    /\ chan'     = [chan EXCEPT ![Client][i] = "CONNECTING"]
    /\ emptyDue' = [emptyDue EXCEPT ![Client] = FALSE]
    /\ micro'    = IF root[Client] = "OPEN"
                     THEN [micro EXCEPT ![Client] = Append(@, OpenTask(i))]
                     ELSE micro
    /\ RootSend(Client, <<Create(i)>>)
    /\ UNCHANGED <<ws, root, chHeld, lost, sent, got>>

\* close() of a channel: tell the peer, end CLOSED whatever happens.
CloseChannel(e, i) ==
    /\ chan[e][i] \in {"CONNECTING", "OPEN"}
    /\ chan' = [chan EXCEPT ![e][i] = "CLOSED"]
    /\ Forget(e, {i})

-----------------------------------------------------------------------------
(* Opening: ManagerClient, ShellModal and ListFilesModal share one root     *)
(* multiplexer per URL, kept in ManagerClient.sockets until it closes.      *)

\* Bound: an id is left for each modal that waits.
Room == nextId[Client] + Cardinality(waiting) < MaxId

\* openNewConnection without a cached root: socket, root and first channel in
\* one task.  The root's constructor schedules an 'empty' event, createChannel
\* takes it back.
Connect ==
    /\ ws[Client] = "none"
    /\ ws'       = [ws EXCEPT ![Client] = "CONNECTING"]
    /\ root'     = [root EXCEPT ![Client] = "CONNECTING"]
    /\ nextId'   = [nextId EXCEPT ![Client] = 1]
    /\ channels' = [channels EXCEPT ![Client] = {1}]
    /\ chan'     = [chan EXCEPT ![Client][1] = "CONNECTING"]
    /\ held'     = [held EXCEPT ![Client] = <<Create(1)>>]
    /\ micro'    = [micro EXCEPT ![Client] = <<EmptyTask>>]
    /\ UNCHANGED <<chHeld, wire, emptyDue, lost, waiting, sent, got>>

\* connectAndLoad without a cached root: the channel waits for 'open'.
ConnectModal(m) ==
    /\ ws[Client] = "none"
    /\ ws'       = [ws EXCEPT ![Client] = "CONNECTING"]
    /\ root'     = [root EXCEPT ![Client] = "CONNECTING"]
    /\ emptyDue' = [emptyDue EXCEPT ![Client] = TRUE]
    /\ micro'    = [micro EXCEPT ![Client] = <<EmptyTask>>]
    /\ waiting'  = {m}
    /\ UNCHANGED <<nextId, channels, chan, held, chHeld, wire, lost, sent, got>>

\* The cache entry lives until the socket's 'close' event, and the root keeps
\* saying OPEN until then.
Cached == ws[Client] \in {"CONNECTING", "OPEN", "CLOSING"}

OpenOnCached ==
    /\ Cached /\ Room
    /\ CreateChannel(NextId(Client))
    /\ UNCHANGED waiting

ModalOnCached(m) ==
    /\ Cached /\ Room
    /\ m \notin waiting
    /\ \/ /\ root[Client] = "OPEN"
          /\ CreateChannel(NextId(Client))
          /\ UNCHANGED waiting
       \/ /\ root[Client] # "OPEN"
          /\ waiting' = waiting \cup {m}
          /\ UNCHANGED <<ws, root, nextId, channels, chan, held, chHeld, wire,
                         micro, emptyDue, lost, sent, got>>

\* The modal's own 'open' listener, in the dispatch of the root's 'open'.
ModalCreates(m) ==
    /\ m \in waiting
    /\ root[Client] = "OPEN"
    /\ nextId[Client] < MaxId
    /\ CreateChannel(NextId(Client))
    /\ waiting' = waiting \ {m}

-----------------------------------------------------------------------------
(* What the application does with a channel.                                *)

Send(e, i) ==
    /\ sent[e][i] < MaxMsgs
    /\ sent' = [sent EXCEPT ![e][i] = @ + 1]
    /\ \/ /\ chan[e][i] = "OPEN"
          /\ RootSend(e, <<Data(i, sent[e][i] + 1)>>)
          /\ UNCHANGED chHeld
       \/ /\ chan[e][i] = "CONNECTING"
          /\ chHeld' = [chHeld EXCEPT ![e][i] = Append(@, Data(i, sent[e][i] + 1))]
          /\ UNCHANGED <<wire, held>>
    /\ UNCHANGED <<ws, root, nextId, channels, chan, micro, emptyDue, lost,
                   waiting, got>>

\* Mutant of CloseByApp: the peer is not told.
CloseByApp_Silent(e, i) ==
    /\ \A k \in 1..Len(micro[e]) : micro[e][k] # OpenTask(i)
    /\ CloseChannel(e, i)
    /\ UNCHANGED <<ws, root, nextId, held, chHeld, wire, lost, waiting, sent, got>>

\* No caller closes a channel in the task that created it.
CloseByApp(e, i) ==
    /\ \A k \in 1..Len(micro[e]) : micro[e][k] # OpenTask(i)
    /\ CloseChannel(e, i)
    /\ RootSend(e, <<Close(i)>>)
    /\ UNCHANGED <<ws, root, nextId, chHeld, lost, waiting, sent, got>>

-----------------------------------------------------------------------------
(* Microtasks and listeners that run before the next event.                 *)

\* Mutant of OpenChannel: the storage is dropped.
OpenChannel_NoFlush(e, i) ==
    /\ chan'   = [chan EXCEPT ![e][i] = "OPEN"]
    /\ chHeld' = [chHeld EXCEPT ![e][i] = <<>>]
    /\ UNCHANGED <<wire, held>>

\* The channel turns OPEN and its 'open' listener flushes its storage.
OpenChannel(e, i) ==
    /\ chan'   = [chan EXCEPT ![e][i] = "OPEN"]
    /\ chHeld' = [chHeld EXCEPT ![e][i] = <<>>]
    /\ RootSend(e, chHeld[e][i])

RunOpen(e) ==
    /\ micro[e] # <<>>
    /\ Head(micro[e]).kind \in {"open", "relay"}
    /\ micro' = [micro EXCEPT ![e] = Tail(@)]
    /\ LET t == Head(micro[e])
       IN  IF t.kind = "open" \/ t.id \in channels[e]
             THEN OpenChannel(e, t.id)
             ELSE UNCHANGED <<chan, chHeld, wire, held>>
    /\ UNCHANGED <<ws, root, nextId, channels, emptyDue, lost, waiting, sent, got>>

\* 'empty' fires if nobody created a channel meanwhile; the browser's listener
\* closes the root, hence the socket.  A socket that is still CONNECTING gives
\* the connection up.  The server has no such listener.
RunEmpty(e) ==
    /\ micro[e] # <<>>
    /\ Head(micro[e]) = EmptyTask
    /\ micro' = [micro EXCEPT ![e] = Tail(@)]
    /\ emptyDue' = [emptyDue EXCEPT ![e] = FALSE]
    /\ IF emptyDue[e] /\ e = Client /\ root[e] \in {"CONNECTING", "OPEN"}
            /\ ws[e] \in {"CONNECTING", "OPEN"}
         THEN /\ ws'   = [ws EXCEPT ![e] = "CLOSING"]
              /\ lost' = (lost \/ ws[e] = "CONNECTING")
              /\ wire' = [wire EXCEPT ![e] = OnWire(e, <<WsClose>>)]
         ELSE UNCHANGED <<ws, lost, wire>>
    /\ UNCHANGED <<root, nextId, channels, chan, held, chHeld, waiting, sent, got>>

-----------------------------------------------------------------------------
(* Socket events.  Each is a task of its own: the end is quiet.             *)

Quiet(e) == /\ micro[e] = <<>>
            /\ e = Client /\ root[e] = "OPEN" => waiting = {}

\* The server accepts the upgrade and wraps the socket.
Accept ==
    /\ ws[Server] = "none" /\ ws[Client] = "CONNECTING" /\ ~lost
    /\ ws'   = [ws EXCEPT ![Server] = "OPEN"]
    /\ root' = [root EXCEPT ![Server] = "OPEN"]
    /\ ScheduleEmpty(Server)
    /\ UNCHANGED <<nextId, channels, chan, held, chHeld, wire, lost, waiting, sent, got>>

\* The browser's 'open' event: the root flushes its storage first, then the
\* event goes on to the channels in the order they were created.
SocketOpen ==
    /\ Quiet(Client)
    /\ ws[Client] = "CONNECTING" /\ ws[Server] # "none" /\ ~lost
    /\ ws'    = [ws EXCEPT ![Client] = "OPEN"]
    /\ root'  = [root EXCEPT ![Client] = "OPEN"]
    /\ wire'  = [wire EXCEPT ![Client] = @ \o held[Client]]
    /\ held'  = [held EXCEPT ![Client] = <<>>]
    /\ micro' = [micro EXCEPT ![Client] = [k \in 1..nextId[Client] |-> RelayTask(k)]]
    /\ UNCHANGED <<nextId, channels, chan, chHeld, emptyDue, lost, waiting, sent, got>>

\* A frame reaches an end whose socket still hands out messages: a browser's
\* only while OPEN, the server's also while CLOSING.
Arrives(e, type) ==
    /\ Quiet(e)
    /\ wire[Peer(e)] # <<>>
    /\ Head(wire[Peer(e)]).type = type
    /\ ws[e] = "OPEN" \/ (e = Server /\ ws[e] = "CLOSING")

Rest(e) == [wire EXCEPT ![Peer(e)] = Tail(@)]

\* CreateChannel at the server: the new channel has the root's state.  The
\* 'channel' listener finds a handler for it, or closes it with 4002.
RecvCreate(e) ==
    /\ Arrives(e, "CreateChannel")
    /\ LET i == Head(wire[Peer(e)]).id
       IN  /\ nextId' = [nextId EXCEPT ![e] = IF @ < i THEN i ELSE @]
           /\ \/ /\ channels' = [channels EXCEPT ![e] = @ \cup {i}]
                 /\ chan' = [chan EXCEPT ![e][i] = root[e]]
                 /\ emptyDue' = [emptyDue EXCEPT ![e] = FALSE]
                 /\ wire' = Rest(e)
                 /\ UNCHANGED micro
              \/ /\ channels' = [channels EXCEPT ![e] = @ \ {i}]
                 /\ chan' = [chan EXCEPT ![e][i] = "CLOSED"]
                 /\ emptyDue' = [emptyDue EXCEPT ![e] = (channels[e] \subseteq {i})]
                 /\ micro' = IF channels[e] \subseteq {i}
                               THEN [micro EXCEPT ![e] = Append(@, EmptyTask)]
                               ELSE micro
                 /\ wire' = [Rest(e) EXCEPT ![e] = OnWire(e, <<Close(i)>>)]
    /\ UNCHANGED <<ws, root, held, chHeld, lost, waiting, sent, got>>

\* Mutant of RecvData: the Map is not consulted.
RecvData_Always(e) ==
    /\ Arrives(e, "RawData")
    /\ LET f == Head(wire[Peer(e)])
       IN  got' = [got EXCEPT ![e][f.id] = Append(@, f.n)]
    /\ wire' = Rest(e)
    /\ UNCHANGED <<ws, root, nextId, channels, chan, held, chHeld, micro, emptyDue,
                   lost, waiting, sent>>

\* Raw data goes to the channel of that id; without one it is reported and
\* dropped.
RecvData(e) ==
    /\ Arrives(e, "RawData")
    /\ LET f == Head(wire[Peer(e)])
       IN  got' = IF f.id \in channels[e]
                    THEN [got EXCEPT ![e][f.id] = Append(@, f.n)]
                    ELSE got
    /\ wire' = Rest(e)
    /\ UNCHANGED <<ws, root, nextId, channels, chan, held, chHeld, micro, emptyDue,
                   lost, waiting, sent>>

\* Mutant of RecvClose: the channel is left CLOSING.
RecvClose_NoDispose(e) ==
    /\ Arrives(e, "CloseChannel")
    /\ LET i == Head(wire[Peer(e)]).id
       IN  IF i \in channels[e]
             THEN /\ chan' = [chan EXCEPT ![e][i] = "CLOSING"]
                  /\ Forget(e, {i})
             ELSE UNCHANGED <<chan, channels, emptyDue, micro>>
    /\ wire' = Rest(e)
    /\ UNCHANGED <<ws, root, nextId, held, chHeld, lost, waiting, sent, got>>

\* CloseChannel at either end: the channel turns CLOSED and leaves the Map;
\* without one the frame is reported and dropped.
RecvClose(e) ==
    /\ Arrives(e, "CloseChannel")
    /\ LET i == Head(wire[Peer(e)]).id
       IN  IF i \in channels[e]
             THEN /\ chan' = [chan EXCEPT ![e][i] = "CLOSED"]
                  /\ Forget(e, {i})
             ELSE UNCHANGED <<chan, channels, emptyDue, micro>>
    /\ wire' = Rest(e)
    /\ UNCHANGED <<ws, root, nextId, held, chHeld, lost, waiting, sent, got>>

\* The server's socket answers the browser's close frame.
RecvWsClose ==
    /\ Arrives(Server, "wsClose")
    /\ ws'   = [ws EXCEPT ![Server] = "CLOSING"]
    /\ wire' = [Rest(Server) EXCEPT ![Server] = OnWire(Server, <<WsClose>>)]
    /\ UNCHANGED <<root, nextId, channels, chan, held, chHeld, micro, emptyDue,
                   lost, waiting, sent, got>>

\* A browser that closes its socket no longer hands out messages.
DropFrame ==
    /\ Quiet(Client)
    /\ ws[Client] = "CLOSING" /\ wire[Server] # <<>>
    /\ Head(wire[Server]) # WsClose
    /\ wire' = Rest(Client)
    /\ UNCHANGED <<ws, root, nextId, channels, chan, held, chHeld, micro, emptyDue,
                   lost, waiting, sent, got>>

\* The connection breaks: process killed, terminate(), network gone, refusal.
Lose ==
    /\ ws[Client] # "none" /\ ~lost
    /\ lost' = TRUE
    /\ UNCHANGED <<ws, root, nextId, channels, chan, held, chHeld, wire, micro,
                   emptyDue, waiting, sent, got>>

\* The socket's 'close' event, after the closing handshake or a break.  Every
\* channel of the Map follows its root.
SocketClose(e) ==
    /\ Quiet(e)
    /\ ws[e] \in {"CONNECTING", "OPEN", "CLOSING"}
    /\ \/ lost
       \/ e = Server /\ ws[e] = "CLOSING"
       \/ e = Client /\ wire[Server] # <<>> /\ Head(wire[Server]) = WsClose
    /\ ws'   = [ws EXCEPT ![e] = "CLOSED"]
    /\ root' = [root EXCEPT ![e] = "CLOSED"]
    /\ chan' = [chan EXCEPT ![e] = [i \in Id |-> IF i \in channels[e] THEN "CLOSED" ELSE @[i]]]
    /\ Forget(e, channels[e])
    /\ wire' = [wire EXCEPT ![Peer(e)] = <<>>]
    /\ UNCHANGED <<nextId, held, chHeld, lost, waiting, sent, got>>

-----------------------------------------------------------------------------
Next ==
    \/ Connect \/ OpenOnCached
    \/ \E m \in Modals : ConnectModal(m) \/ ModalOnCached(m) \/ ModalCreates(m)
    \/ \E e \in End, i \in Id : Send(e, i) \/ CloseByApp(e, i)
    \/ \E e \in End : \/ RunOpen(e) \/ RunEmpty(e) \/ RecvCreate(e) \/ RecvData(e)
                      \/ RecvClose(e) \/ SocketClose(e)
    \/ Accept \/ SocketOpen \/ RecvWsClose \/ DropFrame \/ Lose

\* The event loops run: what is pending or has arrived is handled some day.
\* Nothing is assumed of users, of the application or of the network.
Fairness ==
    /\ WF_vars(Accept) /\ WF_vars(SocketOpen) /\ WF_vars(RecvWsClose) /\ WF_vars(DropFrame)
    /\ \A e \in End : /\ WF_vars(RunOpen(e)) /\ WF_vars(RunEmpty(e))
                      /\ WF_vars(RecvCreate(e)) /\ WF_vars(RecvData(e))
                      /\ WF_vars(RecvClose(e)) /\ WF_vars(SocketClose(e))
    /\ \A m \in Modals : WF_vars(ModalCreates(m))

Spec     == Init /\ [][Next]_vars
FairSpec == Spec /\ Fairness

-----------------------------------------------------------------------------
(* Properties.                                                              *)

\* The readyState of a channel object and its entry in the root's Map never
\* part: a channel that can still send is one that can still be closed by its
\* peer, and a closed one gets nothing more (channels.get in onMessageHandler).
ChannelsTracked ==
    \A e \in End, i \in Id : i \in channels[e] <=> chan[e][i] \in {"CONNECTING", "OPEN"}

\* An 'empty' event is due only while the Map is empty, so the listener that
\* closes the socket (ManagerClient, ShellModal, ListFilesModal) never cuts off
\* a channel.
EmptyMeansUnused == \A e \in End : emptyDue[e] => channels[e] = {}

\* What a channel delivers is what its peer sent on it: in order, without a gap,
\* nothing twice and nothing of another channel, although sends may be kept in
\* two storages, the root's and the channel's, until the socket opens.
StreamsIntact ==
    \A e \in End, i \in Id :
        /\ Len(got[e][i]) <= sent[Peer(e)][i]
        /\ \A k \in 1..Len(got[e][i]) : got[e][i][k] = k

\* When the connection is up and nothing is pending or on its way, the two ends
\* agree on which channels are open.
Settled ==
    /\ ~lost
    /\ \A e \in End : ws[e] = "OPEN" /\ micro[e] = <<>> /\ wire[e] = <<>>
    /\ waiting = {}
QuiescentAgreement ==
    Settled => \A i \in Id : chan[Client][i] = "OPEN" <=> chan[Server][i] = "OPEN"

\* A channel id names one channel for the life of the connection: once closed
\* it stays closed, so a late frame can only be dropped, never misdelivered.
ClosedForGood ==
    [][\A e \in End, i \in Id :
          chan[e][i] = "CLOSED" => chan'[e][i] = "CLOSED" /\ got'[e][i] = got[e][i]]_vars

\* A channel closed at one end ends up closed at the other, whatever was on the
\* way when it was closed.
CloseSpreads ==
    \A e \in End, i \in Id :
        (chan[e][i] = "CLOSED") ~> [](chan[Peer(e)][i] \in {"none", "CLOSED"})

\* Seen from the application, every channel is a pair of FIFO pipes: the
\* multiplexer implements ChannelPipe, with a channel open from its creation
\* until it is closed.
Pipe == INSTANCE ChannelPipe WITH
            Channel <- Id, Opener <- Client, Answerer <- Server,
            state <- [e \in End |-> [i \in Id |->
                        CASE chan[e][i] = "none"   -> "none"
                          [] chan[e][i] = "CLOSED" -> "closed"
                          [] OTHER                 -> "open"]]
ImplementsPipe == Pipe!Spec

=============================================================================
