---------------------------- MODULE ScrcpySession -----------------------------
(***************************************************************************)
(* One stream on a page: StreamClientScrcpy and its ScrcpyDemuxers, one    *)
(* per connection (the first by startStream, the others by a refresh), and *)
(* on the server a ScrcpyConnection for each, with its listener, its adb   *)
(* tunnel, the scrcpy-server process and the sockets that one opens.       *)
(* startStream() and start() await many things; stop() and release() may   *)
(* come at any of them.                                                    *)
(***************************************************************************)
EXTENDS Naturals, Sequences, FiniteSets

CONSTANTS Modes,     \* devices: "forward" for an old one, "reverse" for the others
          Sounds,    \* whether a device sends sound
          MaxConn,   \* bound: connections of the stream
          MaxSends,  \* bound: control messages of the user
          MaxCuts    \* bound: connections that break

ASSUME ScrcpySessionAssumption ==
    /\ Modes \subseteq {"reverse", "forward"} /\ Sounds \subseteq BOOLEAN
    /\ MaxConn \in Nat \ {0} /\ MaxSends \in Nat /\ MaxCuts \in Nat

Conn == 1..MaxConn
None == 0

VARIABLES
    mode,      \* useTunnelForward of the device
    page,      \* where startStream() is: "hydrating", "choosing", "running" or "refused"
    view,      \* the stream and its toolbar are in the container
    stopFn,    \* "unset", "set" or "used"
    stopped,   \* the handle's stop() was called
    conns,     \* connections opened so far
    demuxer,   \* the stream's demuxer
    heard,     \* demuxers whose disconnect callback is the stream's
    told,      \* connections whose end the stream was told
    seen,      \* connections whose metadata have arrived
    audio,     \* the AudioPlayer of each connection; "cut" is stopped while it loads
    playing,   \* the stream's audioPlayer
    cw, sw,    \* the two ends of each WebSocket
    up, down,  \* control messages and metadata on their way
    cut,       \* connections that broke
    at,        \* what start() of the session awaits
    released,
    listener,  \* its TCP server
    tunnel,    \* the reverse or forward of adb
    removing,  \* adb was asked to remove it
    proc,      \* scrcpy-server: "killed" until its exit is seen
    socks,     \* its sockets: "some" in a local array, "held" in the fields, "gone"
    late,      \* scrcpy-server was launched after release()
    owed,      \* control messages sent when the metadata had been seen
    got,       \* control messages that the device got
    sends

pageVars   == <<page, view, stopFn, stopped, conns, demuxer>>
clientVars == <<heard, told, seen, audio, playing>>
wireVars   == <<cw, sw, up, down, cut>>
procVars   == <<released, listener, tunnel, removing, proc, socks, late>>
inputVars  == <<owed, got, sends>>
vars       == <<mode, pageVars, clientVars, wireVars, at, procVars, inputVars>>

Places == {"none", "push", "tunnel", "gather", "header", "forward", "failed"}

TypeOK ==
    /\ mode \in Modes
    /\ page \in {"hydrating", "choosing", "running", "refused"}
    /\ stopFn \in {"unset", "set", "used"} /\ view = (stopFn = "set") /\ stopped \in BOOLEAN
    /\ conns \in 0..MaxConn /\ demuxer \in 0..conns /\ playing \in 0..conns
    /\ heard \subseteq Conn /\ told \subseteq Conn /\ seen \subseteq Conn
    /\ audio \in [Conn -> {"none", "loading", "on", "cut", "stopped", "stray"}]
    /\ cw \in [Conn -> {"none", "connecting", "open", "closing", "closed"}]
    /\ sw \in [Conn -> {"none", "open", "closing", "closed"}]
    /\ up \in [Conn -> Seq(1..MaxSends)] /\ got \in [Conn -> Seq(1..MaxSends)]
    /\ owed \in [Conn -> SUBSET (1..MaxSends)] /\ sends \in 0..MaxSends
    /\ down \in [Conn -> BOOLEAN] /\ cut \subseteq Conn
    /\ at \in [Conn -> Places] /\ released \subseteq Conn /\ removing \subseteq Conn /\ late \subseteq Conn
    /\ listener \in [Conn -> {"none", "open", "closed"}]
    /\ tunnel \in [Conn -> {"none", "asked", "up", "down"}]
    /\ proc \in [Conn -> {"none", "running", "killed", "exited"}]
    /\ socks \in [Conn -> {"none", "some", "held", "gone"}]
    \* nothing but a listener and a tunnel that was asked for comes before the process
    /\ \A c \in Conn : /\ proc[c] = "none" => socks[c] = "none" /\ tunnel[c] # "up"
                       /\ sw[c] = "closed" => c \in released
                       /\ c \in released => sw[c] # "open"

Init ==
    /\ mode \in Modes
    /\ page = "hydrating" /\ view = FALSE /\ stopFn = "unset" /\ stopped = FALSE
    /\ conns = 0 /\ demuxer = None
    /\ heard = {} /\ told = {} /\ seen = {}
    /\ audio = [c \in Conn |-> "none"] /\ playing = None
    /\ cw = [c \in Conn |-> "none"] /\ sw = [c \in Conn |-> "none"]
    /\ up = [c \in Conn |-> <<>>] /\ down = [c \in Conn |-> FALSE] /\ cut = {}
    /\ at = [c \in Conn |-> "none"]
    /\ released = {} /\ removing = {} /\ late = {}
    /\ listener = [c \in Conn |-> "none"] /\ tunnel = [c \in Conn |-> "none"]
    /\ proc = [c \in Conn |-> "none"] /\ socks = [c \in Conn |-> "none"]
    /\ owed = [c \in Conn |-> {}] /\ got = [c \in Conn |-> <<>>] /\ sends = 0

-------------------------------------------------------------------------------
(* The page.                                                                *)

\* ScrcpyDemuxer.close() of the demuxer d and, with c, the constructor of another one.
\* What waits in pendingControl is lost with a connection that never opened.
Sockets(d, c) ==
    /\ cw' = [x \in Conn |-> IF x = c THEN "connecting"
                             ELSE IF x = d /\ cw[x] \in {"connecting", "open"} THEN "closing" ELSE cw[x]]
    /\ up' = [x \in Conn |-> IF x = d /\ cw[x] = "connecting" THEN <<>> ELSE up[x]]

\* audioPlayer?.stop(): start() does not notice.
StopAudio == audio' = [c \in Conn |-> IF c # playing THEN audio[c]
                         ELSE CASE audio[c] = "loading" -> "cut"
                                [] audio[c] = "on" -> "stopped"
                                [] OTHER -> audio[c]]

\* The settings of the device are there: the view is built, stopFn set.
Hydrated(ok) ==
    /\ page = "hydrating"
    /\ IF ok THEN page' = "choosing" /\ view' = TRUE /\ stopFn' = "set"
             ELSE page' = "refused" /\ UNCHANGED <<view, stopFn>>
    /\ UNCHANGED <<mode, stopped, conns, demuxer, clientVars, wireVars, at, procVars, inputVars>>

\* The codec is known: the stream connects, whatever has happened meanwhile.
Connects(ok) ==
    /\ page = "choosing"
    /\ IF ok THEN /\ page' = "running"
                  /\ conns' = conns + 1 /\ demuxer' = conns + 1
                  /\ Sockets(None, conns + 1)
                  /\ heard' = heard \cup {conns + 1}
             ELSE page' = "refused" /\ UNCHANGED <<conns, demuxer, cw, up, heard>>
    /\ UNCHANGED <<mode, view, stopFn, stopped, told, seen, audio, playing, sw, down, cut, at, procVars, inputVars>>

\* handle.stop(): only the first call does anything, and only once stopFn is set.
Stop ==
    /\ ~stopped
    /\ stopped' = TRUE
    /\ IF stopFn = "set" THEN /\ stopFn' = "used" /\ view' = FALSE
                              /\ Sockets(demuxer, None) /\ StopAudio
                         ELSE UNCHANGED <<stopFn, view, cw, up, audio>>
    /\ UNCHANGED <<mode, page, conns, demuxer, heard, told, seen, playing, sw, down, cut, at, procVars, inputVars>>

\* Mutant of Refresh: the old player goes on.
Refresh_KeepSound ==
    /\ view
    /\ conns + (IF page = "choosing" THEN 1 ELSE 0) < MaxConn
    /\ conns' = conns + 1 /\ demuxer' = conns + 1
    /\ Sockets(demuxer, conns + 1)
    /\ heard' = (heard \ {demuxer}) \cup {conns + 1}
    /\ playing' = None
    /\ UNCHANGED <<mode, page, view, stopFn, stopped, told, seen, audio, sw, down, cut, at, procVars, inputVars>>

\* refreshStream(), by the toolbar or for a picture that has become poor.
Refresh ==
    /\ view
    /\ conns + (IF page = "choosing" THEN 1 ELSE 0) < MaxConn
    /\ conns' = conns + 1 /\ demuxer' = conns + 1
    /\ Sockets(demuxer, conns + 1)
    /\ heard' = (heard \ {demuxer}) \cup {conns + 1}
    /\ StopAudio /\ playing' = None
    /\ UNCHANGED <<mode, page, view, stopFn, stopped, told, seen, sw, down, cut, at, procVars, inputVars>>

\* sendControl(): sent, or kept until the socket opens, or never sent.
SendControl ==
    /\ view /\ demuxer # None /\ sends < MaxSends
    /\ sends' = sends + 1
    /\ IF cw[demuxer] \in {"connecting", "open"}
         THEN /\ up' = [up EXCEPT ![demuxer] = Append(@, sends + 1)]
              /\ owed' = IF demuxer \in seen THEN [owed EXCEPT ![demuxer] = @ \cup {sends + 1}] ELSE owed
         ELSE UNCHANGED <<up, owed>>
    /\ UNCHANGED <<mode, pageVars, clientVars, cw, sw, down, cut, at, procVars, got>>

ClientOpens(c) ==
    /\ cw[c] = "connecting" /\ sw[c] # "none" /\ c \notin cut
    /\ cw' = [cw EXCEPT ![c] = "open"]
    /\ UNCHANGED <<mode, pageVars, clientVars, sw, up, down, cut, at, procVars, inputVars>>

\* onMetadata(): a new AudioPlayer unless the device sends no sound.
MetadataArrives(c, sound) ==
    /\ down[c] /\ cw[c] = "open"
    /\ down' = [down EXCEPT ![c] = FALSE]
    /\ seen' = seen \cup {c}
    /\ IF sound THEN audio' = [audio EXCEPT ![c] = "loading"] /\ playing' = c
                ELSE UNCHANGED <<audio, playing>>
    /\ UNCHANGED <<mode, pageVars, heard, told, cw, sw, up, cut, at, procVars, inputVars>>

\* The rest of AudioPlayer.start(), or an error of addModule.
AudioLoads(c, ok) ==
    /\ audio[c] \in {"loading", "cut"}
    /\ audio' = [audio EXCEPT ![c] = IF ~ok THEN "stopped" ELSE IF @ = "cut" THEN "stray" ELSE "on"]
    /\ UNCHANGED <<mode, pageVars, heard, told, seen, playing, wireVars, at, procVars, inputVars>>

\* The 'close' event in the browser: onDisconnected.
ClientClosed(c) ==
    /\ cw[c] \in {"connecting", "open", "closing"}
    /\ c \in cut \/ cw[c] # "open" \/ (sw[c] \in {"closing", "closed"} /\ ~down[c])
    /\ cw' = [cw EXCEPT ![c] = "closed"]
    /\ up' = IF cw[c] = "connecting" THEN [up EXCEPT ![c] = <<>>] ELSE up
    /\ IF c \in heard THEN told' = told \cup {c} /\ StopAudio ELSE UNCHANGED <<told, audio>>
    /\ UNCHANGED <<mode, pageVars, heard, seen, playing, sw, down, cut, at, procVars, inputVars>>

-------------------------------------------------------------------------------
(* The session.                                                             *)

ClosingSocket(c) == sw' = [sw EXCEPT ![c] = IF @ = "open" THEN "closing" ELSE @]

\* What release() does the first time, but for the process and its sockets.
Free(c) ==
    IF c \in released THEN UNCHANGED <<released, listener, removing>>
    ELSE /\ released' = released \cup {c}
         /\ listener' = [listener EXCEPT ![c] = IF @ = "open" THEN "closed" ELSE @]
         /\ removing' = IF tunnel[c] # "none" THEN removing \cup {c} ELSE removing

\* Mutant of Release: the tunnel is not removed.
Release_KeepTunnel(c) ==
    IF c \in released THEN UNCHANGED <<released, listener, removing, proc, socks>>
    ELSE /\ released' = released \cup {c} /\ UNCHANGED removing
         /\ listener' = [listener EXCEPT ![c] = IF @ = "open" THEN "closed" ELSE @]
         /\ proc' = [proc EXCEPT ![c] = IF @ = "running" THEN "killed" ELSE @]
         /\ socks' = [socks EXCEPT ![c] = IF @ = "held" THEN "gone" ELSE @]

\* release().
Release(c) ==
    IF c \in released THEN UNCHANGED <<released, listener, removing, proc, socks>>
    ELSE /\ Free(c)
         /\ proc' = [proc EXCEPT ![c] = IF @ = "running" THEN "killed" ELSE @]
         /\ socks' = [socks EXCEPT ![c] = IF @ = "held" THEN "gone" ELSE @]

\* Mutant of Fails: start() is rejected and nobody closes the socket.
Fails_Quietly(c) == at' = [at EXCEPT ![c] = "failed"] /\ UNCHANGED sw

\* start() is rejected: the socket is closed with 4005.
Fails(c) == at' = [at EXCEPT ![c] = "failed"] /\ ClosingSocket(c)

\* The upgrade reaches the server, even when the page has given up: processRequest.
Accept(c) ==
    /\ sw[c] = "none" /\ cw[c] \in {"connecting", "closing"} /\ c \notin cut
    /\ sw' = [sw EXCEPT ![c] = "open"]
    /\ at' = [at EXCEPT ![c] = "push"]
    /\ UNCHANGED <<mode, pageVars, clientVars, cw, up, down, cut, procVars, inputVars>>

\* getSdkInt, ensureScrcpyServerPushed, then createTcpServer, or reserveLocalPort, which closes
\* its server again; then adb is asked. Nothing is looked at in between.
Pushed(c, ok) ==
    /\ at[c] = "push"
    /\ IF ok THEN /\ at' = [at EXCEPT ![c] = "tunnel"]
                  /\ listener' = IF mode = "reverse" THEN [listener EXCEPT ![c] = "open"] ELSE listener
                  /\ tunnel' = [tunnel EXCEPT ![c] = "asked"]
                  /\ UNCHANGED sw
             ELSE Fails(c) /\ UNCHANGED <<listener, tunnel>>
    /\ UNCHANGED <<mode, pageVars, clientVars, cw, up, down, cut, released, removing, proc, socks, late, inputVars>>

\* adb has made the tunnel: launchServer.
Launches(c) ==
    /\ at[c] = "tunnel"
    /\ at' = [at EXCEPT ![c] = "gather"]
    /\ tunnel' = [tunnel EXCEPT ![c] = "up"]
    /\ proc' = [proc EXCEPT ![c] = "running"]
    /\ late' = IF c \in released THEN late \cup {c} ELSE late
    /\ UNCHANGED <<mode, pageVars, clientVars, wireVars, released, listener, removing, socks, inputVars>>

TunnelFails(c) ==
    /\ at[c] = "tunnel"
    /\ tunnel' = [tunnel EXCEPT ![c] = "down"]
    /\ Fails(c)
    /\ UNCHANGED <<mode, pageVars, clientVars, cw, up, down, cut, released, listener, removing, proc, socks,
                   late, inputVars>>

\* removeReverse, removeForward: of a tunnel that is not there yet it has no effect.
TunnelRemoved(c) ==
    /\ c \in removing
    /\ removing' = removing \ {c}
    /\ tunnel' = [tunnel EXCEPT ![c] = IF @ = "up" THEN "down" ELSE @]
    /\ UNCHANGED <<mode, pageVars, clientVars, wireVars, at, released, listener, proc, socks, late, inputVars>>

Reachable(c) == /\ proc[c] \in {"running", "killed"}
                /\ tunnel[c] = "up" /\ (mode = "reverse" => listener[c] = "open")

\* Mutant of Gathers: the metadata go out before the last socket, the one for control, is there.
Gathers_MetaFirst(c) ==
    /\ at[c] = "gather" /\ Reachable(c)
    /\ at' = [at EXCEPT ![c] = "forward"]
    /\ down' = [down EXCEPT ![c] = sw[c] = "open"]
    /\ UNCHANGED <<mode, pageVars, clientVars, cw, sw, up, cut, released, listener, tunnel, removing, proc,
                   socks, late, inputVars>>

\* acceptSockets, or connectAndAwaitDummy and connectLocal: a first socket, then the last one.
Gathers(c) ==
    /\ at[c] = "gather" /\ Reachable(c)
    /\ IF socks[c] = "none" THEN socks' = [socks EXCEPT ![c] = "some"] /\ UNCHANGED at
                            ELSE /\ socks[c] = "some"
                                 /\ socks' = [socks EXCEPT ![c] = "held"]
                                 /\ at' = [at EXCEPT ![c] = "header"]
    /\ UNCHANGED <<mode, pageVars, clientVars, wireVars, released, listener, tunnel, removing, proc, late, inputVars>>

\* The 10 s, or the 120 s and twice 15 s, have passed: sockets of the local array are kept.
GatherTimesOut(c) ==
    /\ at[c] = "gather"
    /\ Fails(c)
    /\ UNCHANGED <<mode, pageVars, clientVars, cw, up, down, cut, procVars, inputVars>>

\* parseMetadata: the metadata go to the page, the readers start.
HeaderArrives(c, ok) ==
    /\ at[c] = "header" /\ socks[c] = "held"
    /\ IF ok THEN /\ at' = [at EXCEPT ![c] = "forward"]
                  /\ down' = [down EXCEPT ![c] = sw[c] = "open"]
                  /\ UNCHANGED sw
             ELSE Fails(c) /\ UNCHANGED down
    /\ UNCHANGED <<mode, pageVars, clientVars, cw, up, cut, procVars, inputVars>>

\* The device ends the video.
VideoEnds(c) ==
    /\ at[c] = "forward" /\ socks[c] = "held"
    /\ Release(c) /\ (IF c \in released THEN UNCHANGED sw ELSE ClosingSocket(c))
    /\ UNCHANGED <<mode, pageVars, clientVars, cw, up, down, cut, at, tunnel, late, inputVars>>

\* The 'exit' event of the adb shell; its sockets have ended with it.
ProcessExits(c) ==
    /\ proc[c] \in {"running", "killed"}
    /\ proc' = [proc EXCEPT ![c] = "exited"]
    /\ socks' = [socks EXCEPT ![c] = IF @ = "none" THEN "none" ELSE "gone"]
    /\ Free(c) /\ (IF c \in released THEN UNCHANGED sw ELSE ClosingSocket(c))
    /\ UNCHANGED <<mode, pageVars, clientVars, cw, up, down, cut, at, tunnel, late, inputVars>>

\* onSocketMessage: without a control socket the message is dropped.
ControlArrives(c) ==
    /\ up[c] # <<>> /\ sw[c] \in {"open", "closing"} /\ cw[c] # "connecting" /\ c \notin cut
    /\ up' = [up EXCEPT ![c] = Tail(@)]
    /\ got' = IF socks[c] = "held" THEN [got EXCEPT ![c] = Append(@, Head(up[c]))] ELSE got
    /\ UNCHANGED <<mode, pageVars, clientVars, cw, sw, down, cut, at, procVars, owed, sends>>

\* Mutant of ServerClosed: the session does not hear of it.
ServerClosed_NoRelease(c) ==
    /\ sw[c] \in {"open", "closing"}
    /\ c \in cut \/ sw[c] = "closing" \/ (cw[c] \in {"closing", "closed"} /\ up[c] = <<>>)
    /\ sw' = [sw EXCEPT ![c] = "closed"]
    /\ UNCHANGED <<mode, pageVars, clientVars, cw, up, down, cut, at, procVars, inputVars>>

\* The 'close' event of the server's WebSocket.
ServerClosed(c) ==
    /\ sw[c] \in {"open", "closing"}
    /\ c \in cut \/ sw[c] = "closing" \/ (cw[c] \in {"closing", "closed"} /\ up[c] = <<>>)
    /\ sw' = [sw EXCEPT ![c] = "closed"]
    /\ Release(c)
    /\ UNCHANGED <<mode, pageVars, clientVars, cw, up, down, cut, at, tunnel, late, inputVars>>

\* A connection breaks, or the tab is gone.
Break(c) ==
    /\ c \notin cut /\ cw[c] # "none" /\ Cardinality(cut) < MaxCuts
    /\ cut' = cut \cup {c}
    /\ UNCHANGED <<mode, pageVars, clientVars, cw, sw, up, down, at, procVars, inputVars>>

-------------------------------------------------------------------------------
Next ==
    \/ Stop \/ Refresh \/ SendControl
    \/ \E ok \in BOOLEAN : Hydrated(ok) \/ Connects(ok)
    \/ \E c \in Conn :
         \/ ClientOpens(c) \/ ClientClosed(c) \/ ServerClosed(c) \/ ControlArrives(c) \/ Break(c)
         \/ Accept(c) \/ Launches(c) \/ TunnelFails(c) \/ TunnelRemoved(c)
         \/ Gathers(c) \/ GatherTimesOut(c) \/ VideoEnds(c) \/ ProcessExits(c)
         \/ \E ok \in BOOLEAN : \/ Pushed(c, ok) \/ HeaderArrives(c, ok)
                                \/ AudioLoads(c, ok)
         \/ \E sound \in Sounds : MetadataArrives(c, sound)

\* Sockets tell of their end, adb answers, timers fire, start() goes on; a process that was
\* killed, or that cannot reach the server, exits.
Fairness ==
    /\ WF_vars(\E ok \in BOOLEAN : Hydrated(ok)) /\ WF_vars(\E ok \in BOOLEAN : Connects(ok))
    /\ \A c \in Conn :
         /\ WF_vars(\E sound \in Sounds : MetadataArrives(c, sound)) /\ WF_vars(ControlArrives(c))
         /\ WF_vars(\E ok \in BOOLEAN : AudioLoads(c, ok))
         /\ WF_vars((c \in cut \/ cw[c] = "closing" \/ sw[c] \in {"closing", "closed"}) /\ ClientClosed(c))
         /\ WF_vars(ServerClosed(c)) /\ WF_vars(TunnelRemoved(c))
         /\ WF_vars(\E ok \in BOOLEAN : Pushed(c, ok))
         /\ WF_vars(Launches(c) \/ TunnelFails(c)) /\ WF_vars(Gathers(c) \/ GatherTimesOut(c))
         /\ WF_vars((proc[c] = "killed" \/ ~Reachable(c)) /\ ProcessExits(c))

Spec == Init /\ [][Next]_vars /\ Fairness

-------------------------------------------------------------------------------
(* Properties.                                                              *)

\* What the user does once the stream is there reaches the device, in order, as long as the
\* server has the connection: the metadata tell that the control socket is ready.
ControlReady == \A c \in Conn :
    /\ sw[c] = "open" /\ c \notin cut
         => \A n \in owed[c] : \E i \in 1..Len(got[c] \o up[c]) : (got[c] \o up[c])[i] = n
    /\ \A i, j \in 1..Len(got[c]) : i < j => got[c][i] < got[c][j]

\* After a refresh only the new connection is kept, and only its sound plays, unless a refresh
\* came while startStream() was choosing the codec: that one connects twice.
OneStream == Cardinality(heard) <= 1 =>
    \A c \in Conn : /\ cw[c] \in {"connecting", "open"} => c = demuxer
                    /\ audio[c] \in {"loading", "on"} => c = playing

\* A page that closes its connection, or loses it, leaves nothing behind on the server or the
\* device once scrcpy-server had been launched: listener, tunnel, process, sockets.
Left(c) == listener[c] = "open" \/ tunnel[c] = "up" \/ proc[c] # "exited" \/ socks[c] \in {"some", "held"}
CleanedUp == \A c \in Conn :
    (proc[c] # "none" /\ c \notin late /\ (c \in released \cup cut \/ cw[c] \in {"closing", "closed"})) ~> ~Left(c)

\* A session that cannot start, or whose scrcpy-server ends, is told to the page's stream.
EndIsTold == \A c \in Conn :
    (c \in heard /\ (at[c] = "failed" \/ proc[c] = "exited")) ~> (c \in told \/ c \notin heard)

===============================================================================
