-------------------------- MODULE ScrcpySessionProofs --------------------------
(***************************************************************************)
(* Safety of a stream for any number of connections, control messages and  *)
(* breaks, on every kind of device.                                        *)
(***************************************************************************)
EXTENDS ScrcpySession, FiniteSetTheorems, TLAPS

-------------------------------------------------------------------------------
(* The inductive invariant.                                                 *)

PageTyped ==
    /\ mode \in Modes
    /\ page \in {"hydrating", "choosing", "running", "refused"}
    /\ stopFn \in {"unset", "set", "used"} /\ view = (stopFn = "set") /\ stopped \in BOOLEAN
    /\ conns \in 0..MaxConn /\ playing \in 0..conns
    /\ told \subseteq Conn /\ seen \subseteq Conn /\ sends \in 0..MaxSends

WireTyped ==
    /\ audio \in [Conn -> {"none", "loading", "on", "cut", "stopped", "stray"}]
    /\ cw \in [Conn -> {"none", "connecting", "open", "closing", "closed"}]
    /\ sw \in [Conn -> {"none", "open", "closing", "closed"}]
    /\ down \in [Conn -> BOOLEAN] /\ cut \subseteq Conn

ServerTyped ==
    /\ at \in [Conn -> Places] /\ released \subseteq Conn /\ removing \subseteq Conn /\ late \subseteq Conn
    /\ listener \in [Conn -> {"none", "open", "closed"}]
    /\ tunnel \in [Conn -> {"none", "asked", "up", "down"}]
    /\ proc \in [Conn -> {"none", "running", "killed", "exited"}]
    /\ socks \in [Conn -> {"none", "some", "held", "gone"}]

InputTyped ==
    /\ up \in [Conn -> Seq(1..MaxSends)] /\ got \in [Conn -> Seq(1..MaxSends)]
    /\ owed \in [Conn -> SUBSET (1..MaxSends)]

\* The demuxer of the stream is the one of its last connection, and there is room for the one that
\* startStream() is about to open.
Paging ==
    /\ demuxer = conns /\ heard \subseteq 1..conns
    /\ conns # 0 => conns \in heard
    /\ page = "hydrating" => conns = 0 /\ stopFn = "unset"
    /\ page = "choosing" => conns < MaxConn
    /\ \A c \in Conn : c > conns => cw[c] = "none"

\* A session: nothing before its socket, no socket of scrcpy-server before the process, a socket that is
\* open until the release. The page has the metadata only when the control socket is held.
Session(c) ==
    /\ sw[c] = "none" => at[c] = "none" /\ proc[c] = "none" /\ c \notin released /\ c \notin seen /\ ~down[c]
    /\ sw[c] = "closed" => c \in released
    /\ c \in released => sw[c] # "open"
    /\ proc[c] = "none" => socks[c] = "none" /\ tunnel[c] # "up"
    /\ (c \in seen \/ down[c]) /\ sw[c] = "open" => socks[c] = "held"
    /\ c \in seen => cw[c] \in {"open", "closing", "closed"}

Sessions == \A c \in Conn : Session(c)

\* With one demuxer that the stream hears, the others are closed and silent.
Alone == heard \subseteq {demuxer} =>
    /\ \A c \in Conn : /\ cw[c] \in {"connecting", "open"} => c = demuxer
                       /\ audio[c] \in {"loading", "on"} => c = playing
    /\ playing \in {None, demuxer}

Rising(s) == \A i, j \in 1..Len(s) : i < j => s[i] < s[j]
Has(s, n) == \E i \in 1..Len(s) : s[i] = n

\* The control messages of a connection: what the device got, then what is on the way.
Input(c) ==
    /\ owed[c] # {} => c \in seen
    /\ sw[c] = "open" /\ c \notin cut => \A n \in owed[c] : Has(got[c], n) \/ Has(up[c], n)
    /\ Rising(got[c]) /\ Rising(up[c])
    /\ \A i \in 1..Len(got[c]), j \in 1..Len(up[c]) : got[c][i] < up[c][j]
    /\ \A i \in 1..Len(got[c]) : got[c][i] <= sends
    /\ \A i \in 1..Len(up[c]) : up[c][i] <= sends

Inputs == \A c \in Conn : Input(c)

Typed == PageTyped /\ WireTyped /\ ServerTyped /\ InputTyped

IInv == Typed /\ Paging /\ Sessions /\ Alone /\ Inputs

-------------------------------------------------------------------------------
(* Types.                                                                   *)

\* Everything but the actions of the session on the server, and those.
FramePage == <<mode, page, stopFn, view, stopped, conns, playing, told, seen, sends>>
FrameWire == <<audio, cw, sw, down, cut>>
FrameServer == <<at, released, removing, late, listener, tunnel, proc, socks>>
FrameInput == <<up, got, owed>>

LEMMA QuietTypes ==
    /\ PageTyped /\ UNCHANGED FramePage => PageTyped'
    /\ WireTyped /\ UNCHANGED FrameWire => WireTyped'
    /\ ServerTyped /\ UNCHANGED FrameServer => ServerTyped'
    /\ InputTyped /\ UNCHANGED FrameInput => InputTyped'
BY DEF FramePage, FrameWire, FrameServer, FrameInput, PageTyped, WireTyped, ServerTyped, InputTyped

LEMMA InitTyped == Init => Typed
<1> SUFFICES ASSUME Init PROVE Typed
  OBVIOUS
<1>1. MaxConn \in Nat \ {0} /\ MaxSends \in Nat
  BY ScrcpySessionAssumption DEF ScrcpySessionAssumption
<1>2. PageTyped
  <2>1. view = (stopFn = "set")
    <3>1. ~view /\ stopFn # "set" /\ view \in BOOLEAN
      BY DEF Init
    <3> QED
      BY <3>1, Zenon
  <2>2. stopped \in BOOLEAN
    BY DEF Init
  <2> QED
    BY <1>1, <2>1, <2>2 DEF Init, PageTyped, None
<1>3. WireTyped
  BY DEF Init, WireTyped
<1>4. ServerTyped
  BY DEF Init, ServerTyped, Places
<1>5. InputTyped
  BY DEF Init, InputTyped
<1> QED
  BY <1>2, <1>3, <1>4, <1>5 DEF Typed

LEMMA ConnRange == MaxConn \in Nat \ {0} /\ MaxSends \in Nat /\ Conn = 1..MaxConn /\ None = 0
BY ScrcpySessionAssumption DEF ScrcpySessionAssumption, Conn, None

\* The page's actions on the sockets, and on the sound.
LEMMA SocketsTyped ==
    ASSUME WireTyped, InputTyped, NEW d, NEW c, Sockets(d, c)
    PROVE  /\ cw' \in [Conn -> {"none", "connecting", "open", "closing", "closed"}]
           /\ up' \in [Conn -> Seq(1..MaxSends)]
           /\ \A x \in Conn : cw'[x] = IF x = c THEN "connecting"
                                       ELSE IF x = d /\ cw[x] \in {"connecting", "open"} THEN "closing" ELSE cw[x]
           /\ \A x \in Conn : up'[x] = IF x = d /\ cw[x] = "connecting" THEN <<>> ELSE up[x]
<1>1. cw' = [x \in Conn |-> IF x = c THEN "connecting"
                            ELSE IF x = d /\ cw[x] \in {"connecting", "open"} THEN "closing" ELSE cw[x]]
  BY DEF Sockets
<1>2. up' = [x \in Conn |-> IF x = d /\ cw[x] = "connecting" THEN <<>> ELSE up[x]]
  BY DEF Sockets
<1>3. \A x \in Conn : up[x] \in Seq(1..MaxSends)
  BY DEF InputTyped
<1>4. <<>> \in Seq(1..MaxSends)
  OBVIOUS
<1>5. \A x \in Conn : up'[x] = IF x = d /\ cw[x] = "connecting" THEN <<>> ELSE up[x]
  BY <1>2
<1>6. up' \in [Conn -> Seq(1..MaxSends)]
  BY <1>2, <1>3, <1>4
<1>7. \A x \in Conn : cw'[x] = IF x = c THEN "connecting"
                               ELSE IF x = d /\ cw[x] \in {"connecting", "open"} THEN "closing" ELSE cw[x]
  BY <1>1
<1>8. cw' \in [Conn -> {"none", "connecting", "open", "closing", "closed"}]
  BY <1>1 DEF WireTyped
<1> QED
  BY <1>5, <1>6, <1>7, <1>8

\* One more, and one less.
LEMMA Appended ==
    ASSUME NEW T, NEW s \in Seq(T), NEW m \in T
    PROVE  /\ Append(s, m) \in Seq(T) /\ Len(s) \in Nat /\ Len(Append(s, m)) = Len(s) + 1
           /\ Append(s, m)[Len(s) + 1] = m
           /\ \A k \in 1..Len(s) : Append(s, m)[k] = s[k]
           /\ \A k \in 1..Len(Append(s, m)) : k \in 1..Len(s) \/ k = Len(s) + 1
OBVIOUS

LEMMA Popped ==
    ASSUME NEW T, NEW s \in Seq(T), s # <<>>
    PROVE  /\ Tail(s) \in Seq(T) /\ Len(s) \in Nat \ {0} /\ Len(Tail(s)) = Len(s) - 1
           /\ Head(s) = s[1] /\ Head(s) \in T
           /\ \A k \in 1..Len(Tail(s)) : k + 1 \in 1..Len(s) /\ Tail(s)[k] = s[k + 1]
           /\ \A k \in 1..Len(s) : k = 1 \/ (k - 1 \in 1..Len(Tail(s)) /\ Tail(s)[k - 1] = s[k])
OBVIOUS

LEMMA AudioTyped ==
    ASSUME WireTyped, StopAudio
    PROVE  /\ audio' \in [Conn -> {"none", "loading", "on", "cut", "stopped", "stray"}]
           /\ \A c \in Conn : c # playing => audio'[c] = audio[c]
           /\ \A c \in Conn : audio'[c] \in {"loading", "on"} => c # playing /\ audio[c] \in {"loading", "on"}
<1>1. audio' = [c \in Conn |-> IF c # playing THEN audio[c]
                         ELSE CASE audio[c] = "loading" -> "cut"
                                [] audio[c] = "on" -> "stopped"
                                [] OTHER -> audio[c]]
  BY DEF StopAudio
<1>2. \A c \in Conn : audio[c] \in {"none", "loading", "on", "cut", "stopped", "stray"}
  BY DEF WireTyped
<1>3. \A c \in Conn : audio'[c] = IF c # playing THEN audio[c]
                         ELSE CASE audio[c] = "loading" -> "cut"
                                [] audio[c] = "on" -> "stopped"
                                [] OTHER -> audio[c]
  BY <1>1
<1>4. \A c \in Conn : audio'[c] \in {"none", "loading", "on", "cut", "stopped", "stray"}
  BY <1>2, <1>3
<1>5. audio' \in [Conn -> {"none", "loading", "on", "cut", "stopped", "stray"}]
  BY <1>1, <1>4
<1> QED
  BY <1>2, <1>3, <1>5

\* What the page does to itself.
LEMMA PageTypes ==
    ASSUME IInv, \/ Stop \/ Refresh \/ SendControl
                 \/ \E ok \in BOOLEAN : Hydrated(ok) \/ Connects(ok)
    PROVE  Typed'
<1> USE ConnRange DEF IInv, Typed
<1>1. CASE Stop
  <2>1. UNCHANGED <<FrameServer, mode, page, conns, playing, told, seen, sends, sw, down, cut, got, owed>>
    BY <1>1 DEF Stop, procVars, FrameServer, inputVars
  <2>2. stopped' = TRUE /\ ((stopFn' = stopFn /\ view' = view) \/ (stopFn' = "used" /\ view' = FALSE))
    BY <1>1 DEF Stop
  <2>3. UNCHANGED <<cw, up, audio>> \/ (Sockets(demuxer, None) /\ StopAudio)
    BY <1>1 DEF Stop
  <2>4. PageTyped'
    BY <2>1, <2>2 DEF PageTyped
  <2>5. /\ cw' \in [Conn -> {"none", "connecting", "open", "closing", "closed"}]
        /\ up' \in [Conn -> Seq(1..MaxSends)]
        /\ audio' \in [Conn -> {"none", "loading", "on", "cut", "stopped", "stray"}]
    <3>1. CASE UNCHANGED <<cw, up, audio>>
      BY <3>1 DEF WireTyped, InputTyped
    <3>2. CASE Sockets(demuxer, None) /\ StopAudio
      <4>1. audio' \in [Conn -> {"none", "loading", "on", "cut", "stopped", "stray"}]
        BY <3>2, AudioTyped
      <4> QED
        BY <3>2, <4>1, SocketsTyped
    <3> QED
      BY <2>3, <3>1, <3>2
  <2>6. WireTyped' /\ InputTyped'
    BY <2>1, <2>5 DEF WireTyped, InputTyped
  <2> QED
    BY <2>1, <2>4, <2>6, QuietTypes
<1>2. CASE Refresh
  <2>1. UNCHANGED <<FrameServer, mode, page, stopFn, view, stopped, told, seen, sends, sw, down, cut, got, owed>>
    BY <1>2 DEF Refresh, procVars, FrameServer, inputVars
  <2>2. /\ conns + (IF page = "choosing" THEN 1 ELSE 0) < MaxConn
        /\ conns' = conns + 1 /\ Sockets(demuxer, conns + 1) /\ StopAudio /\ playing' = None
    BY <1>2 DEF Refresh
  <2>3. conns' \in 0..MaxConn
    BY <2>2 DEF PageTyped
  <2>4. PageTyped'
    BY <2>1, <2>2, <2>3 DEF PageTyped
  <2>5. WireTyped' /\ InputTyped'
    BY <2>1, <2>2, SocketsTyped, AudioTyped DEF WireTyped, InputTyped
  <2> QED
    BY <2>1, <2>4, <2>5, QuietTypes
<1>3. CASE SendControl
  <2>1. UNCHANGED <<FrameServer, FrameWire, mode, page, stopFn, view, stopped, conns, playing, told, seen, got>>
    BY <1>3 DEF SendControl, procVars, FrameServer, FrameWire, pageVars, clientVars
  <2>2. sends' = sends + 1 /\ sends < MaxSends
    BY <1>3 DEF SendControl
  <2>3. sends + 1 \in 1..MaxSends /\ PageTyped'
    BY <2>1, <2>2 DEF PageTyped
  <2>4. /\ up' = up \/ up' = [up EXCEPT ![demuxer] = Append(@, sends + 1)]
        /\ owed' = owed \/ owed' = [owed EXCEPT ![demuxer] = @ \cup {sends + 1}]
    BY <1>3 DEF SendControl
  <2>5. up' \in [Conn -> Seq(1..MaxSends)]
    <3>1. \A x \in Conn : Append(up[x], sends + 1) \in Seq(1..MaxSends)
      BY <2>3, Appended DEF InputTyped
    <3>2. \A x \in Conn : up[x] \in Seq(1..MaxSends)
      BY DEF InputTyped
    <3> DEFINE T == Seq(1..MaxSends)
               new == Append(up[demuxer], sends + 1)
    <3>3. up \in [Conn -> T] /\ (up' = up \/ up' = [up EXCEPT ![demuxer] = new]) /\ (demuxer \in Conn => new \in T)
      BY <2>4, <3>1 DEF InputTyped
    <3> HIDE DEF T, new
    <3>4. up' \in [Conn -> T]
      BY <3>3
    <3> QED
      BY <3>4 DEF T
  <2>6. owed' \in [Conn -> SUBSET (1..MaxSends)]
    <3> DEFINE new == owed[demuxer] \cup {sends + 1}
    <3>1. owed' = owed \/ owed' = [owed EXCEPT ![demuxer] = new]
      BY <2>4
    <3>2. demuxer \in Conn => new \in SUBSET (1..MaxSends)
      BY <2>3 DEF InputTyped
    <3> HIDE DEF new
    <3> QED
      BY <3>1, <3>2 DEF InputTyped
  <2>7. InputTyped'
    BY <2>1, <2>5, <2>6 DEF InputTyped
  <2> QED
    BY <2>1, <2>3, <2>7, QuietTypes
<1>4. ASSUME NEW ok \in BOOLEAN, Hydrated(ok) PROVE Typed'
  <2>1. UNCHANGED <<FrameServer, FrameWire, FrameInput, mode, stopped, conns, playing, told, seen, sends>>
    BY <1>4 DEF Hydrated, procVars, FrameServer, FrameWire, FrameInput, wireVars, clientVars, inputVars
  <2>2. /\ page' \in {"choosing", "refused"}
        /\ UNCHANGED <<view, stopFn>> \/ (view' = TRUE /\ stopFn' = "set")
    BY <1>4 DEF Hydrated
  <2>3. PageTyped'
    BY <2>1, <2>2 DEF PageTyped
  <2> QED
    BY <2>1, <2>3, QuietTypes
<1>5. ASSUME NEW ok \in BOOLEAN, Connects(ok) PROVE Typed'
  <2>1. UNCHANGED <<FrameServer, mode, view, stopFn, stopped, playing, told, seen, sends, audio, sw, down, cut, got, owed>>
    BY <1>5 DEF Connects, procVars, FrameServer, inputVars
  <2>2. /\ page' \in {"running", "refused"} /\ page = "choosing"
        /\ \/ conns' = conns + 1 /\ Sockets(None, conns + 1)
           \/ UNCHANGED <<conns, cw, up>>
    BY <1>5 DEF Connects
  <2>3. conns' \in 0..MaxConn /\ conns <= conns'
    BY <2>2 DEF PageTyped, Paging
  <2>4. PageTyped'
    BY <2>1, <2>2, <2>3 DEF PageTyped
  <2>5. WireTyped' /\ InputTyped'
    BY <2>1, <2>2, SocketsTyped DEF WireTyped, InputTyped
  <2> QED
    BY <2>1, <2>4, <2>5, QuietTypes
<1> QED
  BY <1>1, <1>2, <1>3, <1>4, <1>5

\* What the page hears, and the network.
LEMMA HearTypes ==
    ASSUME IInv, NEW c \in Conn,
           \/ ClientOpens(c) \/ ClientClosed(c) \/ Break(c) \/ ControlArrives(c)
           \/ \E ok \in BOOLEAN : AudioLoads(c, ok)
           \/ \E sound \in Sounds : MetadataArrives(c, sound)
    PROVE  Typed'
<1> USE ConnRange DEF IInv, Typed
<1>1. CASE ClientOpens(c)
  <2>1. UNCHANGED <<FramePage, FrameServer, FrameInput, audio, sw, down, cut>>
    BY <1>1 DEF ClientOpens, procVars, FrameServer, FramePage, FrameInput, pageVars, clientVars, inputVars
  <2>2. WireTyped'
    BY <1>1, <2>1 DEF ClientOpens, WireTyped
  <2> QED
    BY <2>1, <2>2, QuietTypes
<1>2. CASE ClientClosed(c)
  <2>1. UNCHANGED <<FrameServer, mode, page, stopFn, view, stopped, conns, playing, seen, sends, sw, down, cut, got, owed>>
    BY <1>2 DEF ClientClosed, procVars, FrameServer, pageVars, inputVars
  <2>2. /\ cw' = [cw EXCEPT ![c] = "closed"] /\ (up' = up \/ up' = [up EXCEPT ![c] = <<>>])
        /\ UNCHANGED <<told, audio>> \/ (told' = told \cup {c} /\ StopAudio)
    BY <1>2 DEF ClientClosed
  <2>3. PageTyped'
    BY <2>1, <2>2 DEF PageTyped
  <2>4. audio' \in [Conn -> {"none", "loading", "on", "cut", "stopped", "stray"}]
    BY <2>2, AudioTyped DEF WireTyped
  <2>5. WireTyped'
    BY <2>1, <2>2, <2>4 DEF WireTyped
  <2>6. InputTyped'
    <3>1. <<>> \in Seq(1..MaxSends)
      OBVIOUS
    <3>2. up' \in [Conn -> Seq(1..MaxSends)]
      BY <2>2, <3>1 DEF InputTyped
    <3> QED
      BY <2>1, <3>2 DEF InputTyped
  <2> QED
    BY <2>1, <2>3, <2>5, <2>6, QuietTypes
<1>3. CASE Break(c)
  <2>1. UNCHANGED <<FramePage, FrameServer, FrameInput, audio, cw, sw, down>>
    BY <1>3 DEF Break, procVars, FrameServer, FramePage, FrameInput, pageVars, clientVars, inputVars
  <2>2. WireTyped'
    BY <1>3, <2>1 DEF Break, WireTyped
  <2> QED
    BY <2>1, <2>2, QuietTypes
<1>4. CASE ControlArrives(c)
  <2>1. UNCHANGED <<FramePage, FrameServer, FrameWire, owed>>
    BY <1>4 DEF ControlArrives, procVars, FrameServer, FramePage, FrameWire, pageVars, clientVars
  <2>2. /\ up[c] # <<>> /\ up' = [up EXCEPT ![c] = Tail(@)]
        /\ got' = got \/ got' = [got EXCEPT ![c] = Append(@, Head(up[c]))]
    BY <1>4 DEF ControlArrives
  <2>3. up[c] \in Seq(1..MaxSends) /\ got[c] \in Seq(1..MaxSends)
    BY DEF InputTyped
  <2>4. Tail(up[c]) \in Seq(1..MaxSends) /\ Append(got[c], Head(up[c])) \in Seq(1..MaxSends)
    BY <2>2, <2>3, Popped, Appended
  <2>5. InputTyped'
    BY <2>1, <2>2, <2>4 DEF InputTyped
  <2> QED
    BY <2>1, <2>5, QuietTypes
<1>5. ASSUME NEW ok \in BOOLEAN, AudioLoads(c, ok) PROVE Typed'
  <2>1. UNCHANGED <<FramePage, FrameServer, FrameInput, cw, sw, down, cut>>
    BY <1>5 DEF AudioLoads, procVars, FrameServer, FramePage, FrameInput, pageVars, wireVars, inputVars
  <2>2. \E s \in {"stopped", "stray", "on"} : audio' = [audio EXCEPT ![c] = s]
    BY <1>5 DEF AudioLoads
  <2>3. WireTyped'
    BY <2>1, <2>2 DEF WireTyped
  <2> QED
    BY <2>1, <2>3, QuietTypes
<1>6. ASSUME NEW sound \in Sounds, MetadataArrives(c, sound) PROVE Typed'
  <2>1. UNCHANGED <<FrameServer, FrameInput, mode, page, stopFn, view, stopped, conns, told, sends, cw, sw, cut>>
    BY <1>6 DEF MetadataArrives, procVars, FrameServer, FrameInput, pageVars, inputVars
  <2>2. /\ cw[c] = "open" /\ down' = [down EXCEPT ![c] = FALSE] /\ seen' = seen \cup {c}
        /\ UNCHANGED <<audio, playing>> \/ (audio' = [audio EXCEPT ![c] = "loading"] /\ playing' = c)
    BY <1>6 DEF MetadataArrives
  <2>3. c \in 0..conns
    BY <2>2 DEF Paging, PageTyped
  <2>4. PageTyped'
    BY <2>1, <2>2, <2>3 DEF PageTyped
  <2>5. WireTyped'
    BY <2>1, <2>2 DEF WireTyped
  <2> QED
    BY <2>1, <2>4, <2>5, QuietTypes
<1> QED
  BY <1>1, <1>2, <1>3, <1>4, <1>5, <1>6

\* The session on the server.
Serves(c) ==
    \/ Accept(c) \/ Launches(c) \/ TunnelFails(c) \/ TunnelRemoved(c) \/ ServerClosed(c)
    \/ Gathers(c) \/ GatherTimesOut(c) \/ VideoEnds(c) \/ ProcessExits(c)
    \/ \E ok \in BOOLEAN : Pushed(c, ok) \/ HeaderArrives(c, ok)

LEMMA ServeQuiet ==
    ASSUME NEW c \in Conn, Serves(c)
    PROVE  UNCHANGED <<FramePage, FrameInput, audio, cw, cut, heard, demuxer>>
BY DEF Serves, Accept, Launches, TunnelFails, TunnelRemoved, ServerClosed, Gathers, GatherTimesOut, VideoEnds,
       ProcessExits, Pushed, HeaderArrives, pageVars, clientVars, inputVars, wireVars, FramePage, FrameInput

\* What a release changes, if it is the first.
LEMMA ReleaseEffect ==
    ASSUME ServerTyped, NEW c \in Conn, Release(c)
    PROVE  /\ UNCHANGED <<released, listener, removing, proc, socks>> \/ released' = released \cup {c}
           /\ c \in released'
           /\ released' \subseteq Conn /\ removing' \subseteq Conn
           /\ listener' \in [Conn -> {"none", "open", "closed"}]
           /\ proc' \in [Conn -> {"none", "running", "killed", "exited"}]
           /\ socks' \in [Conn -> {"none", "some", "held", "gone"}]
           /\ \A x \in Conn : x # c => /\ proc'[x] = proc[x] /\ socks'[x] = socks[x]
                                       /\ x \in released' <=> x \in released
           /\ proc'[c] = "none" <=> proc[c] = "none"
           /\ socks'[c] = "none" <=> socks[c] = "none"
           /\ c \in released => UNCHANGED <<released, proc, socks>>
BY DEF ServerTyped, Release, Free

LEMMA FreeEffect ==
    ASSUME ServerTyped, NEW c \in Conn, Free(c)
    PROVE  /\ released' = released \cup {c} /\ released' \subseteq Conn /\ removing' \subseteq Conn
           /\ listener' \in [Conn -> {"none", "open", "closed"}]
BY DEF ServerTyped, Free

LEMMA ServeTypes ==
    ASSUME IInv, NEW c \in Conn, Serves(c)
    PROVE  Typed'
<1> USE DEF IInv, Typed
<1>0. UNCHANGED <<FramePage, FrameInput, audio, cw, cut>>
  BY ServeQuiet
<1>1. CASE Accept(c)
  <2>1. WireTyped' /\ ServerTyped'
    BY <1>0, <1>1 DEF Accept, WireTyped, ServerTyped, procVars, Places
  <2> QED
    BY <1>0, <2>1, QuietTypes
<1>2. CASE Launches(c)
  <2>1. WireTyped'
    BY <1>2 DEF Launches, WireTyped, wireVars, clientVars
  <2>2. ServerTyped'
    BY <1>2 DEF Launches, ServerTyped, Places
  <2> QED
    BY <1>0, <2>1, <2>2, QuietTypes
<1>3. CASE TunnelFails(c)
  <2>1. WireTyped'
    BY <1>0, <1>3 DEF TunnelFails, Fails, ClosingSocket, WireTyped
  <2>2. ServerTyped'
    BY <1>3 DEF TunnelFails, Fails, ServerTyped, Places
  <2> QED
    BY <1>0, <2>1, <2>2, QuietTypes
<1>4. CASE TunnelRemoved(c)
  <2>1. WireTyped'
    BY <1>4 DEF TunnelRemoved, WireTyped, wireVars, clientVars
  <2>2. ServerTyped'
    BY <1>4 DEF TunnelRemoved, ServerTyped, Places
  <2> QED
    BY <1>0, <2>1, <2>2, QuietTypes
<1>5. CASE ServerClosed(c)
  <2>1. WireTyped'
    BY <1>0, <1>5 DEF ServerClosed, WireTyped
  <2>2. ServerTyped'
    BY <1>5, ReleaseEffect DEF ServerClosed, ServerTyped
  <2> QED
    BY <1>0, <2>1, <2>2, QuietTypes
<1>6. CASE Gathers(c)
  <2>1. WireTyped'
    BY <1>6 DEF Gathers, WireTyped, wireVars, clientVars
  <2>2. ServerTyped'
    BY <1>6 DEF Gathers, ServerTyped, Places
  <2> QED
    BY <1>0, <2>1, <2>2, QuietTypes
<1>7. CASE GatherTimesOut(c)
  <2>1. WireTyped'
    BY <1>0, <1>7 DEF GatherTimesOut, Fails, ClosingSocket, WireTyped
  <2>2. ServerTyped'
    BY <1>7 DEF GatherTimesOut, Fails, ServerTyped, Places, procVars
  <2> QED
    BY <1>0, <2>1, <2>2, QuietTypes
<1>8. CASE VideoEnds(c)
  <2>1. WireTyped'
    BY <1>0, <1>8 DEF VideoEnds, ClosingSocket, WireTyped
  <2>2. ServerTyped'
    BY <1>8, ReleaseEffect DEF VideoEnds, ServerTyped
  <2> QED
    BY <1>0, <2>1, <2>2, QuietTypes
<1>9. CASE ProcessExits(c)
  <2>1. WireTyped'
    BY <1>0, <1>9 DEF ProcessExits, ClosingSocket, WireTyped
  <2>2. ServerTyped'
    BY <1>9, FreeEffect DEF ProcessExits, ServerTyped
  <2> QED
    BY <1>0, <2>1, <2>2, QuietTypes
<1>10. ASSUME NEW ok \in BOOLEAN, Pushed(c, ok) PROVE Typed'
  <2>1. WireTyped'
    BY <1>0, <1>10 DEF Pushed, Fails, ClosingSocket, WireTyped
  <2>2. ServerTyped'
    BY <1>10 DEF Pushed, Fails, ServerTyped, Places
  <2> QED
    BY <1>0, <2>1, <2>2, QuietTypes
<1>11. ASSUME NEW ok \in BOOLEAN, HeaderArrives(c, ok) PROVE Typed'
  <2>1. WireTyped'
    BY <1>0, <1>11 DEF HeaderArrives, Fails, ClosingSocket, WireTyped
  <2>2. ServerTyped'
    BY <1>11 DEF HeaderArrives, Fails, ServerTyped, Places, procVars
  <2> QED
    BY <1>0, <2>1, <2>2, QuietTypes
<1> QED
  BY <1>1, <1>2, <1>3, <1>4, <1>5, <1>6, <1>7, <1>8, <1>9, <1>10, <1>11 DEF Serves

-------------------------------------------------------------------------------
(* The steps, in the groups that the parts of the invariant tell apart.     *)

PageSteps == \/ Stop \/ Refresh \/ SendControl
             \/ \E ok \in BOOLEAN : Hydrated(ok) \/ Connects(ok)

HearSteps(c) == \/ ClientOpens(c) \/ ClientClosed(c) \/ Break(c) \/ ControlArrives(c)
                \/ \E ok \in BOOLEAN : AudioLoads(c, ok)
                \/ \E sound \in Sounds : MetadataArrives(c, sound)

LEMMA Steps == Next => PageSteps \/ \E c \in Conn : HearSteps(c) \/ Serves(c)
BY DEF Next, PageSteps, HearSteps, Serves

-------------------------------------------------------------------------------
(* The page and its connections.                                            *)

LEMMA PagingKeeps == IInv /\ [Next]_vars => Paging'
<1> SUFFICES ASSUME IInv, [Next]_vars PROVE Paging'
  OBVIOUS
<1>0. WireTyped /\ InputTyped /\ Paging /\ PageTyped
  BY DEF IInv, Typed
<1>1. CASE UNCHANGED <<page, stopFn, conns, demuxer, heard>> /\ \A c \in Conn : cw[c] = "none" => cw'[c] = "none"
  BY <1>0, <1>1 DEF Paging
<1>2. CASE UNCHANGED vars
  BY <1>1, <1>2 DEF vars, pageVars, clientVars, wireVars
<1>3. CASE \E c \in Conn : Serves(c)
  <2>1. UNCHANGED <<page, stopFn, conns, demuxer, heard, cw>>
    BY <1>3, ServeQuiet DEF FramePage
  <2> QED
    BY <1>1, <2>1
<1>4. ASSUME NEW c \in Conn, HearSteps(c) PROVE Paging'
  <2>1. UNCHANGED <<page, stopFn, conns, demuxer, heard>>
    BY <1>4 DEF HearSteps, ClientOpens, ClientClosed, Break, ControlArrives, AudioLoads, MetadataArrives,
                pageVars, clientVars
  <2>2. \A x \in Conn : cw[x] = "none" => cw'[x] = "none"
    BY <1>0, <1>4 DEF HearSteps, ClientOpens, ClientClosed, Break, ControlArrives, AudioLoads, MetadataArrives,
                wireVars, WireTyped
  <2> QED
    BY <1>1, <2>1, <2>2
<1>5. CASE Stop
  <2>1. UNCHANGED <<page, conns, demuxer, heard>>
    BY <1>5 DEF Stop
  <2>2. stopFn' = stopFn \/ stopFn = "set"
    BY <1>5 DEF Stop
  <2>3. \A c \in Conn : cw[c] = "none" => cw'[c] = "none"
    <3>1. CASE Sockets(demuxer, None)
      <4>1. \A x \in Conn : cw'[x] = IF x = None THEN "connecting"
                                     ELSE IF x = demuxer /\ cw[x] \in {"connecting", "open"} THEN "closing" ELSE cw[x]
        BY <1>0, <3>1, SocketsTyped
      <4> QED
        BY <4>1, ConnRange
    <3> QED
      BY <1>5, <3>1 DEF Stop
  <2> QED
    BY <1>0, <2>1, <2>2, <2>3 DEF Paging
<1>6. CASE Refresh
  <2>1. /\ page' = page /\ stopFn' = stopFn /\ stopFn = "set" /\ page # "hydrating"
        /\ conns' = conns + 1 /\ demuxer' = conns + 1 /\ heard' = (heard \ {demuxer}) \cup {conns + 1}
        /\ Sockets(demuxer, conns + 1) /\ conns \in Nat
        /\ conns + (IF page = "choosing" THEN 1 ELSE 0) < MaxConn
    <3>1. view /\ view = (stopFn = "set")
      BY <1>0, <1>6 DEF Refresh, PageTyped
    <3>2. stopFn = "set"
      BY <3>1, Zenon
    <3>3. page # "hydrating" /\ conns \in Nat
      BY <1>0, <3>2, ConnRange DEF PageTyped, Paging
    <3> QED
      BY <1>6, <3>2, <3>3 DEF Refresh
  <2>2. \A c \in Conn : c > conns + 1 => cw'[c] = "none"
    <3>1. \A x \in Conn : cw'[x] = IF x = conns + 1 THEN "connecting"
                                   ELSE IF x = demuxer /\ cw[x] \in {"connecting", "open"} THEN "closing" ELSE cw[x]
      BY <1>0, <2>1, SocketsTyped
    <3> QED
      BY <1>0, <2>1, <3>1, ConnRange DEF Paging
  <2>3. heard' \subseteq 1..conns'
    BY <1>0, <2>1 DEF Paging
  <2>4. page' = "choosing" => conns' < MaxConn
    BY <2>1, ConnRange
  <2> QED
    BY <2>1, <2>2, <2>3, <2>4 DEF Paging
<1>7. CASE SendControl
  BY <1>1, <1>7 DEF SendControl, pageVars, clientVars
<1>8. ASSUME NEW ok \in BOOLEAN, Hydrated(ok) PROVE Paging'
  <2>1. /\ page = "hydrating" /\ page' \in {"choosing", "refused"}
        /\ UNCHANGED <<conns, demuxer, heard, cw>>
    BY <1>8 DEF Hydrated, clientVars, wireVars
  <2>2. conns = 0 /\ 0 < MaxConn
    BY <1>0, <2>1, ConnRange DEF Paging
  <2> QED
    BY <1>0, <2>1, <2>2 DEF Paging
<1>9. ASSUME NEW ok \in BOOLEAN, Connects(ok) PROVE Paging'
  <2>1. page = "choosing" /\ page' \in {"running", "refused"} /\ stopFn' = stopFn /\ conns \in Nat
    BY <1>0, <1>9, ConnRange DEF Connects, PageTyped
  <2>2. CASE UNCHANGED <<conns, demuxer, cw, up, heard>>
    BY <1>0, <2>1, <2>2 DEF Paging
  <2>3. CASE /\ conns' = conns + 1 /\ demuxer' = conns + 1 /\ Sockets(None, conns + 1)
             /\ heard' = heard \cup {conns + 1}
    <3>1. \A c \in Conn : c > conns + 1 => cw'[c] = "none"
      <4>1. \A x \in Conn : cw'[x] = IF x = conns + 1 THEN "connecting"
                                     ELSE IF x = None /\ cw[x] \in {"connecting", "open"} THEN "closing" ELSE cw[x]
        BY <1>0, <2>3, SocketsTyped
      <4>2. \A c \in Conn : c > conns => cw[c] = "none"
        BY <1>0 DEF Paging
      <4> QED
        BY <2>1, <4>1, <4>2, ConnRange
    <3>2. heard' \subseteq 1..conns'
      BY <1>0, <2>1, <2>3 DEF Paging
    <3> QED
      BY <2>1, <2>3, <3>1, <3>2 DEF Paging
  <2> QED
    BY <1>9, <2>2, <2>3 DEF Connects
<1> QED
  BY <1>2, <1>3, <1>4, <1>5, <1>6, <1>7, <1>8, <1>9, Steps DEF PageSteps

-------------------------------------------------------------------------------
(* The sessions.                                                            *)

\* The page touches no session but for its own end of the socket.
LEMMA PageSessions == IInv /\ PageSteps => Sessions'
<1> SUFFICES ASSUME IInv, PageSteps, NEW x \in Conn PROVE Session(x)'
  BY DEF Sessions
<1>0. WireTyped /\ InputTyped /\ Paging /\ PageTyped /\ Session(x)
  BY DEF IInv, Typed, Sessions
<1>1. UNCHANGED <<sw, at, proc, socks, tunnel, down, released, seen>>
  BY DEF PageSteps, Stop, Refresh, SendControl, Hydrated, Connects, clientVars, wireVars, procVars
<1>2. \/ UNCHANGED cw
      \/ Sockets(demuxer, None)
      \/ Sockets(demuxer, conns + 1)
      \/ Sockets(None, conns + 1)
  BY DEF PageSteps, Stop, Refresh, SendControl, Hydrated, Connects, wireVars
<1>3. conns \in Nat /\ conns + 1 > conns
  BY <1>0, ConnRange DEF PageTyped
<1>4. x = conns + 1 => x \notin seen
  BY <1>0, <1>3 DEF Paging, Session
<1>5. x \in seen => cw'[x] \in {"open", "closing", "closed"}
  <2>1. CASE UNCHANGED cw
    BY <1>0, <2>1 DEF Session
  <2>2. ASSUME NEW d \in Nat, NEW c \in Nat, Sockets(d, c), c = conns + 1 \/ c = None
        PROVE  x \in seen => cw'[x] \in {"open", "closing", "closed"}
    <3>1. cw'[x] = IF x = c THEN "connecting"
                   ELSE IF x = d /\ cw[x] \in {"connecting", "open"} THEN "closing" ELSE cw[x]
      BY <1>0, <2>2, SocketsTyped
    <3> QED
      BY <1>0, <1>4, <2>2, <3>1, ConnRange DEF Session
  <2>3. demuxer \in Nat /\ None \in Nat /\ conns + 1 \in Nat
    BY <1>0, <1>3, ConnRange DEF Paging
  <2> QED
    BY <1>2, <2>1, <2>2, <2>3
<1> QED
  BY <1>0, <1>1, <1>5 DEF Session

LEMMA HearSessions == \A c \in Conn : IInv /\ HearSteps(c) => Sessions'
<1> SUFFICES ASSUME NEW c \in Conn, IInv, HearSteps(c), NEW x \in Conn PROVE Session(x)'
  BY DEF Sessions
<1>0. WireTyped /\ Session(x)
  BY DEF IInv, Typed, Sessions
<1>1. UNCHANGED <<sw, at, proc, socks, tunnel, released>>
  BY DEF HearSteps, ClientOpens, ClientClosed, Break, ControlArrives, AudioLoads, MetadataArrives,
         wireVars, procVars
<1>2. CASE ~\E sound \in Sounds : MetadataArrives(c, sound)
  <2>1. UNCHANGED <<down, seen>>
    BY <1>2 DEF HearSteps, ClientOpens, ClientClosed, Break, ControlArrives, AudioLoads, clientVars, wireVars
  <2>2. cw[x] \in {"open", "closing", "closed"} => cw'[x] \in {"open", "closing", "closed"}
    BY <1>0, <1>2 DEF HearSteps, ClientOpens, ClientClosed, Break, ControlArrives, AudioLoads, wireVars, WireTyped
  <2> QED
    BY <1>0, <1>1, <2>1, <2>2 DEF Session
<1>3. ASSUME NEW sound \in Sounds, MetadataArrives(c, sound) PROVE Session(x)'
  <2>1. /\ down[c] /\ cw[c] = "open" /\ cw' = cw /\ down' = [down EXCEPT ![c] = FALSE]
        /\ seen' = seen \cup {c}
    BY <1>3 DEF MetadataArrives
  <2>2. down'[x] => down[x]
    BY <1>0, <2>1 DEF WireTyped
  <2>3. CASE x = c
    <3>1. down[x] /\ cw[x] = "open" /\ cw'[x] = "open"
      BY <2>1, <2>3
    <3> QED
      BY <1>0, <1>1, <2>2, <3>1 DEF Session
  <2>4. CASE x # c
    <3>1. x \in seen' <=> x \in seen
      BY <2>1, <2>4
    <3> QED
      BY <1>0, <1>1, <2>1, <2>2, <3>1 DEF Session
  <2> QED
    BY <2>3, <2>4
<1> QED
  BY <1>2, <1>3

\* Another session is not disturbed.
LEMMA OtherSessions ==
    ASSUME IInv, NEW c \in Conn, Serves(c), NEW x \in Conn, x # c
    PROVE  Session(x)'
<1>0. WireTyped /\ ServerTyped /\ Session(x)
  BY DEF IInv, Typed, Sessions
<1>1. UNCHANGED <<cw, seen>>
  BY ServeQuiet DEF FramePage
<1>2. sw'[x] = sw[x] /\ at'[x] = at[x] /\ tunnel'[x] = tunnel[x] /\ down'[x] = down[x]
  BY <1>0 DEF Serves, Accept, Launches, TunnelFails, TunnelRemoved, ServerClosed, Gathers, GatherTimesOut, VideoEnds,
       ProcessExits, Pushed, HeaderArrives, Fails, ClosingSocket, wireVars, procVars, clientVars, WireTyped, ServerTyped
<1>3. proc'[x] = proc[x] /\ socks'[x] = socks[x] /\ (x \in released' <=> x \in released)
  <2>1. CASE Release(c)
    BY <1>0, <2>1, ReleaseEffect
  <2>2. CASE ProcessExits(c)
    BY <1>0, <2>2 DEF ProcessExits, Free, ServerTyped
  <2>3. CASE UNCHANGED released
    BY <1>0, <2>3 DEF Serves, Accept, Launches, TunnelFails, TunnelRemoved, ServerClosed, Release, Gathers,
         GatherTimesOut, VideoEnds, ProcessExits, Pushed, HeaderArrives, wireVars, procVars, ServerTyped, Free
  <2>4. Release(c) \/ ProcessExits(c) \/ UNCHANGED released
    BY DEF Serves, Accept, Launches, TunnelFails, TunnelRemoved, ServerClosed, Gathers,
         GatherTimesOut, VideoEnds, Pushed, HeaderArrives, procVars
  <2> QED
    BY <2>1, <2>2, <2>3, <2>4
<1> QED
  BY <1>0, <1>1, <1>2, <1>3 DEF Session

\* Its own steps.
LEMMA OwnSession ==
    ASSUME IInv, NEW c \in Conn, Serves(c)
    PROVE  Session(c)'
<1>0. WireTyped /\ ServerTyped /\ Session(c)
  BY DEF IInv, Typed, Sessions
<1>1. UNCHANGED <<cw, seen>>
  BY ServeQuiet DEF FramePage
<1> USE DEF WireTyped, ServerTyped, Session
<1>2. CASE Accept(c)
  BY <1>0, <1>1, <1>2 DEF Accept, procVars
<1>3. CASE Launches(c)
  BY <1>0, <1>1, <1>3 DEF Launches, wireVars
<1>4. CASE TunnelFails(c)
  BY <1>0, <1>1, <1>4 DEF TunnelFails, Fails, ClosingSocket
<1>5. CASE TunnelRemoved(c)
  BY <1>0, <1>1, <1>5 DEF TunnelRemoved, wireVars
<1>6. CASE Gathers(c)
  BY <1>0, <1>1, <1>6 DEF Gathers, wireVars, Reachable
<1>7. CASE GatherTimesOut(c)
  BY <1>0, <1>1, <1>7 DEF GatherTimesOut, Fails, ClosingSocket, procVars
<1>8. CASE ServerClosed(c)
  <2>1. /\ c \in released'
        /\ proc'[c] = "none" <=> proc[c] = "none"
        /\ socks'[c] = "none" <=> socks[c] = "none"
    BY <1>0, <1>8, ReleaseEffect DEF ServerClosed
  <2> QED
    BY <1>0, <1>1, <1>8, <2>1 DEF ServerClosed
<1>9. CASE VideoEnds(c)
  <2>1. /\ c \in released'
        /\ proc'[c] = "none" <=> proc[c] = "none"
        /\ socks'[c] = "none" <=> socks[c] = "none"
        /\ c \in released => UNCHANGED <<released, proc, socks>>
    BY <1>0, <1>9, ReleaseEffect DEF VideoEnds
  <2>2. at[c] = "forward" /\ UNCHANGED <<at, tunnel, down>>
    BY <1>9 DEF VideoEnds
  <2>3. CASE c \in released
    BY <1>0, <1>1, <1>9, <2>1, <2>2, <2>3 DEF VideoEnds
  <2>4. CASE c \notin released
    BY <1>0, <1>1, <1>9, <2>1, <2>2, <2>4 DEF VideoEnds, ClosingSocket
  <2> QED
    BY <2>3, <2>4
<1>10. CASE ProcessExits(c)
  BY <1>0, <1>1, <1>10, FreeEffect DEF ProcessExits, ClosingSocket
<1>11. ASSUME NEW ok \in BOOLEAN, Pushed(c, ok) PROVE Session(c)'
  BY <1>0, <1>1, <1>11 DEF Pushed, Fails, ClosingSocket
<1>12. ASSUME NEW ok \in BOOLEAN, HeaderArrives(c, ok) PROVE Session(c)'
  BY <1>0, <1>1, <1>12 DEF HeaderArrives, Fails, ClosingSocket, procVars
<1> QED
  BY <1>2, <1>3, <1>4, <1>5, <1>6, <1>7, <1>8, <1>9, <1>10, <1>11, <1>12 DEF Serves

LEMMA SessionsKeep == IInv /\ [Next]_vars => Sessions'
<1> SUFFICES ASSUME IInv, [Next]_vars PROVE Sessions'
  OBVIOUS
<1>1. CASE UNCHANGED vars
  BY <1>1 DEF vars, clientVars, wireVars, procVars, IInv, Sessions, Session
<1>2. CASE \E c \in Conn : Serves(c)
  BY <1>2, OtherSessions, OwnSession DEF Sessions
<1> QED
  BY <1>1, <1>2, PageSessions, HearSessions, Steps

-------------------------------------------------------------------------------
(* One stream.                                                              *)

\* Sockets that close and sounds that stop disturb nothing.
LEMMA AloneFewer ==
    ASSUME Alone, UNCHANGED <<heard, demuxer, playing>>,
           \A c \in Conn : cw'[c] \in {"connecting", "open"} => cw[c] \in {"connecting", "open"},
           \A c \in Conn : audio'[c] \in {"loading", "on"} => audio[c] \in {"loading", "on"}
    PROVE  Alone'
BY DEF Alone

LEMMA PageAlone == IInv /\ PageSteps => Alone'
<1> SUFFICES ASSUME IInv, PageSteps PROVE Alone'
  OBVIOUS
<1>0. WireTyped /\ InputTyped /\ PageTyped /\ Paging /\ Alone
  BY DEF IInv, Typed
<1>1. CASE Stop
  <2>1. UNCHANGED <<heard, demuxer, playing>> /\ (UNCHANGED <<cw, audio>> \/ (Sockets(demuxer, None) /\ StopAudio))
    BY <1>1 DEF Stop
  <2>2. CASE UNCHANGED <<cw, audio>>
    BY <1>0, <2>1, <2>2, AloneFewer
  <2>3. CASE Sockets(demuxer, None) /\ StopAudio
    <3>1. \A x \in Conn : cw'[x] = IF x = None THEN "connecting"
                                   ELSE IF x = demuxer /\ cw[x] \in {"connecting", "open"} THEN "closing" ELSE cw[x]
      BY <1>0, <2>3, SocketsTyped
    <3>2. \A c \in Conn : cw'[c] \in {"connecting", "open"} => cw[c] \in {"connecting", "open"}
      BY <3>1, ConnRange
    <3>3. \A c \in Conn : audio'[c] \in {"loading", "on"} => audio[c] \in {"loading", "on"}
      BY <1>0, <2>3, AudioTyped
    <3> QED
      BY <1>0, <2>1, <3>2, <3>3, AloneFewer
  <2> QED
    BY <2>1, <2>2, <2>3
<1>2. CASE Refresh
  <2>1. /\ demuxer' = conns + 1 /\ heard' = (heard \ {demuxer}) \cup {conns + 1}
        /\ Sockets(demuxer, conns + 1) /\ StopAudio /\ playing' = None
        /\ conns \in Nat /\ demuxer = conns /\ heard \subseteq 1..conns
    BY <1>0, <1>2, ConnRange DEF Refresh, PageTyped, Paging
  <2>2. SUFFICES ASSUME heard' \subseteq {demuxer'}
                 PROVE  \A c \in Conn : /\ cw'[c] \in {"connecting", "open"} => c = demuxer'
                                        /\ audio'[c] \notin {"loading", "on"}
    BY <2>1 DEF Alone
  <2>3. heard \subseteq {demuxer}
    BY <2>1, <2>2
  <2>4. \A x \in Conn : cw'[x] = IF x = conns + 1 THEN "connecting"
                                 ELSE IF x = demuxer /\ cw[x] \in {"connecting", "open"} THEN "closing" ELSE cw[x]
    BY <1>0, <2>1, SocketsTyped
  <2>5. \A c \in Conn : audio'[c] \in {"loading", "on"} => c # playing /\ audio[c] \in {"loading", "on"}
    BY <1>0, <2>1, AudioTyped
  <2> QED
    BY <1>0, <2>1, <2>3, <2>4, <2>5 DEF Alone
<1>3. CASE SendControl \/ \E ok \in BOOLEAN : Hydrated(ok)
  <2>1. UNCHANGED <<heard, demuxer, playing, cw, audio>>
    BY <1>3 DEF SendControl, Hydrated, pageVars, clientVars, wireVars
  <2> QED
    BY <1>0, <2>1, AloneFewer
<1>4. ASSUME NEW ok \in BOOLEAN, Connects(ok) PROVE Alone'
  <2>1. audio' = audio /\ playing' = playing
    BY <1>4 DEF Connects
  <2>2. CASE UNCHANGED <<conns, demuxer, cw, up, heard>>
    BY <1>0, <2>1, <2>2, AloneFewer
  <2>3. CASE /\ conns' = conns + 1 /\ demuxer' = conns + 1 /\ Sockets(None, conns + 1)
             /\ heard' = heard \cup {conns + 1}
    <3>1. conns \in Nat /\ demuxer = conns /\ playing \in 0..conns
      BY <1>0, ConnRange DEF PageTyped, Paging
    <3>2. SUFFICES ASSUME heard' \subseteq {demuxer'}
                   PROVE  /\ \A c \in Conn : /\ cw'[c] \in {"connecting", "open"} => c = demuxer'
                                             /\ audio'[c] \in {"loading", "on"} => c = playing'
                          /\ playing' \in {None, demuxer'}
      BY DEF Alone
    <3>3. conns = 0 /\ heard = {} /\ playing = 0
      BY <1>0, <2>3, <3>1, <3>2 DEF Paging
    <3>4. \A x \in Conn : cw'[x] = IF x = conns + 1 THEN "connecting"
                                   ELSE IF x = None /\ cw[x] \in {"connecting", "open"} THEN "closing" ELSE cw[x]
      BY <1>0, <2>3, SocketsTyped
    <3>5. \A c \in Conn : cw[c] = "none"
      BY <1>0, <3>3, ConnRange DEF Paging
    <3>6. \A c \in Conn : audio[c] \in {"loading", "on"} => c = playing
      BY <1>0, <3>3 DEF Alone
    <3> QED
      BY <2>1, <2>3, <3>3, <3>4, <3>5, <3>6, ConnRange
  <2> QED
    BY <1>4, <2>2, <2>3 DEF Connects
<1> QED
  BY <1>1, <1>2, <1>3, <1>4 DEF PageSteps

LEMMA HearAlone == \A c \in Conn : IInv /\ HearSteps(c) => Alone'
<1> SUFFICES ASSUME NEW c \in Conn, IInv, HearSteps(c) PROVE Alone'
  OBVIOUS
<1>0. WireTyped /\ Alone
  BY DEF IInv, Typed
<1>1. CASE ~\E sound \in Sounds : MetadataArrives(c, sound)
  <2>1. UNCHANGED <<heard, demuxer, playing>>
    BY <1>1 DEF HearSteps, ClientOpens, ClientClosed, Break, ControlArrives, AudioLoads, pageVars, clientVars
  <2>2. \A x \in Conn : cw'[x] \in {"connecting", "open"} => cw[x] \in {"connecting", "open"}
    BY <1>0, <1>1 DEF HearSteps, ClientOpens, ClientClosed, Break, ControlArrives, AudioLoads, wireVars, WireTyped
  <2>3. \A x \in Conn : audio'[x] \in {"loading", "on"} => audio[x] \in {"loading", "on"}
    <3>1. CASE ClientClosed(c)
      BY <1>0, <3>1, AudioTyped DEF ClientClosed
    <3>2. ASSUME NEW ok \in BOOLEAN, AudioLoads(c, ok)
          PROVE  \A x \in Conn : audio'[x] \in {"loading", "on"} => audio[x] \in {"loading", "on"}
      BY <1>0, <3>2 DEF AudioLoads, WireTyped
    <3>3. CASE ClientOpens(c) \/ Break(c) \/ ControlArrives(c)
      BY <3>3 DEF ClientOpens, Break, ControlArrives, clientVars
    <3> QED
      BY <1>1, <3>1, <3>2, <3>3 DEF HearSteps
  <2> QED
    BY <1>0, <2>1, <2>2, <2>3, AloneFewer
<1>2. ASSUME NEW sound \in Sounds, MetadataArrives(c, sound) PROVE Alone'
  <2>1. /\ cw[c] = "open" /\ UNCHANGED <<heard, demuxer, cw>>
        /\ UNCHANGED <<audio, playing>> \/ (audio' = [audio EXCEPT ![c] = "loading"] /\ playing' = c)
    BY <1>2 DEF MetadataArrives, pageVars
  <2>2. CASE UNCHANGED <<audio, playing>>
    BY <1>0, <2>1, <2>2, AloneFewer
  <2>3. CASE audio' = [audio EXCEPT ![c] = "loading"] /\ playing' = c
    <3>1. SUFFICES ASSUME heard \subseteq {demuxer}
                   PROVE  /\ \A x \in Conn : /\ cw[x] \in {"connecting", "open"} => x = demuxer
                                             /\ audio'[x] \in {"loading", "on"} => x = c
                          /\ c \in {None, demuxer}
      BY <2>1, <2>3 DEF Alone
    <3>2. /\ \A x \in Conn : /\ cw[x] \in {"connecting", "open"} => x = demuxer
                             /\ audio[x] \in {"loading", "on"} => x = playing
          /\ playing \in {None, demuxer}
      BY <1>0, <3>1 DEF Alone
    <3>3. c = demuxer
      BY <2>1, <3>2
    <3>4. \A x \in Conn : x # c => audio'[x] = audio[x]
      BY <1>0, <2>3 DEF WireTyped
    <3>5. \A x \in Conn : audio[x] \in {"loading", "on"} => x = c
      BY <3>2, <3>3, ConnRange
    <3> QED
      BY <3>2, <3>3, <3>4, <3>5
  <2> QED
    BY <2>1, <2>2, <2>3
<1> QED
  BY <1>1, <1>2

LEMMA AloneKeeps == IInv /\ [Next]_vars => Alone'
<1> SUFFICES ASSUME IInv, [Next]_vars PROVE Alone'
  OBVIOUS
<1>1. CASE UNCHANGED vars \/ \E c \in Conn : Serves(c)
  <2>1. UNCHANGED <<heard, demuxer, playing, cw, audio>>
    BY <1>1, ServeQuiet DEF vars, pageVars, clientVars, wireVars, FramePage
  <2> QED
    BY <2>1, AloneFewer DEF IInv
<1> QED
  BY <1>1, PageAlone, HearAlone, Steps

-------------------------------------------------------------------------------
(* Control messages.                                                        *)

\* The queues as they are, under a socket that opens only before anything is owed.
LEMMA InputQuiet ==
    ASSUME IInv, NEW x \in Conn,
           owed'[x] = owed[x], got'[x] = got[x], sends' = sends, x \in seen => x \in seen',
           up'[x] = up[x] \/ (up'[x] = <<>> /\ x \notin seen),
           sw'[x] = "open" => sw[x] \in {"none", "open"}, x \in cut => x \in cut'
    PROVE  Input(x)'
<1>0. Input(x) /\ Session(x)
  BY DEF IInv, Inputs, Sessions
<1>1. x \in seen => sw[x] # "none"
  BY <1>0 DEF Session
<1>2. CASE up'[x] = up[x]
  BY <1>0, <1>1, <1>2 DEF Input
<1>3. CASE up'[x] = <<>> /\ x \notin seen
  <2>1. owed'[x] = {} /\ Len(up'[x]) = 0
    BY <1>0, <1>3 DEF Input
  <2>2. 1..Len(up'[x]) = {}
    BY <2>1
  <2> QED
    BY <1>0, <2>1, <2>2 DEF Input, Rising
<1> QED
  BY <1>2, <1>3

LEMMA ServeInputs == \A c \in Conn : IInv /\ Serves(c) => Inputs'
<1> SUFFICES ASSUME NEW c \in Conn, IInv, Serves(c), NEW x \in Conn PROVE Input(x)'
  BY DEF Inputs
<1>1. UNCHANGED <<owed, got, up, sends, seen, cut>>
  BY ServeQuiet DEF FramePage, FrameInput
<1>2. WireTyped
  BY DEF IInv, Typed
<1>3. sw'[x] = "open" => sw[x] \in {"none", "open"}
  BY <1>2 DEF Serves, Accept, Launches, TunnelFails, TunnelRemoved, ServerClosed, Gathers, GatherTimesOut, VideoEnds,
       ProcessExits, Pushed, HeaderArrives, Fails, ClosingSocket, wireVars, WireTyped
<1> QED
  BY <1>1, <1>3, InputQuiet

LEMMA PageInputs == IInv /\ PageSteps => Inputs'
<1> SUFFICES ASSUME IInv, PageSteps, NEW x \in Conn PROVE Input(x)'
  BY DEF Inputs
<1>0. WireTyped /\ InputTyped /\ PageTyped /\ Paging /\ Session(x) /\ Input(x)
  BY DEF IInv, Typed, Sessions, Inputs
<1>1. UNCHANGED <<seen, sw, cut, got>>
  BY DEF PageSteps, Stop, Refresh, SendControl, Hydrated, Connects, clientVars, wireVars, inputVars
<1>2. CASE ~SendControl
  <2>1. UNCHANGED <<owed, sends>>
    BY <1>2 DEF PageSteps, Stop, Refresh, Hydrated, Connects, inputVars
  <2>2. up' = up \/ \E d, c : Sockets(d, c)
    BY <1>2 DEF PageSteps, Stop, Refresh, Hydrated, Connects, wireVars
  <2>3. up'[x] = up[x] \/ (up'[x] = <<>> /\ cw[x] = "connecting")
    BY <1>0, <2>2, SocketsTyped
  <2>4. cw[x] = "connecting" => x \notin seen
    BY <1>0 DEF Session
  <2> QED
    BY <1>1, <2>1, <2>3, <2>4, InputQuiet
<1>3. CASE SendControl /\ (x # demuxer \/ cw[x] \notin {"connecting", "open"})
  <2>1. sends' = sends + 1 /\ up'[x] = up[x] /\ owed'[x] = owed[x] /\ sends \in Nat
    BY <1>0, <1>3, ConnRange DEF SendControl, InputTyped, PageTyped
  <2>2. /\ \A i \in 1..Len(got[x]) : got[x][i] <= sends + 1
        /\ \A i \in 1..Len(up[x]) : up[x][i] <= sends + 1
    <3>1. up[x] \in Seq(1..MaxSends) /\ got[x] \in Seq(1..MaxSends)
      BY <1>0 DEF InputTyped
    <3>2. /\ \A i \in 1..Len(got[x]) : got[x][i] \in Int /\ got[x][i] <= sends
          /\ \A i \in 1..Len(up[x]) : up[x][i] \in Int /\ up[x][i] <= sends
      BY <1>0, <3>1, ConnRange DEF Input
    <3> QED
      BY <2>1, <3>2
  <2> QED
    BY <1>0, <1>1, <2>1, <2>2 DEF Input
<1>4. CASE SendControl /\ x = demuxer /\ cw[x] \in {"connecting", "open"}
  <2> DEFINE n == sends + 1
             u == up[x]
             v == Append(u, n)
             g == got[x]
  <2>1. sends' = n /\ sends \in Nat /\ n \in Nat /\ sends < n /\ n \in 1..MaxSends
    BY <1>0, <1>4, ConnRange DEF SendControl, PageTyped
  <2>2. up'[x] = v
    BY <1>0, <1>4 DEF SendControl, InputTyped
  <2>3. /\ \A k \in owed'[x] : k = n \/ k \in owed[x]
        /\ owed'[x] # {} => x \in seen
    BY <1>0, <1>4 DEF SendControl, InputTyped, Input
  <2>4. u \in Seq(1..MaxSends) /\ g \in Seq(1..MaxSends)
    BY <1>0 DEF InputTyped
  <2>5. /\ Len(u) \in Nat /\ Len(v) = Len(u) + 1 /\ v[Len(u) + 1] = n
        /\ \A k \in 1..Len(u) : v[k] = u[k]
        /\ \A k \in 1..Len(v) : k \in 1..Len(u) \/ k = Len(u) + 1
    <3> HIDE DEF u, n
    <3> QED
      BY <2>1, <2>4, Appended
  <2>6. /\ \A i \in 1..Len(g) : g[i] \in Nat /\ g[i] < n
        /\ \A i \in 1..Len(u) : u[i] \in Nat /\ u[i] < n
    <3>1. /\ \A i \in 1..Len(g) : g[i] \in Nat
          /\ \A i \in 1..Len(u) : u[i] \in Nat
      BY <2>4, ConnRange
    <3>2. /\ \A i \in 1..Len(g) : g[i] <= sends
          /\ \A i \in 1..Len(u) : u[i] <= sends
      BY <1>0 DEF Input
    <3> QED
      BY <2>1, <3>1, <3>2
  <2>7. Rising(u) /\ Rising(g) /\ \A i \in 1..Len(g), j \in 1..Len(u) : g[i] < u[j]
    BY <1>0 DEF Input
  <2>8. sw[x] = "open" /\ x \notin cut => \A k \in owed[x] : Has(g, k) \/ Has(u, k)
    BY <1>0 DEF Input
  <2> HIDE DEF n, u, v, g
  <2>9. Rising(v)
    <3> SUFFICES ASSUME NEW i \in 1..Len(v), NEW j \in 1..Len(v), i < j PROVE v[i] < v[j]
      BY DEF Rising
    <3>1. i \in 1..Len(u)
      BY <2>5
    <3>2. CASE j \in 1..Len(u)
      BY <2>5, <2>7, <3>1, <3>2 DEF Rising
    <3>3. CASE j = Len(u) + 1
      BY <2>5, <2>6, <3>1, <3>3
    <3> QED
      BY <2>5, <3>2, <3>3
  <2>10. /\ \A i \in 1..Len(g), j \in 1..Len(v) : g[i] < v[j]
         /\ \A i \in 1..Len(v) : v[i] <= n
         /\ \A i \in 1..Len(g) : g[i] <= n
    <3>1. \A i \in 1..Len(g), j \in 1..Len(v) : g[i] < v[j]
      <4> SUFFICES ASSUME NEW i \in 1..Len(g), NEW j \in 1..Len(v) PROVE g[i] < v[j]
        OBVIOUS
      <4>1. CASE j \in 1..Len(u)
        BY <2>5, <2>7, <4>1
      <4>2. CASE j = Len(u) + 1
        BY <2>5, <2>6, <4>2
      <4> QED
        BY <2>5, <4>1, <4>2
    <3>2. \A i \in 1..Len(v) : v[i] <= n
      <4> SUFFICES ASSUME NEW i \in 1..Len(v) PROVE v[i] <= n
        OBVIOUS
      <4>1. CASE i \in 1..Len(u)
        BY <2>1, <2>5, <2>6, <4>1
      <4>2. CASE i = Len(u) + 1
        BY <2>1, <2>5, <4>2
      <4> QED
        BY <2>5, <4>1, <4>2
    <3>3. \A i \in 1..Len(g) : g[i] <= n
      BY <2>1, <2>6
    <3> QED
      BY <3>1, <3>2, <3>3
  <2>11. sw[x] = "open" /\ x \notin cut => \A k \in owed'[x] : Has(g, k) \/ Has(v, k)
    <3>1. Has(v, n)
      BY <2>5 DEF Has
    <3>2. \A k : Has(u, k) => Has(v, k)
      BY <2>5 DEF Has
    <3> QED
      BY <2>3, <2>8, <3>1, <3>2
  <2> QED
    BY <1>1, <2>1, <2>2, <2>3, <2>7, <2>9, <2>10, <2>11 DEF Input, g
<1> QED
  BY <1>2, <1>3, <1>4

LEMMA HearInputs == \A c \in Conn : IInv /\ HearSteps(c) => Inputs'
<1> SUFFICES ASSUME NEW c \in Conn, IInv, HearSteps(c), NEW x \in Conn PROVE Input(x)'
  BY DEF Inputs
<1>0. WireTyped /\ InputTyped /\ PageTyped /\ Session(x) /\ Input(x)
  BY DEF IInv, Typed, Sessions, Inputs
<1>1. UNCHANGED <<sw, owed, sends>> /\ (x \in seen => x \in seen') /\ (x \in cut => x \in cut')
  BY DEF HearSteps, ClientOpens, ClientClosed, Break, ControlArrives, AudioLoads, MetadataArrives,
         clientVars, wireVars, inputVars
<1>2. CASE ~ControlArrives(c)
  <2>1. got' = got /\ (up' = up \/ (cw[c] = "connecting" /\ up' = [up EXCEPT ![c] = <<>>]))
    BY <1>2 DEF HearSteps, ClientOpens, ClientClosed, Break, AudioLoads, MetadataArrives, wireVars, inputVars
  <2>2. up'[x] = up[x] \/ (up'[x] = <<>> /\ cw[x] = "connecting")
    BY <1>0, <2>1 DEF InputTyped
  <2>3. cw[x] = "connecting" => x \notin seen
    BY <1>0 DEF Session
  <2> QED
    BY <1>1, <2>1, <2>2, <2>3, InputQuiet
<1>3. CASE ControlArrives(c) /\ x # c
  <2>1. got'[x] = got[x] /\ up'[x] = up[x]
    BY <1>0, <1>3 DEF ControlArrives, InputTyped
  <2> QED
    BY <1>1, <2>1, InputQuiet
<1>4. CASE ControlArrives(c) /\ x = c
  <2> DEFINE u == up[x]
             v == Tail(u)
             g == got[x]
             h == got'[x]
             m == Head(u)
  <2>1. /\ u # <<>> /\ sw[x] \in {"open", "closing"}
        /\ h = IF socks[x] = "held" THEN Append(g, m) ELSE g
        /\ up'[x] = v /\ UNCHANGED <<seen, cut>>
    BY <1>0, <1>4 DEF ControlArrives, InputTyped, clientVars
  <2>2. u \in Seq(1..MaxSends) /\ g \in Seq(1..MaxSends)
    BY <1>0 DEF InputTyped
  <2>3. Rising(u) /\ Rising(g) /\ \A i \in 1..Len(g), j \in 1..Len(u) : g[i] < u[j]
    BY <1>0 DEF Input
  <2>4. sw[x] = "open" /\ x \notin cut => \A k \in owed[x] : Has(g, k) \/ Has(u, k)
    BY <1>0 DEF Input
  <2>5. /\ \A i \in 1..Len(g) : g[i] <= sends
        /\ \A i \in 1..Len(u) : u[i] <= sends
    BY <1>0 DEF Input
  <2>6. sw[x] = "open" /\ owed[x] # {} => socks[x] = "held"
    BY <1>0 DEF Input, Session
  <2> HIDE DEF h, g, u
  <2>7. /\ v \in Seq(1..MaxSends) /\ Len(u) \in Nat \ {0} /\ Len(v) = Len(u) - 1 /\ m = u[1] /\ m \in 1..MaxSends
        /\ \A k \in 1..Len(v) : k + 1 \in 1..Len(u) /\ v[k] = u[k + 1]
        /\ \A k \in 1..Len(u) : k = 1 \/ (k - 1 \in 1..Len(v) /\ v[k - 1] = u[k])
    BY <2>1, <2>2, Popped
  <2> HIDE DEF v, m
  <2>8. Rising(v)
    <3> SUFFICES ASSUME NEW i \in 1..Len(v), NEW j \in 1..Len(v), i < j PROVE v[i] < v[j]
      BY DEF Rising
    <3>1. /\ i + 1 \in 1..Len(u) /\ j + 1 \in 1..Len(u) /\ i + 1 < j + 1
          /\ v[i] = u[i + 1] /\ v[j] = u[j + 1]
      BY <2>7
    <3> QED
      BY <2>3, <3>1 DEF Rising
  <2>9. \A j \in 1..Len(v) : m < v[j]
    <3> SUFFICES ASSUME NEW j \in 1..Len(v) PROVE m < v[j]
      OBVIOUS
    <3>1. j + 1 \in 1..Len(u) /\ 1 \in 1..Len(u) /\ 1 < j + 1 /\ v[j] = u[j + 1] /\ m = u[1]
      BY <2>7
    <3> QED
      BY <2>3, <3>1 DEF Rising
  <2>10. \A i \in 1..Len(v) : v[i] <= sends
    BY <2>5, <2>7
  <2>11. \A k : Has(u, k) => k = m \/ Has(v, k)
    BY <2>7 DEF Has
  <2>12. CASE socks[x] # "held"
    <3>1. h = g /\ (sw[x] # "open" \/ owed[x] = {})
      BY <2>1, <2>6, <2>12
    <3>2. \A i \in 1..Len(g), j \in 1..Len(v) : g[i] < v[j]
      BY <2>3, <2>7
    <3> QED
      BY <1>0, <1>1, <2>1, <2>3, <2>5, <2>8, <2>10, <3>1, <3>2 DEF Input, h
  <2>13. CASE socks[x] = "held"
    <3>1. /\ h = Append(g, m) /\ Len(g) \in Nat /\ Len(h) = Len(g) + 1 /\ h[Len(g) + 1] = m
          /\ \A k \in 1..Len(g) : h[k] = g[k]
          /\ \A k \in 1..Len(h) : k \in 1..Len(g) \/ k = Len(g) + 1
      BY <2>1, <2>2, <2>7, <2>13, Appended
    <3>2. 1 \in 1..Len(u) /\ m = u[1] /\ m <= sends
      BY <2>5, <2>7
    <3>3. \A i \in 1..Len(g) : g[i] < m
      BY <2>3, <3>2
    <3>4. Rising(h)
      <4> SUFFICES ASSUME NEW i \in 1..Len(h), NEW j \in 1..Len(h), i < j PROVE h[i] < h[j]
        BY DEF Rising
      <4>1. i \in 1..Len(g)
        BY <3>1
      <4>2. CASE j \in 1..Len(g)
        BY <2>3, <3>1, <4>1, <4>2 DEF Rising
      <4>3. CASE j = Len(g) + 1
        BY <3>1, <3>3, <4>1, <4>3
      <4> QED
        BY <3>1, <4>2, <4>3
    <3>5. \A i \in 1..Len(h), j \in 1..Len(v) : h[i] < v[j]
      <4> SUFFICES ASSUME NEW i \in 1..Len(h), NEW j \in 1..Len(v) PROVE h[i] < v[j]
        OBVIOUS
      <4>1. CASE i \in 1..Len(g)
        BY <2>3, <2>7, <3>1, <4>1
      <4>2. CASE i = Len(g) + 1
        BY <2>9, <3>1, <4>2
      <4> QED
        BY <3>1, <4>1, <4>2
    <3>6. \A i \in 1..Len(h) : h[i] <= sends
      BY <2>5, <3>1, <3>2
    <3>7. \A k : Has(g, k) \/ k = m => Has(h, k)
      BY <3>1 DEF Has
    <3>8. sw[x] = "open" /\ x \notin cut => \A k \in owed[x] : Has(h, k) \/ Has(v, k)
      BY <2>4, <2>11, <3>7
    <3> QED
      BY <1>0, <1>1, <2>1, <2>8, <2>10, <3>4, <3>5, <3>6, <3>8 DEF Input, h
  <2> QED
    BY <2>12, <2>13
<1> QED
  BY <1>2, <1>3, <1>4

LEMMA InputsKeep == IInv /\ [Next]_vars => Inputs'
<1> SUFFICES ASSUME IInv, [Next]_vars PROVE Inputs'
  OBVIOUS
<1>1. CASE UNCHANGED vars
  BY <1>1 DEF vars, clientVars, wireVars, inputVars, IInv, Inputs, Input
<1> QED
  BY <1>1, ServeInputs, PageInputs, HearInputs, Steps

-------------------------------------------------------------------------------
(* The theorems.                                                            *)

LEMMA InitHolds == Init => IInv
<1> SUFFICES ASSUME Init PROVE IInv
  OBVIOUS
<1>1. Paging
  BY ConnRange DEF Init, Paging
<1>2. Sessions
  BY DEF Init, Sessions, Session
<1>3. Alone
  BY DEF Init, Alone
<1>4. \A c \in Conn : owed[c] = {} /\ got[c] = <<>> /\ up[c] = <<>> /\ Len(got[c]) = 0 /\ Len(up[c]) = 0
  BY DEF Init
<1>5. \A c \in Conn : 1..Len(got[c]) = {} /\ 1..Len(up[c]) = {}
  BY <1>4
<1>6. Inputs
  BY <1>4, <1>5 DEF Inputs, Input, Rising
<1> QED
  BY <1>1, <1>2, <1>3, <1>6, InitTyped DEF IInv

LEMMA NextKeeps == IInv /\ [Next]_vars => IInv'
<1> SUFFICES ASSUME IInv, [Next]_vars PROVE IInv'
  OBVIOUS
<1>1. Typed'
  <2>1. CASE UNCHANGED vars
    BY <2>1, QuietTypes DEF vars, pageVars, clientVars, wireVars, procVars, inputVars, IInv, Typed,
                            FramePage, FrameWire, FrameServer, FrameInput
  <2> QED
    BY <2>1, PageTypes, HearTypes, ServeTypes, Steps DEF PageSteps, HearSteps
<1> QED
  BY <1>1, PagingKeeps, SessionsKeep, AloneKeeps, InputsKeep DEF IInv

LEMMA Invariance == Spec => []IInv
BY InitHolds, NextKeeps, PTL DEF Spec

\* TypeOK: nothing of a session is there before its socket and its process, and a socket of the server
\* is open until the release.
THEOREM TypeCorrect == Spec => []TypeOK
<1>1. IInv => TypeOK
  <2> SUFFICES ASSUME IInv PROVE TypeOK
    OBVIOUS
  <2>1. /\ PageTyped /\ WireTyped /\ ServerTyped /\ InputTyped /\ Paging
        /\ \A c \in Conn : Session(c)
    BY DEF IInv, Typed, Sessions
  <2>2. heard \subseteq Conn /\ demuxer \in 0..conns
    BY <2>1, ConnRange DEF PageTyped, Paging
  <2>3. \A c \in Conn : /\ proc[c] = "none" => socks[c] = "none" /\ tunnel[c] # "up"
                        /\ sw[c] = "closed" => c \in released
                        /\ c \in released => sw[c] # "open"
    BY <2>1 DEF Session
  <2> QED
    BY <2>1, <2>2, <2>3 DEF TypeOK, PageTyped, WireTyped, ServerTyped, InputTyped
<1> QED
  BY <1>1, Invariance, PTL

\* ControlReady: once the page has seen the metadata, what the user does is not dropped while the server
\* has the connection, and it reaches the device in its order.
THEOREM ControlNeverDropped == Spec => []ControlReady
<1>1. IInv => ControlReady
  <2> SUFFICES ASSUME IInv, NEW c \in Conn
               PROVE  /\ sw[c] = "open" /\ c \notin cut
                           => \A n \in owed[c] : \E i \in 1..Len(got[c] \o up[c]) : (got[c] \o up[c])[i] = n
                      /\ \A i, j \in 1..Len(got[c]) : i < j => got[c][i] < got[c][j]
    BY DEF ControlReady
  <2>1. Input(c) /\ got[c] \in Seq(1..MaxSends) /\ up[c] \in Seq(1..MaxSends)
    BY DEF IInv, Inputs, Typed, InputTyped
  <2>2. ASSUME sw[c] = "open", c \notin cut, NEW n \in owed[c]
        PROVE  \E i \in 1..Len(got[c] \o up[c]) : (got[c] \o up[c])[i] = n
    <3> DEFINE s == got[c]
               t == up[c]
    <3>1. Has(s, n) \/ Has(t, n)
      BY <2>1, <2>2 DEF Input
    <3> HIDE DEF s, t
    <3>2. s \in Seq(1..MaxSends) /\ t \in Seq(1..MaxSends)
      BY <2>1 DEF s, t
    <3>3. /\ Len(s) \in Nat /\ Len(t) \in Nat /\ Len(s \o t) = Len(s) + Len(t)
          /\ \A i \in 1..Len(s) : (s \o t)[i] = s[i]
          /\ \A i \in 1..Len(t) : (s \o t)[Len(s) + i] = t[i]
      BY <3>2
    <3>4. \E i \in 1..Len(s \o t) : (s \o t)[i] = n
      <4>1. CASE Has(s, n)
        BY <3>3, <4>1 DEF Has
      <4>2. CASE Has(t, n)
        <5>1. PICK i \in 1..Len(t) : t[i] = n
          BY <4>2 DEF Has
        <5>2. Len(s) + i \in 1..Len(s \o t) /\ (s \o t)[Len(s) + i] = n
          BY <3>3, <5>1
        <5> QED
          BY <5>2
      <4> QED
        BY <3>1, <4>1, <4>2
    <3> QED
      BY <3>4 DEF s, t
  <2> QED
    BY <2>1, <2>2 DEF Input, Rising
<1> QED
  BY <1>1, Invariance, PTL

\* OneStream: however often the stream is refreshed, one connection is kept and one sound plays, unless
\* a refresh has come before startStream() connected.
THEOREM OnlyOneStream == Spec => []OneStream
<1>1. IInv => OneStream
  <2> SUFFICES ASSUME IInv, Cardinality(heard) <= 1 PROVE heard \subseteq {demuxer}
    BY DEF OneStream, IInv, Alone
  <2>1. conns \in Nat /\ demuxer = conns /\ heard \subseteq 1..conns /\ (conns # 0 => conns \in heard)
    BY ConnRange DEF IInv, Typed, PageTyped, Paging
  <2>2. SUFFICES ASSUME NEW c \in heard, c # demuxer PROVE FALSE
    OBVIOUS
  <2>3. demuxer \in heard
    BY <2>1, <2>2
  <2>4. IsFiniteSet(1..conns)
    BY <2>1, FS_Interval
  <2>5. IsFiniteSet(heard)
    BY <2>1, <2>4, FS_Subset
  <2>6. Cardinality({c, demuxer}) <= Cardinality(heard)
    <3>1. {c, demuxer} \in SUBSET heard
      BY <2>2, <2>3
    <3> QED
      BY <2>5, <3>1, FS_Subset
  <2>7. Cardinality({c, demuxer}) = 2
    <3>1. IsFiniteSet({demuxer}) /\ Cardinality({demuxer}) = 1 /\ c \notin {demuxer}
      BY <2>2, FS_Singleton
    <3>2. Cardinality({demuxer} \cup {c}) = Cardinality({demuxer}) + 1
      BY <3>1, FS_AddElement
    <3>3. {demuxer} \cup {c} = {c, demuxer}
      OBVIOUS
    <3> QED
      BY <3>1, <3>2, <3>3
  <2>8. Cardinality(heard) \in Nat
    BY <2>5, FS_CardinalityType
  <2> QED
    BY <2>6, <2>7, <2>8
<1> QED
  BY <1>1, Invariance, PTL
-------------------------------------------------------------------------------
(* What a release leaves.                                                   *)

\* There is no process before the tunnel is made, and no socket of it once it has exited.
Staged(c) == /\ at[c] \in {"none", "push", "tunnel"} => proc[c] = "none"
             /\ socks[c] \in {"some", "held"} => proc[c] \in {"running", "killed"}

\* After the release, the listener is closed, the process was killed and adb was asked for the tunnel;
\* the sockets that start() kept for itself end with the process.
Surrendered(c) == c \in released /\ proc[c] # "none" /\ c \notin late =>
    /\ listener[c] # "open"
    /\ proc[c] # "running"
    /\ tunnel[c] = "up" => c \in removing
    /\ socks[c] \in {"some", "held"} => proc[c] = "killed"

NothingKept == \A c \in Conn : Staged(c) /\ Surrendered(c)

LEMMA OtherLeavings ==
    ASSUME IInv, NothingKept, NEW c \in Conn, Serves(c), NEW x \in Conn, x # c
    PROVE  Staged(x)' /\ Surrendered(x)'
<1>0. ServerTyped /\ Staged(x) /\ Surrendered(x)
  BY DEF IInv, Typed, NothingKept
<1>1. at'[x] = at[x] /\ tunnel'[x] = tunnel[x] /\ (x \in late' <=> x \in late)
  BY <1>0 DEF Serves, Accept, Launches, TunnelFails, TunnelRemoved, ServerClosed, Gathers, GatherTimesOut, VideoEnds,
       ProcessExits, Pushed, HeaderArrives, Fails, procVars, ServerTyped
<1>2. /\ proc'[x] = proc[x] /\ socks'[x] = socks[x] /\ listener'[x] = listener[x]
      /\ x \in released' <=> x \in released
      /\ x \in removing' <=> x \in removing
  <2>1. CASE Release(c)
    BY <1>0, <2>1 DEF Release, Free, ServerTyped
  <2>2. CASE ProcessExits(c)
    BY <1>0, <2>2 DEF ProcessExits, Free, ServerTyped
  <2>3. CASE Pushed(c, TRUE) \/ Pushed(c, FALSE)
    BY <1>0, <2>3 DEF Pushed, ServerTyped
  <2>4. CASE Accept(c) \/ Launches(c) \/ TunnelFails(c) \/ TunnelRemoved(c) \/ Gathers(c) \/ GatherTimesOut(c)
             \/ \E ok \in BOOLEAN : HeaderArrives(c, ok)
    BY <1>0, <2>4 DEF Accept, Launches, TunnelFails, TunnelRemoved, Gathers, GatherTimesOut, HeaderArrives, procVars,
         ServerTyped
  <2> QED
    BY <2>1, <2>2, <2>3, <2>4 DEF Serves, ServerClosed, VideoEnds
<1> QED
  BY <1>0, <1>1, <1>2 DEF Staged, Surrendered

LEMMA OwnLeavings ==
    ASSUME IInv, NothingKept, NEW c \in Conn, Serves(c)
    PROVE  Staged(c)' /\ Surrendered(c)'
<1>0. ServerTyped /\ Session(c) /\ Staged(c) /\ Surrendered(c)
  BY DEF IInv, Typed, Sessions, NothingKept
<1> USE DEF ServerTyped, Session, Staged, Surrendered
<1>1. CASE Accept(c)
  BY <1>0, <1>1 DEF Accept, procVars
<1>2. CASE Launches(c)
  BY <1>0, <1>2 DEF Launches
<1>3. CASE TunnelFails(c)
  BY <1>0, <1>3 DEF TunnelFails, Fails
<1>4. CASE TunnelRemoved(c)
  BY <1>0, <1>4 DEF TunnelRemoved
<1>5. CASE Gathers(c)
  BY <1>0, <1>5 DEF Gathers, Reachable
<1>6. CASE GatherTimesOut(c)
  BY <1>0, <1>6 DEF GatherTimesOut, Fails, procVars
<1>7. ASSUME Release(c), UNCHANGED <<at, tunnel, late>> PROVE Staged(c)' /\ Surrendered(c)'
  <2>1. CASE c \in released
    BY <1>0, <1>7, <2>1 DEF Release
  <2>2. CASE c \notin released
    <3>1. /\ listener'[c] # "open" /\ tunnel'[c] = tunnel[c] /\ at'[c] = at[c]
          /\ tunnel[c] # "none" => c \in removing'
          /\ proc'[c] = IF proc[c] = "running" THEN "killed" ELSE proc[c]
          /\ socks'[c] = IF socks[c] = "held" THEN "gone" ELSE socks[c]
      BY <1>0, <1>7, <2>2 DEF Release, Free
    <3> QED
      BY <1>0, <3>1
  <2> QED
    BY <2>1, <2>2
<1>8. CASE ServerClosed(c) \/ VideoEnds(c)
  BY <1>7, <1>8 DEF ServerClosed, VideoEnds
<1>9. CASE ProcessExits(c)
  <2>1. CASE c \in released
    BY <1>0, <1>9, <2>1 DEF ProcessExits, Free
  <2>2. CASE c \notin released
    BY <1>0, <1>9, <2>2 DEF ProcessExits, Free
  <2> QED
    BY <2>1, <2>2
<1>10. ASSUME NEW ok \in BOOLEAN, Pushed(c, ok) PROVE Staged(c)' /\ Surrendered(c)'
  BY <1>0, <1>10 DEF Pushed, Fails
<1>11. ASSUME NEW ok \in BOOLEAN, HeaderArrives(c, ok) PROVE Staged(c)' /\ Surrendered(c)'
  BY <1>0, <1>11 DEF HeaderArrives, Fails, procVars
<1> QED
  BY <1>1, <1>2, <1>3, <1>4, <1>5, <1>6, <1>8, <1>9, <1>10, <1>11 DEF Serves

LEMMA LeavingsKeep == IInv /\ NothingKept /\ [Next]_vars => NothingKept'
<1> SUFFICES ASSUME IInv, NothingKept, [Next]_vars PROVE NothingKept'
  OBVIOUS
<1>1. CASE UNCHANGED <<at, procVars>>
  BY <1>1 DEF procVars, NothingKept, Staged, Surrendered
<1>2. CASE \E c \in Conn : Serves(c)
  BY <1>2, OtherLeavings, OwnLeavings DEF NothingKept
<1>3. PageSteps \/ (\E c \in Conn : HearSteps(c)) \/ UNCHANGED vars => UNCHANGED <<at, procVars>>
  BY DEF PageSteps, Stop, Refresh, SendControl, Hydrated, Connects, HearSteps, ClientOpens, ClientClosed, Break,
         ControlArrives, AudioLoads, MetadataArrives, vars
<1> QED
  BY <1>1, <1>2, <1>3, Steps

\* Whatever interrupts startStream() or start(): once a session whose process was launched in time is
\* released, each thing it had is gone or somebody has been told to end it: the process was killed, adb
\* was asked for the tunnel. With the fairness of adb and of processes that is CleanedUp.
THEOREM NothingIsForgotten == Spec => []NothingKept
<1>1. Init => NothingKept
  BY DEF Init, NothingKept, Staged, Surrendered
<1> QED
  BY <1>1, LeavingsKeep, Invariance, PTL DEF Spec
================================================================================
