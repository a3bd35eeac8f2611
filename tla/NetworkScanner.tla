---------------------------- MODULE NetworkScanner ----------------------------
(***************************************************************************)
(* NetworkScanner and ScanMw: one scan at a time, with an mDNS track and   *)
(* a pool of TCP probes that share the addresses found, a cancellation     *)
(* that lets probes in flight end, and pages that start it or watch it. A  *)
(* page is one socket, which asks for one scan as soon as it is open. An   *)
(* address n stands for host n with port 5555; those above Hosts are of    *)
(* other ports, which only mDNS tells.                                     *)
(***************************************************************************)
EXTENDS Naturals, Sequences, FiniteSets

CONSTANTS Pages,
          Hosts,     \* addresses of the subnets of a full scan
          Addrs,     \* addresses that mDNS may tell
          Known,     \* what `adb devices` may list
          Workers,   \* scanConcurrency
          MaxScans   \* bound: scans

ASSUME NetworkScannerAssumption ==
    /\ Hosts \in Nat /\ Addrs \in Nat /\ Hosts <= Addrs
    /\ Known \subseteq SUBSET (1..Addrs) /\ Workers \in Nat \ {0} /\ MaxScans \in Nat

Addr == 1..Addrs

VARIABLES
    state,      \* of the scanner
    phase,      \* of start(): "none", "warm" (adb start-server), "list" (adb devices) or "tracks"
    cancelFlag,
    spectators,
    emitted,    \* emittedAddresses
    found,      \* foundSoFar
    hits,       \* how often each address was told in this scan
    connected,  \* connectedAddresses
    total,      \* hosts of this scan
    cursor,     \* the last host that was dequeued
    checked,
    probing,    \* probes in flight
    mdns,       \* the mDNS track is in flight
    page,       \* "none", "open" (its scan.start is on the way), "asked" or "closed"
    told,       \* what each page is sent, hits and progress left out
    scans

scan == <<emitted, found, hits, connected, total, cursor, checked, probing, mdns>>
vars == <<state, phase, cancelFlag, spectators, scan, page, told, scans>>

Terminal == {"complete", "cancelled", "error"}
Kinds == Terminal \cup {"started", "draining", "refused"}

TypeOK ==
    /\ state \in {"idle", "scanning", "draining"} /\ phase \in {"none", "warm", "list", "tracks"}
    /\ cancelFlag \in BOOLEAN /\ mdns \in BOOLEAN
    /\ emitted \subseteq Addr /\ found \in Nat /\ hits \in [Addr -> Nat] /\ connected \subseteq Addr
    /\ total \in {0, Hosts} /\ cursor \in 0..total /\ checked \in 0..total
    /\ page \in [Pages -> {"none", "open", "asked", "closed"}] /\ told \in [Pages -> Seq(Kinds)]
    /\ scans \in 0..MaxScans
    /\ spectators \subseteq {p \in Pages : page[p] \in {"open", "asked"}}
    \* the pool: what was dequeued is in flight or checked
    /\ probing \subseteq 1..cursor /\ Cardinality(probing) <= Workers
    /\ checked + Cardinality(probing) = cursor

Init ==
    /\ state = "idle" /\ phase = "none" /\ cancelFlag = FALSE /\ spectators = {}
    /\ emitted = {} /\ found = 0 /\ hits = [a \in Addr |-> 0] /\ connected = {}
    /\ total = 0 /\ cursor = 0 /\ checked = 0 /\ probing = {} /\ mdns = FALSE
    /\ page = [p \in Pages |-> "none"] /\ told = [p \in Pages |-> <<>>] /\ scans = 0

\* emit()
Emit(msgs) == told' = [p \in Pages |-> IF p \in spectators THEN told[p] \o msgs ELSE told[p]]

\* The using-declaration of start(): back to idle, whichever way it ends.
Reset == state' = "idle" /\ phase' = "none" /\ cancelFlag' = FALSE

-------------------------------------------------------------------------------
(* ScanMw.                                                                  *)

\* Mutant of Attach: a page that joins while the scan drains is not told so.
Attach_NoDraining(p) ==
    /\ page[p] = "none" /\ page' = [page EXCEPT ![p] = "open"]
    /\ IF state = "idle" THEN UNCHANGED <<spectators, told>>
       ELSE /\ spectators' = spectators \cup {p}
            /\ told' = [told EXCEPT ![p] = IF phase = "warm" THEN <<>> ELSE <<"started">>]
    /\ UNCHANGED <<state, phase, cancelFlag, scan, scans>>

\* attach() and attachSpectator(): the snapshot of the scan that runs.
Attach(p) ==
    /\ page[p] = "none" /\ page' = [page EXCEPT ![p] = "open"]
    /\ IF state = "idle" THEN UNCHANGED <<spectators, told>>
       ELSE /\ spectators' = spectators \cup {p}
            /\ told' = [told EXCEPT ![p] = CASE phase = "warm" -> <<>>
                                              [] state = "draining" -> <<"started", "draining">>
                                              [] OTHER -> <<"started">>]
    /\ UNCHANGED <<state, phase, cancelFlag, scan, scans>>

\* scan.start arrives: refused during a scan, or for its subnets; or else start() runs to its first await.
StartArrives(p) ==
    /\ page[p] = "open" /\ page' = [page EXCEPT ![p] = "asked"]
    /\ \/ /\ told' = [told EXCEPT ![p] = Append(@, "refused")]
          /\ UNCHANGED <<state, phase, cancelFlag, spectators, scan, scans>>
       \/ /\ state = "idle" /\ scans < MaxScans /\ scans' = scans + 1
          /\ state' = "scanning" /\ phase' = "warm" /\ cancelFlag' = FALSE
          /\ emitted' = {} /\ found' = 0 /\ hits' = [a \in Addr |-> 0] /\ spectators' = {p}
          /\ total' \in {0, Hosts} /\ cursor' = 0 /\ checked' = 0
          /\ UNCHANGED <<connected, probing, mdns, told>>

\* scan.cancel from any page; the drain watcher runs at once, if the scan has come as far.
CancelArrives(p) ==
    /\ page[p] = "asked" /\ state = "scanning"
    /\ cancelFlag' = TRUE
    /\ IF phase = "warm" THEN UNCHANGED <<state, told>> ELSE state' = "draining" /\ Emit(<<"draining">>)
    /\ UNCHANGED <<phase, spectators, scan, page, scans>>

\* The browser leaves: the scan goes on.
Closes(p) ==
    /\ page[p] \in {"open", "asked"} /\ page' = [page EXCEPT ![p] = "closed"]
    /\ spectators' = spectators \ {p}
    /\ UNCHANGED <<state, phase, cancelFlag, scan, told, scans>>

-------------------------------------------------------------------------------
(* NetworkScanner.start and its tracks.                                     *)

\* Mutant of Warmed: the failure is swallowed.
Warmed_Silent(ok) ==
    /\ phase = "warm"
    /\ IF ok THEN /\ phase' = "list" /\ UNCHANGED cancelFlag
                  /\ state' = (IF cancelFlag THEN "draining" ELSE state)
                  /\ Emit(IF cancelFlag THEN <<"started", "draining">> ELSE <<"started">>)
             ELSE Reset /\ UNCHANGED told
    /\ UNCHANGED <<spectators, scan, page, scans>>

\* adb start-server has ended. A cancellation that came before is seen now.
Warmed(ok) ==
    /\ phase = "warm"
    /\ IF ok THEN /\ phase' = "list" /\ UNCHANGED cancelFlag
                  /\ state' = (IF cancelFlag THEN "draining" ELSE state)
                  /\ Emit(IF cancelFlag THEN <<"started", "draining">> ELSE <<"started">>)
             ELSE Reset /\ Emit(<<"error">>)
    /\ UNCHANGED <<spectators, scan, page, scans>>

\* Mutant of Settles: the tracks are not waited for together.
Settles_TcpOnly ==
    IF probing' = {}
      THEN Reset /\ Emit(IF cancelFlag THEN <<"cancelled">> ELSE <<"complete">>)
      ELSE UNCHANGED <<state, phase, cancelFlag, told>>

\* The end of runTracks(), when the last of both tracks is over, and with it of start().
Settles ==
    IF ~mdns' /\ probing' = {}
      THEN Reset /\ Emit(IF cancelFlag THEN <<"cancelled">> ELSE <<"complete">>)
      ELSE UNCHANGED <<state, phase, cancelFlag, told>>

\* Mutant of Refill: a worker that meets an address found already goes home.
Refill_StopsAtKnown(left, n, skipped) ==
    LET next == {i \in cursor + 1..cursor + n : i <= total /\ (cursor + 1..i) \cap skipped = {}}
    IN  /\ probing' = IF cancelFlag THEN left ELSE left \cup next
        /\ cursor' = IF cancelFlag THEN cursor ELSE cursor + Cardinality(next)
        /\ checked' = cursor' - Cardinality(probing')

\* nextHost() by n workers that are free: addresses found or connected already are checked without a probe.
Refill(left, n, skipped) ==
    LET rest == (cursor + 1..total) \ skipped
        next == {i \in rest : Cardinality({j \in rest : j <= i}) <= n}
    IN  /\ probing' = IF cancelFlag THEN left ELSE left \cup next
        /\ IF cancelFlag THEN cursor' = cursor
           ELSE IF Cardinality(next) >= n THEN cursor' \in next /\ \A j \in next : j <= cursor'
           ELSE cursor' = total
        /\ checked' = cursor' - Cardinality(probing')

\* adb devices has answered: the mDNS track and the workers start. When it fails, so does the scan.
Listed(ok) ==
    /\ phase = "list"
    /\ IF ok THEN /\ phase' = "tracks" /\ mdns' = TRUE /\ connected' \in Known
                  /\ Refill({}, Workers, connected')
                  /\ UNCHANGED <<state, cancelFlag, told>>
             ELSE Reset /\ Emit(<<"error">>) /\ UNCHANGED <<mdns, connected, cursor, checked, probing>>
    /\ UNCHANGED <<emitted, found, hits, total, spectators, page, scans>>

\* Mutant of Hit: an address is told although the other track has told it.
Hit_Again(as) ==
    /\ emitted' = emitted \cup as /\ found' = found + Cardinality(as)
    /\ hits' = [a \in Addr |-> IF a \in as THEN hits[a] + 1 ELSE hits[a]]

\* emitHit() of each of the addresses
Hit(as) ==
    /\ emitted' = emitted \cup as /\ found' = found + Cardinality(as \ emitted)
    /\ hits' = [a \in Addr |-> IF a \in as \ emitted THEN hits[a] + 1 ELSE hits[a]]

\* adb mdns services has answered or failed.
MdnsAnswers(as) ==
    /\ mdns /\ mdns' = FALSE
    /\ Hit(IF cancelFlag THEN {} ELSE as \ connected)
    /\ UNCHANGED <<connected, total, cursor, checked, probing>>
    /\ Settles
    /\ UNCHANGED <<spectators, page, scans>>

\* A probe ends: a device or none; its worker takes the next host.
ProbeEnds(h, isAdb) ==
    /\ h \in probing
    /\ Hit(IF isAdb THEN {h} ELSE {})
    /\ Refill(probing \ {h}, 1, connected \cup emitted')
    /\ UNCHANGED <<connected, total, mdns>>
    /\ Settles
    /\ UNCHANGED <<spectators, page, scans>>

Next ==
    \/ \E p \in Pages : Attach(p) \/ StartArrives(p) \/ CancelArrives(p) \/ Closes(p)
    \/ \E ok \in BOOLEAN : Warmed(ok) \/ Listed(ok)
    \/ \E as \in SUBSET Addr : MdnsAnswers(as)
    \/ \E h \in 1..Hosts, isAdb \in BOOLEAN : ProbeEnds(h, isAdb)

\* adb and the probes have their timeouts.
Fairness ==
    /\ WF_vars(\E ok \in BOOLEAN : Warmed(ok)) /\ WF_vars(\E ok \in BOOLEAN : Listed(ok))
    /\ WF_vars(\E as \in SUBSET Addr : MdnsAnswers(as))
    /\ \A h \in 1..Hosts : WF_vars(\E isAdb \in BOOLEAN : ProbeEnds(h, isAdb))

Spec == Init /\ [][Next]_vars /\ Fairness

-------------------------------------------------------------------------------
(* Properties.                                                              *)

\* An address is told once in a scan, by whichever track comes first, never when it is connected
\* already, and "found" counts what was told.
FoundOnce ==
    /\ \A a \in Addr : hits[a] = IF a \in emitted THEN 1 ELSE 0
    /\ found = Cardinality(emitted)
    /\ phase = "tracks" => emitted \cap connected = {}

\* An idle scanner has nothing in flight that could speak in the next scan.
IdleIsQuiet == /\ state = "idle" <=> phase = "none"
               /\ phase # "tracks" => ~mdns /\ probing = {}

\* Of the first n messages of s, refusals left out: there is none; the last one is of K.
Unheard(s, n) == \A j \in 1..n : s[j] = "refused"
Heard(s, n, K) == \E j \in 1..n : s[j] \in K /\ \A l \in j + 1..n : s[l] = "refused"

\* What k may follow, in what a page was told.
Follows(s, n, k) ==
    CASE k = "started" -> Unheard(s, n) \/ Heard(s, n, Terminal)
      [] k \in {"draining", "complete"} -> Heard(s, n, {"started"})
      [] k = "cancelled" -> Heard(s, n, {"draining"})
      [] OTHER -> TRUE

\* "Ordering: scan.started -> (scan.draining? -> scan.cancelled) | scan.complete. Exactly one terminal
\* message", for those as well who join late.
InOrder == \A p \in Pages : \A i \in DOMAIN told[p] : Follows(told[p], i - 1, told[p][i])

\* A scan is only "complete" when every host was checked, whatever was cancelled before or meanwhile.
NothingSkipped ==
    [][\A p \in Pages : Len(told'[p]) > Len(told[p]) /\ told'[p][Len(told'[p])] = "complete"
          => checked' = total /\ ~mdns']_vars

\* Whoever watches a scan is told how it ended, and that is the last it hears of it.
EveryoneTold ==
    \A p \in Pages : (state # "idle" /\ p \in spectators)
                       ~> \/ page[p] = "closed"
                          \/ state = "idle" /\ told[p] # <<>> /\ told[p][Len(told[p])] \in Terminal
===============================================================================
