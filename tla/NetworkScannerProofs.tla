------------------------- MODULE NetworkScannerProofs -------------------------
(* Theorems about the scanner: for any number of pages, hosts and workers.  *)
EXTENDS NetworkScanner, FiniteSetTheorems, TLAPS

\* What the steps keep besides the two properties: a scan starts with nothing found, and no probe
\* goes to an address that is connected.
Typed ==
    /\ emitted \subseteq Addr /\ found \in Nat /\ hits \in [Addr -> Nat] /\ probing \subseteq Addr
    /\ connected \subseteq Addr /\ mdns \in BOOLEAN /\ total \in {0, Hosts} /\ cursor \in Nat

Fresh == phase \in {"warm", "list"} => emitted = {}
Apart == phase = "tracks" => probing \cap connected = {}

IInv == Typed /\ Fresh /\ Apart /\ FoundOnce /\ IdleIsQuiet

LEMMA InitHolds == Init => IInv
<1> SUFFICES ASSUME Init PROVE IInv
  OBVIOUS
<1>1. Cardinality({}) = 0
  BY FS_EmptySet
<1> QED
  BY <1>1 DEF Init, IInv, Typed, Fresh, Apart, FoundOnce, IdleIsQuiet

\* Telling some addresses: each is counted once.
LEMMA HitCounts ==
    ASSUME Typed, FoundOnce, NEW as \in SUBSET Addr, Hit(as)
    PROVE  /\ emitted' \subseteq Addr /\ found' \in Nat /\ hits' \in [Addr -> Nat]
           /\ emitted' = emitted \cup as
           /\ \A a \in Addr : hits'[a] = IF a \in emitted' THEN 1 ELSE 0
           /\ found' = Cardinality(emitted')
<1>1. IsFiniteSet(Addr)
  BY FS_Interval, NetworkScannerAssumption DEF NetworkScannerAssumption, Addr
<1>2. IsFiniteSet(emitted) /\ IsFiniteSet(as \ emitted)
  BY <1>1, FS_Subset DEF Typed
<1>3. Cardinality(emitted) \in Nat /\ Cardinality(as \ emitted) \in Nat
  BY <1>2, FS_CardinalityType
<1> DEFINE new == as \ emitted
           all == emitted \cup as
<1>4. Cardinality(emitted \cup new) = Cardinality(emitted) + Cardinality(new) - Cardinality(emitted \cap new)
  BY <1>2, FS_Union
<1>5. emitted \cap new = {} /\ emitted \cup new = all
  OBVIOUS
<1>6. Cardinality({}) = 0
  BY FS_EmptySet
<1>7. Cardinality(emitted \cup as) = Cardinality(emitted) + Cardinality(as \ emitted)
  <2>1. Cardinality(new) \in Nat
    BY <1>3
  <2> HIDE DEF new, all
  <2>2. Cardinality(emitted \cup new) = Cardinality(all) /\ Cardinality(emitted \cap new) = 0
    BY <1>5, <1>6, Zenon
  <2>3. Cardinality(all) = Cardinality(emitted) + Cardinality(new)
    BY <1>3, <1>4, <2>1, <2>2
  <2> QED
    BY <2>3 DEF new, all
<1>8. emitted' = emitted \cup as /\ found' = found + Cardinality(as \ emitted)
  BY DEF Hit
<1>9. found' = Cardinality(emitted') /\ found' \in Nat
  BY <1>3, <1>7, <1>8 DEF FoundOnce
<1>10. /\ hits' = [a \in Addr |-> IF a \in as \ emitted THEN hits[a] + 1 ELSE hits[a]]
  BY DEF Hit
<1>11. \A a \in Addr : hits'[a] = IF a \in as /\ a \notin emitted THEN hits[a] + 1 ELSE hits[a]
  BY <1>10
<1>12. \A a \in Addr : hits[a] = IF a \in emitted THEN 1 ELSE 0
  BY DEF FoundOnce
<1>13. \A a \in Addr : hits'[a] = IF a \in emitted' THEN 1 ELSE 0
  <2> SUFFICES ASSUME NEW a \in Addr PROVE hits'[a] = IF a \in emitted' THEN 1 ELSE 0
    OBVIOUS
  <2>1. CASE a \in emitted
    BY <1>8, <1>11, <1>12, <2>1
  <2>2. CASE a \notin emitted /\ a \in as
    <3>1. hits'[a] = hits[a] + 1 /\ hits[a] = 0 /\ a \in emitted'
      BY <1>8, <1>11, <1>12, <2>2
    <3> QED
      BY <3>1
  <2>3. CASE a \notin emitted /\ a \notin as
    BY <1>8, <1>11, <1>12, <2>3
  <2> QED
    BY <2>1, <2>2, <2>3
<1>14. hits' \in [Addr -> Nat]
  <2>1. \A a \in Addr : hits'[a] \in Nat
    BY <1>13
  <2>2. hits' = [a \in Addr |-> hits'[a]]
    BY <1>10
  <2> QED
    BY <2>1, <2>2
<1> QED
  BY <1>8, <1>9, <1>13, <1>14 DEF Typed

\* Taking hosts: those in flight stay apart from what is skipped.
LEMMA RefillApart ==
    ASSUME Typed, NEW left, left \subseteq Addr, NEW n \in Nat, NEW skipped, Refill(left, n, skipped)
    PROVE  /\ probing' \subseteq Addr /\ cursor' \in Nat
           /\ \A h \in probing' : h \in left \/ h \notin skipped
<1> DEFINE rest == (cursor + 1..total) \ skipped
           next == {i \in rest : Cardinality({j \in rest : j <= i}) <= n}
<1>1. total \in Nat /\ total <= Addrs /\ cursor \in Nat
  BY NetworkScannerAssumption DEF Typed, NetworkScannerAssumption
<1>2. rest \subseteq Addr /\ Addr \subseteq Nat /\ rest \cap skipped = {}
  BY <1>1, NetworkScannerAssumption DEF NetworkScannerAssumption, Addr
<1>3. next \subseteq rest
  OBVIOUS
<1>4. probing' = IF cancelFlag THEN left ELSE left \cup next
  BY DEF Refill
<1>5. cursor' = cursor \/ cursor' \in next \/ cursor' = total
  BY DEF Refill
<1> HIDE DEF rest, next
<1>6. probing' \subseteq Addr /\ \A h \in probing' : h \in left \/ h \notin skipped
  BY <1>2, <1>3, <1>4
<1>7. cursor' \in Nat
  BY <1>1, <1>2, <1>3, <1>5
<1> QED
  BY <1>6, <1>7

\* A page comes, asks, cancels or leaves.
LEMMA PagesKeep ==
    ASSUME IInv, NEW p \in Pages, Attach(p) \/ StartArrives(p) \/ CancelArrives(p) \/ Closes(p)
    PROVE  IInv'
<1>1. CASE UNCHANGED scan /\ phase' = phase /\ (state' = "idle" <=> state = "idle")
  BY <1>1 DEF scan, IInv, Typed, Fresh, Apart, FoundOnce, IdleIsQuiet
<1>2. CASE StartArrives(p) /\ state' # state
  <2>1. /\ state = "idle" /\ state' = "scanning" /\ phase' = "warm"
        /\ emitted' = {} /\ found' = 0 /\ hits' = [a \in Addr |-> 0] /\ total' \in {0, Hosts} /\ cursor' = 0
        /\ UNCHANGED <<connected, probing, mdns>>
    BY <1>2 DEF StartArrives
  <2>2. Typed' /\ Fresh' /\ Apart'
    BY <2>1 DEF IInv, Typed, Fresh, Apart
  <2>3. FoundOnce'
    BY <2>1, FS_EmptySet DEF FoundOnce
  <2>4. IdleIsQuiet'
    BY <2>1 DEF IInv, IdleIsQuiet
  <2> QED
    BY <2>2, <2>3, <2>4 DEF IInv
<1>3. CASE StartArrives(p) /\ state' = state
  <2>1. UNCHANGED <<scan, phase>>
    BY <1>3 DEF StartArrives
  <2> QED
    BY <1>1, <1>3, <2>1
<1> QED
  BY <1>1, <1>2, <1>3 DEF Attach, CancelArrives, Closes

\* start() before its tracks.
LEMMA WarmedKeeps ==
    ASSUME IInv, NEW ok \in BOOLEAN, Warmed(ok)
    PROVE  IInv'
<1>1. phase = "warm" /\ UNCHANGED scan
  BY DEF Warmed
<1>2. \/ phase' = "list" /\ (state' = state \/ state' = "draining")
      \/ phase' = "none" /\ state' = "idle"
  BY DEF Warmed, Reset
<1>3. Typed' /\ Fresh' /\ Apart'
  BY <1>1, <1>2 DEF scan, IInv, Typed, Fresh, Apart
<1>4. FoundOnce'
  BY <1>1, <1>2 DEF scan, IInv, FoundOnce
<1>5. IdleIsQuiet'
  BY <1>1, <1>2 DEF scan, IInv, IdleIsQuiet
<1> QED
  BY <1>3, <1>4, <1>5 DEF IInv

LEMMA ListedKeeps ==
    ASSUME IInv, NEW ok \in BOOLEAN, Listed(ok)
    PROVE  IInv'
<1>1. phase = "list" /\ emitted = {} /\ UNCHANGED <<emitted, found, hits, total>>
  BY DEF Listed, IInv, Fresh
<1>2. CASE ok
  <2>1. phase' = "tracks" /\ connected' \in Known /\ state' = state /\ mdns' = TRUE
    BY <1>2 DEF Listed
  <2>2. Workers \in Nat /\ connected' \subseteq Addr
    BY <2>1, NetworkScannerAssumption DEF NetworkScannerAssumption, Addr
  <2>3. Refill({}, Workers, connected')
    BY <1>2 DEF Listed
  <2>4. probing' \subseteq Addr /\ cursor' \in Nat /\ \A h \in probing' : h \in {} \/ h \notin connected'
    BY <2>2, <2>3, RefillApart DEF IInv
  <2>5. Typed' /\ Fresh' /\ Apart'
    BY <1>1, <2>1, <2>2, <2>4 DEF IInv, Typed, Fresh, Apart
  <2>6. FoundOnce'
    BY <1>1, <2>1 DEF IInv, FoundOnce
  <2>7. IdleIsQuiet'
    BY <1>1, <2>1 DEF IInv, IdleIsQuiet
  <2> QED
    BY <2>5, <2>6, <2>7 DEF IInv
<1>3. CASE ~ok
  <2>1. phase' = "none" /\ state' = "idle" /\ UNCHANGED <<mdns, connected, cursor, probing>>
    BY <1>3 DEF Listed, Reset
  <2> QED
    BY <1>1, <2>1 DEF IInv, Typed, Fresh, Apart, FoundOnce, IdleIsQuiet
<1> QED
  BY <1>2, <1>3

\* What a step of either track keeps, once the addresses it tells and the probes it leaves are apart
\* from what is connected.
LEMMA TrackKeeps ==
    ASSUME IInv, phase = "tracks", NEW as \in SUBSET Addr, as \cap connected = {}, Hit(as), Settles,
           UNCHANGED <<connected, total>>, probing' \subseteq Addr, cursor' \in Nat,
           probing' \cap connected = {}, mdns' \in BOOLEAN
    PROVE  IInv'
<1>1. /\ emitted' \subseteq Addr /\ found' \in Nat /\ hits' \in [Addr -> Nat] /\ emitted' = emitted \cup as
      /\ \A a \in Addr : hits'[a] = IF a \in emitted' THEN 1 ELSE 0
      /\ found' = Cardinality(emitted')
  BY HitCounts DEF IInv
<1>2. \/ ~mdns' /\ probing' = {} /\ state' = "idle" /\ phase' = "none"
      \/ state' = state /\ phase' = phase
  BY DEF Settles, Reset
<1>3. Typed'
  BY <1>1 DEF IInv, Typed
<1>4. Fresh' /\ Apart'
  BY <1>2 DEF IInv, Fresh, Apart
<1>5. FoundOnce'
  <2>1. emitted' \cap connected' = {}
    BY <1>1 DEF IInv, FoundOnce
  <2> QED
    BY <1>1, <2>1 DEF FoundOnce
<1>6. IdleIsQuiet'
  BY <1>2 DEF IInv, IdleIsQuiet
<1> QED
  BY <1>3, <1>4, <1>5, <1>6 DEF IInv

LEMMA TracksKeep ==
    ASSUME IInv,
           \/ \E as \in SUBSET Addr : MdnsAnswers(as)
           \/ \E h \in 1..Hosts, isAdb \in BOOLEAN : ProbeEnds(h, isAdb)
    PROVE  IInv'
<1>1. ASSUME NEW as \in SUBSET Addr, MdnsAnswers(as) PROVE IInv'
  <2>1. phase = "tracks"
    BY <1>1 DEF MdnsAnswers, IInv, IdleIsQuiet
  <2> DEFINE said == IF cancelFlag THEN {} ELSE as \ connected
  <2>2. said \in SUBSET Addr /\ said \cap connected = {}
    OBVIOUS
  <2>3. Hit(said) /\ Settles /\ UNCHANGED <<connected, total, cursor, probing>> /\ mdns' = FALSE
    BY <1>1 DEF MdnsAnswers
  <2>4. probing' \subseteq Addr /\ cursor' \in Nat /\ probing' \cap connected = {} /\ mdns' \in BOOLEAN
    BY <2>1, <2>3 DEF IInv, Typed, Apart
  <2> HIDE DEF said
  <2> QED
    BY <2>1, <2>2, <2>3, <2>4, TrackKeeps
<1>2. ASSUME NEW h \in 1..Hosts, NEW isAdb \in BOOLEAN, ProbeEnds(h, isAdb) PROVE IInv'
  <2>1. h \in probing /\ phase = "tracks"
    BY <1>2 DEF ProbeEnds, IInv, IdleIsQuiet
  <2> DEFINE said == IF isAdb THEN {h} ELSE {}
             left == probing \ {h}
             skipped == connected \cup emitted'
  <2>2. said \in SUBSET Addr /\ said \cap connected = {}
    BY <2>1 DEF IInv, Typed, Apart
  <2>3. Hit(said) /\ Refill(left, 1, skipped) /\ Settles /\ UNCHANGED <<connected, total, mdns>>
    BY <1>2 DEF ProbeEnds
  <2>4. left \subseteq Addr /\ left \cap connected = {} /\ 1 \in Nat /\ mdns' = mdns
    BY <2>1, <2>3 DEF IInv, Typed, Apart
  <2>5. connected \subseteq skipped
    OBVIOUS
  <2> HIDE DEF said, left, skipped
  <2>6. /\ probing' \subseteq Addr /\ cursor' \in Nat
        /\ \A g \in probing' : g \in left \/ g \notin skipped
    BY <2>3, <2>4, RefillApart DEF IInv
  <2>7. probing' \cap connected = {}
    BY <2>4, <2>5, <2>6
  <2>8. mdns' \in BOOLEAN
    BY <2>4 DEF IInv, Typed
  <2> QED
    BY <2>1, <2>2, <2>3, <2>6, <2>7, <2>8, TrackKeeps
<1> QED
  BY <1>1, <1>2

LEMMA NextKeeps == IInv /\ [Next]_vars => IInv'
<1> SUFFICES ASSUME IInv, [Next]_vars PROVE IInv'
  OBVIOUS
<1>1. CASE UNCHANGED vars
  BY <1>1 DEF vars, scan, IInv, Typed, Fresh, Apart, FoundOnce, IdleIsQuiet
<1> QED
  BY <1>1, PagesKeep, WarmedKeeps, ListedKeeps, TracksKeep DEF Next

LEMMA Invariance == Spec => []IInv
BY InitHolds, NextKeeps, PTL DEF Spec

\* FoundOnce: of the tracks that race for an address one tells it, and the count is that of what was told.
THEOREM EachFoundOnce == Spec => []FoundOnce
BY Invariance, PTL DEF IInv

\* IdleIsQuiet: no probe and no mDNS query outlives its scan.
THEOREM NothingLeftBehind == Spec => []IdleIsQuiet
BY Invariance, PTL DEF IInv

-------------------------------------------------------------------------------
(* A scan that says "complete" is complete: an invariant of the pool.       *)

Dequeued ==
    phase = "tracks" => /\ cancelFlag \/ cursor = total \/ probing # {}
                        /\ probing = {} => checked = cursor

ToldTyped == told \in [Pages -> Seq(Kinds)]

\* A free worker takes a host as long as there is one.
LEMMA RefillTakes ==
    ASSUME Typed, NEW left, NEW n \in Nat \ {0}, NEW skipped, Refill(left, n, skipped), cursor' \in Nat
    PROVE  /\ cancelFlag \/ cursor' = total \/ probing' # {}
           /\ probing' = {} => checked' = cursor'
<1> DEFINE rest == (cursor + 1..total) \ skipped
           next == {i \in rest : Cardinality({j \in rest : j <= i}) <= n}
<1>1. probing' = IF cancelFlag THEN left ELSE left \cup next
  BY DEF Refill
<1>2. cancelFlag \/ cursor' \in next \/ cursor' = total
  BY DEF Refill
<1>3. checked' = cursor' - Cardinality(probing')
  BY DEF Refill
<1> HIDE DEF rest, next
<1>5. probing' = {} => Cardinality(probing') = 0
  BY FS_EmptySet, Zenon
<1> QED
  BY <1>1, <1>2, <1>3, <1>5

LEMMA DequeuedInit == Init => Dequeued /\ ToldTyped
BY DEF Init, Dequeued, ToldTyped, Kinds

\* What is said to the pages, step by step, and that "complete" is said at the end of the tracks only.
LEMMA Says ==
    ASSUME ToldTyped, [Next]_vars
    PROVE  /\ ToldTyped'
           /\ \A p \in Pages : Len(told'[p]) > Len(told[p]) /\ told'[p][Len(told'[p])] = "complete"
                => \/ \E as \in SUBSET Addr : MdnsAnswers(as) /\ state' = "idle" /\ ~cancelFlag
                   \/ \E h \in 1..Hosts, isAdb \in BOOLEAN : ProbeEnds(h, isAdb) /\ state' = "idle" /\ ~cancelFlag
<1> DEFINE Speaks(p) == Len(told'[p]) > Len(told[p]) /\ told'[p][Len(told'[p])] = "complete"
<1>1. ASSUME NEW msgs \in Seq(Kinds), Emit(msgs), msgs = <<>> \/ msgs[Len(msgs)] # "complete"
      PROVE  ToldTyped' /\ \A p \in Pages : ~Speaks(p)
  BY <1>1 DEF Emit, ToldTyped
<1>2. ASSUME NEW msgs \in Seq(Kinds), Emit(msgs) PROVE ToldTyped'
  BY <1>2 DEF Emit, ToldTyped
<1>3. told' = told => ToldTyped' /\ \A p \in Pages : ~Speaks(p)
  BY DEF ToldTyped
<1>4. ASSUME NEW p \in Pages, Attach(p) PROVE ToldTyped' /\ \A q \in Pages : ~Speaks(q)
  <2>1. CASE told' = told
    BY <1>3, <2>1
  <2>2. CASE told' # told
    <3> DEFINE snap == told'[p]
    <3>1. snap = <<>> \/ snap = <<"started">> \/ snap = <<"started", "draining">>
      BY <1>4, <2>2 DEF Attach, ToldTyped
    <3>2. \E new : told' = [told EXCEPT ![p] = new]
      BY <1>4, <2>2 DEF Attach
    <3> HIDE DEF snap
    <3>3. snap \in Seq(Kinds) /\ (snap # <<>> => snap[Len(snap)] # "complete")
      <4>1. CASE snap = <<>>
        BY <4>1
      <4>2. CASE snap = <<"started">>
        BY <4>2 DEF Kinds
      <4>3. CASE snap = <<"started", "draining">>
        BY <4>3 DEF Kinds
      <4> QED
        BY <3>1, <4>1, <4>2, <4>3
    <3>4. told' = [told EXCEPT ![p] = snap]
      BY <3>2 DEF ToldTyped, snap
    <3>5. ToldTyped' /\ \A q \in Pages : q # p => told'[q] = told[q]
      BY <3>3, <3>4 DEF ToldTyped
    <3>6. told'[p] = snap
      BY DEF snap
    <3>7. \A q \in Pages : told[q] \in Seq(Kinds)
      BY DEF ToldTyped
    <3> QED
      BY <3>3, <3>5, <3>6, <3>7
  <2> QED
    BY <2>1, <2>2
<1>5. ASSUME NEW p \in Pages, StartArrives(p) PROVE ToldTyped' /\ \A q \in Pages : ~Speaks(q)
  <2>1. CASE told' = told
    BY <1>3, <2>1
  <2>2. CASE told' = [told EXCEPT ![p] = Append(@, "refused")]
    BY <2>2 DEF ToldTyped, Kinds
  <2> QED
    BY <1>5, <2>1, <2>2 DEF StartArrives
<1>6. ASSUME NEW p \in Pages, CancelArrives(p) \/ Closes(p) PROVE ToldTyped' /\ \A q \in Pages : ~Speaks(q)
  <2>1. <<"draining">> \in Seq(Kinds) /\ <<"draining">>[Len(<<"draining">>)] # "complete"
    BY DEF Kinds
  <2>2. told' = told \/ Emit(<<"draining">>)
    BY <1>6 DEF CancelArrives, Closes
  <2> QED
    BY <1>1, <1>3, <2>1, <2>2
<1>7. ASSUME NEW ok \in BOOLEAN, Warmed(ok) \/ Listed(ok) PROVE ToldTyped' /\ \A q \in Pages : ~Speaks(q)
  <2>1. told' = told \/ Emit(<<"error">>) \/ Emit(<<"started">>) \/ Emit(<<"started", "draining">>)
    BY <1>7 DEF Warmed, Listed
  <2>2. /\ <<"error">> \in Seq(Kinds) /\ <<"error">>[Len(<<"error">>)] # "complete"
        /\ <<"started">> \in Seq(Kinds) /\ <<"started">>[Len(<<"started">>)] # "complete"
        /\ <<"started", "draining">> \in Seq(Kinds)
        /\ <<"started", "draining">>[Len(<<"started", "draining">>)] # "complete"
    BY DEF Kinds, Terminal
  <2> QED
    BY <1>1, <1>3, <2>1, <2>2
<1>8. ASSUME Settles
      PROVE  ToldTyped' /\ ((\A q \in Pages : ~Speaks(q)) \/ (state' = "idle" /\ ~cancelFlag))
  <2>1. \/ told' = told
        \/ cancelFlag /\ Emit(<<"cancelled">>)
        \/ ~cancelFlag /\ Emit(<<"complete">>) /\ state' = "idle"
    BY <1>8 DEF Settles, Reset
  <2>2. /\ <<"cancelled">> \in Seq(Kinds) /\ <<"cancelled">>[Len(<<"cancelled">>)] # "complete"
        /\ <<"complete">> \in Seq(Kinds)
    BY DEF Kinds, Terminal
  <2> QED
    BY <1>1, <1>2, <1>3, <2>1, <2>2
<1>9. CASE UNCHANGED vars
  BY <1>3, <1>9 DEF vars
<1>10. CASE \E as \in SUBSET Addr : MdnsAnswers(as)
  <2>1. PICK as \in SUBSET Addr : MdnsAnswers(as)
    BY <1>10
  <2>2. Settles
    BY <2>1 DEF MdnsAnswers
  <2> QED
    BY <1>8, <2>1, <2>2
<1>11. CASE \E h \in 1..Hosts, isAdb \in BOOLEAN : ProbeEnds(h, isAdb)
  <2>1. PICK h \in 1..Hosts, isAdb \in BOOLEAN : ProbeEnds(h, isAdb)
    BY <1>11
  <2>2. Settles
    BY <2>1 DEF ProbeEnds
  <2> QED
    BY <1>8, <2>1, <2>2
<1> QED
  BY <1>4, <1>5, <1>6, <1>7, <1>9, <1>10, <1>11 DEF Next

LEMMA DequeuedKeeps == IInv /\ Dequeued /\ [Next]_vars => Dequeued'
<1> SUFFICES ASSUME IInv, Dequeued, [Next]_vars, phase' = "tracks"
             PROVE  /\ cancelFlag' \/ cursor' = total' \/ probing' # {}
                    /\ probing' = {} => checked' = cursor'
  BY DEF Dequeued
<1>1. CASE \E ok \in BOOLEAN : Listed(ok)
  <2>1. Refill({}, Workers, connected') /\ cancelFlag' = cancelFlag /\ total' = total
    BY <1>1 DEF Listed, Reset
  <2>2. Workers \in Nat \ {0} /\ Workers \in Nat
    BY NetworkScannerAssumption DEF NetworkScannerAssumption
  <2>3. cursor' \in Nat
    BY <2>1, <2>2, RefillApart DEF IInv
  <2> QED
    BY <2>1, <2>2, <2>3, RefillTakes DEF IInv
<1>2. ASSUME NEW h \in 1..Hosts, NEW isAdb \in BOOLEAN, ProbeEnds(h, isAdb)
      PROVE  /\ cancelFlag' \/ cursor' = total' \/ probing' # {}
             /\ probing' = {} => checked' = cursor'
  <2> DEFINE left == probing \ {h}
             skipped == connected \cup emitted'
  <2>1. Refill(left, 1, skipped) /\ cancelFlag' = cancelFlag /\ total' = total /\ left \subseteq Addr /\ 1 \in Nat
    BY <1>2 DEF ProbeEnds, Settles, Reset, IInv, Typed
  <2> HIDE DEF left, skipped
  <2>2. cursor' \in Nat
    BY <2>1, RefillApart DEF IInv
  <2> QED
    BY <2>1, <2>2, RefillTakes DEF IInv
<1>3. CASE \/ \E p \in Pages : Attach(p) \/ StartArrives(p) \/ CancelArrives(p) \/ Closes(p)
           \/ UNCHANGED vars
  <2>1. phase = "tracks" /\ UNCHANGED <<cursor, total, probing, checked>>
    BY <1>3 DEF Attach, StartArrives, CancelArrives, Closes, scan, vars
  <2>2. cancelFlag => cancelFlag'
    BY <1>3, <2>1 DEF Attach, StartArrives, CancelArrives, Closes, vars
  <2> QED
    BY <2>1, <2>2 DEF Dequeued
<1>5. CASE \E as \in SUBSET Addr : MdnsAnswers(as)
  <2>1. phase = "tracks" /\ UNCHANGED <<cursor, total, probing, checked, cancelFlag>>
    BY <1>5 DEF MdnsAnswers, Settles, Reset
  <2> QED
    BY <2>1 DEF Dequeued
<1>4. CASE \E ok \in BOOLEAN : Warmed(ok)
  BY <1>4 DEF Warmed, Reset
<1> QED
  BY <1>1, <1>2, <1>3, <1>4, <1>5 DEF Next

LEMMA PoolInvariance == Spec => [](IInv /\ Dequeued /\ ToldTyped)
<1>1. IInv /\ Dequeued /\ ToldTyped /\ [Next]_vars => (IInv /\ Dequeued /\ ToldTyped)'
  BY NextKeeps, DequeuedKeeps, Says
<1> QED
  BY <1>1, InitHolds, DequeuedInit, PTL DEF Spec

\* NothingSkipped: "complete" is said when every host was checked and mDNS has answered.
THEOREM CompleteIsComplete == Spec => NothingSkipped
<1> DEFINE A == \A p \in Pages : Len(told'[p]) > Len(told[p]) /\ told'[p][Len(told'[p])] = "complete"
                  => checked' = total /\ ~mdns'
<1>1. ASSUME IInv, Dequeued, ~cancelFlag, state' = "idle",
             NEW as \in SUBSET Addr, MdnsAnswers(as)
      PROVE  checked' = total /\ ~mdns'
  <2>1. phase = "tracks" /\ state # "idle"
    BY <1>1 DEF MdnsAnswers, IInv, IdleIsQuiet
  <2>2. probing' = {} /\ ~mdns' /\ UNCHANGED <<probing, checked>>
    BY <1>1, <2>1 DEF MdnsAnswers, Settles
  <2> QED
    BY <1>1, <2>1, <2>2 DEF Dequeued
<1>2. ASSUME IInv, Dequeued, ~cancelFlag, state' = "idle",
             NEW h \in 1..Hosts, NEW isAdb \in BOOLEAN, ProbeEnds(h, isAdb)
      PROVE  checked' = total /\ ~mdns'
  <2> DEFINE left == probing \ {h}
             skipped == connected \cup emitted'
  <2>1. state # "idle"
    BY <1>2 DEF ProbeEnds, IInv, IdleIsQuiet
  <2>2. Refill(left, 1, skipped) /\ Settles /\ left \subseteq Addr /\ 1 \in Nat /\ 1 \in Nat \ {0}
    BY <1>2 DEF ProbeEnds, IInv, Typed
  <2>3. probing' = {} /\ ~mdns'
    BY <1>2, <2>1, <2>2 DEF Settles
  <2> HIDE DEF left, skipped
  <2>4. cursor' \in Nat
    BY <1>2, <2>2, RefillApart DEF IInv
  <2>5. cursor' = total /\ checked' = cursor'
    BY <1>2, <2>2, <2>3, <2>4, RefillTakes DEF IInv
  <2> QED
    BY <2>3, <2>5
<1>3. IInv /\ Dequeued /\ ToldTyped /\ [Next]_vars => A
  <2> SUFFICES ASSUME IInv, Dequeued, ToldTyped, [Next]_vars PROVE A
    OBVIOUS
  <2> QED
    BY <1>1, <1>2, Says
<1>4. IInv /\ Dequeued /\ ToldTyped /\ [Next]_vars => [A]_vars
  BY <1>3
<1> QED
  BY <1>4, PoolInvariance, PTL DEF Spec, NothingSkipped

-------------------------------------------------------------------------------
(* The types, and with them the bounds of the pool.                         *)

Pool == /\ cursor <= total /\ probing \subseteq 1..cursor /\ Cardinality(probing) <= Workers
        /\ checked + Cardinality(probing) = cursor /\ checked \in Int

Rest == /\ state \in {"idle", "scanning", "draining"} /\ phase \in {"none", "warm", "list", "tracks"}
        /\ cancelFlag \in BOOLEAN /\ scans \in 0..MaxScans
        /\ page \in [Pages -> {"none", "open", "asked", "closed"}]
        /\ spectators \subseteq {p \in Pages : page[p] \in {"open", "asked"}}

LEMMA PoolFinite ==
    ASSUME Typed, NEW left \in SUBSET Addr
    PROVE  IsFiniteSet(left) /\ Cardinality(left) \in Nat
<1>1. IsFiniteSet(Addr)
  BY FS_Interval, NetworkScannerAssumption DEF NetworkScannerAssumption, Addr
<1>2. IsFiniteSet(left)
  BY <1>1, FS_Subset
<1> QED
  BY <1>2, FS_CardinalityType

\* A set of at most so many hosts, up to the last of them.
LEMMA NextBounded ==
    ASSUME Typed, NEW n \in Nat \ {0}, NEW rest \in SUBSET Addr,
           NEW next, next = {i \in rest : Cardinality({j \in rest : j <= i}) <= n},
           \/ Cardinality(next) < n
           \/ \E last \in next : \A j \in next : j <= last
    PROVE  IsFiniteSet(next) /\ Cardinality(next) \in Nat /\ Cardinality(next) <= n
<1>1. next \in SUBSET Addr
  OBVIOUS
<1>2. IsFiniteSet(next) /\ Cardinality(next) \in Nat
  BY <1>1, PoolFinite
<1>3. ASSUME NEW last \in next, \A j \in next : j <= last PROVE Cardinality(next) <= n
  <2> DEFINE upto == {j \in rest : j <= last}
  <2>1. next \subseteq upto /\ upto \in SUBSET Addr
    BY <1>3
  <2>2. Cardinality(upto) <= n
    BY <1>3
  <2> HIDE DEF upto
  <2>3. IsFiniteSet(upto) /\ Cardinality(upto) \in Nat
    BY <2>1, PoolFinite
  <2>4. Cardinality(next) <= Cardinality(upto)
    BY <2>1, <2>3, FS_Subset
  <2> QED
    BY <1>2, <2>2, <2>3, <2>4
<1>4. CASE Cardinality(next) < n
  BY <1>2, <1>4
<1> QED
  BY <1>2, <1>3, <1>4

\* n free workers take no more than n hosts, each beyond the cursor, and move the cursor past them.
LEMMA RefillPool ==
    ASSUME Typed, cursor <= total, NEW left, left \subseteq 1..cursor,
           NEW n \in Nat \ {0}, Cardinality(left) + n <= Workers, NEW skipped, Refill(left, n, skipped)
    PROVE  /\ cursor' <= total /\ probing' \subseteq 1..cursor' /\ Cardinality(probing') <= Workers
           /\ checked' + Cardinality(probing') = cursor' /\ checked' \in Int
<1> DEFINE rest == (cursor + 1..total) \ skipped
           next == {i \in rest : Cardinality({j \in rest : j <= i}) <= n}
<1>1. total \in Nat /\ total <= Addrs /\ cursor \in Nat /\ Workers \in Nat /\ Addrs \in Nat
  BY NetworkScannerAssumption DEF Typed, NetworkScannerAssumption
<1>2. rest \in SUBSET Addr /\ left \in SUBSET Addr /\ rest \subseteq cursor + 1..total
  BY <1>1 DEF Addr
<1>3. checked' = cursor' - Cardinality(probing') /\ probing' = IF cancelFlag THEN left ELSE left \cup next
  BY DEF Refill
<1>4. next = {i \in rest : Cardinality({j \in rest : j <= i}) <= n}
  OBVIOUS
<1>5. \/ cancelFlag /\ cursor' = cursor
      \/ ~cancelFlag /\ cursor' \in next /\ \A j \in next : j <= cursor'
      \/ ~cancelFlag /\ ~(Cardinality(next) >= n) /\ cursor' = total
  BY DEF Refill
<1> HIDE DEF rest, next
<1>6. IsFiniteSet(left) /\ Cardinality(left) \in Nat
  BY <1>2, PoolFinite
<1>7. next \in SUBSET Addr /\ next \subseteq cursor + 1..total
  BY <1>2, <1>4
<1>8. IsFiniteSet(next) /\ Cardinality(next) \in Nat
  BY <1>7, PoolFinite
<1>9. CASE cancelFlag
  BY <1>1, <1>3, <1>5, <1>6, <1>9
<1>10. CASE ~cancelFlag
  <2>1. Cardinality(next) <= n
    <3>1. Cardinality(next) < n \/ \E last \in next : \A j \in next : j <= last
      BY <1>5, <1>8, <1>10
    <3> QED
      BY <1>2, <1>4, <3>1, NextBounded
  <2>2. probing' = left \cup next
    BY <1>3, <1>10
  <2>3. Cardinality(left \cup next) <= Cardinality(left) + Cardinality(next)
    <3>1. Cardinality(left \cup next) = Cardinality(left) + Cardinality(next) - Cardinality(left \cap next)
      BY <1>6, <1>8, FS_Union
    <3>2. left \cap next \in SUBSET Addr
      BY <1>7
    <3>3. Cardinality(left \cap next) \in Nat
      BY <3>2, PoolFinite
    <3> QED
      BY <1>6, <1>8, <3>1, <3>3
  <2>4. left \cup next \in SUBSET Addr
    BY <1>2, <1>7
  <2>5. Cardinality(left \cup next) \in Nat
    BY <2>4, PoolFinite
  <2>6. Cardinality(probing') \in Nat /\ Cardinality(probing') <= Workers
    BY <1>1, <1>6, <1>8, <2>1, <2>2, <2>3, <2>5
  <2>7. cursor' \in Nat /\ cursor <= cursor' /\ cursor' <= total /\ next \subseteq 1..cursor'
    <3>1. CASE cursor' \in next /\ \A j \in next : j <= cursor'
      BY <1>1, <1>7, <3>1
    <3>2. CASE cursor' = total
      BY <1>1, <1>7, <3>2
    <3> QED
      BY <1>5, <1>10, <3>1, <3>2
  <2>8. probing' \subseteq 1..cursor'
    BY <1>1, <2>2, <2>7
  <2> QED
    BY <1>3, <2>6, <2>7, <2>8
<1> QED
  BY <1>9, <1>10

LEMMA PoolKeeps == IInv /\ Pool /\ [Next]_vars => Pool'
<1> SUFFICES ASSUME IInv, Pool, [Next]_vars PROVE Pool'
  OBVIOUS
<1>1. CASE \E ok \in BOOLEAN : Listed(ok)
  <2>1. PICK ok \in BOOLEAN : Listed(ok)
    BY <1>1
  <2>2. CASE ok
    <3>1. Refill({}, Workers, connected') /\ total' = total
      BY <2>1, <2>2 DEF Listed
    <3>2. Cardinality({}) = 0 /\ Workers \in Nat \ {0} /\ {} \subseteq 1..cursor
      BY FS_EmptySet, NetworkScannerAssumption DEF NetworkScannerAssumption
    <3>3. Typed /\ cursor <= total
      BY DEF IInv, Pool
    <3>4. Cardinality({}) + Workers <= Workers
      BY <3>2
    <3> QED
      BY <3>1, <3>2, <3>3, <3>4, RefillPool DEF Pool
  <2>3. CASE ~ok
    BY <2>1, <2>3 DEF Listed, Pool
  <2> QED
    BY <2>2, <2>3
<1>2. ASSUME NEW h \in 1..Hosts, NEW isAdb \in BOOLEAN, ProbeEnds(h, isAdb) PROVE Pool'
  <2> DEFINE left == probing \ {h}
             skipped == connected \cup emitted'
  <2>1. Refill(left, 1, skipped) /\ total' = total /\ h \in probing
    BY <1>2 DEF ProbeEnds
  <2>2. Typed /\ cursor <= total /\ left \subseteq 1..cursor
    BY DEF IInv, Pool
  <2>3. IsFiniteSet(probing) /\ Cardinality(probing) \in Nat
    BY PoolFinite DEF IInv, Typed
  <2>4. Cardinality(left) = Cardinality(probing) - 1
    BY <2>1, <2>3, FS_RemoveElement
  <2>5. Cardinality(left) + 1 <= Workers
    <3>1. Workers \in Nat /\ Cardinality(probing) <= Workers
      BY NetworkScannerAssumption DEF NetworkScannerAssumption, Pool
    <3> QED
      BY <2>3, <2>4, <3>1
  <2>6. 1 \in Nat \ {0}
    OBVIOUS
  <2> HIDE DEF left, skipped
  <2> QED
    BY <2>1, <2>2, <2>5, <2>6, RefillPool DEF Pool
<1>3. CASE \E as \in SUBSET Addr : MdnsAnswers(as)
  BY <1>3 DEF MdnsAnswers, Pool
<1>4. CASE \E ok \in BOOLEAN : Warmed(ok)
  BY <1>4 DEF Warmed, scan, Pool
<1>5. ASSUME NEW p \in Pages, Attach(p) \/ StartArrives(p) \/ CancelArrives(p) \/ Closes(p) PROVE Pool'
  <2>1. CASE UNCHANGED scan
    BY <2>1 DEF scan, Pool
  <2>2. CASE StartArrives(p) /\ state = "idle" /\ cursor' = 0 /\ checked' = 0 /\ total' \in {0, Hosts}
               /\ probing' = probing
    <3>1. probing = {} /\ Cardinality({}) = 0
      BY <2>2, FS_EmptySet DEF IInv, IdleIsQuiet
    <3>2. total' >= 0 /\ Workers >= 0
      BY <2>2, NetworkScannerAssumption DEF NetworkScannerAssumption
    <3>3. Cardinality(probing') = 0
      BY <2>2, <3>1, Zenon
    <3> QED
      BY <2>2, <3>1, <3>2, <3>3 DEF Pool
  <2> QED
    BY <1>5, <2>1, <2>2 DEF Attach, StartArrives, CancelArrives, Closes
<1>6. CASE UNCHANGED vars
  BY <1>6 DEF vars, scan, Pool
<1> QED
  BY <1>1, <1>2, <1>3, <1>4, <1>5, <1>6 DEF Next

LEMMA RestKeeps == Rest /\ [Next]_vars => Rest'
<1> SUFFICES ASSUME Rest, [Next]_vars PROVE Rest'
  OBVIOUS
<1> USE DEF Rest
<1>1. ASSUME NEW p \in Pages, Attach(p) PROVE Rest'
  BY <1>1 DEF Attach
<1>2. ASSUME NEW p \in Pages, StartArrives(p) PROVE Rest'
  <2>1. page' \in [Pages -> {"none", "open", "asked", "closed"}] /\ p \in Pages /\ page'[p] = "asked"
          /\ \A q \in Pages : q # p => page'[q] = page[q]
    BY <1>2 DEF StartArrives
  <2>2. spectators' = spectators \/ spectators' = {p}
    BY <1>2 DEF StartArrives
  <2>3. spectators' \subseteq {q \in Pages : page'[q] \in {"open", "asked"}}
    BY <2>1, <2>2
  <2>4. scans' \in 0..MaxScans
    BY <1>2, NetworkScannerAssumption DEF StartArrives, NetworkScannerAssumption
  <2>5. cancelFlag' \in BOOLEAN
    BY <1>2 DEF StartArrives
  <2>6. state' \in {"idle", "scanning", "draining"} /\ phase' \in {"none", "warm", "list", "tracks"}
    BY <1>2 DEF StartArrives
  <2> QED
    BY <2>1, <2>3, <2>4, <2>5, <2>6
<1>3. ASSUME NEW p \in Pages, CancelArrives(p) \/ Closes(p) PROVE Rest'
  BY <1>3 DEF CancelArrives, Closes
<1>4. ASSUME NEW ok \in BOOLEAN, Warmed(ok) \/ Listed(ok) PROVE Rest'
  BY <1>4 DEF Warmed, Listed, Reset
<1>5. CASE \/ \E as \in SUBSET Addr : MdnsAnswers(as)
           \/ \E h \in 1..Hosts, isAdb \in BOOLEAN : ProbeEnds(h, isAdb)
  BY <1>5 DEF MdnsAnswers, ProbeEnds, Settles, Reset
<1>6. CASE UNCHANGED vars
  BY <1>6 DEF vars
<1> QED
  BY <1>1, <1>2, <1>3, <1>4, <1>5, <1>6 DEF Next

LEMMA RestInit == Init => Rest
<1> SUFFICES ASSUME Init PROVE Rest
  OBVIOUS
<1>1. scans \in 0..MaxScans
  BY NetworkScannerAssumption DEF Init, NetworkScannerAssumption
<1>2. cancelFlag \in BOOLEAN
  BY DEF Init
<1> QED
  BY <1>1, <1>2 DEF Init, Rest

\* TypeOK, with the bounds of the pool: never more probes than workers, and what was dequeued is in
\* flight or checked.
THEOREM TypeCorrect == Spec => []TypeOK
<1>1. Init => Pool /\ Rest
  <2> SUFFICES ASSUME Init PROVE Pool /\ Rest
    OBVIOUS
  <2>1. Cardinality({}) = 0
    BY FS_EmptySet
  <2>2. Pool
    BY <2>1, NetworkScannerAssumption DEF Init, Pool, NetworkScannerAssumption
  <2>3. Rest
    BY RestInit
  <2> QED
    BY <2>2, <2>3
<1>2. IInv /\ ToldTyped /\ Pool /\ Rest => TypeOK
  <2> SUFFICES ASSUME IInv, ToldTyped, Pool, Rest PROVE TypeOK
    OBVIOUS
  <2>1. IsFiniteSet(probing) /\ Cardinality(probing) \in Nat
    BY PoolFinite DEF IInv, Typed
  <2>2. total \in Nat /\ cursor \in 0..total
    BY NetworkScannerAssumption DEF IInv, Typed, Pool, NetworkScannerAssumption
  <2>3. Cardinality(probing) <= cursor
    <3>1. cursor \in Nat /\ cursor \in Int /\ 1 \in Int
      BY <2>2
    <3>2. IsFiniteSet(1..cursor)
      BY <3>1, FS_Interval
    <3>3. Cardinality(1..cursor) = IF 1 > cursor THEN 0 ELSE cursor - 1 + 1
      BY <3>1, FS_Interval
    <3>4. Cardinality(1..cursor) = cursor
      BY <3>1, <3>3
    <3>5. probing \in SUBSET (1..cursor)
      BY DEF Pool
    <3>6. Cardinality(probing) <= Cardinality(1..cursor)
      BY <3>2, <3>5, FS_Subset, Zenon
    <3> QED
      BY <3>4, <3>6
  <2>4. checked \in 0..total
    BY <2>1, <2>2, <2>3 DEF Pool
  <2> QED
    BY <2>2, <2>4 DEF IInv, Typed, Pool, Rest, ToldTyped, TypeOK
<1> QED
  BY <1>1, <1>2, PoolInvariance, PoolKeeps, RestKeeps, PTL DEF Spec
-------------------------------------------------------------------------------
(* What the pages hear: an invariant on the last word each of them was told. *)

\* Where the scan is, from what a page that watches it heard last.
Rested(s) == Unheard(s, Len(s)) \/ Heard(s, Len(s), Terminal)

Placed(s) ==
    CASE phase = "none" -> Rested(s)
      [] phase = "warm" -> Rested(s)
      [] OTHER -> Heard(s, Len(s), IF cancelFlag THEN {"draining"} ELSE {"started"})

\* The scan drains once it was cancelled, but for the time before its tracks.
Drains == /\ phase = "none" => state = "idle"
          /\ phase = "warm" => state = "scanning"
          /\ phase \in {"list", "tracks"} => state = IF cancelFlag THEN "draining" ELSE "scanning"

\* A page that does not watch can only come to watch the start of a scan.
Ready == \A p \in Pages : /\ page[p] = "none" => told[p] = <<>>
                          /\ page[p] \in {"none", "open", "asked"} /\ p \notin spectators => Rested(told[p])
                          /\ p \in spectators => Placed(told[p])

Ordered(s) == \A i \in 1..Len(s) : Follows(s, i - 1, s[i])

Order == Drains /\ Ready /\ \A p \in Pages : Ordered(told[p])

\* What was heard does not depend on what follows.
LEMMA Before ==
    ASSUME NEW s \in Seq(Kinds), NEW k \in Kinds, NEW n \in 0..Len(s), NEW K \in SUBSET Kinds
    PROVE  /\ Unheard(Append(s, k), n) <=> Unheard(s, n)
           /\ Heard(Append(s, k), n, K) <=> Heard(s, n, K)
<1> DEFINE t == Append(s, k)
<1>1. Len(s) \in Nat /\ \A i \in 1..Len(s) : t[i] = s[i]
  OBVIOUS
<1> HIDE DEF t
<1>2. \A i \in 1..n : t[i] = s[i]
  BY <1>1
<1>3. Unheard(t, n) <=> Unheard(s, n)
  BY <1>2 DEF Unheard
<1>4. Heard(t, n, K) <=> Heard(s, n, K)
  BY <1>1, <1>2 DEF Heard
<1> QED
  BY <1>3, <1>4 DEF t

\* One more word.
LEMMA Told ==
    ASSUME NEW s \in Seq(Kinds), NEW k \in Kinds, Ordered(s), Follows(s, Len(s), k)
    PROVE  LET t == Append(s, k)
           IN  /\ t \in Seq(Kinds) /\ Ordered(t)
               /\ k # "refused" => \A K \in SUBSET Kinds : k \in K => Heard(t, Len(t), K)
               /\ k = "refused" => /\ Unheard(s, Len(s)) => Unheard(t, Len(t))
                                   /\ \A K \in SUBSET Kinds : Heard(s, Len(s), K) => Heard(t, Len(t), K)
<1> DEFINE t == Append(s, k)
<1>1. /\ t \in Seq(Kinds) /\ Len(s) \in Nat /\ Len(t) = Len(s) + 1 /\ t[Len(t)] = k
      /\ \A i \in 1..Len(s) : t[i] = s[i]
  OBVIOUS
<1>2. \A n \in 0..Len(s), j \in Kinds : Follows(t, n, j) <=> Follows(s, n, j)
  <2> SUFFICES ASSUME NEW n \in 0..Len(s), NEW j \in Kinds PROVE Follows(t, n, j) <=> Follows(s, n, j)
    OBVIOUS
  <2>1. \A K \in SUBSET Kinds : Heard(t, n, K) <=> Heard(s, n, K)
    BY Before
  <2>2. Unheard(t, n) <=> Unheard(s, n)
    <3>1. Kinds \in SUBSET Kinds
      OBVIOUS
    <3> QED
      BY <3>1, Before
  <2> HIDE DEF t
  <2>3. Terminal \in SUBSET Kinds /\ {"started"} \in SUBSET Kinds /\ {"draining"} \in SUBSET Kinds
    BY DEF Kinds
  <2>4. /\ Heard(t, n, Terminal) <=> Heard(s, n, Terminal)
        /\ Heard(t, n, {"started"}) <=> Heard(s, n, {"started"})
        /\ Heard(t, n, {"draining"}) <=> Heard(s, n, {"draining"})
    BY <2>1, <2>3
  <2> QED
    BY <2>2, <2>4 DEF Follows
<1> HIDE DEF t
<1>3. Ordered(t)
  <2> SUFFICES ASSUME NEW i \in 1..Len(t) PROVE Follows(t, i - 1, t[i])
    BY DEF Ordered
  <2>1. CASE i = Len(t)
    <3>1. i - 1 = Len(s) /\ Len(s) \in 0..Len(s) /\ t[i] = k
      BY <1>1, <2>1
    <3> QED
      BY <1>2, <3>1
  <2>2. CASE i # Len(t)
    <3>1. i \in 1..Len(s) /\ i - 1 \in 0..Len(s) /\ t[i] = s[i] /\ s[i] \in Kinds
      BY <1>1, <2>2
    <3>2. Follows(s, i - 1, s[i])
      BY <3>1 DEF Ordered
    <3> QED
      BY <1>2, <3>1, <3>2
  <2> QED
    BY <2>1, <2>2
<1>4. ASSUME k # "refused", NEW K \in SUBSET Kinds, k \in K PROVE Heard(t, Len(t), K)
  BY <1>1, <1>4 DEF Heard
<1>5. ASSUME k = "refused", Unheard(s, Len(s)) PROVE Unheard(t, Len(t))
  BY <1>1, <1>5 DEF Unheard
<1>6. ASSUME k = "refused", NEW K \in SUBSET Kinds, Heard(s, Len(s), K) PROVE Heard(t, Len(t), K)
  <2>1. PICK j \in 1..Len(s) : s[j] \in K /\ \A l \in j + 1..Len(s) : s[l] = "refused"
    BY <1>6 DEF Heard
  <2>2. j \in 1..Len(t) /\ t[j] \in K
    BY <1>1, <2>1
  <2>3. ASSUME NEW l \in j + 1..Len(t) PROVE t[l] = "refused"
    BY <1>1, <1>6, <2>1
  <2> QED
    BY <2>2, <2>3 DEF Heard
<1> QED
  BY <1>1, <1>3, <1>4, <1>5, <1>6 DEF t

\* The words of the scan, each where it may be said.
LEMMA Started ==
    ASSUME NEW s \in Seq(Kinds), Ordered(s), Rested(s)
    PROVE  LET t == Append(s, "started")
           IN  t \in Seq(Kinds) /\ Ordered(t) /\ Heard(t, Len(t), {"started"})
<1>1. Follows(s, Len(s), "started") /\ "started" \in Kinds /\ {"started"} \in SUBSET Kinds
  BY DEF Rested, Follows, Kinds
<1> QED
  BY <1>1, Told

LEMMA Drained ==
    ASSUME NEW s \in Seq(Kinds), Ordered(s), Heard(s, Len(s), {"started"})
    PROVE  LET t == Append(s, "draining")
           IN  t \in Seq(Kinds) /\ Ordered(t) /\ Heard(t, Len(t), {"draining"})
<1>1. Follows(s, Len(s), "draining") /\ "draining" \in Kinds /\ {"draining"} \in SUBSET Kinds
  BY DEF Follows, Kinds
<1> QED
  BY <1>1, Told

LEMMA Ended ==
    ASSUME NEW s \in Seq(Kinds), Ordered(s), NEW k \in Terminal,
           k = "complete" => Heard(s, Len(s), {"started"}), k = "cancelled" => Heard(s, Len(s), {"draining"})
    PROVE  LET t == Append(s, k)
           IN  t \in Seq(Kinds) /\ Ordered(t) /\ Rested(t)
<1>1. Follows(s, Len(s), k) /\ k \in Kinds /\ Terminal \in SUBSET Kinds /\ k # "refused"
  BY DEF Follows, Kinds, Terminal
<1>2. Append(s, k) \in Seq(Kinds) /\ Ordered(Append(s, k)) /\ Heard(Append(s, k), Len(Append(s, k)), Terminal)
  BY <1>1, Told
<1> QED
  BY <1>2 DEF Rested

LEMMA Refused ==
    ASSUME NEW s \in Seq(Kinds), Ordered(s)
    PROVE  LET t == Append(s, "refused")
           IN  /\ t \in Seq(Kinds) /\ Ordered(t)
               /\ Rested(s) => Rested(t)
               /\ Placed(s) => Placed(t)
<1>1. /\ Follows(s, Len(s), "refused") /\ "refused" \in Kinds /\ Terminal \in SUBSET Kinds
      /\ {"started"} \in SUBSET Kinds /\ {"draining"} \in SUBSET Kinds
  BY DEF Follows, Kinds
<1> DEFINE t == Append(s, "refused")
<1>2. /\ t \in Seq(Kinds) /\ Ordered(t)
      /\ Unheard(s, Len(s)) => Unheard(t, Len(t))
      /\ \A K \in SUBSET Kinds : Heard(s, Len(s), K) => Heard(t, Len(t), K)
  BY <1>1, Told
<1> HIDE DEF t
<1>3. Rested(s) => Rested(t)
  BY <1>1, <1>2 DEF Rested
<1>4. /\ Heard(s, Len(s), {"started"}) => Heard(t, Len(t), {"started"})
      /\ Heard(s, Len(s), {"draining"}) => Heard(t, Len(t), {"draining"})
  BY <1>1, <1>2
<1>5. Placed(s) => Placed(t)
  BY <1>3, <1>4 DEF Placed
<1> QED
  BY <1>2, <1>3, <1>5 DEF t

\* emit() of one word, or of two.
LEMMA Emitted ==
    ASSUME ToldTyped, NEW p \in Pages
    PROVE  /\ p \notin spectators => \A msgs \in Seq(Kinds) : Emit(msgs) => told'[p] = told[p]
           /\ p \in spectators => /\ \A k \in Kinds : Emit(<<k>>) => told'[p] = Append(told[p], k)
                                  /\ \A j, k \in Kinds : Emit(<<j, k>>) => told'[p] = Append(Append(told[p], j), k)
<1>1. told[p] \in Seq(Kinds)
  BY DEF ToldTyped
<1>2. \A k \in Kinds : told[p] \o <<k>> = Append(told[p], k)
  BY <1>1
<1>3. \A j, k \in Kinds : told[p] \o <<j, k>> = Append(Append(told[p], j), k)
  BY <1>1
<1> QED
  BY <1>2, <1>3 DEF Emit

\* A pair, word by word.
LEMMA Pair ==
    ASSUME NEW a \in Kinds, NEW b \in Kinds
    PROVE  Append(<<a>>, b) = <<a, b>>
<1> DEFINE s == <<a>>
           u == <<a, b>>
           t == Append(s, b)
<1>1. s \in Seq(Kinds) /\ Len(s) = 1 /\ s[1] = a /\ 1 \in 1..Len(s)
  OBVIOUS
<1>2. u \in Seq(Kinds) /\ Len(u) = 2 /\ u[1] = a /\ u[2] = b
  OBVIOUS
<1> HIDE DEF s, u
<1>3. \A c \in Seq(Kinds) :
         /\ Append(c, b) \in Seq(Kinds) /\ Len(Append(c, b)) = Len(c) + 1
         /\ Append(c, b)[Len(c) + 1] = b /\ \A i \in 1..Len(c) : Append(c, b)[i] = c[i]
  OBVIOUS
<1>4. t \in Seq(Kinds) /\ Len(t) = Len(s) + 1 /\ t[Len(s) + 1] = b /\ t[1] = s[1]
  BY <1>1, <1>3
<1> HIDE DEF t
<1>5. t = u
  BY <1>1, <1>2, <1>4
<1> QED
  BY <1>5 DEF s, t, u

LEMMA OrderInit == Init => Order
<1> SUFFICES ASSUME Init PROVE Order
  OBVIOUS
<1>1. \A p \in Pages : told[p] = <<>> /\ Len(told[p]) = 0
  BY DEF Init
<1>2. \A p \in Pages : Ordered(told[p]) /\ Rested(told[p])
  BY <1>1 DEF Ordered, Rested, Unheard
<1> QED
  BY <1>1, <1>2 DEF Init, Order, Drains, Ready

\* Words the scan says, to those who watch: what holds of the others, and of those.
LEMMA Spoken ==
    ASSUME ToldTyped, Order, spectators' = spectators, page' = page, Drains',
           \A p \in Pages : p \notin spectators => told'[p] = told[p],
           \A p \in Pages : p \in spectators => Ordered(told'[p]) /\ Placed(told[p])',
           \A p \in spectators : p \in Pages /\ page[p] # "none"
    PROVE  Order'
<1>1. \A p \in Pages : Ordered(told'[p])
  BY DEF Order
<1>2. Ready'
  <2> SUFFICES ASSUME NEW p \in Pages
               PROVE  /\ page'[p] = "none" => told'[p] = <<>>
                      /\ page'[p] \in {"none", "open", "asked"} /\ p \notin spectators' => Rested(told'[p])
                      /\ p \in spectators' => Placed(told[p])'
    BY DEF Ready, Rested
  <2> QED
    BY DEF Order, Ready
<1> QED
  BY <1>1, <1>2 DEF Order, Ordered

LEMMA AttachOrders ==
    ASSUME IInv, Rest, ToldTyped, Order, NEW p \in Pages, Attach(p)
    PROVE  Order'
<1>1. /\ page[p] = "none" /\ page' = [page EXCEPT ![p] = "open"] /\ UNCHANGED <<state, phase, cancelFlag>>
      /\ told[p] = <<>> /\ p \notin spectators /\ Rested(told[p])
  BY DEF Attach, Order, Ready, Rest
<1>2. /\ page' \in [Pages -> {"none", "open", "asked", "closed"}] /\ page'[p] = "open"
      /\ \A q \in Pages : q # p => page'[q] = page[q]
  BY <1>1 DEF Rest
<1>3. Drains'
  BY <1>1 DEF Order, Drains
<1>4. told \in [Pages -> Seq(Kinds)]
  BY DEF ToldTyped
<1>5. \A s : Placed(s)' <=> Placed(s)
  BY <1>1 DEF Placed
<1>6. CASE state = "idle"
  <2>1. told' = told /\ spectators' = spectators
    BY <1>6 DEF Attach
  <2> QED
    BY <1>1, <1>2, <1>3, <1>5, <2>1 DEF Order, Ready, Ordered, Rested
<1>7. CASE state # "idle"
  <2> DEFINE snap == CASE phase = "warm" -> <<>>
                       [] state = "draining" -> <<"started", "draining">>
                       [] OTHER -> <<"started">>
  <2>1. spectators' = spectators \cup {p} /\ told' = [told EXCEPT ![p] = snap]
    BY <1>7 DEF Attach
  <2>2. told'[p] = snap /\ \A q \in Pages : q # p => told'[q] = told[q]
    BY <1>4, <2>1
  <2>3. <<>> \in Seq(Kinds) /\ Ordered(<<>>) /\ Rested(<<>>)
    BY DEF Ordered, Rested, Unheard
  <2>4. Append(<<>>, "started") = <<"started">> /\ Append(<<"started">>, "draining") = <<"started", "draining">>
    <3>1. "started" \in Kinds /\ "draining" \in Kinds
      BY DEF Kinds
    <3>2. \A a \in Kinds : Append(<<>>, a) = <<a>>
      OBVIOUS
    <3>3. \A a, b \in Kinds : Append(<<a>>, b) = <<a, b>>
      BY Pair
    <3> QED
      BY <3>1, <3>2, <3>3
  <2>5. <<"started">> \in Seq(Kinds) /\ Ordered(<<"started">>) /\ Heard(<<"started">>, Len(<<"started">>), {"started"})
    <3> DEFINE t == Append(<<>>, "started")
    <3>1. t \in Seq(Kinds) /\ Ordered(t) /\ Heard(t, Len(t), {"started"})
      BY <2>3, Started
    <3>2. t = <<"started">>
      BY <2>4
    <3> HIDE DEF t
    <3> QED
      BY <3>1, <3>2
  <2>6. /\ Ordered(<<"started", "draining">>)
        /\ Heard(<<"started", "draining">>, Len(<<"started", "draining">>), {"draining"})
    <3> DEFINE u == <<"started">>
               t == Append(u, "draining")
    <3>1. u \in Seq(Kinds) /\ Ordered(u) /\ Heard(u, Len(u), {"started"})
      BY <2>5
    <3>2. t = <<"started", "draining">>
      BY <2>4
    <3> HIDE DEF u
    <3>3. Ordered(t) /\ Heard(t, Len(t), {"draining"})
      BY <3>1, Drained
    <3> HIDE DEF t
    <3> QED
      BY <3>2, <3>3
  <2>7. phase \in {"warm", "list", "tracks"} /\ state \in {"scanning", "draining"}
    BY <1>7 DEF IInv, IdleIsQuiet, Rest
  <2>8. CASE phase = "warm"
    <3>1. snap = <<>>
      BY <2>8 DEF Order, Drains
    <3>2. Ordered(snap) /\ Placed(snap)
      BY <2>3, <2>8, <3>1 DEF Placed
    <3> HIDE DEF snap
    <3> QED
      BY <1>1, <1>2, <1>3, <1>5, <2>1, <2>2, <3>2 DEF Order, Ready, Ordered, Rested
  <2>9. CASE phase # "warm" /\ state = "draining"
    <3>1. snap = <<"started", "draining">> /\ cancelFlag
      BY <2>7, <2>9 DEF Order, Drains
    <3>2. Ordered(snap) /\ Heard(snap, Len(snap), {"draining"})
      BY <2>6, <3>1
    <3> HIDE DEF snap
    <3>3. Placed(snap)
      BY <2>7, <2>9, <3>1, <3>2 DEF Placed
    <3> QED
      BY <1>1, <1>2, <1>3, <1>5, <2>1, <2>2, <3>2, <3>3 DEF Order, Ready, Ordered, Rested
  <2>10. CASE phase # "warm" /\ state # "draining"
    <3>1. snap = <<"started">> /\ ~cancelFlag
      BY <2>7, <2>10 DEF Order, Drains
    <3>2. Ordered(snap) /\ Heard(snap, Len(snap), {"started"})
      BY <2>5, <3>1
    <3> HIDE DEF snap
    <3>3. Placed(snap)
      BY <2>7, <2>10, <3>1, <3>2 DEF Placed
    <3> QED
      BY <1>1, <1>2, <1>3, <1>5, <2>1, <2>2, <3>2, <3>3 DEF Order, Ready, Ordered, Rested
  <2> QED
    BY <2>8, <2>9, <2>10
<1> QED
  BY <1>6, <1>7

LEMMA StartOrders ==
    ASSUME IInv, Rest, ToldTyped, Order, NEW p \in Pages, StartArrives(p)
    PROVE  Order'
<1>1. /\ page[p] = "open" /\ page' = [page EXCEPT ![p] = "asked"]
      /\ page' \in [Pages -> {"none", "open", "asked", "closed"}] /\ page'[p] = "asked"
      /\ \A q \in Pages : q # p => page'[q] = page[q]
  BY DEF StartArrives, Rest
<1>2. CASE told' = [told EXCEPT ![p] = Append(@, "refused")] /\ UNCHANGED <<state, phase, cancelFlag, spectators>>
  <2>1. Drains'
    BY <1>2 DEF Order, Drains
  <2>2. /\ told'[p] = Append(told[p], "refused") /\ told[p] \in Seq(Kinds)
        /\ \A q \in Pages : q # p => told'[q] = told[q]
    BY <1>2 DEF ToldTyped
  <2>3. \A s : Placed(s)' <=> Placed(s)
    BY <1>2 DEF Placed
  <2>4. Ordered(told[p])
    BY DEF Order
  <2>5. /\ Ordered(told'[p])
        /\ Rested(told[p]) => Rested(told'[p])
        /\ Placed(told[p]) => Placed(told'[p])
    BY <2>2, <2>4, Refused
  <2> QED
    BY <1>1, <1>2, <2>1, <2>2, <2>3, <2>5 DEF Order, Ready, Ordered, Rested
<1>3. CASE /\ state = "idle" /\ state' = "scanning" /\ phase' = "warm" /\ cancelFlag' = FALSE
           /\ spectators' = {p} /\ told' = told
  <2>1. Drains'
    BY <1>3 DEF Drains
  <2>2. phase = "none"
    BY <1>3 DEF IInv, IdleIsQuiet
  <2>3. \A q \in Pages : page[q] \in {"none", "open", "asked"} => Rested(told[q])
    BY <2>2 DEF Order, Ready, Placed
  <2>4. \A s : Placed(s)' <=> Rested(s)
    BY <1>3 DEF Placed
  <2> QED
    BY <1>1, <1>3, <2>1, <2>3, <2>4 DEF Order, Ready, Ordered, Rested
<1> QED
  BY <1>2, <1>3 DEF StartArrives

LEMMA CloseOrders ==
    ASSUME IInv, Rest, ToldTyped, Order, NEW p \in Pages, Closes(p)
    PROVE  Order'
<1>1. /\ page' = [page EXCEPT ![p] = "closed"] /\ spectators' = spectators \ {p}
      /\ page' \in [Pages -> {"none", "open", "asked", "closed"}] /\ page'[p] = "closed"
      /\ \A q \in Pages : q # p => page'[q] = page[q]
      /\ UNCHANGED <<state, phase, cancelFlag, told>>
  BY DEF Closes, Rest
<1>2. Drains'
  BY <1>1 DEF Order, Drains
<1>3. \A s : Placed(s)' <=> Placed(s)
  BY <1>1 DEF Placed
<1> QED
  BY <1>1, <1>2, <1>3 DEF Order, Ready, Ordered, Rested

\* Who watches is a page that is there.
LEMMA Watching == Rest => \A p \in spectators : p \in Pages /\ page[p] # "none"
BY DEF Rest

LEMMA CancelOrders ==
    ASSUME IInv, Rest, ToldTyped, Order, NEW p \in Pages, CancelArrives(p)
    PROVE  Order'
<1>1. /\ state = "scanning" /\ cancelFlag' = TRUE /\ phase' = phase /\ page' = page /\ spectators' = spectators
      /\ phase \in {"warm", "list", "tracks"}
  BY DEF CancelArrives, Rest, IInv, IdleIsQuiet
<1>2. CASE phase = "warm"
  <2>1. state' = state /\ told' = told
    BY <1>2 DEF CancelArrives
  <2>2. Drains'
    BY <1>1, <1>2, <2>1 DEF Order, Drains
  <2>3. \A s : Placed(s)' <=> Placed(s)
    BY <1>1, <1>2 DEF Placed
  <2> QED
    BY <1>1, <2>1, <2>2, <2>3 DEF Order, Ready, Ordered, Rested
<1>3. CASE phase # "warm"
  <2>1. state' = "draining" /\ Emit(<<"draining">>) /\ "draining" \in Kinds /\ <<"draining">> \in Seq(Kinds)
    BY <1>3 DEF CancelArrives, Kinds
  <2>2. Drains' /\ ~cancelFlag
    BY <1>1, <1>3, <2>1 DEF Order, Drains, Rest
  <2>3. \A q \in Pages : q \notin spectators => told'[q] = told[q]
    BY <2>1, Emitted
  <2>4. ASSUME NEW q \in Pages, q \in spectators PROVE Ordered(told'[q]) /\ Placed(told[q])'
    <3>1. told'[q] = Append(told[q], "draining") /\ told[q] \in Seq(Kinds)
      BY <2>1, <2>4, Emitted DEF ToldTyped
    <3>2. Ordered(told[q]) /\ Heard(told[q], Len(told[q]), {"started"})
      BY <1>1, <1>3, <2>2, <2>4 DEF Order, Ready, Placed
    <3>3. Ordered(told'[q]) /\ Heard(told'[q], Len(told'[q]), {"draining"})
      BY <3>1, <3>2, Drained
    <3> QED
      BY <1>1, <1>3, <3>3 DEF Placed, Heard
  <2> QED
    BY <1>1, <2>2, <2>3, <2>4, Spoken, Watching
<1> QED
  BY <1>2, <1>3

\* The scan ends, with its last word.
LEMMA EndOrders ==
    ASSUME IInv, Rest, ToldTyped, Order, page' = page, spectators' = spectators, Reset,
           NEW k \in Terminal, Emit(<<k>>),
           k # "error" => phase = "tracks" /\ k = IF cancelFlag THEN "cancelled" ELSE "complete"
    PROVE  Order'
<1>1. Drains'
  BY DEF Reset, Drains
<1>2. k \in Kinds /\ <<k>> \in Seq(Kinds)
  BY DEF Kinds
<1>3. \A q \in Pages : q \notin spectators => told'[q] = told[q]
  BY <1>2, Emitted
<1>4. ASSUME NEW q \in Pages, q \in spectators PROVE Ordered(told'[q]) /\ Placed(told[q])'
  <2>1. told'[q] = Append(told[q], k) /\ told[q] \in Seq(Kinds)
    BY <1>2, <1>4, Emitted DEF ToldTyped
  <2>2. Ordered(told[q]) /\ Placed(told[q])
    BY <1>4 DEF Order, Ready
  <2>3. /\ k = "complete" => Heard(told[q], Len(told[q]), {"started"})
        /\ k = "cancelled" => Heard(told[q], Len(told[q]), {"draining"})
    BY <2>2 DEF Placed
  <2>4. Ordered(told'[q]) /\ Rested(told'[q])
    BY <2>1, <2>2, <2>3, Ended
  <2> QED
    BY <2>4 DEF Placed, Rested, Reset
<1> QED
  BY <1>1, <1>3, <1>4, Spoken, Watching

LEMMA WarmedOrders ==
    ASSUME IInv, Rest, ToldTyped, Order, NEW ok \in BOOLEAN, Warmed(ok)
    PROVE  Order'
<1>1. phase = "warm" /\ page' = page /\ spectators' = spectators /\ state = "scanning"
  BY DEF Warmed, Order, Drains
<1>2. CASE ~ok
  <2>1. Reset /\ Emit(<<"error">>) /\ "error" \in Terminal
    BY <1>2 DEF Warmed, Terminal
  <2> QED
    BY <1>1, <2>1, EndOrders
<1>3. CASE ok
  <2>1. phase' = "list" /\ cancelFlag' = cancelFlag
        /\ state' = (IF cancelFlag THEN "draining" ELSE state)
        /\ Emit(IF cancelFlag THEN <<"started", "draining">> ELSE <<"started">>)
    BY <1>3 DEF Warmed
  <2>2. Drains'
    BY <1>1, <2>1 DEF Drains
  <2>3. /\ "started" \in Kinds /\ "draining" \in Kinds /\ <<"started">> \in Seq(Kinds)
        /\ <<"started", "draining">> \in Seq(Kinds)
    BY DEF Kinds
  <2>4. \A q \in Pages : q \notin spectators => told'[q] = told[q]
    BY <2>1, <2>3, Emitted
  <2>5. ASSUME NEW q \in Pages, q \in spectators PROVE Ordered(told'[q]) /\ Placed(told[q])'
    <3>1. told[q] \in Seq(Kinds) /\ Ordered(told[q]) /\ Rested(told[q])
      BY <1>1, <2>5 DEF ToldTyped, Order, Ready, Placed
    <3> DEFINE t == Append(told[q], "started")
    <3>2. t \in Seq(Kinds) /\ Ordered(t) /\ Heard(t, Len(t), {"started"})
      BY <3>1, Started
    <3>3. CASE ~cancelFlag
      <4>1. told'[q] = t
        BY <2>1, <2>3, <2>5, <3>3, Emitted
      <4> HIDE DEF t
      <4>2. Ordered(told'[q]) /\ Heard(told'[q], Len(told'[q]), {"started"})
        BY <3>2, <4>1
      <4> QED
        BY <2>1, <3>3, <4>2 DEF Placed, Heard
    <3>4. CASE cancelFlag
      <4>1. told'[q] = Append(t, "draining")
        BY <2>1, <2>3, <2>5, <3>4, Emitted
      <4> HIDE DEF t
      <4>2. Ordered(told'[q]) /\ Heard(told'[q], Len(told'[q]), {"draining"})
        BY <3>2, <4>1, Drained
      <4> QED
        BY <2>1, <3>4, <4>2 DEF Placed, Heard
    <3> QED
      BY <3>3, <3>4
  <2> QED
    BY <1>1, <2>2, <2>4, <2>5, Spoken, Watching
<1> QED
  BY <1>2, <1>3

LEMMA ListedOrders ==
    ASSUME IInv, Rest, ToldTyped, Order, NEW ok \in BOOLEAN, Listed(ok)
    PROVE  Order'
<1>1. phase = "list" /\ page' = page /\ spectators' = spectators
  BY DEF Listed
<1>2. CASE ~ok
  <2>1. Reset /\ Emit(<<"error">>) /\ "error" \in Terminal
    BY <1>2 DEF Listed, Terminal
  <2> QED
    BY <1>1, <2>1, EndOrders
<1>3. CASE ok
  <2>1. phase' = "tracks" /\ UNCHANGED <<state, cancelFlag, told>>
    BY <1>3 DEF Listed
  <2>2. Drains'
    BY <1>1, <2>1 DEF Order, Drains
  <2>3. \A s : Placed(s)' <=> Placed(s)
    BY <1>1, <2>1 DEF Placed
  <2> QED
    BY <1>1, <2>1, <2>2, <2>3 DEF Order, Ready, Ordered, Rested
<1> QED
  BY <1>2, <1>3

LEMMA SettlesOrders ==
    ASSUME IInv, Rest, ToldTyped, Order, phase = "tracks", Settles, UNCHANGED <<spectators, page>>
    PROVE  Order'
<1>1. CASE UNCHANGED <<state, phase, cancelFlag, told>>
  <2>1. Drains' /\ \A s : Placed(s)' <=> Placed(s)
    BY <1>1 DEF Order, Drains, Placed
  <2> QED
    BY <1>1, <2>1 DEF Order, Ready, Ordered, Rested
<1>2. CASE Reset /\ Emit(IF cancelFlag THEN <<"cancelled">> ELSE <<"complete">>)
  <2> DEFINE k == IF cancelFlag THEN "cancelled" ELSE "complete"
  <2>1. k \in Terminal /\ k = IF cancelFlag THEN "cancelled" ELSE "complete"
    BY DEF Terminal
  <2>2. Emit(<<k>>)
    BY <1>2
  <2> HIDE DEF k
  <2> QED
    BY <1>2, <2>1, <2>2, EndOrders
<1> QED
  BY <1>1, <1>2 DEF Settles

LEMMA OrderKeeps == IInv /\ Rest /\ ToldTyped /\ Order /\ [Next]_vars => Order'
<1> SUFFICES ASSUME IInv, Rest, ToldTyped, Order, [Next]_vars PROVE Order'
  OBVIOUS
<1>1. CASE \E as \in SUBSET Addr : MdnsAnswers(as)
  BY <1>1, SettlesOrders DEF MdnsAnswers, IInv, IdleIsQuiet
<1>2. CASE \E h \in 1..Hosts, isAdb \in BOOLEAN : ProbeEnds(h, isAdb)
  BY <1>2, SettlesOrders DEF ProbeEnds, IInv, IdleIsQuiet
<1>3. CASE UNCHANGED vars
  BY <1>3 DEF vars, Order, Drains, Ready, Ordered, Placed, Rested
<1> QED
  BY <1>1, <1>2, <1>3, AttachOrders, StartOrders, CancelOrders, CloseOrders, WarmedOrders, ListedOrders DEF Next

\* InOrder: what each page is told of the scans comes in their order, however late it joins and
\* whoever cancels.
THEOREM AlwaysInOrder == Spec => []InOrder
<1>1. ToldTyped /\ Order => InOrder
  <2> SUFFICES ASSUME ToldTyped, Order, NEW p \in Pages, NEW i \in DOMAIN told[p]
               PROVE  Follows(told[p], i - 1, told[p][i])
    BY DEF InOrder
  <2>1. i \in 1..Len(told[p])
    BY DEF ToldTyped
  <2> QED
    BY <2>1 DEF Order, Ordered
<1> QED
  BY <1>1, RestInit, RestKeeps, OrderInit, OrderKeeps, PoolInvariance, PTL DEF Spec
-------------------------------------------------------------------------------
(* The last word.                                                           *)

\* A page that watches a scan does so until it leaves or is sent the end of the scan, in the very step
\* that ends it.
LastWord ==
    [][\A p \in Pages : p \in spectators /\ state # "idle" =>
         \/ page'[p] = "closed"
         \/ state' # "idle" /\ p \in spectators'
         \/ state' = "idle" /\ \E k \in Terminal : told'[p] = Append(told[p], k)]_vars

LEMMA ResetTells ==
    ASSUME ToldTyped, NEW k \in Terminal, Reset, Emit(<<k>>), NEW p \in Pages, p \in spectators
    PROVE  state' = "idle" /\ told'[p] = Append(told[p], k)
<1>1. k \in Kinds
  BY DEF Kinds
<1> QED
  BY <1>1, Emitted DEF Reset

\* No way out of start() leaves a page that watches without the end of the scan: neither an error before
\* the tracks, nor a cancellation, nor the end of the last probe. With the timeouts of adb and of the
\* probes that is EveryoneTold.
THEOREM NobodyLeftWatching == Spec => LastWord
<1> DEFINE L(p) == \/ page'[p] = "closed"
                   \/ state' # "idle" /\ p \in spectators'
                   \/ state' = "idle" /\ \E k \in Terminal : told'[p] = Append(told[p], k)
<1>1. ASSUME IInv, Rest, ToldTyped, [Next]_vars, NEW p \in Pages, p \in spectators, state # "idle"
      PROVE  L(p)
  <2>1. "error" \in Terminal /\ (IF cancelFlag THEN "cancelled" ELSE "complete") \in Terminal
    BY DEF Terminal
  <2>2. ASSUME Settles, spectators' = spectators PROVE L(p)
    <3>1. CASE UNCHANGED <<state, phase, cancelFlag, told>>
      BY <1>1, <2>2, <3>1
    <3>2. CASE Reset /\ Emit(IF cancelFlag THEN <<"cancelled">> ELSE <<"complete">>)
      <4> DEFINE k == IF cancelFlag THEN "cancelled" ELSE "complete"
      <4>1. Emit(<<k>>)
        BY <3>2
      <4>2. k \in Terminal
        BY <2>1
      <4> HIDE DEF k
      <4> QED
        BY <1>1, <3>2, <4>1, <4>2, ResetTells
    <3> QED
      BY <2>2, <3>1, <3>2 DEF Settles
  <2>3. ASSUME NEW ok \in BOOLEAN, Warmed(ok) \/ Listed(ok) PROVE L(p)
    <3>1. CASE Reset /\ Emit(<<"error">>)
      BY <1>1, <2>1, <3>1, ResetTells
    <3>2. CASE state' \in {state, "draining"} /\ spectators' = spectators
      BY <1>1, <3>2
    <3> QED
      BY <2>3, <3>1, <3>2 DEF Warmed, Listed
  <2>4. ASSUME NEW q \in Pages, Attach(q) \/ StartArrives(q) \/ CancelArrives(q) PROVE L(p)
    BY <1>1, <2>4 DEF Attach, StartArrives, CancelArrives
  <2>5. ASSUME NEW q \in Pages, Closes(q) PROVE L(p)
    BY <1>1, <2>5 DEF Closes, Rest
  <2>6. CASE UNCHANGED vars
    BY <1>1, <2>6 DEF vars
  <2> QED
    BY <1>1, <2>2, <2>3, <2>4, <2>5, <2>6 DEF Next, MdnsAnswers, ProbeEnds
<1> HIDE DEF L
<1>2. IInv /\ Rest /\ ToldTyped /\ [Next]_vars
        => [\A p \in Pages : p \in spectators /\ state # "idle" => L(p)]_vars
  BY <1>1
<1> USE DEF L
<1> QED
  BY <1>2, RestInit, RestKeeps, PoolInvariance, PTL DEF Spec, LastWord
================================================================================
