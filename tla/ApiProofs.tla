------------------------------- MODULE ApiProofs -------------------------------
(***************************************************************************)
(* Theorems about the two parts of the server behind its HTTP interface:   *)
(* the accounts (users, sessions and the switch of authentication) and the *)
(* update flow.  They share no state; each has its own section.            *)
(***************************************************************************)
EXTENDS Accounts, UpdateService, FiniteSetTheorems, TLAPS

(***************************************************************************)
(* Part I: accounts, for any number of them, of requests and of sessions.  *)
(***************************************************************************)

\* What every step keeps: the three invariants strengthen each other.
AInv == AccountsTypeOK /\ SessionsOfEnabled /\ EveryoneSecured

USE DEF Id, Implicit, table

\* A set of ids with more than one element has another one.
LEMMA Another ==
    ASSUME NEW S \in SUBSET Id, NEW i \in S, Cardinality(S) > 1
    PROVE  S \ {i} # {}
<1>1. SUFFICES ASSUME S = {i} PROVE FALSE
  OBVIOUS
<1>2. Cardinality(S) = 1
  BY <1>1, FS_Singleton
<1> QED
  BY <1>2

LEMMA AsksTyped ==
    ASSUME NEW at \in {"none", "create", "patch"}, NEW lock \in BOOLEAN, NEW id \in Id \cup {0},
           NEW admin \in BOOLEAN, NEW off \in BOOLEAN
    PROVE  Asks(at, lock, id, admin, off) \in Request
BY DEF Asks, Request

LEMMA NoRequestTyped == NoRequest \in Request
<1> FALSE \in BOOLEAN /\ 0 \in Id \cup {0}
  OBVIOUS
<1> QED
  BY AsksTyped DEF NoRequest

LEMMA AccountsInitHolds == AccountsInit => AInv
<1> SUFFICES ASSUME AccountsInit PROVE AInv
  OBVIOUS
<1>1. AccountsTypeOK
  <2>1. rows \subseteq Id /\ admins \subseteq rows /\ disabled \subseteq rows /\ secured \subseteq rows
    BY AccountsAssumption DEF AccountsAssumption, AccountsInit
  <2>2. auth \in BOOLEAN
    BY DEF AccountsInit
  <2>3. session \in [Tokens -> Id \cup {0}]
    BY DEF AccountsInit
  <2>4. req \in [Reqs -> Request]
    BY NoRequestTyped DEF AccountsInit
  <2> QED
    BY <2>1, <2>2, <2>3, <2>4 DEF AccountsTypeOK
<1>2. SessionsOfEnabled /\ EveryoneSecured
  BY DEF AccountsInit, SessionsOfEnabled, EveryoneSecured
<1> QED
  BY <1>1, <1>2 DEF AInv

\* A request that ends leaves its slot empty.
LEMMA EndsTyped ==
    ASSUME AccountsTypeOK, NEW r \in Reqs, Ends(r)
    PROVE  req' \in [Reqs -> Request]
BY NoRequestTyped DEF AccountsTypeOK, Ends

-------------------------------------------------------------------------------

\* Membership as a value.
LEMMA Truth ==
    ASSUME NEW S, NEW i
    PROVE  \E a \in BOOLEAN : a = (i \in S)
<1>1. CASE i \in S
  <2>1. TRUE = (i \in S)
    BY <1>1, Zenon
  <2> QED
    BY <2>1, Zenon
<1>2. CASE i \notin S
  <2>1. FALSE = (i \in S)
    BY <1>2
  <2> QED
    BY <2>1, Zenon
<1> QED
  BY <1>1, <1>2

LEMMA SubmitsKeep ==
    ASSUME AInv, NEW r \in Reqs,
           (\E lock \in BOOLEAN : SubmitUser(r, lock)) \/ (\E i \in Id : SubmitPatch(r, i)) \/ Rejected(r)
    PROVE  AInv'
<1>1. UNCHANGED <<table, auth, session>>
  BY DEF SubmitUser, SubmitPatch, Rejected
<1>2. req' \in [Reqs -> Request]
  <2>1. CASE \E lock \in BOOLEAN : SubmitUser(r, lock)
    <3>1. PICK lock \in BOOLEAN : SubmitUser(r, lock)
      BY <2>1
    <3>2. Asks("create", lock, 0, FALSE, FALSE) \in Request
      BY AsksTyped
    <3> QED
      BY <3>1, <3>2 DEF AInv, AccountsTypeOK, SubmitUser
  <2>2. CASE \E i \in Id : SubmitPatch(r, i)
    <3>1. PICK i \in Id : SubmitPatch(r, i)
      BY <2>2
    <3>2. PICK a \in BOOLEAN, d \in BOOLEAN : a = (i \in admins) /\ d = (i \in disabled)
      BY Truth
    <3>3. Asks("patch", FALSE, i, a, d) \in Request
      BY AsksTyped
    <3>4. req' = [req EXCEPT ![r] = Asks("patch", FALSE, i, a, d)]
      BY <3>1, <3>2, Zenon DEF SubmitPatch
    <3> QED
      BY <3>3, <3>4 DEF AInv, AccountsTypeOK
  <2>3. CASE Rejected(r)
    BY <2>3, EndsTyped DEF AInv, Rejected
  <2> QED
    BY <2>1, <2>2, <2>3
<1> QED
  BY <1>1, <1>2 DEF AInv, AccountsTypeOK, SessionsOfEnabled, EveryoneSecured

LEMMA CreateUserKeeps ==
    ASSUME AInv, NEW r \in Reqs, NEW i \in Id, NEW admin \in BOOLEAN, CreateUser(r, i, admin)
    PROVE  AInv'
<1>1. req' \in [Reqs -> Request] /\ UNCHANGED session
  BY EndsTyped DEF AInv, CreateUser
<1>2. /\ rows' = rows \cup {i} /\ disabled' = disabled
      /\ admins' \subseteq admins \cup {i}
  BY DEF CreateUser, NewRow, Lockdown
<1>3. CASE SecuredAdmins = {}
  <2>1. /\ Implicit \in rows /\ Implicit \notin secured
        /\ secured' = secured \cup {Implicit, i} /\ auth' = TRUE
    BY <1>3 DEF CreateUser, Lockdown
  <2>2. rows = {Implicit}
    BY <2>1 DEF AInv, EveryoneSecured
  <2> QED
    BY <1>1, <1>2, <2>1, <2>2 DEF AInv, AccountsTypeOK, SessionsOfEnabled, EveryoneSecured
<1>4. CASE SecuredAdmins # {}
  <2>1. secured' = secured \cup {i} /\ auth' = auth
    BY <1>4 DEF CreateUser
  <2>2. rows \subseteq secured
    BY <1>4 DEF AInv, AccountsTypeOK, EveryoneSecured, SecuredAdmins
  <2> QED
    BY <1>1, <1>2, <2>1, <2>2 DEF AInv, AccountsTypeOK, SessionsOfEnabled, EveryoneSecured
<1> QED
  BY <1>3, <1>4

LEMMA PatchUserKeeps ==
    ASSUME AInv, NEW r \in Reqs, NEW role \in {"keep", "on", "off"}, NEW off \in {"keep", "on", "off"},
           NEW password \in {"keep", "on"}, PatchUser(r, role, off, password)
    PROVE  AInv'
<1> DEFINE i == req[r].id
<1>1. req' \in [Reqs -> Request] /\ UNCHANGED <<rows, auth>>
  BY EndsTyped DEF AInv, PatchUser
<1>2. /\ admins' \subseteq rows
      /\ disabled' \subseteq rows /\ (off # "on" => disabled' \subseteq disabled)
      /\ \A j : j # i => (j \in disabled' <=> j \in disabled)
      /\ secured' \subseteq rows /\ secured \subseteq secured'
  BY DEF AInv, AccountsTypeOK, PatchUser, Put
<1>3. session' \in [Tokens -> Id \cup {0}] /\ SessionsOfEnabled'
  <2>1. CASE off = "on"
    <3>1. session' = [t \in Tokens |-> IF session[t] = i THEN 0 ELSE session[t]]
      BY <2>1 DEF PatchUser, DropSessions
    <3> QED
      BY <3>1, <1>1, <1>2 DEF AInv, AccountsTypeOK, SessionsOfEnabled
  <2>2. CASE off # "on"
    BY <2>2, <1>1, <1>2 DEF AInv, AccountsTypeOK, SessionsOfEnabled, PatchUser
  <2> QED
    BY <2>1, <2>2
<1> QED
  BY <1>1, <1>2, <1>3 DEF AInv, AccountsTypeOK, EveryoneSecured

LEMMA DeleteUserKeeps ==
    ASSUME AInv, NEW i \in Id, DeleteUser(i)
    PROVE  AInv'
<1>1. AccountsTypeOK'
  BY DEF AInv, AccountsTypeOK, DeleteUser
<1>2. SessionsOfEnabled'
  BY DEF AInv, AccountsTypeOK, SessionsOfEnabled, DeleteUser
<1>3. EveryoneSecured'
  BY DEF AInv, AccountsTypeOK, EveryoneSecured, DeleteUser
<1> QED
  BY <1>1, <1>2, <1>3 DEF AInv

LEMMA LoginsKeep ==
    ASSUME AInv, NEW t \in Tokens, (\E i \in Id : Login(t, i)) \/ SessionEnds(t)
    PROVE  AInv'
<1>1. UNCHANGED <<table, auth, req>>
  BY DEF Login, SessionEnds
<1>2. session' \in [Tokens -> Id \cup {0}] /\ SessionsOfEnabled'
  BY <1>1 DEF AInv, AccountsTypeOK, SessionsOfEnabled, Login, SessionEnds
<1> QED
  BY <1>1, <1>2 DEF AInv, AccountsTypeOK, EveryoneSecured

LEMMA SwitchKeeps ==
    ASSUME AInv, EnableAuth \/ DisableAuth
    PROVE  AInv'
<1>1. UNCHANGED <<table, session, req>> /\ auth' \in BOOLEAN
  BY DEF EnableAuth, DisableAuth
<1>2. EveryoneSecured'
  <2>1. CASE EnableAuth
    BY <2>1, <1>1 DEF AInv, AccountsTypeOK, EveryoneSecured, EnableAuth, SecuredAdmins
  <2>2. CASE DisableAuth
    BY <2>2, <1>1 DEF AInv, EveryoneSecured, DisableAuth
  <2> QED
    BY <2>1, <2>2
<1> QED
  BY <1>1, <1>2 DEF AInv, AccountsTypeOK, SessionsOfEnabled

LEMMA AccountsStepKeeps == AInv /\ [AccountsNext]_accountVars => AInv'
<1> SUFFICES ASSUME AInv, [AccountsNext]_accountVars PROVE AInv'
  OBVIOUS
<1>1. CASE EnableAuth \/ DisableAuth
  BY <1>1, SwitchKeeps
<1>2. CASE \E r \in Reqs : \/ Rejected(r) \/ \E lock \in BOOLEAN : SubmitUser(r, lock)
                           \/ \E i \in Id : SubmitPatch(r, i)
  BY <1>2, SubmitsKeep
<1>3. CASE \E r \in Reqs, i \in Id, admin \in BOOLEAN : CreateUser(r, i, admin)
  BY <1>3, CreateUserKeeps
<1>4. CASE \E r \in Reqs : \E role, off \in {"keep", "on", "off"}, password \in {"keep", "on"} :
                PatchUser(r, role, off, password)
  BY <1>4, PatchUserKeeps
<1>5. CASE \E i \in Id : DeleteUser(i)
  BY <1>5, DeleteUserKeeps
<1>6. CASE \E t \in Tokens : SessionEnds(t) \/ \E i \in Id : Login(t, i)
  BY <1>6, LoginsKeep
<1>7. CASE UNCHANGED accountVars
  BY <1>7 DEF accountVars, AInv, AccountsTypeOK, SessionsOfEnabled, EveryoneSecured
<1> QED
  BY <1>1, <1>2, <1>3, <1>4, <1>5, <1>6, <1>7 DEF AccountsNext

LEMMA AccountsInvariance == AccountsSpec => []AInv
BY AccountsInitHolds, AccountsStepKeeps, PTL DEF AccountsSpec

\* AccountsTypeOK for any number of users, requests and cookies: the columns stay within the table.
THEOREM AccountsTypeCorrect == AccountsSpec => []AccountsTypeOK
BY AccountsInvariance, PTL DEF AInv

\* SessionsOfEnabled: no order of requests leaves a session to an account that is disabled or
\* gone, whoever gets its row id later.
THEOREM SessionsEnd == AccountsSpec => []SessionsOfEnabled
BY AccountsInvariance, PTL DEF AInv

\* EveryoneSecured: the first account is secured together with the second one or before the
\* door is locked.
THEOREM Secured == AccountsSpec => []EveryoneSecured
BY AccountsInvariance, PTL DEF AInv

-------------------------------------------------------------------------------

\* What a step must be when it takes the last enabled admin.
Loses == EnabledAdmins # {} /\ EnabledAdmins' = {}
ByStalePatch == \E r \in Reqs : req[r].at = "patch" /\ req'[r].at = "none" /\ Stale(r)

LEMMA PatchLoses ==
    ASSUME AInv, NEW r \in Reqs, NEW role \in {"keep", "on", "off"}, NEW off \in {"keep", "on", "off"},
           NEW password \in {"keep", "on"}, PatchUser(r, role, off, password), Loses
    PROVE  ByStalePatch
<1> DEFINE i == req[r].id
<1>1. req[r].at = "patch" /\ req'[r].at = "none"
  BY DEF AInv, AccountsTypeOK, PatchUser, Ends, NoRequest, Asks
<1>2. SUFFICES ASSUME ~Stale(r) PROVE FALSE
  BY <1>1 DEF ByStalePatch
<1>3. /\ \A j : j # i => (j \in disabled' <=> j \in disabled) /\ (j \in admins' <=> j \in admins)
      /\ role # "off" => admins \subseteq admins'
      /\ off # "on" => disabled' \subseteq disabled
  BY DEF AInv, AccountsTypeOK, PatchUser, Put
<1>4. EnabledAdmins \subseteq {i}
  BY <1>3 DEF Loses, EnabledAdmins
<1>5. EnabledAdmins = {i} /\ (off = "on" \/ role = "off")
  BY <1>3, <1>4 DEF Loses, EnabledAdmins
<1>6. Cardinality(EnabledAdmins) = 1
  BY <1>5, FS_Singleton
<1>7. req[r].admin /\ ~req[r].off
  <2>1. i \in admins /\ i \notin disabled
    BY <1>5 DEF EnabledAdmins
  <2>2. req[r].admin = (i \in admins) /\ req[r].off = (i \in disabled)
    BY <1>2, Zenon DEF Stale
  <2> QED
    BY <2>1, <2>2, Zenon
<1>8. LastEnabled(r)
  BY <1>6, <1>7 DEF LastEnabled
<1> QED
  BY <1>5, <1>8 DEF PatchUser

LEMMA DeleteLosesNot ==
    ASSUME AInv, NEW i \in Id, DeleteUser(i)
    PROVE  ~Loses
<1>1. EnabledAdmins' = EnabledAdmins \ {i}
  BY DEF AInv, AccountsTypeOK, DeleteUser, EnabledAdmins
<1>2. CASE i \in EnabledAdmins
  <2>1. Cardinality(EnabledAdmins) > 1 /\ EnabledAdmins \in SUBSET Id
    BY <1>2 DEF AInv, AccountsTypeOK, DeleteUser, EnabledAdmins
  <2> QED
    BY <1>1, <1>2, <2>1, Another DEF Loses
<1>3. CASE i \notin EnabledAdmins
  BY <1>1, <1>3 DEF Loses
<1> QED
  BY <1>2, <1>3

LEMMA OthersLoseNot ==
    ASSUME AInv,
           \/ EnableAuth \/ DisableAuth \/ UNCHANGED accountVars
           \/ \E r \in Reqs : \/ Rejected(r) \/ \E lock \in BOOLEAN : SubmitUser(r, lock)
                              \/ \E i \in Id : SubmitPatch(r, i)
           \/ \E r \in Reqs, i \in Id, admin \in BOOLEAN : CreateUser(r, i, admin)
           \/ \E t \in Tokens : SessionEnds(t) \/ \E i \in Id : Login(t, i)
    PROVE  ~Loses
<1>1. admins \subseteq admins' /\ disabled' = disabled
  BY DEF EnableAuth, DisableAuth, accountVars, Rejected, SubmitUser, SubmitPatch, CreateUser, NewRow,
         Lockdown, SessionEnds, Login
<1> QED
  BY <1>1 DEF Loses, EnabledAdmins

\* LastAdminStays: only a PATCH that judges its target by an older row takes the last admin.
THEOREM LastAdmin == AccountsSpec => LastAdminStays
<1>1. AInv /\ [AccountsNext]_accountVars => (Loses => ByStalePatch)
  <2> SUFFICES ASSUME AInv, [AccountsNext]_accountVars, Loses PROVE ByStalePatch
    OBVIOUS
  <2>1. CASE \E r \in Reqs : \E role, off \in {"keep", "on", "off"}, password \in {"keep", "on"} :
                PatchUser(r, role, off, password)
    BY <2>1, PatchLoses
  <2>2. CASE \E i \in Id : DeleteUser(i)
    BY <2>2, DeleteLosesNot
  <2> QED
    BY <2>1, <2>2, OthersLoseNot DEF AccountsNext
<1>2. AInv /\ [AccountsNext]_accountVars => [Loses => ByStalePatch]_accountVars
  BY <1>1
<1>3. AccountsSpec => [][Loses => ByStalePatch]_accountVars
  BY <1>2, AccountsInvariance, PTL DEF AccountsSpec
<1> QED
  BY <1>3 DEF LastAdminStays, Loses, ByStalePatch

(***************************************************************************)
(* Part II: the update flow, for any number of checks, applies, channels   *)
(* and releases.                                                           *)
(***************************************************************************)

\* Only an update is downloaded.
DownloadsFound == \A c \in Checks : check[c].at = "download" => check[c].found # NoUpdate

CheckRec == [at : CheckStage, mgr : Channels, found : Update \cup {NoUpdate}]
ApplyRec == [at : ApplyStage, upd : Update \cup {NoUpdate}]

\* An update has a positive version, so NoUpdate is none.
LEMMA UpdateTypes ==
    /\ \A u \in Update : u.channel \in Channels /\ u.version \in 1..MaxVersion /\ u # NoUpdate
    /\ \A ch \in Channels, v \in 1..MaxVersion : [channel |-> ch, version |-> v] \in Update
<1>1. \A u \in Update : u.channel \in Channels /\ u.version \in 1..MaxVersion
  BY DEF Update
<1>2. ASSUME NEW u \in Update PROVE u # NoUpdate
  <2>1. u.version # 0
    BY <1>1, UpdateAssumption
  <2>2. NoUpdate.version = 0
    BY DEF NoUpdate
  <2>3. QED BY <2>1, <2>2
<1>3. QED BY <1>1, <1>2 DEF Update

-----------------------------------------------------------------------------
(* Checks only change check[c] and the status, and keep their types.        *)

\* A check that starts keeps the type of its record.
LEMMA AskTypes ==
    ASSUME TypeOK, NEW c \in Checks, NEW k \in Channels, Ask(c, k)
    PROVE  check' \in [Checks -> CheckRec]
<1>1. [at |-> "asked", mgr |-> k, found |-> NoUpdate] \in CheckRec
  BY DEF CheckRec, CheckStage
<1>2. QED BY <1>1 DEF Ask, TypeOK, CheckRec

\* So does one that ends.
LEMMA DoneTypes ==
    ASSUME TypeOK, NEW c \in Checks
    PROVE  Done(c) \in [Checks -> CheckRec]
<1>1. [at |-> "none", mgr |-> check[c].mgr, found |-> NoUpdate] \in CheckRec
  BY DEF CheckRec, CheckStage, TypeOK
<1>2. QED BY <1>1 DEF Done, TypeOK, CheckRec

\* Every step keeps TypeOK, as only updates reach the disk.
LEMMA TypeInductive == TypeOK /\ DownloadsFound /\ [Next]_vars => TypeOK'
<1> SUFFICES ASSUME TypeOK, DownloadsFound, [Next]_vars PROVE TypeOK'
  OBVIOUS
<1> USE UpdateAssumption
<1>1. ASSUME NEW c \in Checks, StartCheck(c) PROVE TypeOK'
  <2>1. Ask(c, mgr) /\ mgr \in Channels
    BY <1>1 DEF StartCheck, TypeOK
  <2>2. check' \in [Checks -> CheckRec]
    BY <2>1, AskTypes
  <2>3. QED BY <1>1, <2>2 DEF StartCheck, Ask, TypeOK, CheckRec
<1>2. ASSUME NEW c \in Checks, NEW ch \in Channels, Reconfigure(c, ch) PROVE TypeOK'
  <2>1. check' \in [Checks -> CheckRec]
    BY <1>2, AskTypes DEF Reconfigure
  <2>2. QED BY <1>2, <2>1 DEF Reconfigure, Ask, TypeOK, CheckRec
<1>3. ASSUME NEW ch \in Channels, ReconfigureFails(ch) PROVE TypeOK'
  BY <1>3 DEF ReconfigureFails, TypeOK
<1>4. ASSUME NEW c \in Checks, FeedAnswers(c) PROVE TypeOK'
  <2> DEFINE k == check[c].mgr
             u == IF latest[k] = 0 THEN NoUpdate ELSE [channel |-> k, version |-> latest[k]]
  <2>1. k \in Channels /\ latest[k] \in 0..MaxVersion
    BY DEF TypeOK
  <2>2. u \in Update \cup {NoUpdate}
    <3>1. CASE latest[k] = 0
      BY <3>1
    <3>2. CASE latest[k] # 0
      BY <3>2, <2>1, UpdateTypes
    <3>3. QED BY <3>1, <3>2
  <2>3. check' = [check EXCEPT ![c].at = "answered", ![c].found = u]
    BY <1>4 DEF FeedAnswers
  <2> HIDE DEF u
  <2>4. check' \in [Checks -> CheckRec]
    BY ZenonT(60), <2>2, <2>3 DEF TypeOK, CheckRec, CheckStage
  <2>5. QED BY <1>4, <2>4 DEF FeedAnswers, TypeOK, CheckRec
<1>5. ASSUME NEW c \in Checks, UpToDate(c) PROVE TypeOK'
  BY <1>5, DoneTypes DEF UpToDate, TypeOK, CheckRec
<1>6. ASSUME NEW c \in Checks, Found(c) PROVE TypeOK'
  <2>1. check' \in [Checks -> CheckRec]
    <3>1. CASE check' = Done(c)
      BY <3>1, DoneTypes
    <3>2. CASE check' = [check EXCEPT ![c].at = "download"]
      BY <3>2 DEF TypeOK, CheckRec, CheckStage
    <3>3. QED BY <1>6, <3>1, <3>2 DEF Found
  <2>2. pending' \in Update \cup {NoUpdate}
    BY <1>6 DEF Found, TypeOK
  <2>3. QED BY <1>6, <2>1, <2>2 DEF Found, TypeOK, CheckRec
<1>7. ASSUME NEW c \in Checks, Downloaded(c) PROVE TypeOK'
  <2>1. check[c].found \in Update
    BY <1>7 DEF Downloaded, DownloadsFound, TypeOK
  <2>2. QED BY <1>7, <2>1, DoneTypes DEF Downloaded, TypeOK, CheckRec
<1>8. ASSUME NEW c \in Checks, CheckFails(c) PROVE TypeOK'
  BY <1>8, DoneTypes DEF CheckFails, TypeOK, CheckRec
<1>9. ASSUME NEW ch \in Channels, Publish(ch) PROVE TypeOK'
  <2>1. latest' \in [Channels -> 0..MaxVersion]
    BY <1>9 DEF Publish, TypeOK
  <2>2. QED BY <1>9, <2>1 DEF Publish, TypeOK
<1>10. ASSUME NEW a \in Applies,
              ApplyStarts(a) \/ ApplyMarks(a) \/ FetchFails(a)
       PROVE  TypeOK'
  <2>1. apply' \in [Applies -> ApplyRec]
    <3>1. \E s \in {"hygiene", "marked", "failed"} : apply' = [apply EXCEPT ![a].at = s]
      BY <1>10 DEF ApplyStarts, ApplyMarks, FetchFails, Fails
    <3>2. PICK s \in {"hygiene", "marked", "failed"} : apply' = [apply EXCEPT ![a].at = s]
      BY <3>1
    <3>3. apply \in [Applies -> ApplyRec] /\ s \in ApplyStage
      BY DEF TypeOK, ApplyRec, ApplyStage
    <3>4. QED BY <3>2, <3>3 DEF ApplyRec
  <2>2. QED BY <1>10, <2>1
            DEF ApplyStarts, ApplyMarks, FetchFails, Fails, TypeOK, ApplyRec
<1>11. ASSUME NEW a \in Applies, HandToVelopack(a) PROVE TypeOK'
  <2>1. apply' \in [Applies -> ApplyRec] /\ handed' \in [Applies -> Update \cup {NoUpdate}]
    BY SMTT(30), <1>11 DEF HandToVelopack, Fails, Hands, TypeOK, ApplyRec, ApplyStage
  <2>2. QED BY <1>11, <2>1 DEF HandToVelopack, TypeOK, ApplyRec
<1>12. ASSUME NEW a \in Applies, HandToOperationServer(a) PROVE TypeOK'
  <2>1. apply' \in [Applies -> ApplyRec] /\ handed' \in [Applies -> Update \cup {NoUpdate}]
    BY SMTT(30), <1>12 DEF HandToOperationServer, Hands, TypeOK, ApplyRec, ApplyStage
  <2>2. QED BY <1>12, <2>1 DEF HandToOperationServer, TypeOK, ApplyRec
<1>13. ASSUME NEW a \in Applies, Fetch(a) PROVE TypeOK'
  <2>1. apply' \in [Applies -> ApplyRec]
    <3>1. CASE pending = NoUpdate
      BY <1>13, <3>1 DEF Fetch, Fails, TypeOK, ApplyRec, ApplyStage
    <3>2. CASE pending # NoUpdate
      <4>1. [channel |-> channel, version |-> pending.version] \in Update
        BY <3>2, UpdateTypes DEF TypeOK
      <4>2. QED BY <1>13, <3>2, <4>1 DEF Fetch, TypeOK, ApplyRec, ApplyStage
    <3>3. QED BY <3>1, <3>2
  <2>2. QED BY <1>13, <2>1 DEF Fetch, Fails, TypeOK, ApplyRec
<1>14. ASSUME NEW a \in Applies, HandToHelper(a) \/ HelperLost(a) PROVE TypeOK'
  <2>1. apply' \in [Applies -> ApplyRec] /\ handed' \in [Applies -> Update \cup {NoUpdate}]
    BY SMTT(30), <1>14 DEF HandToHelper, HelperLost, Hands, TypeOK, ApplyRec, ApplyStage
  <2>2. QED BY <1>14, <2>1 DEF HandToHelper, HelperLost, TypeOK, ApplyRec
<1>15. CASE Exit
  BY <1>15 DEF Exit, TypeOK
<1>16. CASE UNCHANGED vars
  BY <1>16 DEF vars, TypeOK
<1>17. QED
  BY <1>1, <1>2, <1>3, <1>4, <1>5, <1>6, <1>7, <1>8, <1>9, <1>10, <1>11, <1>12,
     <1>13, <1>14, <1>15, <1>16 DEF Next

-----------------------------------------------------------------------------
(* What the checks are at, and the status.                                  *)

Work == DownloadsFound /\ BusyMeansWorking

\* No step ends the last check without taking "checking" away, nor the last download
\* without taking "downloading" away.
LEMMA WorkInductive == TypeOK /\ Work /\ [Next]_vars => Work'
<1> SUFFICES ASSUME TypeOK, Work, [Next]_vars PROVE Work'
  OBVIOUS
<1> USE DEF Work, DownloadsFound, BusyMeansWorking
<1>1. ASSUME NEW c \in Checks, NEW k \in Channels, Ask(c, k) PROVE Work'
  <2>1. check'[c].at = "asked" /\ status' = "checking"
    BY <1>1 DEF Ask, TypeOK
  <2>2. \A d \in Checks \ {c} : check'[d] = check[d]
    BY <1>1 DEF Ask, TypeOK
  <2>3. QED BY <2>1, <2>2
<1>2. ASSUME NEW c \in Checks, FeedAnswers(c) PROVE Work'
  <2>1. /\ check'[c].at = "answered"
        /\ \A d \in Checks \ {c} : check'[d] = check[d]
    BY <1>2 DEF FeedAnswers, TypeOK
  <2>2. QED BY <1>2, <2>1 DEF FeedAnswers
<1>3. ASSUME NEW c \in Checks, UpToDate(c) \/ Downloaded(c) \/ CheckFails(c) PROVE Work'
  <2>1. /\ check'[c].at = "none"
        /\ \A d \in Checks \ {c} : check'[d] = check[d]
    BY <1>3 DEF UpToDate, Downloaded, CheckFails, Done, TypeOK
  <2>2. status' \in {"idle", "ready", "error"}
    BY <1>3 DEF UpToDate, Downloaded, CheckFails
  <2>3. QED BY <2>1, <2>2
<1>4. ASSUME NEW c \in Checks, Found(c) PROVE Work'
  <2>1. \A d \in Checks \ {c} : check'[d] = check[d]
    BY <1>4 DEF Found, Done, TypeOK
  <2>2. CASE check' = Done(c) /\ status' = "ready"
    <3>1. check'[c].at = "none"
      BY <2>2 DEF Done, TypeOK
    <3>2. QED BY <2>1, <2>2, <3>1
  <2>3. CASE check' = Done(c) /\ status = "downloading" /\ UNCHANGED status
    <3>1. check'[c].at = "none" /\ check[c].at = "answered"
      BY <1>4, <2>3 DEF Found, Done, TypeOK
    <3>2. PICK d \in Checks \ {c} : check[d].at = "download"
      BY <2>3, <3>1
    <3>3. QED BY <2>1, <2>3, <3>1, <3>2
  <2>4. CASE check' = [check EXCEPT ![c].at = "download"] /\ status' = "downloading"
    <3>1. check'[c].at = "download" /\ check'[c].found = check[c].found
      BY <2>4 DEF TypeOK
    <3>2. check[c].found # NoUpdate
      BY <1>4 DEF Found
    <3>3. QED BY <2>1, <2>4, <3>1, <3>2
  <2>5. QED BY <1>4, <2>2, <2>3, <2>4 DEF Found
<1>5. ASSUME NEW ch \in Channels, ReconfigureFails(ch) PROVE Work'
  BY <1>5 DEF ReconfigureFails
<1>6. CASE check' = check /\ status' = status
  BY <1>6
<1>7. ASSUME NEW c \in Checks, StartCheck(c) PROVE Work'
  BY <1>1, <1>7 DEF StartCheck, TypeOK
<1>8. ASSUME NEW c \in Checks, NEW ch \in Channels, Reconfigure(c, ch) PROVE Work'
  BY <1>1, <1>8 DEF Reconfigure
<1>9. ASSUME NEW a \in Applies,
             \/ ApplyStarts(a) \/ ApplyMarks(a) \/ HandToVelopack(a)
             \/ HandToOperationServer(a) \/ Fetch(a) \/ FetchFails(a) \/ HandToHelper(a)
             \/ HelperLost(a)
      PROVE  Work'
  BY <1>6, <1>9 DEF ApplyStarts, ApplyMarks, HandToVelopack, HandToOperationServer, Fetch,
                    FetchFails, HandToHelper, HelperLost
<1>10. ASSUME NEW ch \in Channels, Publish(ch) PROVE Work'
  BY <1>6, <1>10 DEF Publish
<1>11. CASE Exit \/ UNCHANGED vars
  BY <1>6, <1>11 DEF Exit, vars
<1>12. QED
  BY <1>2, <1>3, <1>4, <1>5, <1>7, <1>8, <1>9, <1>10, <1>11 DEF Next

\* Nothing is in flight at first.
LEMMA InitialState == Init => TypeOK /\ Work
<1> SUFFICES ASSUME Init PROVE TypeOK /\ Work
  OBVIOUS
<1>1. [at |-> "none", mgr |-> channel, found |-> NoUpdate] \in CheckRec
  BY DEF Init, CheckRec, CheckStage
<1>2. [at |-> "none", upd |-> NoUpdate] \in ApplyRec
  BY DEF ApplyRec, ApplyStage
<1>3. TypeOK
  BY <1>1, <1>2, UpdateAssumption DEF Init, TypeOK, CheckRec, ApplyRec
<1>4. Work
  BY DEF Init, Work, DownloadsFound, BusyMeansWorking
<1>5. QED BY <1>3, <1>4

\* The types are right, whatever the number of checks, applies, channels and releases.
THEOREM TypeCorrect == Spec => []TypeOK
<1>1. TypeOK /\ Work /\ [Next]_vars => TypeOK' /\ Work'
  BY TypeInductive, WorkInductive DEF Work
<1>2. QED BY <1>1, InitialState, PTL DEF Spec

\* However many checks overlap: "checking" is shown only while a feed is being asked,
\* "downloading" only during a download.
THEOREM BusyAlwaysWorks == Spec => []BusyMeansWorking
<1>1. TypeOK /\ Work /\ [Next]_vars => TypeOK' /\ Work'
  BY TypeInductive, WorkInductive DEF Work
<1>2. Work => BusyMeansWorking
  BY DEF Work
<1>3. QED BY <1>1, <1>2, InitialState, PTL DEF Spec

-----------------------------------------------------------------------------
(* What an updater is given, and what a server that exits has done.         *)

\* What the checks found, what is pending and what was handed over are all releases.
Traced ==
    /\ \A c \in Checks : check[c].found # NoUpdate => Released(check[c].found)
    /\ pending # NoUpdate => Released(pending)
    /\ \A a \in Applies : handed[a] # NoUpdate => Released(handed[a])

\* Only Linux fetches, and only an update; who is to end the server has a release.
Prepared(a) ==
    /\ apply[a].at = "fetch" => install = "linux" /\ apply[a].upd \in Update
    /\ apply[a].at = "exit" =>
          /\ install = "service" => Released(handed[a])
          /\ install = "linux" => Released(apply[a].upd)

ExitInv ==
    /\ Traced
    /\ \A a \in Applies : Prepared(a)
    /\ ~alive => \E a \in Applies : apply[a].at = "exit"

\* Releases are not taken back.
LEMMA ReleasedStays ==
    ASSUME TypeOK, [Next]_vars, NEW u, Released(u)
    PROVE  Released(u)'
<1>1. CASE latest' = latest
  BY <1>1 DEF Released
<1>2. ASSUME NEW ch \in Channels, Publish(ch) PROVE Released(u)'
  <2>1. u \in Update /\ u.channel \in Channels /\ u.version \in 1..MaxVersion
    BY UpdateTypes DEF Released
  <2>2. latest \in [Channels -> 0..MaxVersion] /\ MaxVersion \in Nat
    BY UpdateAssumption DEF UpdateAssumption, TypeOK
  <2>3. latest'[u.channel] = latest[u.channel] \/ latest'[u.channel] = latest[u.channel] + 1
    BY <1>2, <2>1, <2>2 DEF Publish
  <2>4. u.version <= latest[u.channel] /\ u.version \in Int /\ latest[u.channel] \in Int
    BY <2>1, <2>2 DEF Released
  <2> HIDE DEF Update
  <2>5. u.version <= latest'[u.channel]
    BY <2>3, <2>4
  <2> QED
    BY <2>1, <2>5 DEF Released
<1> QED
  BY <1>1, <1>2 DEF Next, vars, StartCheck, Reconfigure, ReconfigureFails, FeedAnswers, UpToDate, Found,
         Downloaded, CheckFails, ApplyStarts, ApplyMarks, HandToVelopack, HandToOperationServer,
         Fetch, FetchFails, HandToHelper, HelperLost, Exit

\* A step of a check leaves every other check alone, and finds nothing but a release.
LEMMA FindsRelease ==
    ASSUME TypeOK, Traced, NEW c \in Checks,
           \/ StartCheck(c) \/ FeedAnswers(c) \/ UpToDate(c) \/ Found(c)
           \/ Downloaded(c) \/ CheckFails(c) \/ \E ch \in Channels : Reconfigure(c, ch)
    PROVE  /\ \A d \in Checks \ {c} : check'[d] = check[d]
           /\ check'[c].found # NoUpdate => Released(check'[c].found)
           /\ pending' # NoUpdate => Released(pending')
           /\ UNCHANGED <<install, latest, apply, handed, alive>>
<1>1. CASE FeedAnswers(c)
  <2> DEFINE k == check[c].mgr
             u == IF latest[k] = 0 THEN NoUpdate ELSE [channel |-> k, version |-> latest[k]]
  <2>1. check' = [check EXCEPT ![c].at = "answered", ![c].found = u]
    BY <1>1 DEF FeedAnswers
  <2>2. k \in Channels /\ latest[k] \in 0..MaxVersion /\ MaxVersion \in Nat
    BY UpdateAssumption DEF UpdateAssumption, TypeOK
  <2>3. u # NoUpdate => Released(u)
    <3>1. CASE latest[k] = 0
      BY <3>1
    <3>2. CASE latest[k] # 0
      <4>1. latest[k] \in 1..MaxVersion /\ latest[k] <= latest[k]
        BY <2>2, <3>2
      <4>2. [channel |-> k, version |-> latest[k]] \in Update
        BY <2>2, <4>1, UpdateTypes
      <4> QED
        BY <3>2, <4>1, <4>2 DEF Released
    <3> QED
      BY <3>1, <3>2
  <2> HIDE DEF u
  <2>4. check'[c].found = u /\ \A d \in Checks \ {c} : check'[d] = check[d]
    BY <2>1 DEF TypeOK
  <2> QED
    BY <1>1, <2>3, <2>4 DEF FeedAnswers, Traced
<1>2. CASE \/ StartCheck(c) \/ UpToDate(c) \/ Found(c) \/ Downloaded(c) \/ CheckFails(c)
           \/ \E ch \in Channels : Reconfigure(c, ch)
  <2>1. /\ check'[c].found \in {NoUpdate, check[c].found}
        /\ \A d \in Checks \ {c} : check'[d] = check[d]
    BY <1>2 DEF StartCheck, UpToDate, Found, Downloaded, CheckFails, Reconfigure, Ask, Done, TypeOK
  <2>2. pending' \in {NoUpdate, pending, check[c].found}
    BY <1>2 DEF StartCheck, UpToDate, Found, Downloaded, CheckFails, Reconfigure
  <2>3. UNCHANGED <<install, latest, apply, handed, alive>>
    BY <1>2 DEF StartCheck, UpToDate, Found, Downloaded, CheckFails, Reconfigure
  <2> QED
    BY <2>1, <2>2, <2>3 DEF Traced
<1> QED
  BY <1>1, <1>2

\* A step of an apply hands over nothing but a release, and goes to its exit only with one.
LEMMA HandsRelease ==
    ASSUME TypeOK, ExitInv, NEW a \in Applies,
           \/ ApplyStarts(a) \/ ApplyMarks(a) \/ HandToVelopack(a) \/ HandToOperationServer(a)
           \/ Fetch(a) \/ FetchFails(a) \/ HandToHelper(a) \/ HelperLost(a)
    PROVE  /\ \A b \in Applies \ {a} : apply'[b] = apply[b] /\ handed'[b] = handed[b]
           /\ handed'[a] # NoUpdate => Released(handed'[a])
           /\ Prepared(a)'
           /\ apply[a].at # "exit"
           /\ UNCHANGED <<install, latest, check, pending, alive>>
<1> DEFINE Rest == UNCHANGED <<install, latest, check, pending, alive>>
           Others == \A b \in Applies \ {a} : apply'[b] = apply[b] /\ handed'[b] = handed[b]
<1>1. ASSUME NEW s \in {"hygiene", "marked", "failed"}, apply' = [apply EXCEPT ![a].at = s], UNCHANGED handed
      PROVE  Others /\ handed'[a] = handed[a] /\ Prepared(a)'
  <2>1. apply'[a].at = s
    BY <1>1 DEF TypeOK
  <2> QED
    BY <1>1, <2>1 DEF Prepared, TypeOK
<1>2. ASSUME NEW u \in Update \cup {NoUpdate}, Hands(a, u)
      PROVE  Others /\ handed'[a] = u /\ apply'[a].at = "exit" /\ apply'[a].upd = apply[a].upd
  BY <1>2 DEF Hands, TypeOK
<1>3. CASE ApplyStarts(a) \/ ApplyMarks(a) \/ FetchFails(a)
  <2>1. PICK s \in {"hygiene", "marked", "failed"} : apply' = [apply EXCEPT ![a].at = s]
    BY <1>3 DEF ApplyStarts, ApplyMarks, FetchFails, Fails
  <2>2. Rest /\ UNCHANGED handed /\ apply[a].at # "exit"
    BY <1>3 DEF ApplyStarts, ApplyMarks, FetchFails, Fails
  <2> QED
    BY <1>1, <2>1, <2>2 DEF ExitInv, Traced
<1>4. CASE HandToVelopack(a)
  <2>1. Rest /\ install = "service" /\ apply[a].at # "exit"
    BY <1>4 DEF HandToVelopack
  <2>2. CASE Fails(a)
    BY <1>1, <2>1, <2>2 DEF Fails, ExitInv, Traced
  <2>3. CASE pending # NoUpdate /\ Hands(a, pending)
    <3>1. Released(pending) /\ pending \in Update
      BY <2>3 DEF ExitInv, Traced, Released
    <3>2. Others /\ handed'[a] = pending /\ apply'[a].at = "exit"
      BY <1>2, <2>3, <3>1
    <3>3. Released(handed[a])'
      BY <2>1, <3>1, <3>2 DEF Released
    <3> QED
      BY <2>1, <3>1, <3>2, <3>3 DEF Prepared
  <2> QED
    BY <1>4, <2>2, <2>3 DEF HandToVelopack
<1>5. CASE HandToOperationServer(a)
  <2>1. Rest /\ install = "local" /\ apply[a].at # "exit"
    BY <1>5 DEF HandToOperationServer
  <2>2. PICK u \in {pending, NoUpdate} : Hands(a, u)
    BY <1>5 DEF HandToOperationServer
  <2>3. u \in Update \cup {NoUpdate} /\ (u # NoUpdate => Released(u))
    BY <2>2 DEF TypeOK, ExitInv, Traced
  <2>4. Others /\ handed'[a] = u /\ apply'[a].at = "exit"
    BY <1>2, <2>2, <2>3
  <2> QED
    BY <2>1, <2>3, <2>4 DEF Prepared
<1>6. CASE Fetch(a)
  <2>1. Rest /\ UNCHANGED handed /\ install = "linux" /\ apply[a].at # "exit"
    BY <1>6 DEF Fetch, Fails
  <2>2. CASE pending = NoUpdate
    BY <1>1, <1>6, <2>1, <2>2 DEF Fetch, Fails, ExitInv, Traced
  <2>3. CASE pending # NoUpdate
    <3> DEFINE u == [channel |-> channel, version |-> pending.version]
    <3>1. u \in Update
      BY <2>3, UpdateTypes DEF TypeOK
    <3>2. apply' = [apply EXCEPT ![a] = [at |-> "fetch", upd |-> u]]
      BY <1>6, <2>3 DEF Fetch
    <3> HIDE DEF u
    <3>3. apply'[a].at = "fetch" /\ apply'[a].upd = u /\ Others
      BY <2>1, <3>2 DEF TypeOK
    <3> QED
      BY <2>1, <3>1, <3>3 DEF Prepared, ExitInv, Traced
  <2> QED
    BY <2>2, <2>3
<1>7. CASE HandToHelper(a) \/ HelperLost(a)
  <2>1. Rest /\ apply[a].at = "fetch" /\ install = "linux" /\ Released(apply[a].upd)
    BY <1>7 DEF HandToHelper, HelperLost, Verified, ExitInv, Prepared, Released
  <2>2. PICK u \in {apply[a].upd, NoUpdate} : Hands(a, u)
    BY <1>7 DEF HandToHelper, HelperLost
  <2>3. u \in Update \cup {NoUpdate} /\ (u # NoUpdate => Released(u))
    BY <2>1, <2>2 DEF Released
  <2>4. Others /\ handed'[a] = u /\ apply'[a].at = "exit" /\ apply'[a].upd = apply[a].upd
    BY <1>2, <2>2, <2>3
  <2>5. Released(apply[a].upd)'
    BY <2>1, <2>4 DEF Released
  <2> QED
    BY <2>1, <2>3, <2>4, <2>5 DEF Prepared
<1> QED
  BY <1>3, <1>4, <1>5, <1>6, <1>7

\* What is the same before and after a step stays as good as it was.
LEMMA PreparedStays ==
    ASSUME TypeOK, [Next]_vars, NEW a \in Applies, Prepared(a), install' = install,
           apply'[a] = apply[a], handed'[a] = handed[a]
    PROVE  Prepared(a)'
<1>1. /\ Released(handed[a]) => Released(handed[a])'
      /\ Released(apply[a].upd) => Released(apply[a].upd)'
  <2>1. ASSUME Released(handed[a]) PROVE Released(handed[a])'
    BY <2>1, ReleasedStays DEF Released
  <2>2. ASSUME Released(apply[a].upd) PROVE Released(apply[a].upd)'
    BY <2>2, ReleasedStays DEF Released
  <2> QED
    BY <2>1, <2>2
<1> QED
  BY <1>1 DEF Prepared

\* Every step keeps ExitInv.
LEMMA ExitInductive == TypeOK /\ ExitInv /\ [Next]_vars => ExitInv'
<1> SUFFICES ASSUME TypeOK, ExitInv, [Next]_vars PROVE ExitInv'
  OBVIOUS
<1>1. \A u : Released(u) => u \in Update /\ u.version <= latest'[u.channel]
  BY ReleasedStays DEF Released
<1>2. ASSUME NEW c \in Checks,
             \/ StartCheck(c) \/ FeedAnswers(c) \/ UpToDate(c) \/ Found(c)
             \/ Downloaded(c) \/ CheckFails(c) \/ \E ch \in Channels : Reconfigure(c, ch)
      PROVE  ExitInv'
  <2>1. UNCHANGED <<install, latest, apply, handed, alive>>
    BY <1>2, FindsRelease DEF ExitInv
  <2>2. Traced'
    BY <1>2, <2>1, FindsRelease DEF ExitInv, Traced, Released
  <2>3. \A a \in Applies : Prepared(a)'
    BY <2>1, PreparedStays DEF ExitInv
  <2> QED
    BY <2>1, <2>2, <2>3 DEF ExitInv
<1>3. ASSUME NEW a \in Applies,
             \/ ApplyStarts(a) \/ ApplyMarks(a) \/ HandToVelopack(a) \/ HandToOperationServer(a)
             \/ Fetch(a) \/ FetchFails(a) \/ HandToHelper(a) \/ HelperLost(a)
      PROVE  ExitInv'
  <2>1. /\ \A b \in Applies \ {a} : apply'[b] = apply[b] /\ handed'[b] = handed[b]
        /\ handed'[a] # NoUpdate => Released(handed'[a])
        /\ Prepared(a)'
        /\ apply[a].at # "exit"
        /\ UNCHANGED <<install, latest, check, pending, alive>>
    BY <1>3, HandsRelease
  <2>2. Traced'
    BY <2>1 DEF ExitInv, Traced, Released
  <2>3. \A b \in Applies : Prepared(b)'
    BY <2>1, PreparedStays DEF ExitInv
  <2>4. (~alive => \E b \in Applies : apply[b].at = "exit")'
    BY <2>1 DEF ExitInv
  <2> QED
    BY <2>2, <2>3, <2>4 DEF ExitInv
<1>4. ASSUME UNCHANGED <<install, check, handed, apply>>, pending' = pending,
             alive' = alive \/ \E a \in Applies : apply[a].at = "exit"
      PROVE  ExitInv'
  <2>1. Traced'
    BY <1>1, <1>4 DEF ExitInv, Traced, Released
  <2>2. \A a \in Applies : Prepared(a)'
    BY <1>4, PreparedStays DEF ExitInv
  <2> QED
    BY <1>4, <2>1, <2>2 DEF ExitInv
<1>5. CASE Exit \/ UNCHANGED vars \/ \E ch \in Channels : ReconfigureFails(ch) \/ Publish(ch)
  BY <1>4, <1>5 DEF Exit, vars, ReconfigureFails, Publish
<1> QED
  BY <1>2, <1>3, <1>5 DEF Next

\* Whatever checks and other applies run meanwhile: an updater is given nothing but a
\* release, and a server on Linux or in a Windows service exits only with one.
THEOREM ExitKnowsRelease == Spec => []ExitHasRelease
<1>1. Init => TypeOK /\ Work /\ ExitInv
  BY InitialState DEF Init, ExitInv, Traced, Prepared
<1>2. TypeOK /\ Work /\ ExitInv /\ [Next]_vars => (TypeOK /\ Work /\ ExitInv)'
  BY TypeInductive, WorkInductive, ExitInductive DEF Work
<1>3. ExitInv => ExitHasRelease
  BY DEF ExitInv, Traced, Prepared, ExitHasRelease
<1>4. QED BY <1>1, <1>2, <1>3, PTL DEF Spec
=============================================================================
