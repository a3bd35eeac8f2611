------------------------------- MODULE Accounts -------------------------------
(***************************************************************************)
(* Users, sessions and the switch of authentication: AuthGate, UsersApi,   *)
(* AuthApi and the users page.  A handler that awaits its body is judged   *)
(* in two steps: the gate, requireAdmin and the target of a PATCH are read *)
(* before the body, everything else after it.  The rest of each handler    *)
(* runs in one task, on a synchronous database.                            *)
(***************************************************************************)
EXTENDS Naturals, FiniteSets

CONSTANTS MaxUsers,  \* bound: the largest row id
          Reqs,      \* requests whose body may be on the way together
          Tokens     \* session cookies

ASSUME AccountsAssumption == MaxUsers \in Nat \ {0} /\ 0 \notin Tokens

Id       == 1..MaxUsers
Implicit == 1          \* IMPLICIT_ADMIN_ID

VARIABLES
    rows,      \* ids in the table users
    admins,    \* those with role 'admin'
    disabled,  \* those that are disabled
    secured,   \* those with a password
    auth,      \* app_settings.authEnabled
    session,   \* session[t]: the user of a session, 0 when there is none
    req        \* req[r]: a POST or PATCH that waits for its body, and what it has read

table == <<rows, admins, disabled, secured>>
accountVars  == <<table, auth, session, req>>

\* lock: the body has the fields of the implicit admin; id, admin, off: the target of a
\* PATCH as it was when the request came.
Request == [at : {"none", "create", "patch"}, lock : BOOLEAN, id : Id \cup {0},
            admin : BOOLEAN, off : BOOLEAN]
Asks(at, lock, id, admin, off) ==
    [at |-> at, lock |-> lock, id |-> id, admin |-> admin, off |-> off]
NoRequest == Asks("none", FALSE, 0, FALSE, FALSE)

AccountsTypeOK ==
    /\ rows \subseteq Id
    /\ admins \subseteq rows /\ disabled \subseteq rows /\ secured \subseteq rows
    /\ auth \in BOOLEAN
    /\ session \in [Tokens -> Id \cup {0}]
    /\ req \in [Reqs -> Request]

\* After the first migration: the implicit admin, without a password, in open mode.
AccountsInit ==
    /\ rows = {Implicit} /\ admins = {Implicit} /\ disabled = {} /\ secured = {}
    /\ auth = FALSE
    /\ session = [t \in Tokens |-> 0]
    /\ req = [r \in Reqs |-> NoRequest]

EnabledAdmins == admins \ disabled
SecuredAdmins == EnabledAdmins \cap secured

-------------------------------------------------------------------------------
(* Who may ask: the gate, then requireAdmin.                                *)

\* The users a request may act for: of a valid session, unless the mode is open.
Actors == IF auth THEN {session[t] : t \in Tokens} \cap (rows \ disabled) ELSE {Implicit}
AdminActs == Actors \cap admins # {}

\* SQLite gives a new row the largest id plus one.
NextRow(i) == /\ i \notin rows /\ \A j \in rows : j < i
              /\ \A k \in Id : (\A j \in rows : j < k) => i <= k

Ends(r) == req' = [req EXCEPT ![r] = NoRequest]

\* Mutant of DropSessions: the sessions of a user who is disabled stay.
DropSessions_Not(i) == UNCHANGED session
DropSessions(i) == session' = [t \in Tokens |-> IF session[t] = i THEN 0 ELSE session[t]]

-------------------------------------------------------------------------------
(* The users page.                                                          *)

\* The form of openAddUser: with the fields of the admin account when the mode was open as
\* the page was drawn, which may be long ago.
SubmitUser(r, lock) ==
    /\ req[r].at = "none" /\ AdminActs
    /\ req' = [req EXCEPT ![r] = Asks("create", lock, 0, FALSE, FALSE)]
    /\ UNCHANGED <<table, auth, session>>

\* A role, a password, the check box: PATCH of a row, which is read now.
SubmitPatch(r, i) ==
    /\ req[r].at = "none" /\ AdminActs /\ i \in rows
    /\ req' = [req EXCEPT ![r] = Asks("patch", FALSE, i, i \in admins, i \in disabled)]
    /\ UNCHANGED <<table, auth, session>>

-------------------------------------------------------------------------------
(* UsersApi after the body.                                                 *)

NewRow(i, admin) ==
    /\ rows' = rows \cup {i} /\ UNCHANGED disabled
    /\ admins' = IF admin THEN admins \cup {i} ELSE admins

\* Mutant of Lockdown: the implicit admin gets a name but no password.
Lockdown_NoPassword(i, admin) ==
    /\ Implicit \in rows /\ Implicit \notin secured
    /\ NewRow(i, admin)
    /\ secured' = secured \cup {i}
    /\ auth' = TRUE

\* The transaction of lockdown(): secures the implicit admin, adds the user, locks.
Lockdown(i, admin) ==
    /\ Implicit \in rows /\ Implicit \notin secured
    /\ NewRow(i, admin)
    /\ secured' = secured \cup {Implicit, i}
    /\ auth' = TRUE

\* POST /api/users: the first user comes with lockdown, later ones just so.
CreateUser(r, i, admin) ==
    /\ req[r].at = "create" /\ NextRow(i)
    /\ IF SecuredAdmins = {}
         THEN req[r].lock /\ Lockdown(i, admin)
         ELSE /\ NewRow(i, admin)
              /\ secured' = secured \cup {i}
              /\ UNCHANGED auth
    /\ Ends(r)
    /\ UNCHANGED session

\* 400 and 409: a field is missing, a name is taken, the transaction is rolled back,
\* the body never came.
Rejected(r) ==
    /\ req[r].at # "none"
    /\ Ends(r)
    /\ UNCHANGED <<table, auth, session>>

\* Mutant of LastEnabled: the admins are not counted.
LastEnabled_Never(r) == FALSE
\* isLastEnabledAdmin: the target as it was read, the count as it is now.
LastEnabled(r) == req[r].admin /\ ~req[r].off /\ Cardinality(EnabledAdmins) <= 1

\* An UPDATE of row i: nothing when the row is gone.
Put(i, S, choice) ==
    IF choice = "keep" \/ i \notin rows THEN S ELSE IF choice = "on" THEN S \cup {i} ELSE S \ {i}

\* PATCH /api/users/:id, with any subset of its fields.
PatchUser(r, role, off, password) ==
    LET i == req[r].id IN
    /\ req[r].at = "patch"
    /\ ~(LastEnabled(r) /\ (off = "on" \/ role = "off"))
    /\ admins' = Put(i, admins, role)
    /\ secured' = Put(i, secured, password)
    /\ disabled' = Put(i, disabled, off)
    /\ IF off = "on" THEN DropSessions(i) ELSE UNCHANGED session
    /\ Ends(r)
    /\ UNCHANGED <<rows, auth>>

\* DELETE /api/users/:id has no body: one task.  The sessions go with the row.
DeleteUser(i) ==
    /\ AdminActs /\ i \in rows
    /\ i \in EnabledAdmins => Cardinality(EnabledAdmins) > 1
    /\ rows' = rows \ {i} /\ admins' = admins \ {i}
    /\ disabled' = disabled \ {i} /\ secured' = secured \ {i}
    /\ session' = [t \in Tokens |-> IF session[t] = i THEN 0 ELSE session[t]]
    /\ UNCHANGED <<auth, req>>

-------------------------------------------------------------------------------
(* AuthApi.                                                                 *)

\* A right password; all is read after the body.  Wrong ones and the lock they
\* lead to are left out: they only keep a log-in from happening.
Login(t, i) ==
    /\ session[t] = 0 /\ i \in (rows \cap secured) \ disabled
    /\ session' = [session EXCEPT ![t] = i]
    /\ UNCHANGED <<table, auth, req>>

\* Log-out, or 30 days without a request.
SessionEnds(t) ==
    /\ session[t] # 0
    /\ session' = [session EXCEPT ![t] = 0]
    /\ UNCHANGED <<table, auth, req>>

EnableAuth ==
    /\ AdminActs /\ SecuredAdmins # {}
    /\ auth' = TRUE
    /\ UNCHANGED <<table, session, req>>

DisableAuth ==
    /\ AdminActs
    /\ auth' = FALSE
    /\ UNCHANGED <<table, session, req>>

-------------------------------------------------------------------------------
AccountsNext ==
    \/ EnableAuth \/ DisableAuth
    \/ \E r \in Reqs :
          \/ Rejected(r) \/ \E lock \in BOOLEAN : SubmitUser(r, lock)
          \/ \E i \in Id : SubmitPatch(r, i) \/ \E admin \in BOOLEAN : CreateUser(r, i, admin)
          \/ \E role, off \in {"keep", "on", "off"}, password \in {"keep", "on"} :
                PatchUser(r, role, off, password)
    \/ \E i \in Id : DeleteUser(i) \/ \E t \in Tokens : Login(t, i)
    \/ \E t \in Tokens : SessionEnds(t)

AccountsSpec == AccountsInit /\ [][AccountsNext]_accountVars

-------------------------------------------------------------------------------
(* Properties.                                                              *)

\* A session belongs to a user who exists and is enabled, whatever requests cross: nobody
\* goes on with the session of an account that was disabled or deleted, even if its row id
\* is given out again.
SessionsOfEnabled == \A t \in Tokens : session[t] # 0 => session[t] \in rows \ disabled

\* From the second account on, and whenever authentication is on, every account has a
\* password: no legal sequence of calls locks the door with an admin who cannot open it.
EveryoneSecured == rows \subseteq secured \/ (rows = {Implicit} /\ ~auth)

\* The last enabled admin is lost only to a PATCH that judges its target by what it was
\* before the body came.
Stale(r) == \/ req[r].admin # (req[r].id \in admins)
            \/ req[r].off # (req[r].id \in disabled)
LastAdminStays ==
    [][EnabledAdmins # {} /\ EnabledAdmins' = {}
         => \E r \in Reqs : req[r].at = "patch" /\ req'[r].at = "none" /\ Stale(r)]_accountVars
===============================================================================
