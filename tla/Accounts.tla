------------------------------ MODULE Accounts ------------------------------
(***************************************************************************)
(* User accounts, sessions and the requests that act under them: the       *)
(* bootstrap of the root account by every server that starts, login and    *)
(* logout, the change of a password, the management of users, and the      *)
(* recovery command aagasa-rootpw.                                         *)
(*                                                                         *)
(* A request is authenticated once, by a read of the session and of the    *)
(* user, and acts later on that copy of the user; every statement it sends *)
(* to the database is a step of its own.                                   *)
(*                                                                         *)
(* Passwords are abstracted to whether the user still must change the one  *)
(* somebody else set; VerifyPassword to its two outcomes, of which the     *)
(* wrong one changes nothing.                                              *)
(***************************************************************************)
EXTENDS Integers

CONSTANTS
    Ids,                \* uuids of users
    Names,              \* user names
    BootstrapUsername,  \* "root"
    Tokens,             \* session tokens
    Handlers,           \* concurrent requests
    Servers,            \* server processes sharing the database
    None                \* no row, no session, no user

ASSUME NamesAssumption == BootstrapUsername \in Names

VARIABLES
    users,      \* users[id]: the row of a user, or None
    session,    \* session[t]: the user a live token stands for, or None
    owners,     \* the users some row of passes names as requested_by
    request,    \* request[h]: what a handler holds between its statements
    boot        \* boot[s]: how far a server process has started

accounts == <<users, session, owners>>
vars == <<accounts, request, boot>>

-----------------------------------------------------------------------------
(* Roles and what they may do.                                             *)

Roles == {"root", "admin", "user"}

Authority(role) ==
    CASE role = "root" -> 3 [] role = "admin" -> 2 [] role = "user" -> 1

AtLeast(role, required) == Authority(role) >= Authority(required)

\* A rule without the case of admins: who manages users may make any.
CreateAnyRole(actor, role) == role # "root" /\ AtLeast(actor, "admin")

CanCreateUserWithRole(actor, role) ==
    /\ role # "root"
    /\ IF role = "admin" THEN actor = "root" ELSE AtLeast(actor, "admin")

\* A rule that leaves the root to the database's trigger.
ChangeAnyRole(actor, target, role) == actor = "root" /\ role # "root"

CanChangeRole(actor, target, role) ==
    /\ actor = "root"
    /\ role # "root"
    /\ target # "root"

\* target.ID == actor.ID is the case of a root target: only the root gets here.
CanDeleteUser(actor, target) == actor = "root" /\ target # "root"

-----------------------------------------------------------------------------
(* The tables.                                                             *)

Row == [name : Names, role : Roles, mustChange : BOOLEAN]

ASSUME NoneAssumption == None \notin Ids /\ None \notin Row

Exists(id) == users[id] # None

IsRoot(id) == Exists(id) /\ users[id].role = "root"
IsAdmin(id) == Exists(id) /\ users[id].role = "admin"

\* A table without its unique indexes.
InsertableAlways(row) == TRUE

\* users.username is UNIQUE, and users_single_root admits one root.
Insertable(row) ==
    \A id \in Ids : Exists(id) =>
        users[id].name # row.name /\ ~(row.role = "root" /\ users[id].role = "root")

\* A new uuid: nothing knows it.  One that nothing knows any more stands for it.
FreshId(id) ==
    /\ ~Exists(id)
    /\ \A t \in Tokens : session[t] # id
    /\ \A h \in Handlers : request[h].actor # id /\ request[h].target # id

\* CreateUser; an index may refuse.
CreateUser(row) ==
    \/ ~Insertable(row) /\ UNCHANGED users
    \/ /\ Insertable(row)
       /\ \E id \in Ids : FreshId(id) /\ users' = [users EXCEPT ![id] = row]

\* SetPassword; RowsAffected is 0 when the user is gone.
SetPassword(id) ==
    users' = IF Exists(id) THEN [users EXCEPT ![id].mustChange = FALSE] ELSE users

\* SetUserRole, with the trigger protect_root_user.
SetUserRole(id, role) ==
    users' = IF Exists(id) /\ ~IsRoot(id) THEN [users EXCEPT ![id].role = role] ELSE users

\* A foreign key that lets the user go.
ReferencedNever(id) == FALSE

\* passes.requested_by REFERENCES users ON DELETE RESTRICT.
Referenced(id) == id \in owners

\* DeleteUser, with the trigger protect_root_user.
DeleteUser(id) ==
    users' = IF Exists(id) /\ ~IsRoot(id) /\ ~Referenced(id)
             THEN [users EXCEPT ![id] = None] ELSE users

-----------------------------------------------------------------------------
(* Requests.                                                               *)

Ops == {"create", "update", "delete", "request", "password", "logout"}

\* The role a route asks for; the routes open to a user who must still change
\* the password ask for none.
Required ==
    [op \in Ops |-> CASE op \in {"update", "delete"} -> "root"
                      [] op = "create" -> "admin"
                      [] OTHER -> "user"]

\* A route registered without the middleware.
NothingGated(op) == FALSE

\* requirePasswordChanged.
PasswordGated(op) == op \notin {"password", "logout"}

Idle == [op |-> "idle", at |-> "idle", token |-> None, actor |-> None,
         role |-> "user", target |-> None, newRole |-> "user"]

Request ==
    [op : Ops \union {"idle", "login"},
     at : {"idle", "authenticated", "verified", "write", "revoke"},
     token : Tokens \union {None}, actor : Ids \union {None}, role : Roles,
     target : Ids \union {None}, newRole : Roles]

Serving == \E s \in Servers : boot[s] = "up"

Put(h, r) == request' = [request EXCEPT ![h] = r]

\* Login finds the user and verifies the password.
LoginVerify(h, id) ==
    /\ Serving
    /\ request[h] = Idle
    /\ Exists(id)
    /\ Put(h, [Idle EXCEPT !.op = "login", !.at = "verified", !.actor = id])
    /\ UNCHANGED <<accounts, boot>>

\* NewToken, likewise.
FreshToken(t) == session[t] = None /\ \A h \in Handlers : request[h].token # t

\* Login stores the session, whatever has become of the user.
LoginCreate(h, t) ==
    /\ request[h].op = "login"
    /\ FreshToken(t)
    /\ session' = [session EXCEPT ![t] = request[h].actor]
    /\ Put(h, Idle)
    /\ UNCHANGED <<users, owners, boot>>

Admits(op, row) ==
    /\ PasswordGated(op) => ~row.mustChange
    /\ AtLeast(row.role, Required[op])

\* Resolve reads the session, which never changes while it lives, and then the
\* user; it deletes a session whose user is gone.
Resolve(t) ==
    /\ session[t] \in Ids
    /\ session' = IF Exists(session[t]) THEN session ELSE [session EXCEPT ![t] = None]

\* requireAuth and the gates behind it.
Authenticate(h, op, t) ==
    /\ Serving
    /\ request[h] = Idle
    /\ Resolve(t)
    /\ LET id == session[t] IN
       IF Exists(id)
       THEN /\ Admits(op, users[id])
            /\ Put(h, [Idle EXCEPT !.op = op, !.at = "authenticated", !.token = t,
                                   !.actor = id, !.role = users[id].role])
       ELSE UNCHANGED request
    /\ UNCHANGED <<users, owners, boot>>

At(h, op, at) == request[h].op = op /\ request[h].at = at

\* handleCreateUser, whose user starts with a password another person knows.
HandleCreate(h, name, role) ==
    /\ At(h, "create", "authenticated")
    /\ CanCreateUserWithRole(request[h].role, role)
    /\ CreateUser([name |-> name, role |-> role, mustChange |-> TRUE])
    /\ Put(h, Idle)
    /\ UNCHANGED <<session, owners, boot>>

\* handleUpdateUser and handleDeleteUser load the target and check the rule.
LoadTarget(h, id, role) ==
    /\ Exists(id)
    /\ \/ /\ At(h, "update", "authenticated")
          /\ CanChangeRole(request[h].role, users[id].role, role)
       \/ /\ At(h, "delete", "authenticated")
          /\ CanDeleteUser(request[h].role, users[id].role)
          /\ role = "user"
    /\ Put(h, [request[h] EXCEPT !.at = "write", !.target = id, !.newRole = role])
    /\ UNCHANGED <<accounts, boot>>

WriteTarget(h) ==
    /\ request[h].at = "write"
    /\ \/ request[h].op = "update" /\ SetUserRole(request[h].target, request[h].newRole)
       \/ request[h].op = "delete" /\ DeleteUser(request[h].target)
    /\ Put(h, Idle)
    /\ UNCHANGED <<session, owners, boot>>

\* CreatePass: the foreign key refuses a requester who is gone.
HandleRequestPass(h) ==
    /\ At(h, "request", "authenticated")
    /\ owners' = owners \union {id \in {request[h].actor} : Exists(id)}
    /\ Put(h, Idle)
    /\ UNCHANGED <<users, session, boot>>

\* ChangePassword reads the user again and verifies the current password.
VerifyCurrent(h) ==
    /\ At(h, "password", "authenticated")
    /\ Exists(request[h].actor)
    /\ Put(h, [request[h] EXCEPT !.at = "verified"])
    /\ UNCHANGED <<accounts, boot>>

StorePassword(h) ==
    /\ At(h, "password", "verified")
    /\ SetPassword(request[h].actor)
    /\ Put(h, IF Exists(request[h].actor) THEN [request[h] EXCEPT !.at = "revoke"] ELSE Idle)
    /\ UNCHANGED <<session, owners, boot>>

\* The session of the token the request came with is deleted.
Revoke(h) ==
    /\ session' = [session EXCEPT ![request[h].token] = None]
    /\ Put(h, Idle)
    /\ UNCHANGED <<users, owners, boot>>

Logout(h) == At(h, "logout", "authenticated") /\ Revoke(h)

HandleChangePassword(h) ==
    \/ VerifyCurrent(h)
    \/ StorePassword(h)
    \/ At(h, "password", "revoke") /\ Revoke(h)

\* A check refuses, a statement fails or the process dies: the rest is not done.
Abandon(h) ==
    /\ request[h] # Idle
    /\ Put(h, Idle)
    /\ UNCHANGED <<accounts, boot>>

\* The TTL of a session.
Expire(t) ==
    /\ session[t] \in Ids
    /\ session' = [session EXCEPT ![t] = None]
    /\ UNCHANGED <<users, owners, request, boot>>

-----------------------------------------------------------------------------
(* The start of a server, and the recovery command.                        *)

NobodyYet == \A id \in Ids : ~Exists(id)

\* EnsureBootstrapRoot counts the users, and is done when there are some.
CountUsers(s) ==
    /\ boot[s] = "down"
    /\ boot' = [boot EXCEPT ![s] = IF NobodyYet THEN "counted" ELSE "up"]
    /\ UNCHANGED <<accounts, request>>

\* A row inserted without its role.
RootRowWithoutRole == [name |-> BootstrapUsername, role |-> "", mustChange |-> TRUE]

RootRow == [name |-> BootstrapUsername, role |-> "root", mustChange |-> TRUE]

\* A server whose insert is refused does not start; it is restarted.
CreateRoot(s) ==
    /\ boot[s] = "counted"
    /\ CreateUser(RootRow)
    /\ boot' = [boot EXCEPT ![s] = IF Insertable(RootRow) THEN "up" ELSE "down"]
    /\ UNCHANGED <<session, owners, request>>

\* aagasa-rootpw finds the account by name, checks that it is the root and sets
\* its password.  Its two statements are one step: the root never goes away.
ResetRoot ==
    /\ \E id \in Ids : IsRoot(id) /\ users[id].name = BootstrapUsername /\ SetPassword(id)
    /\ UNCHANGED <<session, owners, request, boot>>

-----------------------------------------------------------------------------
Init ==
    /\ users = [id \in Ids |-> None]
    /\ session = [t \in Tokens |-> None]
    /\ owners = {}
    /\ request = [h \in Handlers |-> Idle]
    /\ boot = [s \in Servers |-> "down"]

Handle(h) ==
    \/ \E id \in Ids : LoginVerify(h, id)
    \/ \E t \in Tokens : LoginCreate(h, t)
    \/ \E op \in Ops, t \in Tokens : Authenticate(h, op, t)
    \/ \E name \in Names, role \in Roles : HandleCreate(h, name, role)
    \/ \E id \in Ids, role \in Roles : LoadTarget(h, id, role)
    \/ WriteTarget(h)
    \/ HandleRequestPass(h)
    \/ HandleChangePassword(h)
    \/ Logout(h)
    \/ Abandon(h)

Start(s) == CountUsers(s) \/ CreateRoot(s)

Next ==
    \/ \E h \in Handlers : Handle(h)
    \/ \E t \in Tokens : Expire(t)
    \/ \E s \in Servers : Start(s)
    \/ ResetRoot

Spec == Init /\ [][Next]_vars

-----------------------------------------------------------------------------
(* Properties.                                                             *)

\* Every user row, session and request holds what its type says.
TypeOK ==
    /\ users \in [Ids -> Row \union {None}]
    /\ session \in [Tokens -> Ids \union {None}]
    /\ owners \in SUBSET Ids
    /\ request \in [Handlers -> Request]
    /\ boot \in [Servers -> {"down", "counted", "up"}]

\* As soon as there are users one of them is the root, and never two, however
\* many servers count the users before any of them has inserted the root
\* (EnsureBootstrapRoot, users_single_root, protect_root_user).
OneRoot ==
    /\ \A i, j \in Ids : IsRoot(i) /\ IsRoot(j) => i = j
    /\ (\E i \in Ids : Exists(i)) => \E i \in Ids : IsRoot(i)

\* Nobody becomes an admin but by the request of a user who is the root when the
\* row is written, not only when the request was authenticated (handleCreateUser
\* and handleUpdateUser act on a copy of the actor).
AdminsAreMadeByTheRoot ==
    [][\A id \in Ids : IsAdmin(id)' /\ ~IsAdmin(id) =>
          \E h \in Handlers : /\ request[h] # Idle
                              /\ request'[h] = Idle
                              /\ IsRoot(request[h].actor)]_vars

\* No request is about to change or delete the root: what the handlers read of
\* their target is still true of it when they write, so the trigger that protects
\* the root never has to refuse (handleUpdateUser, handleDeleteUser).
TriggerIsNeverNeeded ==
    \A h \in Handlers : request[h].at = "write" => ~IsRoot(request[h].target)

\* No request acts for a user whose password is still the one somebody else set,
\* also not one that was admitted before (requirePasswordChanged).
ActsWithOwnPassword ==
    \A h \in Handlers :
        /\ request[h].op \in {"create", "update", "delete", "request"}
        /\ Exists(request[h].actor)
        => ~users[request[h].actor].mustChange

\* The requester of a pass stays, whatever request is deleting users while the
\* pass is being requested (passes.requested_by, DeleteUser).
RequestersStay == \A id \in owners : Exists(id)
=============================================================================
